----------------------------- MODULE MCOnvifDevices -----------------------------
(* Instances of OnvifDevices for TLC. *)
EXTENDS OnvifDevices

\* One device is found twice in every scan.
MCReach == [eth |-> Devices, wlan |-> UrlAuth]
================================================================================
