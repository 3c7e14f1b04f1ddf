----------------------------- MODULE MCLifecycle -----------------------------
(* TLC instance of Lifecycle: two RTSP clients, one awaiting holder, a      *)
(* channel of two commands and counters that saturate at 3.                 *)
EXTENDS Lifecycle
=============================================================================
