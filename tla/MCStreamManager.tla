-------------------------- MODULE MCStreamManager ---------------------------
(* TLC instance of StreamManager: a local camera under two configurations    *)
(* with one id, and an RTSP redirect that shares an endpoint with the first. *)
EXTENDS StreamManager, TLC
CONSTANTS camera, yard, front, back, host, none, udp, rtsp

Config(name, shareable, h, path, endpoint) ==
  [name |-> name, shareable |-> shareable, host |-> h, path |-> path,
   endpoints |-> {endpoint}]

FrontCamera == Config(front, FALSE, none, camera, udp)
BackCamera  == Config(back, FALSE, none, camera, rtsp)
Yard        == Config(yard, TRUE, host, yard, udp)

MCConfigs  == {FrontCamera, BackCamera, Yard}
MCDefaults == {BackCamera}

\* Requests are alike; the main task is none of them.
RequestSymmetry == Permutations(Requests)
=============================================================================
