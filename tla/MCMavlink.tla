------------------------------- MODULE MCMavlink -------------------------------
(* Instances of Mavlink for TLC. *)
EXTENDS Mavlink

MCCameras == 1..3
MCUnfit == {3}
MCIds == {106}

\* brightness, and the first private control of an old driver
MCControls == {9963776, 134217728}

\* requests to a camera, one of them for a control whose id is too long, and to
\* all of them
MCRequests ==
    {[kind |-> "information", to |-> 106, control |-> 0],
     [kind |-> "set", to |-> 106, control |-> 134217728],
     [kind |-> "reset", to |-> 0, control |-> 0]}

\* What is followed together: requests while nothing leaves, the link holds and
\* no heartbeat is under way; a broken link with heartbeats one at a time.
OneAtATime ==
    /\ received # <<>> =>
         /\ breaks = 0 /\ pc["sender"] = "idle"
         /\ \A c \in Cameras : heart[c] # "sending" /\ staleBeats[c] = 0
    /\ breaks > 0 => \A c \in Cameras : due[c] <= 1 /\ staleBeats[c] = 0
================================================================================
