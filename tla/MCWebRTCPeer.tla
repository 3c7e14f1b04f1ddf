------------------------------ MODULE MCWebRTCPeer ------------------------------
(* Instances of WebRTCPeer for TLC. *)
EXTENDS WebRTCPeer

\* The attributes from which media sections are made.
Pool ==
  {[key |-> "rtpmap", pt |-> 96, value |-> <<"H264">>],
   [key |-> "fmtp", pt |-> 96,
    value |-> <<"packetization-mode=1", "sprop-parameter-sets", "profile-level-id=640028">>],
   [key |-> "rtpmap", pt |-> 97, value |-> <<"red">>],
   [key |-> "fmtp", pt |-> 97, value |-> <<"apt">>],
   [key |-> "rtpmap", pt |-> 98, value |-> <<"ulpfec">>],
   [key |-> "recvonly", pt |-> 0, value |-> <<>>],
   [key |-> "extmap", pt |-> PlayoutDelayId, value |-> <<"transport-cc">>]}

\* Every choice of four of them in every order.
MCMedias ==
  {[formats |-> <<97, 98, 96>>, attrs |-> a] :
     a \in {s \in [1..4 -> Pool] : \A i, j \in 1..4 : s[i] = s[j] => i = j}}
================================================================================
