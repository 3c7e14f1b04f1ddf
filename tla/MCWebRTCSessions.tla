-------------------------- MODULE MCWebRTCSessions --------------------------
(* TLC instance of WebRTCSessions: two sessions of one connection, whose     *)
(* three tasks run side by side, over two instances of the stream.           *)
EXTENDS WebRTCSessions
CONSTANTS c1, s1, s2
=============================================================================
