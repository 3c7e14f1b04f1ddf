--------------------------- MODULE MCStreamWatcher ---------------------------
(* TLC instance of StreamWatcher: two clients, a grace period of two ticks,  *)
(* an eviction timeout of three, backoffs of one and two.                    *)
EXTENDS StreamWatcher
=============================================================================
