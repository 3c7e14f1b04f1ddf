--------------------------- MODULE MCLocalDevices ---------------------------
(* TLC instance of LocalDevices: twin cameras, one of which has two nodes, and *)
(* a third of another name.                                                   *)
EXTENDS LocalDevices, TLC
CONSTANTS alpha, beta, gamma, twin, other, h264, mjpg

Node(c, n, es) == [camera |-> c, name |-> n, encodes |-> es]

MCNodes == {Node(alpha, twin, {h264}), Node(alpha, twin, {mjpg}), Node(beta, twin, {h264}),
            Node(gamma, other, {h264})}

Symmetry == Permutations(Buses) \union Permutations(Paths) \union Permutations(Ids)
=============================================================================
