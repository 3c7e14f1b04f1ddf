---------------------------- MODULE PipelineLease ----------------------------
(***************************************************************************)
(* What the consumer lifecycle of a stream promises to the rest of the     *)
(* program: the pipeline is leased to its users.  Taking a lease powers    *)
(* the pipeline, and power is cut only while nobody holds one.  An eager   *)
(* stream reserves one lease that is never given back.                     *)
(***************************************************************************)
EXTENDS Naturals

CONSTANT MaxUsers

VARIABLES
  reserved,  \* leases that are never given back: 0 or 1
  users,     \* leases in force, the reserved one included
  powered    \* the pipeline may exist

leaseVars == <<reserved, users, powered>>

Init ==
  /\ reserved \in {0, 1}
  /\ users = reserved
  /\ powered = (reserved = 1)

Acquire ==
  /\ users < MaxUsers
  /\ users' = users + 1
  /\ powered' = TRUE
  /\ UNCHANGED reserved

Release ==
  /\ users > reserved
  /\ users' = users - 1
  /\ UNCHANGED <<reserved, powered>>

PowerOff ==
  /\ powered
  /\ users = 0
  /\ powered' = FALSE
  /\ UNCHANGED <<reserved, users>>

Next == Acquire \/ Release \/ PowerOff

Spec == Init /\ [][Next]_leaseVars
=============================================================================
