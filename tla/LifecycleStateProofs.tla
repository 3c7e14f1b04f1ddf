------------------------ MODULE LifecycleStateProofs ------------------------
(***************************************************************************)
(* Lemmas about the operators of LifecycleState, for any width of the      *)
(* counters: what each method of states.rs returns.  The proofs about the  *)
(* actor, the watcher and whoever else holds a lifecycle rest on them.     *)
(***************************************************************************)
EXTENDS LifecycleState, FiniteSetTheorems, TLAPS

-----------------------------------------------------------------------------
(* Types *)

\* Saturating arithmetic stays in the width of the counter.
LEMMA SaturatingArithmetic ==
  /\ 0 \in 0..MaxU32 /\ 1 \in 0..MaxU32
  /\ \A n \in 0..MaxU32 : SaturatingInc(n) \in 0..MaxU32 /\ SaturatingDec(n) \in 0..MaxU32
BY LifecycleStateAssumption DEF SaturatingInc, SaturatingDec

\* Every operation maps a lifecycle state to a lifecycle state.
LEMMA OperationsTyped ==
  ASSUME NEW s \in LifecycleStates
  PROVE  /\ AddConsumer(s) \in LifecycleStates
         /\ RemoveConsumer(s) \in LifecycleStates
         /\ PipelineReady(s) \in LifecycleStates
         /\ PipelineError(s) \in LifecycleStates
         /\ DrainExpired(s) \in LifecycleStates
         /\ ResetErrorBackoff(s) \in LifecycleStates
<1> USE SaturatingArithmetic DEF LifecycleStates, Phases, Modes
<1>1. AddConsumer(s) \in LifecycleStates
  BY DEF AddConsumer
<1>2. RemoveConsumer(s) \in LifecycleStates
  BY DEF RemoveConsumer, Phantom
<1>3. PipelineReady(s) \in LifecycleStates
  BY DEF PipelineReady, ReachesRunning
<1>4. PipelineError(s) \in LifecycleStates
  BY DEF PipelineError
<1>5. DrainExpired(s) \in LifecycleStates
  BY DEF DrainExpired, DrainExpires
<1>6. ResetErrorBackoff(s) \in LifecycleStates
  BY DEF ResetErrorBackoff
<1>7. QED
  BY <1>1, <1>2, <1>3, <1>4, <1>5, <1>6

\* The state a lifecycle starts with.
LEMMA InitialStateTyped ==
  ASSUME NEW mode \in Modes
  PROVE  /\ InitialState(mode) \in LifecycleStates
         /\ InitialState(mode).mode = mode
         /\ InitialState(mode).consumers = Phantom(mode)
         /\ InitialState(mode).phase = IF mode = "Lazy" THEN "Idle" ELSE "Waking"
BY SaturatingArithmetic
DEF InitialState, Lazy, Eager, Modes, Phases, LifecycleStates, Phantom

\* There are 2 ^ k subsets of 1..k, and that is a number.
LEMMA PowerOfTwo ==
  ASSUME NEW k \in Nat
  PROVE  2 ^ k \in Nat
<1>1. IsFiniteSet(1..k) /\ Cardinality(1..k) = k
  BY FS_Interval
<1>2. IsFiniteSet(SUBSET (1..k)) /\ Cardinality(SUBSET (1..k)) = 2 ^ k
  BY <1>1, FS_SUBSET
<1>3. QED
  BY <1>2, FS_CardinalityType

\* No backoff is longer than its cap.
LEMMA BackoffCapped ==
  ASSUME NEW n \in 0..MaxU32
  PROVE  ComputeBackoff(n) \in 0..BackoffCap
<1>1. CASE n = 0
  BY <1>1, LifecycleStateAssumption DEF ComputeBackoff
<1>2. CASE n # 0
  <2> DEFINE p == 2 ^ (n - 1)
  <2>1. p \in Nat
    BY <1>2, PowerOfTwo, LifecycleStateAssumption
  <2>2. ComputeBackoff(n) = IF n - 1 < 64 /\ p < BackoffCap THEN p ELSE BackoffCap
    BY <1>2 DEF ComputeBackoff
  <2> HIDE DEF p
  <2>3. QED
    BY <2>1, <2>2, LifecycleStateAssumption
<1>3. QED
  BY <1>1, <1>2

-----------------------------------------------------------------------------
(* Counting *)

\* The count fits the phase: nobody is counted while it is Idle or drains,
\* somebody while it runs, and an eager one always has its phantom.
CountFits(s) ==
  /\ s.phase \in {"Idle", "Draining"} => s.consumers = 0
  /\ s.phase = "Running" => s.consumers > 0
  /\ s.consumers >= Phantom(s.mode)

\* One more consumer is counted as one, whatever the phase.
LEMMA ConsumerAdded ==
  ASSUME NEW s \in LifecycleStates, CountFits(s), s.consumers # MaxU32
  PROVE  /\ CountFits(AddConsumer(s))
         /\ AddConsumer(s).consumers = s.consumers + 1
         /\ AddConsumer(s).mode = s.mode
         /\ AddConsumer(s).phase = CASE s.phase = "Idle"     -> "Waking"
                                     [] s.phase = "Draining" -> "Running"
                                     [] OTHER                -> s.phase
<1>1. /\ AddConsumer(s).consumers = s.consumers + 1
      /\ AddConsumer(s).mode = s.mode
      /\ AddConsumer(s).phase = CASE s.phase = "Idle"     -> "Waking"
                                  [] s.phase = "Draining" -> "Running"
                                  [] OTHER                -> s.phase
  BY LifecycleStateAssumption
  DEF AddConsumer, SaturatingInc, CountFits, LifecycleStates, Phases, Modes
<1>2. CountFits(AddConsumer(s))
  BY <1>1 DEF CountFits, LifecycleStates, Phases, Modes, Phantom
<1>3. QED
  BY <1>1, <1>2

\* ... and the count fits even when it saturates, or when nobody was counted.
LEMMA AddConsumerFits ==
  ASSUME NEW s \in LifecycleStates, CountFits(s)
  PROVE  CountFits(AddConsumer(s)) /\ AddConsumer(s).mode = s.mode
BY LifecycleStateAssumption
DEF AddConsumer, SaturatingInc, CountFits, LifecycleStates, Phases, Modes, Phantom

LEMMA RemoveConsumerFits ==
  ASSUME NEW s \in LifecycleStates, CountFits(s)
  PROVE  CountFits(RemoveConsumer(s)) /\ RemoveConsumer(s).mode = s.mode
BY LifecycleStateAssumption
DEF RemoveConsumer, SaturatingDec, CountFits, LifecycleStates, Phases, Modes, Phantom

\* A consumer that is counted beside the phantom is one less when it leaves,
\* and only the last one ends Running.
LEMMA ConsumerRemoved ==
  ASSUME NEW s \in LifecycleStates, CountFits(s), s.consumers > Phantom(s.mode)
  PROVE  /\ CountFits(RemoveConsumer(s))
         /\ RemoveConsumer(s).consumers = s.consumers - 1
         /\ RemoveConsumer(s).mode = s.mode
         /\ RemoveConsumer(s).phase = IF s.phase = "Running" /\ s.consumers = 1
                                        THEN "Draining" ELSE s.phase
<1>1. /\ RemoveConsumer(s).consumers = s.consumers - 1
      /\ RemoveConsumer(s).mode = s.mode
      /\ RemoveConsumer(s).phase = IF s.phase = "Running" /\ s.consumers = 1
                                     THEN "Draining" ELSE s.phase
  BY DEF RemoveConsumer, SaturatingDec, Phantom, CountFits, LifecycleStates, Phases, Modes
<1>2. CountFits(RemoveConsumer(s))
  BY <1>1 DEF CountFits, LifecycleStates, Phases, Modes, Phantom
<1>3. QED
  BY <1>1, <1>2

\* What the watcher reports counts nobody, and moves the phase as it should.
LEMMA ReportsCountNobody ==
  ASSUME NEW s \in LifecycleStates, CountFits(s),
         NEW t \in {PipelineReady(s), PipelineError(s), DrainExpired(s), ResetErrorBackoff(s)}
  PROVE  t.consumers = s.consumers /\ t.mode = s.mode /\ CountFits(t)
<1> USE DEF CountFits, LifecycleStates, Phases, Modes, Phantom
<1>1. CASE t = PipelineReady(s)
  BY <1>1 DEF PipelineReady, ReachesRunning
<1>2. CASE t = PipelineError(s)
  BY <1>2 DEF PipelineError
<1>3. CASE t = DrainExpired(s)
  BY <1>3 DEF DrainExpired, DrainExpires
<1>4. CASE t = ResetErrorBackoff(s)
  BY <1>4 DEF ResetErrorBackoff
<1>5. QED
  BY <1>1, <1>2, <1>3, <1>4

LEMMA ReportsMovePhase ==
  ASSUME NEW s \in LifecycleStates
  PROVE  /\ PipelineReady(s).phase = IF s.phase = "Waking"
                                       THEN IF s.consumers > 0 THEN "Running" ELSE "Draining"
                                       ELSE s.phase
         /\ PipelineError(s).phase = IF s.phase \in {"Idle", "Draining"} THEN "Idle" ELSE "Waking"
         /\ DrainExpired(s).phase = IF s.phase = "Draining" THEN "Idle" ELSE s.phase
         /\ ResetErrorBackoff(s).phase = s.phase
BY DEF PipelineReady, ReachesRunning, PipelineError, DrainExpired, DrainExpires,
       ResetErrorBackoff, LifecycleStates, Phases
=============================================================================
