--------------------------- MODULE PipelineProofs ----------------------------
(***************************************************************************)
(* TLAPS proofs about what keeps one stream going: its watcher, for any    *)
(* clients, grace period, eviction timeout and backoff, and the runner of  *)
(* a pipeline, for any number of lost ticks, of polls and of messages.     *)
(***************************************************************************)
EXTENDS StreamWatcher, PipelineRunner, LifecycleStateProofs, SequenceTheorems

\* Where the lifecycle can be when the watcher acts on a snapshot: between its
\* look and its handler others only add and remove consumers, which never take
\* the phase out of {Idle, Waking} or {Running, Draining}; only the watcher does.
SnapshotHolds ==
  /\ pc \in {"Waking", "teardown", "create", "pinned", "ready", "evicted"}
       => life.phase = "Waking"
  /\ pc \in {"Idle", "park", "sleep"} => life.phase \in {"Idle", "Waking"}
  /\ pc \in {"Running", "Draining", "reset"} => life.phase \in {"Running", "Draining"}
  /\ pc = "ready" => Exists(pipeline)
  /\ setup # "done" => life.mode = "Lazy" /\ holders = {}

\* Creations of a pinned stream: after the last one that the bound allows, the
\* pipeline lives on.
PinsBounded ==
  /\ pins > 0 => pinned /\ pc \notin {"Idle", "Draining", "park"}
  /\ pins = MaxPins => \/ pc \in {"pinned", "stopped"}
                       \/ /\ pipeline = "Live"
                          /\ \/ pc = "ready"
                             \/ life.phase = "Running" /\ pc \in {"select", "Running", "reset"}

IInv ==
  /\ TypeOK /\ CountFits(life) /\ ConsumersAccountedFor
  /\ SnapshotHolds /\ RunningHasPipeline /\ PinsBounded

\* The age of the failure tracker is no more than the time without Running, and
\* a Running that does not end in a reset of the tracker was overlooked.
TrackerInv ==
  /\ failAge # Unset /\ ~overlooked /\ pc \notin {"reset", "stopped"}
       => life.phase # "Running" /\ failAge <= sinceRun
  /\ setup = "adding" => life.phase = "Idle"
  /\ EvictedOnlyAfterTimeout

\* A drain_start that the watcher will still use belongs to the drain that is
\* under way, unless a client came in between.
DrainInv ==
  /\ drainAge # Unset
       => pc \in {"select", "Idle", "Waking", "Running", "Draining", "stopped"}
  /\ drainAge # Unset /\ ~unseen /\ pc \in {"select", "Draining"}
       => life.phase = "Draining" /\ drainedFor >= drainAge
  /\ pc = "Draining" /\ ~unseen => life.phase = "Draining"
-----------------------------------------------------------------------------
(* The inductive invariant of the pipeline and the consumers *)

LEMMA HoldersFinite ==
  ASSUME NEW S \in SUBSET Clients
  PROVE  /\ IsFiniteSet(S) /\ Cardinality(S) \in Nat
         /\ Cardinality(S) <= Cardinality(Clients)
BY StreamWatcherAssumption, FS_Subset, FS_CardinalityType

LEMMA InitIInv == Init => IInv
<1> SUFFICES ASSUME Init PROVE IInv
  OBVIOUS
<1>1. PICK mode \in Modes : /\ life = InitialState(mode)
                            /\ setup = IF mode = "Lazy" THEN "adding" ELSE "done"
  BY DEF Init
<1>2. /\ life \in LifecycleStates /\ life.mode = mode
      /\ life.consumers = Phantom(mode)
      /\ life.phase = IF mode = "Lazy" THEN "Idle" ELSE "Waking"
  BY <1>1, InitialStateTyped
<1>3. TypeOK
  <2>1. 0 \in 0..Grace /\ 0 \in 0..EvictAfter /\ 0 \in 0..BackoffCap /\ 0 \in 0..MaxPins
    BY StreamWatcherAssumption, LifecycleStateAssumption
  <2>2. QED
    BY <1>1, <1>2, <2>1 DEF Init, TypeOK, Steps, States, Unset
<1>4. CountFits(life) /\ ConsumersAccountedFor
  BY <1>1, <1>2, FS_EmptySet DEF Init, CountFits, ConsumersAccountedFor, Phantom, Modes
<1>5. SnapshotHolds /\ RunningHasPipeline /\ PinsBounded
  BY <1>1, <1>2, StreamWatcherAssumption
  DEF Init, SnapshotHolds, RunningHasPipeline, PinsBounded, Modes
<1>6. QED
  BY <1>3, <1>4, <1>5 DEF IInv

\* Actions that leave the lifecycle and who is counted alone.
LEMMA SameCount ==
  ASSUME IInv, UNCHANGED <<life, setup, holders, pins>>
  PROVE  CountFits(life)' /\ ConsumersAccountedFor'
BY DEF IInv, CountFits, ConsumersAccountedFor

\* Actions by which the watcher reports to the lifecycle.
LEMMA ReportedCount ==
  ASSUME IInv, UNCHANGED <<setup, holders, pins>>,
         life' \in {PipelineReady(life), PipelineError(life), DrainExpired(life),
                    ResetErrorBackoff(life)}
  PROVE  /\ life' \in LifecycleStates
         /\ life'.mode = life.mode /\ life'.consumers = life.consumers
         /\ CountFits(life)' /\ ConsumersAccountedFor'
<1>1. life \in LifecycleStates /\ CountFits(life)
  BY DEF IInv, TypeOK
<1>2. life' \in LifecycleStates
  BY <1>1, OperationsTyped
<1>3. life'.mode = life.mode /\ life'.consumers = life.consumers /\ CountFits(life')
  BY <1>1, ReportsCountNobody
<1>4. CountFits(life)'
  BY <1>3 DEF CountFits
<1>5. ConsumersAccountedFor'
  BY <1>3 DEF IInv, ConsumersAccountedFor
<1>6. QED
  BY <1>2, <1>3, <1>4, <1>5

\* One of try_new, the clients and the creations adds its consumer.
LEMMA AddedCount ==
  ASSUME IInv, life' = AddConsumer(life),
         Cardinality(holders') + pins' + (IF setup' = "removing" THEN 1 ELSE 0)
           = Cardinality(holders) + pins + (IF setup = "removing" THEN 1 ELSE 0) + 1,
         Phantom(life.mode) + Cardinality(holders') + pins'
           + (IF setup' = "removing" THEN 1 ELSE 0) <= MaxU32,
         Cardinality(holders) \in Nat, Cardinality(holders') \in Nat, pins' \in Nat
  PROVE  /\ life' \in LifecycleStates
         /\ life'.mode = life.mode
         /\ life'.phase = CASE life.phase = "Idle"     -> "Waking"
                             [] life.phase = "Draining" -> "Running"
                             [] OTHER                   -> life.phase
         /\ CountFits(life)' /\ ConsumersAccountedFor'
<1>1. life \in LifecycleStates /\ CountFits(life) /\ pins \in Nat
  BY StreamWatcherAssumption DEF IInv, TypeOK
<1>2. Phantom(life.mode) \in {0, 1}
  BY DEF Phantom
<1>3. life.consumers < MaxU32
  BY <1>1, <1>2, LifecycleStateAssumption DEF IInv, ConsumersAccountedFor
<1>4. /\ CountFits(life') /\ life'.consumers = life.consumers + 1
      /\ life'.mode = life.mode
      /\ life'.phase = CASE life.phase = "Idle"     -> "Waking"
                          [] life.phase = "Draining" -> "Running"
                          [] OTHER                   -> life.phase
  <2>1. life.consumers # MaxU32
    BY <1>1, <1>3, LifecycleStateAssumption DEF LifecycleStates
  <2>2. QED
    BY <1>1, <2>1, ConsumerAdded
<1>5. CountFits(life)'
  BY <1>4 DEF CountFits
<1>6. ConsumersAccountedFor'
  BY <1>1, <1>2, <1>4 DEF IInv, ConsumersAccountedFor
<1>7. life' \in LifecycleStates
  BY <1>1, OperationsTyped
<1>8. QED
  BY <1>4, <1>5, <1>6, <1>7

\* One of try_new and the clients gives its consumer back.
LEMMA RemovedCount ==
  ASSUME IInv, life' = RemoveConsumer(life), pins' = pins,
         Cardinality(holders) + (IF setup = "removing" THEN 1 ELSE 0)
           = Cardinality(holders') + (IF setup' = "removing" THEN 1 ELSE 0) + 1,
         Cardinality(holders) \in Nat, Cardinality(holders') \in Nat
  PROVE  /\ life' \in LifecycleStates
         /\ life'.mode = life.mode
         /\ \/ life'.phase = life.phase
            \/ life.phase = "Running" /\ life'.phase = "Draining" /\ pins = 0
         /\ CountFits(life)' /\ ConsumersAccountedFor'
<1>1. life \in LifecycleStates /\ CountFits(life) /\ pins \in Nat
  BY StreamWatcherAssumption DEF IInv, TypeOK
<1>2. Phantom(life.mode) \in {0, 1}
  BY DEF Phantom
<1>3. life.consumers > Phantom(life.mode) + pins
  BY <1>1, <1>2 DEF IInv, ConsumersAccountedFor
<1>4. /\ CountFits(life') /\ life'.consumers = life.consumers - 1
      /\ life'.mode = life.mode
      /\ life'.phase = IF life.phase = "Running" /\ life.consumers = 1
                         THEN "Draining" ELSE life.phase
  <2>1. life.consumers > Phantom(life.mode)
    BY <1>1, <1>2, <1>3 DEF LifecycleStates
  <2>2. QED
    BY <1>1, <2>1, ConsumerRemoved
<1>5. CountFits(life)'
  BY <1>4 DEF CountFits
<1>6. ConsumersAccountedFor'
  BY <1>1, <1>2, <1>4 DEF IInv, ConsumersAccountedFor, LifecycleStates
<1>7. life' \in LifecycleStates
  BY <1>1, OperationsTyped
<1>8. QED
  BY <1>1, <1>2, <1>3, <1>4, <1>5, <1>6, <1>7

\* A permanent consumer keeps the lifecycle up: who is counted is not Idle, nor
\* drained.
LEMMA PinsKeepUp == IInv => PinnedStaysUp
<1> SUFFICES ASSUME IInv, pins > 0 PROVE life.phase \in {"Waking", "Running"}
  BY DEF PinnedStaysUp
<1>1. life \in LifecycleStates /\ pins \in Nat /\ holders \in SUBSET Clients
  BY StreamWatcherAssumption DEF IInv, TypeOK
<1>2. life.consumers > 0
  BY <1>1, HoldersFinite DEF IInv, ConsumersAccountedFor, Phantom
<1>3. QED
  BY <1>1, <1>2 DEF IInv, CountFits, LifecycleStates, Phases

\* IInv is inductive.
LEMMA StepIInv == IInv /\ [Next]_vars => IInv'
<1> SUFFICES ASSUME IInv, [Next]_vars PROVE IInv'
  OBVIOUS
<1> USE StreamWatcherAssumption
    DEF IInv, TypeOK, SnapshotHolds, RunningHasPipeline, PinsBounded, Exists, Gone, Steps,
        States, Unset
<1>0. /\ Cardinality(Clients) \in Nat /\ Cardinality(holders) \in Nat
      /\ Cardinality(holders) <= Cardinality(Clients) /\ pins \in Nat
  BY HoldersFinite
<1>1. CASE SetupAdds
  <2>1. /\ Cardinality(holders') = Cardinality(holders) /\ Cardinality(holders) = 0
        /\ Phantom(life.mode) = 0
    BY <1>1, FS_EmptySet DEF SetupAdds, Phantom
  <2>2. /\ life' \in LifecycleStates /\ life'.mode = life.mode
        /\ life'.phase = CASE life.phase = "Idle"     -> "Waking"
                            [] life.phase = "Draining" -> "Running"
                            [] OTHER                   -> life.phase
        /\ CountFits(life)' /\ ConsumersAccountedFor'
    BY <1>0, <1>1, <2>1, AddedCount, LifecycleStateAssumption DEF SetupAdds, SetLife, SetDrained
  <2>3. QED
    BY <1>1, <2>2 DEF SetupAdds, SetLife, SetDrained
<1>2. CASE SetupRemoves
  <2>1. Cardinality(holders') = Cardinality(holders) /\ Cardinality(holders) = 0
    BY <1>2, FS_EmptySet DEF SetupRemoves
  <2>2. /\ life' \in LifecycleStates /\ life'.mode = life.mode
        /\ \/ life'.phase = life.phase
           \/ life.phase = "Running" /\ life'.phase = "Draining" /\ pins = 0
        /\ CountFits(life)' /\ ConsumersAccountedFor'
    BY <1>2, <2>1, RemovedCount DEF SetupRemoves, SetLife, SetDrained
  <2>3. QED
    BY <1>2, <2>2 DEF SetupRemoves, SetLife, SetDrained
<1>3. ASSUME NEW c \in Clients, Connect(c) PROVE IInv'
  <2>1. /\ Cardinality(holders') = Cardinality(holders) + 1
        /\ Cardinality(holders) \in Nat /\ Cardinality(holders') <= Cardinality(Clients)
    BY <1>3, HoldersFinite, FS_AddElement DEF Connect
  <2>2. /\ Cardinality(holders') \in Nat
        /\ Phantom(life.mode) + Cardinality(holders') + pins <= MaxU32
    BY <1>0, <2>1, LifecycleStateAssumption DEF Phantom
  <2>3. /\ life' \in LifecycleStates /\ life'.mode = life.mode
        /\ life'.phase = CASE life.phase = "Idle"     -> "Waking"
                            [] life.phase = "Draining" -> "Running"
                            [] OTHER                   -> life.phase
        /\ CountFits(life)' /\ ConsumersAccountedFor'
    <3>1. /\ life' = AddConsumer(life) /\ setup = "done" /\ setup' = "done"
          /\ pins' = pins
      BY <1>3 DEF Connect, SetLife, SetDrained
    <3>2. /\ Cardinality(holders') + pins' + (IF setup' = "removing" THEN 1 ELSE 0)
               = Cardinality(holders) + pins + (IF setup = "removing" THEN 1 ELSE 0) + 1
          /\ Phantom(life.mode) + Cardinality(holders') + pins'
               + (IF setup' = "removing" THEN 1 ELSE 0) <= MaxU32
      BY <1>0, <2>1, <2>2, <3>1 DEF Phantom
    <3>3. QED
      BY <1>0, <2>2, <3>1, <3>2, AddedCount
  <2>4. QED
    BY <1>3, <2>3 DEF Connect, SetLife, SetDrained
<1>4. ASSUME NEW c \in Clients, Disconnect(c) PROVE IInv'
  <2>1. /\ Cardinality(holders) = Cardinality(holders') + 1
        /\ Cardinality(holders) \in Nat /\ Cardinality(holders') \in Nat
    BY <1>4, HoldersFinite, FS_RemoveElement DEF Disconnect
  <2>2. /\ life' \in LifecycleStates /\ life'.mode = life.mode
        /\ \/ life'.phase = life.phase
           \/ life.phase = "Running" /\ life'.phase = "Draining" /\ pins = 0
        /\ CountFits(life)' /\ ConsumersAccountedFor'
    BY <1>4, <2>1, RemovedCount DEF Disconnect, SetLife, SetDrained
  <2>3. QED
    BY <1>4, <2>2 DEF Disconnect, SetLife, SetDrained
<1>5. CASE Observe
  <2>1. CountFits(life)' /\ ConsumersAccountedFor'
    BY <1>5, SameCount DEF Observe
  <2>2. pins > 0 => life.phase \in {"Waking", "Running"}
    BY PinsKeepUp DEF PinnedStaysUp
  <2>3. QED
    BY <1>5, <2>1, <2>2 DEF Observe, LifecycleStates, Phases
<1>6. CASE IdleHandler
  <2>1. CountFits(life)' /\ ConsumersAccountedFor'
    BY <1>6, SameCount DEF IdleHandler, LifeUnchanged
  <2>2. QED
    BY <1>6, <2>1 DEF IdleHandler, LifeUnchanged
<1>7. CASE WakingHandler
  <2>1. CountFits(life)' /\ ConsumersAccountedFor'
    BY <1>7, SameCount DEF WakingHandler, LifeUnchanged
  <2>2. QED
    BY <1>7, <2>1 DEF WakingHandler, LifeUnchanged
<1>8. CASE TeardownAwaited
  <2>1. CountFits(life)' /\ ConsumersAccountedFor'
    BY <1>8, SameCount DEF TeardownAwaited, LifeUnchanged
  <2>2. /\ pc = "teardown" /\ pc' = "create" /\ LifeUnchanged
        /\ awaited' \in BOOLEAN /\ detached' \subseteq detached \union {"timedOut"}
        /\ UNCHANGED <<pinned, setup, pipeline, drainAge, failAge, sleep, holders, pins,
                       overlooked>>
    BY <1>8 DEF TeardownAwaited
  <2>3. QED
    BY <2>1, <2>2 DEF LifeUnchanged
<1>9. CASE WakeFails
  <2>1. Elapsed \in 0..EvictAfter
    BY DEF Elapsed
  <2>2. CASE Elapsed >= EvictAfter
    <3>1. CountFits(life)' /\ ConsumersAccountedFor'
      BY <1>9, <2>2, SameCount DEF WakeFails, LifeUnchanged
    <3>2. QED
      BY <1>9, <2>1, <2>2, <3>1 DEF WakeFails, LifeUnchanged
  <2>3. CASE ~(Elapsed >= EvictAfter)
    <3>1. life' = PipelineError(life)
      BY <1>9, <2>3 DEF WakeFails, SetLife, SetDrained
    <3>2. /\ life' \in LifecycleStates /\ life'.mode = life.mode
          /\ CountFits(life)' /\ ConsumersAccountedFor'
      BY <1>9, <3>1, ReportedCount DEF WakeFails
    <3>3. life'.phase = "Waking"
      BY <1>9, <3>1, ReportsMovePhase DEF WakeFails
    <3>4. sleep' \in 0..BackoffCap
      BY <1>9, <2>3, <3>1, <3>2, BackoffCapped DEF WakeFails, LifecycleStates
    <3>5. QED
      BY <1>9, <2>1, <2>3, <3>2, <3>3, <3>4 DEF WakeFails, SetLife, SetDrained
  <2>4. QED
    BY <2>2, <2>3
<1>10. CASE PinConsumer
  <2>1. pins < MaxPins /\ pins' = pins + 1 /\ holders' = holders /\ holders \in SUBSET Clients
    BY <1>10 DEF PinConsumer
  <2>2. Phantom(life.mode) + Cardinality(holders') + pins' + (IF setup' = "removing" THEN 1 ELSE 0)
          <= MaxU32
    BY <1>10, <2>1, LifecycleStateAssumption, HoldersFinite, FS_EmptySet DEF Phantom, PinConsumer
  <2>3. /\ life' \in LifecycleStates /\ life'.mode = life.mode
        /\ life'.phase = CASE life.phase = "Idle"     -> "Waking"
                            [] life.phase = "Draining" -> "Running"
                            [] OTHER                   -> life.phase
        /\ CountFits(life)' /\ ConsumersAccountedFor'
    BY <1>10, <2>1, <2>2, AddedCount, HoldersFinite DEF PinConsumer, SetLife, SetDrained
  <2>4. QED
    BY <1>10, <2>1, <2>3 DEF PinConsumer, SetLife, SetDrained
<1>11. CASE WakeSucceeds
  <2>1. CountFits(life)' /\ ConsumersAccountedFor'
    BY <1>11, SameCount DEF WakeSucceeds, LifeUnchanged
  <2>2. QED
    BY <1>11, <2>1 DEF WakeSucceeds, LifeUnchanged
<1>12. CASE ReportReady
  <2>1. /\ life' \in LifecycleStates /\ life'.mode = life.mode
        /\ CountFits(life)' /\ ConsumersAccountedFor' 
    BY <1>12, ReportedCount DEF ReportReady, SetLife, SetDrained
  <2>2. life'.phase = IF life.consumers > 0 THEN "Running" ELSE "Draining"
    BY <1>12, ReportsMovePhase DEF ReportReady, SetLife, SetDrained
  <2>3. pins > 0 => life.consumers > 0
    BY HoldersFinite DEF ConsumersAccountedFor, Phantom
  <2>4. QED
    BY <1>12, <2>1, <2>2, <2>3 DEF ReportReady, SetLife, SetDrained, ReachesRunning
<1>13. CASE ResetFailures
  <2>1. /\ life' \in LifecycleStates /\ life'.mode = life.mode
        /\ CountFits(life)' /\ ConsumersAccountedFor' 
    BY <1>13, ReportedCount DEF ResetFailures, SetLife, SetDrained
  <2>2. life'.phase = life.phase
    BY <1>13, ReportsMovePhase DEF ResetFailures, SetLife, SetDrained
  <2>3. /\ sinceRun' \in 0..EvictAfter /\ drainedFor' \in 0..Grace /\ unseen' \in BOOLEAN
        /\ failAge' \in {-1} \union 0..EvictAfter /\ overlooked' \in BOOLEAN
    <3>1. 0 \in 0..EvictAfter /\ 0 \in 0..Grace
      OBVIOUS
    <3>2. QED
      BY <1>13, <3>1 DEF ResetFailures, SetLife, SetDrained
  <2>4. /\ pc = "reset" /\ pc' = "select"
        /\ UNCHANGED <<pinned, setup, pipeline, awaited, detached, drainAge, sleep, holders, pins>>
    BY <1>13 DEF ResetFailures
  <2>5. TypeOK'
    BY <2>1, <2>3, <2>4
  <2>6. QED
    BY <2>1, <2>2, <2>4, <2>5
<1>14. CASE RunningHandler
  <2>1. CASE pipeline = "Live"
    <3>1. CountFits(life)' /\ ConsumersAccountedFor'
      BY <1>14, <2>1, SameCount DEF RunningHandler, LifeUnchanged
    <3>2. QED
      BY <1>14, <2>1, <3>1 DEF RunningHandler, LifeUnchanged
  <2>2. CASE pipeline # "Live"
    <3>1. life' = PipelineError(life)
      BY <1>14, <2>2 DEF RunningHandler, SetLife, SetDrained
    <3>2. /\ life' \in LifecycleStates /\ life'.mode = life.mode
          /\ CountFits(life)' /\ ConsumersAccountedFor'
      BY <1>14, <3>1, ReportedCount DEF RunningHandler
    <3>3. life'.phase \in {"Idle", "Waking"}
      BY <1>14, <3>1, ReportsMovePhase
    <3>4. sleep' \in 0..BackoffCap
      BY <1>14, <2>2, <3>1, <3>2, BackoffCapped DEF RunningHandler, LifecycleStates
    <3>5. QED
      BY <1>14, <2>2, <3>2, <3>3, <3>4 DEF RunningHandler, SetLife, SetDrained
  <2>3. QED
    BY <2>1, <2>2
<1>15. CASE DrainingHandler
  <2>1. CASE drainAge >= Grace
    <3>1. life' = DrainExpired(life)
      BY <1>15, <2>1 DEF DrainingHandler, SetDrained
    <3>2. /\ life' \in LifecycleStates /\ life'.mode = life.mode
          /\ CountFits(life)' /\ ConsumersAccountedFor'
      BY <1>15, <3>1, ReportedCount DEF DrainingHandler
    <3>3. life'.phase = IF life.phase = "Draining" THEN "Idle" ELSE life.phase
      BY <1>15, <3>1, ReportsMovePhase
    <3>4. pins = 0 /\ pc' = IF life.phase = "Draining" THEN "park" ELSE "select"
      BY <1>0, <1>15, <2>1 DEF DrainingHandler, DrainExpires
    <3>5. TypeOK'
      <4>1. /\ drainAge' = Unset /\ unseen' = FALSE /\ drainedFor' \in {0, drainedFor}
            /\ UNCHANGED <<pinned, setup, pipeline, awaited, detached, failAge, sleep, holders,
                           pins, overlooked>>
        BY <1>15, <2>1 DEF DrainingHandler, SetDrained
      <4>2. pc' \in Steps
        BY <3>4
      <4>3. unseen' \in BOOLEAN
        BY <4>1
      <4>4. drainedFor' \in 0..Grace
        <5>1. 0 \in 0..Grace /\ drainedFor \in 0..Grace
          OBVIOUS
        <5>2. QED
          BY <4>1, <5>1
      <4>5. drainAge' \in {Unset} \union 0..Grace
        BY <4>1
      <4>6. sinceRun' \in 0..EvictAfter
        <5>1. 0 \in 0..EvictAfter /\ sinceRun' \in {0, sinceRun}
          BY <1>15, <2>1 DEF DrainingHandler, SetDrained
        <5>2. QED
          BY <5>1
      <4>7. QED
        BY <3>2, <4>1, <4>2, <4>3, <4>4, <4>5, <4>6
    <3>6. SnapshotHolds' /\ RunningHasPipeline' /\ PinsBounded'
      BY <1>15, <2>1, <3>2, <3>3, <3>4 DEF DrainingHandler
    <3>7. QED
      BY <3>2, <3>5, <3>6
  <2>2. CASE ~(drainAge >= Grace)
    <3>1. CountFits(life)' /\ ConsumersAccountedFor'
      BY <1>15, <2>2, SameCount DEF DrainingHandler, LifeUnchanged
    <3>2. QED
      BY <1>15, <2>2, <3>1 DEF DrainingHandler, LifeUnchanged
  <2>3. QED
    BY <2>1, <2>2
<1>16. CASE Park
  <2>1. CountFits(life)' /\ ConsumersAccountedFor'
    BY <1>16, SameCount DEF Park, LifeUnchanged
  <2>2. QED
    BY <1>16, <2>1 DEF Park, LifeUnchanged
<1>17. CASE BackoffOver
  <2>1. CountFits(life)' /\ ConsumersAccountedFor'
    BY <1>17, SameCount DEF BackoffOver, LifeUnchanged
  <2>2. QED
    BY <1>17, <2>1 DEF BackoffOver, LifeUnchanged
<1>18. CASE PipelineDies
  <2>1. CountFits(life)' /\ ConsumersAccountedFor'
    BY <1>18, SameCount DEF PipelineDies, LifeUnchanged
  <2>2. QED
    BY <1>18, <2>1 DEF PipelineDies, LifeUnchanged
<1>19. CASE TeardownEnds
  <2>1. CountFits(life)' /\ ConsumersAccountedFor'
    BY <1>19, SameCount DEF TeardownEnds, LifeUnchanged
  <2>2. awaited' \in BOOLEAN /\ detached' \subseteq {"parked", "timedOut"}
    BY <1>19 DEF TeardownEnds
  <2>3. QED
    BY <1>19, <2>1, <2>2 DEF TeardownEnds, LifeUnchanged
<1>20. CASE StreamDropped
  <2>1. CountFits(life)' /\ ConsumersAccountedFor'
    BY <1>20, SameCount DEF StreamDropped, LifeUnchanged
  <2>2. QED
    BY <1>20, <2>1 DEF StreamDropped, LifeUnchanged, Gone
<1>21. CASE Tick
  <2>1. CountFits(life)' /\ ConsumersAccountedFor'
    BY <1>21, SameCount DEF Tick, control
  <2>2. /\ Older(drainAge, Grace) \in {-1} \union 0..Grace
        /\ Older(drainedFor, Grace) \in 0..Grace /\ 0 \in 0..Grace
    BY DEF Older
  <2>3. /\ Older(failAge, EvictAfter) \in {-1} \union 0..EvictAfter
        /\ Older(sinceRun, EvictAfter) \in 0..EvictAfter /\ 0 \in 0..EvictAfter
    BY DEF Older
  <2>4. SaturatingDec(sleep) \in 0..BackoffCap
    BY LifecycleStateAssumption DEF SaturatingDec
  <2>5. QED
    BY <1>21, <2>1, <2>2, <2>3, <2>4 DEF Tick, control
<1>22. CASE UNCHANGED vars
  <2>1. CountFits(life)' /\ ConsumersAccountedFor'
    BY <1>22, SameCount DEF vars, control
  <2>2. QED
    BY <1>22, <2>1 DEF vars, control, history
<1>23. QED
  BY <1>1, <1>2, <1>3, <1>4, <1>5, <1>6, <1>7, <1>8, <1>9, <1>10, <1>11,
     <1>12, <1>13, <1>14, <1>15, <1>16, <1>17, <1>18, <1>19, <1>20, <1>21, <1>22
  DEF Next, WatcherStep

\* A stream's watcher and its clients, whatever their order, lose no consumer and
\* count none twice, keep a pipeline under a lifecycle that says Running or
\* Draining, and never drain a stream whose UDP or Zenoh sink has been counted.
THEOREM WatcherInvAlways == Spec => []WatcherInv
<1>1. IInv => WatcherInv
  BY PinsKeepUp DEF IInv, WatcherInv
<1>2. QED
  BY InitIInv, StepIInv, <1>1, PTL DEF Spec

-----------------------------------------------------------------------------
(* Eviction *)

\* An age that stops at the limit stays behind one that started earlier.
LEMMA OlderKeepsOrder ==
  ASSUME NEW limit \in Nat, NEW a \in 0..limit, NEW b \in 0..limit, a <= b
  PROVE  /\ Older(a, limit) <= Older(b, limit)
         /\ a >= limit => Older(b, limit) >= limit
         /\ a # Unset /\ Older(a, limit) # Unset /\ Older(Unset, limit) = Unset
BY DEF Older, Unset

LEMMA StepTrackerInv == IInv /\ TrackerInv /\ [Next]_vars => TrackerInv'
<1> SUFFICES ASSUME IInv, TrackerInv, [Next]_vars PROVE TrackerInv'
  OBVIOUS
<1> USE StreamWatcherAssumption DEF TrackerInv, EvictedOnlyAfterTimeout
<1>0. /\ failAge \in {-1} \union 0..EvictAfter /\ sinceRun \in 0..EvictAfter
      /\ life \in LifecycleStates /\ overlooked \in BOOLEAN
      /\ pc \in {"create", "pinned", "ready", "evicted"} => life.phase = "Waking"
      /\ pc \in {"Running", "Draining"} => life.phase \in {"Running", "Draining"}
  BY DEF IInv, TypeOK, Unset, SnapshotHolds
\* What the clients and try_new do to the phase.
<1>a. AddConsumer(life).phase = CASE life.phase = "Idle"     -> "Waking"
                                  [] life.phase = "Draining" -> "Running"
                                  [] OTHER                   -> life.phase
  BY <1>0 DEF AddConsumer, LifecycleStates, Phases
<1>b. /\ RemoveConsumer(life).phase \in {life.phase, "Draining"}
      /\ life.phase = "Idle" => RemoveConsumer(life).phase = "Idle"
  BY <1>0 DEF RemoveConsumer, LifecycleStates
<1>1. CASE WakeFails
  <2>1. PipelineError(life).phase = "Waking"
    BY <1>0, <1>1, ReportsMovePhase DEF WakeFails
  <2>2. QED
    BY <1>0, <1>1, <2>1 DEF WakeFails, Elapsed, Unset, SetLife, SetDrained, LifeUnchanged
<1>2. CASE ResetFailures
  BY <1>0, <1>2, ReportsMovePhase DEF ResetFailures, SetLife, SetDrained
<1>3. CASE Tick
  <2>1. CASE failAge = Unset
    <3>1. failAge' = Unset /\ UNCHANGED <<life, pc, setup, overlooked>>
      BY <1>3, <2>1 DEF Tick, control, Older, Unset
    <3>2. pc = "evicted" /\ sinceRun >= EvictAfter => sinceRun' >= EvictAfter
      BY <1>0, <1>3 DEF Tick, Older
    <3>3. QED
      BY <3>1, <3>2
  <2>2. CASE failAge # Unset
    <3>1. CASE life.phase = "Running"
      <4>1. overlooked \/ pc \in {"reset", "stopped"}
        BY <2>2, <3>1
      <4>2. pc # "evicted"
        BY <1>0, <3>1
      <4>3. UNCHANGED <<life, pc, setup, overlooked>>
        BY <1>3 DEF Tick, control
      <4>4. QED
        BY <4>1, <4>2, <4>3
    <3>2. CASE life.phase # "Running"
      <4>1. sinceRun' = Older(sinceRun, EvictAfter) /\ failAge' = Older(failAge, EvictAfter)
        BY <1>3, <3>2 DEF Tick
      <4>2. failAge <= sinceRun => failAge' <= sinceRun'
        <5>1. failAge \in 0..EvictAfter
          BY <1>0, <2>2 DEF Unset
        <5>2. QED
          BY <1>0, <4>1, <5>1, OlderKeepsOrder
      <4>3. sinceRun >= EvictAfter => sinceRun' >= EvictAfter
        BY <1>0, <4>1 DEF Older
      <4>4. QED
        BY <1>3, <2>2, <4>2, <4>3 DEF Tick, control
    <3>3. QED
      BY <3>1, <3>2
  <2>3. QED
    BY <2>1, <2>2
<1>4. CASE Observe
  BY <1>0, <1>4 DEF Observe, LifecycleStates, Phases
<1>5. CASE SetupAdds \/ SetupRemoves \/ \E c \in Clients : Disconnect(c)
  <2>1. CASE SetupAdds
    BY <1>0, <1>a, <2>1 DEF SetupAdds, SetLife, SetDrained
  <2>2. CASE SetupRemoves
    BY <1>0, <1>b, <2>2 DEF SetupRemoves, SetLife, SetDrained
  <2>3. CASE \E c \in Clients : Disconnect(c)
    BY <1>0, <1>b, <2>3 DEF Disconnect, SetLife, SetDrained
  <2>4. QED
    BY <1>5, <2>1, <2>2, <2>3
<1>6. ASSUME NEW c \in Clients, Connect(c) PROVE TrackerInv'
  BY <1>0, <1>6, <1>a DEF Connect, SetLife, SetDrained, Unset
<1>7. CASE IdleHandler \/ WakingHandler \/ TeardownAwaited \/ Park \/ BackoffOver
  BY <1>7 DEF IdleHandler, WakingHandler, TeardownAwaited, Park, BackoffOver, LifeUnchanged
<1>8. CASE PinConsumer \/ WakeSucceeds
  BY <1>0, <1>8, <1>a DEF PinConsumer, WakeSucceeds, SetLife, SetDrained, LifeUnchanged
<1>9. CASE ReportReady
  <2>1. PipelineReady(life).phase = IF ReachesRunning(life) THEN "Running" ELSE "Draining"
    BY <1>0, <1>9 DEF ReportReady, PipelineReady, ReachesRunning, LifecycleStates
  <2>2. QED
    BY <1>0, <1>9, <2>1 DEF ReportReady, SetLife, SetDrained
<1>10. CASE RunningHandler
  <2>1. PipelineError(life).phase \in {"Idle", "Waking"}
    BY <1>0, ReportsMovePhase
  <2>2. QED
    BY <1>0, <1>10, <2>1 DEF RunningHandler, SetLife, SetDrained, LifeUnchanged
<1>11. CASE DrainingHandler
  <2>1. DrainExpired(life).phase # "Running" \/ life.phase = "Running"
    BY <1>0, ReportsMovePhase
  <2>2. QED
    BY <1>0, <1>11, <2>1 DEF DrainingHandler, SetDrained, LifeUnchanged
<1>12. CASE PipelineDies \/ TeardownEnds \/ StreamDropped
  BY <1>12 DEF PipelineDies, TeardownEnds, StreamDropped, LifeUnchanged
<1>13. CASE UNCHANGED vars
  BY <1>13 DEF vars, control, history
<1>14. QED
  BY <1>1, <1>2, <1>3, <1>4, <1>5, <1>6, <1>7, <1>8, <1>9, <1>10, <1>11, <1>12, <1>13
  DEF Next, WatcherStep

\* The watcher gives a stream up only when its lifecycle has not been Running for
\* the whole of --stream-recreation-failure-timeout, although errors, drains and
\* clients come in between and whoever made it Running: except when a client that
\* came back to a draining stream did, which the tracker overlooks.
THEOREM EvictionAlways == Spec => []EvictedOnlyAfterTimeout
<1>1. Init => TrackerInv
  BY InitialStateTyped DEF Init, TrackerInv, EvictedOnlyAfterTimeout, Unset
<1>2. TrackerInv => EvictedOnlyAfterTimeout
  BY DEF TrackerInv
<1>3. QED
  BY InitIInv, StepIInv, StepTrackerInv, <1>1, <1>2, PTL DEF Spec

-----------------------------------------------------------------------------
(* The grace period *)

LEMMA StepDrainInv == IInv /\ DrainInv /\ [Next]_vars => DrainInv'
<1> SUFFICES ASSUME IInv, DrainInv, [Next]_vars PROVE DrainInv'
  OBVIOUS
<1> USE StreamWatcherAssumption DEF DrainInv, Unset
<1>0. /\ drainAge \in {-1} \union 0..Grace /\ drainedFor \in 0..Grace
      /\ life \in LifecycleStates /\ CountFits(life)
      /\ holders \in SUBSET Clients /\ Cardinality(holders) \in Nat
  BY HoldersFinite DEF IInv, TypeOK
<1>1. ASSUME life' = AddConsumer(life), SetLife(life'), UNCHANGED <<pc, drainAge>>
      PROVE  DrainInv'
  <2>1. life.consumers # MaxU32 \/ life.phase # "Draining"
    BY <1>0, LifecycleStateAssumption DEF CountFits
  <2>2. life.phase = "Draining" => life'.phase = "Running"
    BY <1>0, <1>1, <2>1, ConsumerAdded
  <2>3. QED
    BY <1>0, <1>1, <2>2 DEF SetLife, SetDrained
<1>2. ASSUME life' = RemoveConsumer(life), SetLife(life'), UNCHANGED <<pc, drainAge>>,
             life.consumers > Phantom(life.mode)
      PROVE  DrainInv'
  <2>1. life.phase = "Draining" => life'.phase = "Draining"
    BY <1>0, <1>2, ConsumerRemoved
  <2>2. QED
    BY <1>0, <1>2, <2>1 DEF SetLife, SetDrained
<1>3. CASE SetupAdds \/ \E c \in Clients : Connect(c)
  BY <1>1, <1>3 DEF SetupAdds, Connect, SetLife, SetDrained
<1>4. CASE SetupRemoves \/ \E c \in Clients : Disconnect(c)
  <2>1. life.consumers > Phantom(life.mode)
    <3>1. setup = "removing" \/ Cardinality(holders) > 0
      <4>1. holders # {} => Cardinality(holders) # 0
        BY <1>0, HoldersFinite, FS_EmptySet
      <4>2. QED
        BY <1>0, <1>4, <4>1 DEF SetupRemoves, Disconnect
    <3>2. pins \in Nat
      BY DEF IInv, TypeOK
    <3>3. QED
      BY <1>0, <3>1, <3>2 DEF IInv, ConsumersAccountedFor, Phantom
  <2>2. QED
    BY <1>2, <1>4, <2>1 DEF SetupRemoves, Disconnect, SetLife, SetDrained
<1>5. CASE Observe
  BY <1>0, <1>5 DEF Observe, LifecycleStates, Phases
<1>6. CASE IdleHandler \/ WakingHandler
  BY <1>6 DEF IdleHandler, WakingHandler, LifeUnchanged
<1>7. CASE TeardownAwaited \/ Park \/ BackoffOver \/ WakeSucceeds
  BY <1>7 DEF TeardownAwaited, Park, BackoffOver, WakeSucceeds, LifeUnchanged
<1>8. CASE WakeFails \/ PinConsumer \/ ReportReady \/ ResetFailures
  BY <1>8 DEF WakeFails, PinConsumer, ReportReady, ResetFailures, LifeUnchanged
<1>9. CASE RunningHandler
  BY <1>9 DEF RunningHandler
<1>10. CASE DrainingHandler
  <2>1. CASE drainAge >= Grace
    BY <1>10, <2>1 DEF DrainingHandler
  <2>2. CASE ~(drainAge >= Grace)
    <3>1. /\ pc = "Draining" /\ pc' = "select" /\ UNCHANGED <<life, drainedFor, unseen>>
          /\ drainAge' = IF drainAge = -1 THEN 0 ELSE drainAge
      BY <1>10, <2>2 DEF DrainingHandler, LifeUnchanged
    <3>2. QED
      BY <1>0, <3>1
  <2>3. QED
    BY <2>1, <2>2
<1>11. CASE Tick
  <2>1. drainAge \in 0..Grace /\ drainedFor >= drainAge
          => Older(drainedFor, Grace) >= Older(drainAge, Grace)
    BY <1>0, OlderKeepsOrder
  <2>2. drainAge = -1 => Older(drainAge, Grace) = -1
    BY DEF Older
  <2>3. QED
    BY <1>0, <1>11, <2>1, <2>2 DEF Tick, control
<1>12. CASE PipelineDies \/ TeardownEnds \/ StreamDropped
  BY <1>12 DEF PipelineDies, TeardownEnds, StreamDropped, LifeUnchanged
<1>13. CASE UNCHANGED vars
  BY <1>13 DEF vars, control, history
<1>14. QED
  BY <1>3, <1>4, <1>5, <1>6, <1>7, <1>8, <1>9, <1>10, <1>11, <1>12, <1>13
  DEF Next, WatcherStep

\* A pipeline is parked only after a full grace period without consumers, unless
\* a client came and left between two looks of the watcher: no drain_start of an
\* earlier drain is left over for a later one.
THEOREM FullGraceAlways == Spec => FullGrace
<1>1. Init => DrainInv
  BY DEF Init, DrainInv
<1>2. IInv /\ DrainInv /\ [Next]_vars
        => [life.phase = "Draining" /\ life'.phase = "Idle" /\ pc = "Draining"
              => drainedFor >= Grace \/ unseen]_vars
  <2> SUFFICES ASSUME IInv, DrainInv, Next, life.phase = "Draining",
                      life'.phase = "Idle", pc = "Draining", ~unseen
               PROVE  drainedFor >= Grace
    OBVIOUS
  <2>1. life \in LifecycleStates /\ CountFits(life)
    BY DEF IInv, TypeOK
  <2>2. life' # AddConsumer(life)
    BY <2>1, LifecycleStateAssumption, ConsumerAdded DEF CountFits
  <2>3. life' # RemoveConsumer(life)
    BY <2>1 DEF RemoveConsumer, LifecycleStates
  <2>4. life' # life
    OBVIOUS
  <2>5. DrainingHandler
    BY <2>2, <2>3, <2>4
    DEF Next, WatcherStep, SetupAdds, SetupRemoves, Connect, Disconnect, SetLife, SetDrained,
        Observe, IdleHandler, WakingHandler, TeardownAwaited, PinConsumer, ReportReady,
        ResetFailures, RunningHandler, Park, BackoffOver, WakeFails, WakeSucceeds,
        PipelineDies, TeardownEnds, StreamDropped, Tick, LifeUnchanged, control
  <2>6. drainAge >= Grace
    BY <2>4, <2>5 DEF DrainingHandler, LifeUnchanged
  <2>7. QED
    BY <2>6, StreamWatcherAssumption DEF DrainInv, IInv, TypeOK, Unset
<1>3. QED
  BY InitIInv, StepIInv, StepDrainInv, <1>1, <1>2, PTL DEF Spec, FullGrace

-----------------------------------------------------------------------------
(* The runner of a pipeline *)

\* Nothing is counted before the watchdog has seen a position twice, and nothing after
\* the task has ended.
Counting ==
    /\ task = "settling" => trials # 0
    /\ Running => reason = "none" /\ lost <= MaxLost
    /\ task \in {"waiting", "settling"} => due = 0 /\ ~known
    /\ ~known \/ allowBlock \/ atZero => lost = 0

\* As long as no tick is made up for, ticks and frames take turns: one more tick than
\* frames is lost at most, and none while the position is ahead by more than a
\* millisecond, since the next tick forgets them.
Paced ==
    ~burst =>
        /\ due <= 1
        /\ Running =>
            /\ moved => ahead = 2 \/ (task = "watching" /\ due = 0)
            /\ ahead = 2 \/ lost <= still + (IF due = 0 /\ ~moved THEN 1 ELSE 0)

\* What makes a runner end by a message has been posted.
Told ==
    /\ finish = "full" => broken
    /\ \A i \in 1..Len(bus) : bus[i] \in Fatal => broken

RunnerIInv == RunnerTypeOK /\ Counting /\ Paced /\ Told /\ StuckMeansStill /\ OnlyFatalMessages
-----------------------------------------------------------------------------
LEMMA RunnerInitIInv == RunnerInit => RunnerIInv
<1> SUFFICES ASSUME RunnerInit PROVE RunnerIInv
    OBVIOUS
<1> USE PipelineRunnerAssumption DEF RunnerInit
<1>1. RunnerTypeOK
    <2>1. <<>> \in Seq(Messages)
        OBVIOUS
    <2>2. gst \in {"Null", "Paused", "Playing"} /\ target \in {"Null", "Paused", "Playing"}
        OBVIOUS
    <2>3. /\ allowBlock \in BOOLEAN /\ frozen \in BOOLEAN /\ broken \in BOOLEAN /\ known \in BOOLEAN
          /\ atZero \in BOOLEAN /\ moved \in BOOLEAN /\ burst \in BOOLEAN
        OBVIOUS
    <2>4. /\ trials \in 0..MaxTrials /\ posted \in 0..MaxBus /\ due \in 0..MaxDue /\ ahead \in 0..2
          /\ lost \in 0..(MaxLost + 1) /\ still \in 0..(MaxLost + 1)
        OBVIOUS
    <2>5. QED
        BY <2>1, <2>2, <2>3, <2>4, Zenon DEF RunnerTypeOK
<1>2. Counting /\ Paced /\ StuckMeansStill /\ OnlyFatalMessages
    BY DEF Counting, Paced, Running, StuckMeansStill, OnlyFatalMessages
<1>3. Told
    BY DEF Told
<1>4. QED
    BY <1>1, <1>2, <1>3 DEF RunnerIInv

\* What a message of the bus makes of the runner.
LEMMA MessageRead ==
    ASSUME RunnerTypeOK, ReadBus
    PROVE  /\ Head(bus) \in Messages /\ Tail(bus) \in Seq(Messages)
           /\ UNCHANGED <<ownerVars, taskVars, gst, frozen, posted, broken, watchVars, moveVars>>
           /\ bus # <<>> /\ bus' = Tail(bus)
           /\ busTask' \in {busTask, "clock", "ended"} /\ target' \in {target, "Paused"}
           /\ finish' \in {finish, "full"}
           /\ finish' # finish => Head(bus) \in Fatal
<1>1. bus \in Seq(Messages) /\ bus # <<>>
    BY DEF RunnerTypeOK, ReadBus
<1>2. Head(bus) \in Messages /\ Tail(bus) \in Seq(Messages)
    BY <1>1
<1>3. Head(bus) \in Fatal \/ Head(bus) \in Clock \/ Head(bus) \in Harmless
    BY <1>2 DEF Messages
<1>4. /\ UNCHANGED <<ownerVars, taskVars, gst, frozen, posted, broken, watchVars, moveVars>>
      /\ bus' = Tail(bus)
    BY DEF ReadBus
<1>5. \/ Head(bus) \in Fatal /\ busTask' = "ended" /\ finish' = "full" /\ target' = target
      \/ busTask' = "clock" /\ target' = "Paused" /\ finish' = finish
      \/ UNCHANGED <<busTask, finish, target>>
    BY <1>3 DEF ReadBus
<1>6. QED
    BY <1>1, <1>2, <1>4, <1>5

LEMMA RunnerStepTyped == RunnerTypeOK /\ Counting /\ [RunnerNext]_runnerVars => RunnerTypeOK'
<1> SUFFICES ASSUME RunnerTypeOK, Counting, [RunnerNext]_runnerVars PROVE RunnerTypeOK'
    OBVIOUS
<1> USE PipelineRunnerAssumption
    DEF RunnerTypeOK, ownerVars, taskVars, gstVars, busVars, watchVars, moveVars
<1>1. CASE Start
    BY <1>1 DEF Start
<1>2. CASE Drop
    BY <1>2 DEF Drop
<1>3. CASE TakeStart
    BY <1>3 DEF TakeStart, End
<1>4. CASE PollState
    BY <1>4 DEF PollState, Counting
<1>5. CASE TakeFinish
    BY <1>5 DEF TakeFinish, End
<1>6. CASE TickWhileNotPlaying
    <2>1. /\ due' \in 0..MaxDue /\ ahead' = 0 /\ lost' = 0
          /\ UNCHANGED <<ownerVars, taskVars, gstVars, busVars, burst, moveVars>>
        BY <1>6 DEF TickWhileNotPlaying
    <2>2. known' \in BOOLEAN
        BY <1>6, Zenon DEF TickWhileNotPlaying
    <2>3. QED
        BY <2>1, <2>2
<1>7. CASE TickUnwatched
    BY <1>7 DEF TickUnwatched
<1>8. CASE TickSeesPosition
    <2>1. lost <= MaxLost
        BY <1>8 DEF TickSeesPosition, Counting, Running
    <2>2. QED
        BY <1>8, <2>1 DEF TickSeesPosition, Equal, End
<1>9. CASE ReadBus
    <2>1. /\ bus' \in Seq(Messages) /\ target' \in {"Null", "Paused", "Playing"}
          /\ busTask' \in {"reading", "clock", "ended"} /\ finish' \in {"empty", "full"}
          /\ UNCHANGED <<ownerVars, taskVars, gst, frozen, posted, broken, watchVars, moveVars>>
        BY <1>9, MessageRead
    <2>2. QED
        BY <2>1
<1>10. CASE ClockDone
    BY <1>10 DEF ClockDone
<1>11. CASE Post
    BY <1>11 DEF Post
<1>12. CASE ReachState \/ Freeze
    <2>1. /\ gst' \in {"Null", "Paused", "Playing"} /\ target' = target /\ frozen' \in BOOLEAN
          /\ UNCHANGED <<ownerVars, taskVars, busVars, watchVars, moveVars>>
        BY <1>12 DEF ReachState, Freeze
    <2>2. QED
        BY <2>1
<1>13. CASE Advance
    <2>1. /\ UNCHANGED <<ownerVars, taskVars, gstVars, busVars, due, known, lost, burst>>
          /\ atZero' \in BOOLEAN
        BY <1>13 DEF Advance
    <2>2. ahead' \in 0..2
        BY <1>13 DEF Advance, Capped
    <2>3. moved' \in BOOLEAN /\ still' \in 0..(MaxLost + 1)
        BY <1>13 DEF Advance
    <2>4. QED
        BY <2>1, <2>2, <2>3
<1>14. CASE FramePasses
    <2>1. due' \in 0..MaxDue
        BY <1>14 DEF FramePasses
    <2>2. still' \in 0..(MaxLost + 1)
        BY <1>14 DEF FramePasses
    <2>3. burst' \in BOOLEAN /\ moved' \in BOOLEAN
        BY <1>14 DEF FramePasses
    <2>4. UNCHANGED <<ownerVars, taskVars, gstVars, busVars, known, ahead, atZero, lost>>
        BY <1>14 DEF FramePasses
    <2>5. QED
        BY <2>1, <2>2, <2>3, <2>4
<1>15. CASE UNCHANGED runnerVars
    BY <1>15 DEF runnerVars
<1>16. QED
    BY <1>1, <1>2, <1>3, <1>4, <1>5, <1>6, <1>7, <1>8, <1>9, <1>10, <1>11, <1>12, <1>13, <1>14,
       <1>15
    DEF RunnerNext, TaskStep, BusStep

\* The bus, the states of the pipeline and its owner's start concern no count.
LEMMA QuietSteps ==
    ASSUME RunnerTypeOK, Start \/ ReadBus \/ ClockDone \/ Post \/ ReachState \/ Freeze \/ UNCHANGED runnerVars
    PROVE  UNCHANGED <<allowBlock, taskVars, watchVars, moveVars>>
BY MessageRead
DEF Start, ClockDone, Post, ReachState, Freeze, runnerVars, ownerVars

LEMMA StepCounting == RunnerTypeOK /\ Counting /\ [RunnerNext]_runnerVars => Counting'
<1> SUFFICES ASSUME RunnerTypeOK, Counting, [RunnerNext]_runnerVars PROVE Counting'
    OBVIOUS
<1>0. /\ trials \in Nat /\ lost \in Nat /\ due \in Nat /\ MaxLost \in Nat \ {0}
      /\ MaxTrials \in Nat \ {0}
    BY PipelineRunnerAssumption DEF RunnerTypeOK
<1> USE DEF Counting, Running, ownerVars, taskVars, watchVars, moveVars
<1>1. CASE Start \/ ReadBus \/ ClockDone \/ Post \/ ReachState \/ Freeze \/ UNCHANGED runnerVars
    BY <1>1, QuietSteps
<1>2. CASE Drop
    BY <1>2 DEF Drop
<1>3. CASE TakeStart
    BY <1>0, <1>3 DEF TakeStart, End
<1>4. CASE PollState
    BY <1>0, <1>4 DEF PollState
<1>5. CASE TakeFinish
    BY <1>5 DEF TakeFinish, End
<1>6. CASE TickWhileNotPlaying \/ TickUnwatched
    BY <1>0, <1>6 DEF TickWhileNotPlaying, TickUnwatched
<1>7. CASE TickSeesPosition
    BY <1>0, <1>7 DEF TickSeesPosition, Equal, End
<1>8. CASE Advance
    BY <1>8 DEF Advance
<1>9. CASE FramePasses
    BY <1>9 DEF FramePasses
<1>10. QED
    BY <1>1, <1>2, <1>3, <1>4, <1>5, <1>6, <1>7, <1>8, <1>9
    DEF RunnerNext, TaskStep, BusStep

\* Between two ticks that find the same position a whole frame passes.
LEMMA StepPaced == RunnerTypeOK /\ Counting /\ Paced /\ [RunnerNext]_runnerVars => Paced'
<1> SUFFICES ASSUME RunnerTypeOK, Counting, Paced, [RunnerNext]_runnerVars PROVE Paced'
    OBVIOUS
<1>0. /\ lost \in Nat /\ due \in Nat /\ still \in Nat /\ ahead \in 0..2
      /\ moved \in BOOLEAN /\ burst \in BOOLEAN /\ MaxLost \in Nat \ {0}
    BY PipelineRunnerAssumption DEF RunnerTypeOK
<1> USE DEF Paced, Running, ownerVars, taskVars, watchVars, moveVars
<1>1. CASE Start \/ ReadBus \/ ClockDone \/ Post \/ ReachState \/ Freeze \/ UNCHANGED runnerVars
    BY <1>1, QuietSteps
<1>2. CASE Drop
    BY <1>2 DEF Drop
<1>3. CASE TakeStart
    BY <1>3 DEF TakeStart, End
<1>4. CASE PollState
    <2>1. due = 0 /\ lost = 0
        BY <1>4 DEF PollState, Counting
    <2>2. QED
        BY <1>0, <1>4, <2>1 DEF PollState
<1>5. CASE TakeFinish
    BY <1>5 DEF TakeFinish, End
<1>6. CASE TickWhileNotPlaying
    BY <1>0, <1>6 DEF TickWhileNotPlaying
<1>7. CASE TickUnwatched
    <2>1. lost = 0
        BY <1>7 DEF TickUnwatched, Counting
    <2>2. QED
        BY <1>0, <1>7, <2>1 DEF TickUnwatched
<1>8. CASE TickSeesPosition
    <2>1. /\ task = "watching" /\ due > 0 /\ due' = due - 1 /\ ahead' = 0
          /\ UNCHANGED <<still, moved, burst>>
          /\ lost' = IF Equal THEN lost + 1 ELSE IF known /\ ahead = 2 THEN 0 ELSE lost
          /\ task' \in {"watching", "ended"}
        BY <1>8 DEF TickSeesPosition, End
    <2>2. ~known => lost = 0
        BY DEF Counting
    <2>3. ASSUME ~burst PROVE due = 1 /\ (ahead = 2 \/ (lost <= still /\ ~moved))
        BY <1>0, <2>1, <2>3
    <2>4. ASSUME ~burst PROVE lost' <= still + (IF moved THEN 0 ELSE 1)
        BY <1>0, <2>1, <2>2, <2>3, <2>4 DEF Equal
    <2>5. QED
        BY <1>0, <2>1, <2>3, <2>4
<1>9. CASE Advance
    <2>1. PICK step \in 1..2 : /\ ahead' = Capped(ahead + step) /\ moved' = (moved \/ step = 2)
                               /\ still' = IF step = 2 THEN 0 ELSE still
        BY <1>9 DEF Advance
    <2>2. UNCHANGED <<task, due, lost, burst>>
        BY <1>9 DEF Advance
    <2>3. CASE step = 2
        BY <1>0, <2>1, <2>2, <2>3 DEF Capped
    <2>4. CASE step = 1
        BY <1>0, <2>1, <2>2, <2>4 DEF Capped
    <2>5. QED
        BY <2>3, <2>4
<1>10. CASE FramePasses
    <2>1. lost <= MaxLost
        BY <1>10 DEF FramePasses, Counting
    <2>2. /\ due' = due + 1 /\ burst' = (burst \/ due > 0) /\ moved' = FALSE
          /\ still' = IF moved \/ still > MaxLost THEN still ELSE still + 1
          /\ UNCHANGED <<task, ahead, lost>>
        BY <1>10 DEF FramePasses
    <2>3. CASE ~burst'
        <3>1. ~burst /\ ~(due > 0)
            BY <2>2, <2>3, Zenon
        <3>2. due = 0 /\ due' = 1
            BY <1>0, <2>2, <3>1
        <3>3. Running => ahead = 2 \/ lost <= still'
            <4>1. CASE moved \/ still > MaxLost
                BY <1>0, <2>1, <2>2, <3>1, <3>2, <4>1
            <4>2. CASE ~(moved \/ still > MaxLost)
                BY <1>0, <2>2, <3>1, <3>2, <4>2
            <4>3. QED
                BY <4>1, <4>2
        <3>4. QED
            BY <1>0, <2>2, <3>1, <3>2, <3>3
    <2>4. QED
        BY <2>3
<1>11. QED
    BY <1>1, <1>2, <1>3, <1>4, <1>5, <1>6, <1>7, <1>8, <1>9, <1>10
    DEF RunnerNext, TaskStep, BusStep

\* A task that has ended for a position that stood still stays what it is.
LEMMA StepStuck ==
    RunnerTypeOK /\ Counting /\ Paced /\ StuckMeansStill /\ [RunnerNext]_runnerVars => StuckMeansStill'
<1> SUFFICES ASSUME RunnerTypeOK, Counting, Paced, StuckMeansStill, [RunnerNext]_runnerVars
             PROVE  StuckMeansStill'
    OBVIOUS
<1>0. /\ lost \in Nat /\ due \in Nat /\ still \in Nat /\ MaxLost \in Nat \ {0}
      /\ burst \in BOOLEAN /\ moved \in BOOLEAN
    BY PipelineRunnerAssumption DEF RunnerTypeOK
<1> USE DEF StuckMeansStill, ownerVars, taskVars, watchVars, moveVars
<1>1. CASE Start \/ ReadBus \/ ClockDone \/ Post \/ ReachState \/ Freeze \/ UNCHANGED runnerVars
    BY <1>1, QuietSteps
<1>2. CASE Drop
    BY <1>2 DEF Drop
<1>3. CASE TakeStart
    BY <1>3 DEF TakeStart, End
<1>4. CASE PollState
    BY <1>4 DEF PollState
<1>5. CASE TakeFinish
    BY <1>5 DEF TakeFinish, End
<1>6. CASE TickWhileNotPlaying \/ TickUnwatched
    BY <1>6 DEF TickWhileNotPlaying, TickUnwatched
<1>7. CASE TickSeesPosition
    <2>1. reason = "none" /\ lost <= MaxLost
        BY <1>7 DEF TickSeesPosition, Counting, Running
    <2>2. CASE Equal /\ lost + 1 > MaxLost
        <3>1. lost = MaxLost /\ ahead = 0 /\ due > 0 /\ task = "watching"
            BY <1>0, <1>7, <2>1, <2>2 DEF TickSeesPosition, Equal
        <3>2. ~burst => lost <= still
            BY <1>0, <3>1 DEF Paced, Running
        <3>3. UNCHANGED <<still, burst>>
            BY <1>7 DEF TickSeesPosition
        <3>4. QED
            BY <3>1, <3>2, <3>3
    <2>3. CASE ~(Equal /\ lost + 1 > MaxLost)
        BY <1>7, <2>1, <2>3 DEF TickSeesPosition
    <2>4. QED
        BY <2>2, <2>3
<1>8. CASE Advance \/ FramePasses
    <2>1. reason = "none" /\ reason' = reason
        BY <1>8 DEF Advance, FramePasses, Counting, Running
    <2>2. QED
        BY <2>1
<1>9. QED
    BY <1>1, <1>2, <1>3, <1>4, <1>5, <1>6, <1>7, <1>8
    DEF RunnerNext, TaskStep, BusStep

\* Only what was posted is read, and only a fatal message of it passed on.
LEMMA StepTold ==
    RunnerTypeOK /\ Told /\ OnlyFatalMessages /\ [RunnerNext]_runnerVars => Told' /\ OnlyFatalMessages'
<1> SUFFICES ASSUME RunnerTypeOK, Told, OnlyFatalMessages, [RunnerNext]_runnerVars
             PROVE  Told' /\ OnlyFatalMessages'
    OBVIOUS
<1>0. bus \in Seq(Messages)
    BY DEF RunnerTypeOK
<1> USE DEF Told, OnlyFatalMessages, ownerVars, taskVars, gstVars, busVars, watchVars, moveVars
<1>1. CASE TakeFinish
    BY <1>1 DEF TakeFinish, End
<1>2. CASE ReadBus
    <2>1. /\ Head(bus) = bus[1] /\ 1 \in 1..Len(bus)
          /\ \A i \in 1..Len(Tail(bus)) : i + 1 \in 1..Len(bus) /\ Tail(bus)[i] = bus[i + 1]
        BY <1>0, <1>2, MessageRead
    <2>2. Head(bus) \in Fatal => broken
        BY <2>1
    <2>3. bus' = Tail(bus) /\ UNCHANGED <<broken, reason>>
        BY <1>2, MessageRead
    <2>4. finish' = "full" => broken
        BY <1>2, <2>2, MessageRead
    <2>5. \A i \in 1..Len(bus') : bus'[i] \in Fatal => broken
        BY <2>1, <2>3
    <2>6. QED
        BY <2>3, <2>4, <2>5
<1>3. CASE Post
    <2>1. PICK message \in Messages :
            bus' = Append(bus, message) /\ broken' = (broken \/ message \in Fatal)
        BY <1>3 DEF Post
    <2>2. UNCHANGED <<finish, reason>>
        BY <1>3 DEF Post
    <2>3. \A i \in 1..Len(bus') : bus'[i] = message \/ (i \in 1..Len(bus) /\ bus'[i] = bus[i])
        BY <1>0, <2>1
    <2>4. QED
        BY <2>1, <2>2, <2>3
<1>4. ASSUME UNCHANGED <<bus, broken, finish>>, reason' = "message" => reason = "message"
      PROVE  Told' /\ OnlyFatalMessages'
    BY <1>4
<1>5. CASE TakeStart
    BY <1>4, <1>5 DEF TakeStart, End
<1>6. CASE PollState
    BY <1>4, <1>6 DEF PollState
<1>7. CASE TickSeesPosition
    BY <1>4, <1>7 DEF TickSeesPosition, End
<1>8. CASE Start \/ Drop \/ TickWhileNotPlaying \/ TickUnwatched \/ ClockDone
    BY <1>4, <1>8 DEF Start, Drop, TickWhileNotPlaying, TickUnwatched, ClockDone
<1>9. CASE ReachState \/ Freeze \/ Advance \/ FramePasses \/ UNCHANGED runnerVars
    BY <1>4, <1>9 DEF ReachState, Freeze, Advance, FramePasses, runnerVars
<1>10. QED
    BY <1>1, <1>2, <1>3, <1>5, <1>6, <1>7, <1>8, <1>9
    DEF RunnerNext, TaskStep, BusStep

-----------------------------------------------------------------------------
\* The runner's task ends as stuck only when the position has stood still for max_lost_ticks
\* frames, and by a message only when the pipeline posted an EOS or an error of its own.
THEOREM RunnerInvAlways == RunnerSpec => []RunnerInv
<1>1. RunnerInit => RunnerIInv
    BY RunnerInitIInv
<1>2. RunnerIInv /\ [RunnerNext]_runnerVars => RunnerIInv'
    BY RunnerStepTyped, StepCounting, StepPaced, StepStuck, StepTold DEF RunnerIInv
<1>3. RunnerIInv => RunnerInv
    BY DEF RunnerIInv, RunnerInv
<1>4. QED
    BY <1>1, <1>2, <1>3, PTL DEF RunnerSpec
==============================================================================
