--------------------------- MODULE LifecycleProofs ---------------------------
(***************************************************************************)
(* TLAPS proofs about the lifecycle actor, for any finite sets of holders, *)
(* any channel capacity and any counter width.                             *)
(***************************************************************************)
EXTENDS Lifecycle, LifecycleStateProofs

-----------------------------------------------------------------------------
(* The operations of LifecycleState *)

\* The operation a command names maps a lifecycle state to a lifecycle state.
LEMMA ApplyTyped ==
  ASSUME state \in LifecycleStates, NEW op \in ConsumerOps \union PipelineOps
  PROVE  Apply(op) \in LifecycleStates
BY OperationsTyped DEF Apply, ConsumerOps, PipelineOps

\* The channel holds only commands.
LEMMA CommandsTyped ==
  ASSUME NEW op, NEW who,
         \/ op \in ConsumerOps /\ who \in Holders
         \/ op \in PipelineOps /\ who = Watcher
         \/ op = "Shutdown" /\ who = NoOne
  PROVE  /\ Command(op, who) \in Commands
         /\ Command(op, who).op = op
         /\ Command(op, who).from = who
BY DEF Command, Commands

\* A command that is not Shutdown carries an operation of the lifecycle, and a
\* consumer operation comes from a holder.
LEMMA CommandKinds ==
  ASSUME NEW c \in Commands
  PROVE  /\ c.op # "Shutdown" => c.op \in ConsumerOps \union PipelineOps
         /\ c.op \in ConsumerOps => c.from \in Holders
BY DEF Commands, ConsumerOps, PipelineOps

LEMMA AppendWithinCapacity ==
  ASSUME queue \in Seq(Commands), Len(queue) <= Capacity, HasRoom,
         NEW c \in Commands
  PROVE  /\ Append(queue, c) \in Seq(Commands)
         /\ Len(Append(queue, c)) <= Capacity
         /\ Len(Append(queue, c)) = Len(queue) + 1
BY LifecycleAssumption DEF HasRoom

-----------------------------------------------------------------------------
(* Type correctness *)

LEMMA InitTyped == Init => TypeOK
<1> SUFFICES ASSUME Init PROVE TypeOK
  OBVIOUS
<1>1. state \in LifecycleStates
  BY InitialStateTyped DEF Init
<1>2. queue \in Seq(Commands) /\ Len(queue) <= Capacity
  BY LifecycleAssumption DEF Init
<1>3. QED
  BY <1>1, <1>2 DEF Init, TypeOK

LEMMA StepTyped == TypeOK /\ [Next]_vars => TypeOK'
<1> SUFFICES ASSUME TypeOK, [Next]_vars PROVE TypeOK'
  OBVIOUS
<1> USE DEF TypeOK
<1>1. ASSUME NEW h \in Requesters, RequestAdd(h) PROVE TypeOK'
  <2>1. Command("AddConsumer", h) \in Commands
    BY CommandsTyped DEF Holders, ConsumerOps
  <2>2. QED
    BY <1>1, <2>1, AppendWithinCapacity DEF RequestAdd, Request, Holders
<1>2. ASSUME NEW h \in Requesters, RequestRemove(h) PROVE TypeOK'
  <2>1. Command("RemoveConsumer", h) \in Commands
    BY CommandsTyped DEF Holders, ConsumerOps
  <2>2. QED
    BY <1>2, <2>1, AppendWithinCapacity DEF RequestRemove, Request, Holders
<1>3. ASSUME NEW op \in PipelineOps, RequestPipelineOp(op) PROVE TypeOK'
  <2>1. Command(op, Watcher) \in Commands
    BY CommandsTyped
  <2>2. QED
    BY <1>3, <2>1, AppendWithinCapacity DEF RequestPipelineOp, Request
<1>4. ASSUME NEW h \in Background, AddInBackground(h) PROVE TypeOK'
  <2>1. Command("AddConsumer", h) \in Commands
    BY CommandsTyped DEF Holders, ConsumerOps
  <2>2. QED
    BY <1>4, <2>1, AppendWithinCapacity
    DEF AddInBackground, TrySend, Holders, ConsumerOps
<1>5. ASSUME NEW h \in Background, RemoveInBackground(h) PROVE TypeOK'
  <2>1. Command("RemoveConsumer", h) \in Commands
    BY CommandsTyped DEF Holders, ConsumerOps
  <2>2. QED
    BY <1>5, <2>1, AppendWithinCapacity
    DEF RemoveInBackground, TrySend, Holders, ConsumerOps
<1>6. CASE ShutdownInBackground
  <2>1. Command("Shutdown", NoOne) \in Commands
    BY CommandsTyped
  <2>2. QED
    BY <1>6, <2>1, AppendWithinCapacity DEF ShutdownInBackground
<1>7. CASE Handle
  <2> DEFINE c == Head(queue)
  <2>1. c \in Commands /\ c.op # "Shutdown"
    BY <1>7 DEF Handle
  <2>2. state' \in LifecycleStates
    BY <1>7, <2>1, CommandKinds, ApplyTyped DEF Handle
  <2>3. queue' \in Seq(Commands) /\ Len(queue') <= Capacity
    BY <1>7, LifecycleAssumption DEF Handle
  <2>4. counted' \subseteq Holders
    BY <1>7, <2>1, CommandKinds DEF Handle, After, ConsumerOps
  <2>5. lost' \subseteq ConsumerOps
    BY <1>7 DEF Handle, ConsumerOps
  <2>6. QED
    BY <1>7, <2>2, <2>3, <2>4, <2>5 DEF Handle
<1>8. CASE HandleShutdown
  <2>1. queue' \in Seq(Commands) /\ Len(queue') <= Capacity
    BY <1>8, LifecycleAssumption DEF HandleShutdown
  <2>2. QED
    BY <1>8, <2>1 DEF HandleShutdown
<1>9. CASE UNCHANGED vars
  BY <1>9 DEF vars
<1>10. QED
  BY <1>1, <1>2, <1>3, <1>4, <1>5, <1>6, <1>7, <1>8, <1>9 DEF Next

\* The variables keep their types; the u32 counters never leave 0..MaxU32.
THEOREM TypeCorrect == Spec => []TypeOK
<1>1. QED
  BY InitTyped, StepTyped, PTL DEF Spec

-----------------------------------------------------------------------------
(* The count agrees with the phase *)

\* CountMatchesPhase is inductive on its own: a drain starts only at zero, and
\* an add out of Idle or Draining starts counting at one.
LEMMA CountMatchesPhaseStep ==
  TypeOK /\ CountMatchesPhase /\ [Next]_vars => CountMatchesPhase'
<1> SUFFICES ASSUME TypeOK, CountMatchesPhase, [Next]_vars PROVE CountMatchesPhase'
  OBVIOUS
<1>1. CASE Handle
  <2> DEFINE op == Head(queue).op
  <2>1. op \in ConsumerOps \union PipelineOps /\ state' = Apply(op)
    BY <1>1, CommandKinds DEF Handle, TypeOK
  <2>2. state \in LifecycleStates
    BY DEF TypeOK
  <2> USE DEF CountMatchesPhase, LifecycleStates, Phases, Modes
  <2>3. CASE op = "AddConsumer"
    BY <2>1, <2>2, <2>3 DEF Apply, AddConsumer, SaturatingInc
  <2>4. CASE op = "RemoveConsumer"
    BY <2>1, <2>2, <2>4 DEF Apply, RemoveConsumer, SaturatingDec, Phantom
  <2>5. CASE op = "PipelineReady"
    BY <2>1, <2>2, <2>5 DEF Apply, PipelineReady, ReachesRunning
  <2>6. CASE op = "PipelineError"
    BY <2>1, <2>2, <2>6 DEF Apply, PipelineError
  <2>7. CASE op = "DrainExpired"
    BY <2>1, <2>2, <2>7 DEF Apply, DrainExpired, DrainExpires
  <2>8. CASE op = "ResetErrorBackoff"
    BY <2>1, <2>2, <2>8 DEF Apply, ResetErrorBackoff
  <2>9. QED
    BY <2>1, <2>3, <2>4, <2>5, <2>6, <2>7, <2>8 DEF ConsumerOps, PipelineOps
<1>2. CASE UNCHANGED state
  BY <1>2 DEF CountMatchesPhase
<1>3. QED
  BY <1>1, <1>2
  DEF Next, vars, RequestAdd, RequestRemove, RequestPipelineOp, Request,
      AddInBackground, RemoveInBackground, TrySend, ShutdownInBackground, HandleShutdown

\* Running implies consumers; Idle and Draining hide none.
THEOREM CountMatchesPhaseAlways == Spec => []CountMatchesPhase
<1>1. Init => CountMatchesPhase
  BY DEF Init, InitialState, Lazy, Eager, Modes, CountMatchesPhase
<1>2. QED
  BY <1>1, TypeCorrect, CountMatchesPhaseStep, PTL DEF Spec

\* Whatever is sent, lost or left unanswered, the counter stays within u32 and agrees with the
\* phase: what assert_snapshot_invariants of the tests samples, in every state.
THEOREM LifecycleInvAlways == Spec => []LifecycleInv
<1>1. TypeOK /\ CountMatchesPhase => LifecycleInv
  BY DEF LifecycleInv
<1>2. QED
  BY <1>1, TypeCorrect, CountMatchesPhaseAlways, PTL

-----------------------------------------------------------------------------
(* Eager streams *)

LEMMA EagerNeverParksStep ==
  TypeOK /\ EagerNeverParks /\ [Next]_vars => EagerNeverParks'
<1> SUFFICES ASSUME TypeOK, EagerNeverParks, [Next]_vars PROVE EagerNeverParks'
  OBVIOUS
<1>1. CASE Handle
  <2> DEFINE op == Head(queue).op
  <2>1. op \in ConsumerOps \union PipelineOps /\ state' = Apply(op)
    BY <1>1, CommandKinds DEF Handle, TypeOK
  <2>2. state \in LifecycleStates
    BY DEF TypeOK
  <2> USE DEF EagerNeverParks, LifecycleStates, Phases, Modes
  <2>3. CASE op = "AddConsumer"
    BY <2>1, <2>2, <2>3 DEF Apply, AddConsumer, SaturatingInc
  <2>4. CASE op = "RemoveConsumer"
    BY <2>1, <2>2, <2>4 DEF Apply, RemoveConsumer, SaturatingDec, Phantom
  <2>5. CASE op = "PipelineReady"
    BY <2>1, <2>2, <2>5 DEF Apply, PipelineReady, ReachesRunning
  <2>6. CASE op = "PipelineError"
    BY <2>1, <2>2, <2>6 DEF Apply, PipelineError
  <2>7. CASE op = "DrainExpired"
    BY <2>1, <2>2, <2>7 DEF Apply, DrainExpired, DrainExpires
  <2>8. CASE op = "ResetErrorBackoff"
    BY <2>1, <2>2, <2>8 DEF Apply, ResetErrorBackoff
  <2>9. QED
    BY <2>1, <2>3, <2>4, <2>5, <2>6, <2>7, <2>8 DEF ConsumerOps, PipelineOps
<1>2. CASE UNCHANGED state
  BY <1>2 DEF EagerNeverParks
<1>3. QED
  BY <1>1, <1>2
  DEF Next, vars, RequestAdd, RequestRemove, RequestPipelineOp, Request,
      AddInBackground, RemoveInBackground, TrySend, ShutdownInBackground, HandleShutdown

\* disable_lazy streams stay in Waking or Running, with their phantom consumer,
\* whatever is sent to them.
THEOREM EagerNeverParksAlways == Spec => []EagerNeverParks
<1>1. Init => EagerNeverParks
  BY DEF Init, InitialState, Lazy, Eager, Modes, EagerNeverParks
<1>2. QED
  BY <1>1, TypeCorrect, EagerNeverParksStep, PTL DEF Spec

-----------------------------------------------------------------------------
(* The lifecycle implements the lease *)

LEMMA ModeNeverChanges ==
  ASSUME state \in LifecycleStates, NEW op \in ConsumerOps \union PipelineOps
  PROVE  Apply(op).mode = state.mode
BY DEF Apply, ConsumerOps, PipelineOps, LifecycleStates, AddConsumer, RemoveConsumer,
       PipelineReady, PipelineError, DrainExpired, ResetErrorBackoff

\* A handled command is a step of the lease: an add acquires (or saturates), a
\* remove releases at most what is not reserved, and the only commands that
\* cut the power find no user.
LEMMA HandleIsLeaseStep ==
  ASSUME TypeOK, CountMatchesPhase, EagerNeverParks, Handle
  PROVE  [Lease!Next]_(Lease!leaseVars)
<1> DEFINE op == Head(queue).op
<1>1. op \in ConsumerOps \union PipelineOps /\ state' = Apply(op)
  BY CommandKinds DEF Handle, TypeOK
<1>2. state \in LifecycleStates
  BY DEF TypeOK
<1>3. Phantom(state'.mode) = Phantom(state.mode)
  BY <1>1, <1>2, ModeNeverChanges
<1> USE LifecycleStateAssumption
    DEF CountMatchesPhase, EagerNeverParks, LifecycleStates, Phases, Modes,
        Lease!Next, Lease!leaseVars
<1>4. CASE op = "AddConsumer"
  <2>1. CASE state.consumers = MaxU32
    <3>1. UNCHANGED <<state.consumers, state.phase # "Idle">>
      BY <1>1, <1>2, <1>4, <2>1 DEF Apply, AddConsumer, SaturatingInc
    <3>2. QED
      BY <1>3, <3>1
  <2>2. CASE state.consumers # MaxU32
    <3>1. /\ state.consumers < MaxU32
          /\ state'.consumers = state.consumers + 1
          /\ state'.phase # "Idle"
      BY <1>1, <1>2, <1>4, <2>2 DEF Apply, AddConsumer, SaturatingInc
    <3>2. Lease!Acquire
      BY <1>3, <3>1 DEF Lease!Acquire
    <3>3. QED
      BY <3>2
  <2>3. QED
    BY <2>1, <2>2
<1>5. CASE op = "RemoveConsumer"
  <2>1. (state'.phase # "Idle") = (state.phase # "Idle")
    BY <1>1, <1>2, <1>5 DEF Apply, RemoveConsumer
  <2>2. CASE state.consumers > Phantom(state.mode)
    <3>1. state'.consumers = state.consumers - 1
      BY <1>1, <1>2, <1>5, <2>2 DEF Apply, RemoveConsumer, SaturatingDec, Phantom
    <3>2. Lease!Release
      BY <1>3, <2>1, <2>2, <3>1 DEF Lease!Release
    <3>3. QED
      BY <3>2
  <2>3. CASE ~(state.consumers > Phantom(state.mode))
    <3>1. state'.consumers = state.consumers
      BY <1>1, <1>2, <1>5, <2>3 DEF Apply, RemoveConsumer, SaturatingDec, Phantom
    <3>2. QED
      BY <1>3, <2>1, <3>1
  <2>4. QED
    BY <2>2, <2>3
<1>6. CASE op = "PipelineReady"
  <2>1. UNCHANGED <<state.consumers, state.phase # "Idle">>
    BY <1>1, <1>2, <1>6 DEF Apply, PipelineReady
  <2>2. QED
    BY <1>3, <2>1
<1>7. CASE op \in {"PipelineError", "DrainExpired"}
  <2>1. state'.consumers = state.consumers
    BY <1>1, <1>2, <1>7 DEF Apply, PipelineError, DrainExpired
  <2>2. CASE state.phase = "Draining" /\ state'.phase = "Idle"
    <3>1. Lease!PowerOff
      BY <1>3, <2>1, <2>2 DEF Lease!PowerOff
    <3>2. QED
      BY <3>1
  <2>3. CASE ~(state.phase = "Draining" /\ state'.phase = "Idle")
    <3>1. (state'.phase # "Idle") = (state.phase # "Idle")
      BY <1>1, <1>2, <1>7, <2>3 DEF Apply, PipelineError, DrainExpired, DrainExpires
    <3>2. QED
      BY <1>3, <2>1, <3>1
  <2>4. QED
    BY <2>2, <2>3
<1>8. CASE op = "ResetErrorBackoff"
  <2>1. UNCHANGED <<state.consumers, state.phase # "Idle">>
    BY <1>1, <1>2, <1>8 DEF Apply, ResetErrorBackoff
  <2>2. QED
    BY <1>3, <2>1
<1>9. QED
  BY <1>1, <1>4, <1>5, <1>6, <1>7, <1>8 DEF ConsumerOps, PipelineOps

LEMMA StepIsLeaseStep ==
  TypeOK /\ CountMatchesPhase /\ EagerNeverParks /\ [Next]_vars
    => [Lease!Next]_(Lease!leaseVars)
<1> SUFFICES ASSUME TypeOK, CountMatchesPhase, EagerNeverParks, [Next]_vars
             PROVE  [Lease!Next]_(Lease!leaseVars)
  OBVIOUS
<1>1. CASE Handle
  BY <1>1, HandleIsLeaseStep
<1>2. CASE UNCHANGED state
  BY <1>2 DEF Lease!leaseVars
<1>3. QED
  BY <1>1, <1>2
  DEF Next, vars, RequestAdd, RequestRemove, RequestPipelineOp, Request,
      AddInBackground, RemoveInBackground, TrySend, ShutdownInBackground, HandleShutdown

\* The lifecycle implements PipelineLease: its pipeline is powered by an add
\* and cut off only at a moment nobody is counted as a consumer.
THEOREM LifecycleImplementsLease == Spec => ImplementsLease
<1>1. Init => Lease!Init
  BY DEF Init, InitialState, Lazy, Eager, Modes, Phantom, Lease!Init
<1>2. QED
  BY <1>1, TypeCorrect, CountMatchesPhaseAlways, EagerNeverParksAlways, StepIsLeaseStep, PTL
  DEF Spec, ImplementsLease, Lease!Spec

-----------------------------------------------------------------------------
(* The count is exact while nothing is lost *)

\* A queue of commands explains how the holders that are in (counted) become
\* those that want to be in (wants): there is a sequence of sets of holders,
\* one between any two commands, along which every add brings in a holder that
\* was out and every remove takes out one that was in.  Nobody adds twice.
Enables(c, in) ==
  /\ c.op = "AddConsumer"    => c.from \notin in
  /\ c.op = "RemoveConsumer" => c.from \in in

Explains(b, first, commands, last) ==
  /\ b \in [0..Len(commands) -> SUBSET Holders]
  /\ b[0] = first
  /\ b[Len(commands)] = last
  /\ \A i \in 1..Len(commands) : /\ Enables(commands[i], b[i - 1])
                                 /\ b[i] = After(commands[i], b[i - 1])

Explained == \E b : Explains(b, counted, queue, wants)

\* The inductive strengthening of ExactCount.  Once the actor has stopped,
\* the commands are gone and the count does not move any more.
ExactInv ==
  lost = {} => /\ state.consumers = Phantom(state.mode) + Cardinality(counted)
               /\ alive => Explained

LEMMA HoldersFinite ==
  ASSUME NEW S \in SUBSET Holders
  PROVE  IsFiniteSet(S) /\ Cardinality(S) \in Nat
<1>1. IsFiniteSet(Holders)
  BY LifecycleAssumption, FS_Union DEF Holders
<1>2. QED
  BY <1>1, FS_Subset, FS_CardinalityType

\* Sending a command extends the explanation by one set.
LEMMA ExplainedAppend ==
  ASSUME TypeOK, Explained,
         NEW c \in Commands, Enables(c, wants),
         queue' = Append(queue, c), wants' = After(c, wants),
         wants' \subseteq Holders, counted' = counted
  PROVE  Explained'
<1>1. PICK b : Explains(b, counted, queue, wants)
  BY DEF Explained
<1> DEFINE n == Len(queue)
           d == [i \in 0..(n + 1) |-> IF i \in 0..n THEN b[i] ELSE wants']
<1>2. /\ queue \in Seq(Commands) /\ n \in Nat
      /\ Len(queue') = n + 1
      /\ queue'[n + 1] = c
      /\ \A i \in 1..n : queue'[i] = queue[i]
  BY DEF TypeOK
<1>3. d \in [0..Len(queue') -> SUBSET Holders]
  BY <1>1, <1>2 DEF Explains
<1>4. d[0] = counted' /\ d[Len(queue')] = wants'
  BY <1>1, <1>2 DEF Explains
<1>5. ASSUME NEW i \in 1..Len(queue')
      PROVE  Enables(queue'[i], d[i - 1]) /\ d[i] = After(queue'[i], d[i - 1])
  <2>1. CASE i \in 1..n
    <3>1. d[i - 1] = b[i - 1] /\ d[i] = b[i] /\ queue'[i] = queue[i]
      BY <1>2, <2>1
    <3>2. QED
      BY <1>1, <2>1, <3>1 DEF Explains
  <2>2. CASE i = n + 1
    <3>1. d[i - 1] = wants /\ d[i] = wants' /\ queue'[i] = c
      BY <1>1, <1>2, <2>2 DEF Explains
    <3>2. QED
      BY <3>1
  <2>3. QED
    BY <1>2, <2>1, <2>2
<1>6. Explains(d, counted', queue', wants')
  BY <1>3, <1>4, <1>5 DEF Explains
<1>7. QED
  BY <1>6 DEF Explained

\* Handling a command drops the first set of the explanation.
LEMMA ExplainedTail ==
  ASSUME TypeOK, Explained, queue # <<>>,
         queue' = Tail(queue), counted' = After(Head(queue), counted), wants' = wants
  PROVE  Explained' /\ Enables(Head(queue), counted)
<1>1. PICK b : Explains(b, counted, queue, wants)
  BY DEF Explained
<1> DEFINE n == Len(queue)
           d == [i \in 0..(n - 1) |-> b[i + 1]]
<1>2. /\ queue \in Seq(Commands) /\ n \in Nat \ {0}
      /\ Len(queue') = n - 1
      /\ Head(queue) = queue[1]
      /\ \A i \in 1..(n - 1) : queue'[i] = queue[i + 1]
  BY DEF TypeOK
<1>3. Enables(queue[1], b[0]) /\ b[1] = After(queue[1], b[0]) /\ b[0] = counted
  BY <1>1, <1>2 DEF Explains
<1>4. d \in [0..Len(queue') -> SUBSET Holders]
  BY <1>1, <1>2 DEF Explains
<1>5. d[0] = counted' /\ d[Len(queue')] = wants'
  BY <1>1, <1>2, <1>3 DEF Explains
<1>6. ASSUME NEW i \in 1..Len(queue')
      PROVE  Enables(queue'[i], d[i - 1]) /\ d[i] = After(queue'[i], d[i - 1])
  <2>1. /\ i + 1 \in 1..n
        /\ d[i - 1] = b[i] /\ d[i] = b[i + 1] /\ queue'[i] = queue[i + 1]
    BY <1>2
  <2>2. Enables(queue[i + 1], b[(i + 1) - 1]) /\ b[i + 1] = After(queue[i + 1], b[(i + 1) - 1])
    BY <1>1, <2>1 DEF Explains
  <2>3. (i + 1) - 1 = i
    BY <1>2
  <2>4. QED
    BY <2>1, <2>2, <2>3
<1>7. Explains(d, counted', queue', wants')
  BY <1>4, <1>5, <1>6 DEF Explains
<1>8. QED
  BY <1>2, <1>3, <1>7 DEF Explained

\* Handling one command moves the counter exactly as it moves the set of
\* holders, provided the command is enabled in that set.
LEMMA HandleCounts ==
  ASSUME TypeOK, CountMatchesPhase, EagerNeverParks, Handle, lost' = {},
         state.consumers = Phantom(state.mode) + Cardinality(counted),
         Enables(Head(queue), counted)
  PROVE  state'.consumers = Phantom(state'.mode) + Cardinality(counted')
<1> DEFINE c == Head(queue)
           op == c.op
<1>1. /\ op \in ConsumerOps \union PipelineOps /\ state' = Apply(op)
      /\ op \in ConsumerOps => c.from \in Holders
      /\ counted' = After(c, counted)
  BY CommandKinds DEF Handle, TypeOK
<1>2. state \in LifecycleStates /\ counted \subseteq Holders
  BY DEF TypeOK
<1>3. IsFiniteSet(counted) /\ Cardinality(counted) \in Nat
  BY <1>2, HoldersFinite
<1>4. state'.mode = state.mode
  BY <1>1, <1>2, ModeNeverChanges
<1>5. Phantom(state.mode) \in {0, 1}
  BY DEF Phantom
<1>6. ASSUME op = "AddConsumer"
      PROVE  state'.consumers = Phantom(state'.mode) + Cardinality(counted')
  <2>1. Cardinality(counted') = Cardinality(counted) + 1
    BY <1>1, <1>3, <1>6, FS_AddElement DEF Enables, After
  <2>2. state.consumers # MaxU32
    BY <1>6 DEF Handle
  <2>3. state'.consumers = state.consumers + 1
    BY <1>1, <1>2, <1>6, <2>2, LifecycleStateAssumption
    DEF Apply, AddConsumer, SaturatingInc, CountMatchesPhase, LifecycleStates
  <2>4. QED
    BY <1>3, <1>4, <1>5, <2>1, <2>3
<1>7. ASSUME op = "RemoveConsumer"
      PROVE  state'.consumers = Phantom(state'.mode) + Cardinality(counted')
  <2>1. c.from \in counted
    BY <1>7 DEF Enables
  <2>2. Cardinality(counted') = Cardinality(counted) - 1
    BY <1>1, <1>3, <1>7, <2>1, FS_RemoveElement DEF After
  <2>3. Cardinality(counted) > 0
    BY <1>3, <2>1, FS_EmptySet
  <2>4. state.consumers > Phantom(state.mode)
    BY <1>3, <1>5, <2>3
  <2>5. state'.consumers = state.consumers - 1
    BY <1>1, <1>2, <1>7, <2>4
    DEF Apply, RemoveConsumer, SaturatingDec, Phantom, CountMatchesPhase, LifecycleStates,
        Modes
  <2>6. QED
    BY <1>3, <1>4, <1>5, <2>2, <2>5
<1>8. ASSUME op \in PipelineOps
      PROVE  state'.consumers = Phantom(state'.mode) + Cardinality(counted')
  <2>1. counted' = counted
    BY <1>1, <1>8 DEF After, PipelineOps
  <2>2. state'.consumers = state.consumers
    BY <1>1, <1>2, <1>8
    DEF Apply, PipelineOps, LifecycleStates, PipelineReady, PipelineError, DrainExpired,
        ResetErrorBackoff
  <2>3. QED
    BY <1>4, <2>1, <2>2
<1>9. QED
  BY <1>1, <1>6, <1>7, <1>8 DEF ConsumerOps

LEMMA ExactInvStep ==
  TypeOK /\ CountMatchesPhase /\ EagerNeverParks /\ ExactInv /\ [Next]_vars => ExactInv'
<1> SUFFICES ASSUME TypeOK, CountMatchesPhase, EagerNeverParks, ExactInv, [Next]_vars,
                    lost' = {}
             PROVE  /\ state'.consumers = Phantom(state'.mode) + Cardinality(counted')
                    /\ alive' => Explained'
  BY DEF ExactInv
<1> DEFINE Goal == /\ state'.consumers = Phantom(state'.mode) + Cardinality(counted')
                   /\ alive' => Explained'
\* A command of who that went into the queue and changed wants accordingly.
<1>1. ASSUME NEW op, NEW who, Command(op, who) \in Commands, alive,
             Enables(Command(op, who), wants),
             queue' = Append(queue, Command(op, who)),
             wants' = After(Command(op, who), wants), wants' \subseteq Holders,
             UNCHANGED <<state, counted, lost>>
      PROVE  Goal
  BY <1>1, ExplainedAppend DEF ExactInv
<1>2. ASSUME NEW h \in Holders, h \notin wants, alive,
             queue' = Append(queue, Command("AddConsumer", h)),
             wants' = wants \union {h}, UNCHANGED <<state, counted, lost>>
      PROVE  Goal
  <2>1. /\ Command("AddConsumer", h) \in Commands
        /\ Enables(Command("AddConsumer", h), wants)
        /\ wants' = After(Command("AddConsumer", h), wants)
        /\ wants' \subseteq Holders
    BY <1>2, CommandsTyped DEF ConsumerOps, Enables, After, TypeOK
  <2>2. QED
    BY <1>1, <1>2, <2>1
<1>3. ASSUME NEW h \in Holders, h \in wants, alive,
             queue' = Append(queue, Command("RemoveConsumer", h)),
             wants' = wants \ {h}, UNCHANGED <<state, counted, lost>>
      PROVE  Goal
  <2>1. /\ Command("RemoveConsumer", h) \in Commands
        /\ Enables(Command("RemoveConsumer", h), wants)
        /\ wants' = After(Command("RemoveConsumer", h), wants)
        /\ wants' \subseteq Holders
    BY <1>3, CommandsTyped DEF ConsumerOps, Enables, After, TypeOK
  <2>2. QED
    BY <1>1, <1>3, <2>1
<1>4. ASSUME NEW h \in Requesters, RequestAdd(h) PROVE Goal
  BY <1>2, <1>4 DEF RequestAdd, Request, Holders
<1>5. ASSUME NEW h \in Requesters, RequestRemove(h) PROVE Goal
  BY <1>3, <1>5 DEF RequestRemove, Request, Holders
<1>6. ASSUME NEW op \in PipelineOps, RequestPipelineOp(op) PROVE Goal
  <2>1. /\ Command(op, Watcher) \in Commands
        /\ Enables(Command(op, Watcher), wants)
        /\ wants' = After(Command(op, Watcher), wants)
        /\ wants' \subseteq Holders
    BY <1>6, CommandsTyped DEF PipelineOps, Enables, After, TypeOK, RequestPipelineOp
  <2>2. QED
    BY <1>1, <1>6, <2>1 DEF RequestPipelineOp, Request
<1>7. ASSUME NEW h \in Background, AddInBackground(h) PROVE Goal
  <2>1. queue' = Append(queue, Command("AddConsumer", h)) /\ UNCHANGED lost
    BY <1>7 DEF AddInBackground, TrySend
  <2>2. QED
    BY <1>2, <1>7, <2>1 DEF AddInBackground, TrySend, Holders
<1>8. ASSUME NEW h \in Background, RemoveInBackground(h) PROVE Goal
  <2>1. queue' = Append(queue, Command("RemoveConsumer", h)) /\ UNCHANGED lost
    BY <1>8 DEF RemoveInBackground, TrySend
  <2>2. QED
    BY <1>3, <1>8, <2>1 DEF RemoveInBackground, TrySend, Holders
<1>9. CASE ShutdownInBackground
  <2>1. /\ Command("Shutdown", NoOne) \in Commands
        /\ Enables(Command("Shutdown", NoOne), wants)
        /\ wants' = After(Command("Shutdown", NoOne), wants)
        /\ wants' \subseteq Holders
    BY <1>9, CommandsTyped DEF Enables, After, TypeOK, ShutdownInBackground
  <2>2. QED
    BY <1>1, <1>9, <2>1 DEF ShutdownInBackground, ShutdownSent
<1>10. CASE Handle
  <2>1. lost = {} /\ alive /\ queue # <<>>
    BY <1>10 DEF Handle
  <2>2. /\ state.consumers = Phantom(state.mode) + Cardinality(counted)
        /\ Explained
    BY <2>1 DEF ExactInv
  <2>3. Explained' /\ Enables(Head(queue), counted)
    BY <1>10, <2>1, <2>2, ExplainedTail DEF Handle
  <2>4. QED
    BY <1>10, <2>2, <2>3, HandleCounts
<1>11. CASE HandleShutdown
  BY <1>11 DEF HandleShutdown, ExactInv
<1>12. CASE UNCHANGED vars
  BY <1>12 DEF vars, ExactInv, Explained
<1>13. QED
  BY <1>4, <1>5, <1>6, <1>7, <1>8, <1>9, <1>10, <1>11, <1>12 DEF Next

\* While no command has been dropped and no add has saturated, the counter of
\* the lifecycle is the number of holders whose last handled command is an add,
\* plus the phantom consumer of an eager stream.
THEOREM CountIsExact == Spec => []ExactCount
<1>1. Init => ExactInv
  <2> SUFFICES ASSUME Init PROVE ExactInv
    OBVIOUS
  <2>1. state.consumers = Phantom(state.mode) + Cardinality(counted)
    BY FS_EmptySet DEF Init, InitialState, Lazy, Eager, Phantom, Modes
  <2>2. Explains([i \in 0..0 |-> {}], counted, queue, wants)
    BY DEF Init, Explains
  <2>3. QED
    BY <2>1, <2>2 DEF ExactInv, Explained
<1>2. ExactInv => ExactCount
  BY DEF ExactInv, ExactCount
<1>3. QED
  BY <1>1, <1>2, TypeCorrect, CountMatchesPhaseAlways, EagerNeverParksAlways, ExactInvStep,
     PTL DEF Spec
-----------------------------------------------------------------------------
(* The count drifts only in the direction of what was lost *)

\* What a command should do to the count.
Moves(c) == CASE c.op = "AddConsumer"    -> 1
              [] c.op = "RemoveConsumer" -> -1
              [] OTHER                   -> 0

\* The consumers beside the phantom.
Counted == state.consumers - Phantom(state.mode)

\* A forecast of a queue: how many consumers there are before its first command
\* and after each one, if the forecast is never too high or never too low.
Forecasts(commands) == [0..Len(commands) -> Nat]

TooLow(f, now, commands, goal) ==
  /\ f \in Forecasts(commands)
  /\ now >= f[0] /\ f[Len(commands)] >= goal
  /\ \A i \in 1..Len(commands) : f[i] <= f[i - 1] + Moves(commands[i])

TooHigh(f, now, commands, goal) ==
  /\ f \in Forecasts(commands)
  /\ now <= f[0] /\ f[Len(commands)] <= goal
  /\ \A i \in 1..Len(commands) : f[i] >= f[i - 1] + Moves(commands[i])

\* The inductive strengthening of DriftFollowsLoss: the holders are within reach
\* of the count also while commands are on their way.
DriftInv ==
  alive => /\ "AddConsumer" \notin lost
                => \E f : TooLow(f, Counted, queue, Cardinality(wants))
           /\ "RemoveConsumer" \notin lost
                => \E f : TooHigh(f, Counted, queue, Cardinality(wants))

\* A forecast is extended by what shall be true behind a new command, ...
LEMMA ForecastAppend ==
  ASSUME NEW q \in Seq(Commands), NEW c \in Commands, NEW f \in Forecasts(q), NEW k \in Nat
  PROVE  \E d \in Forecasts(Append(q, c)) :
           /\ d[0] = f[0] /\ d[Len(Append(q, c))] = k
           /\ \A i \in 1..Len(Append(q, c)) :
                \/ /\ i \in 1..Len(q) /\ Append(q, c)[i] = q[i]
                   /\ d[i - 1] = f[i - 1] /\ d[i] = f[i]
                \/ Append(q, c)[i] = c /\ d[i - 1] = f[Len(q)] /\ d[i] = k
<1> DEFINE n == Len(q)
           d == [i \in 0..(n + 1) |-> IF i \in 0..n THEN f[i] ELSE k]
<1>1. /\ n \in Nat /\ Len(Append(q, c)) = n + 1 /\ Append(q, c)[n + 1] = c
      /\ \A i \in 1..n : Append(q, c)[i] = q[i]
  OBVIOUS
<1>2. d \in Forecasts(Append(q, c))
  BY <1>1 DEF Forecasts
<1>3. d[0] = f[0] /\ d[n + 1] = k
  BY <1>1
<1>4. ASSUME NEW i \in 1..(n + 1)
      PROVE  \/ /\ i \in 1..n /\ Append(q, c)[i] = q[i]
                /\ d[i - 1] = f[i - 1] /\ d[i] = f[i]
             \/ Append(q, c)[i] = c /\ d[i - 1] = f[n] /\ d[i] = k
  <2>1. CASE i \in 1..n
    BY <1>1, <2>1
  <2>2. CASE i = n + 1
    BY <1>1, <2>2
  <2>3. QED
    BY <1>1, <2>1, <2>2
<1>5. QED
  BY <1>1, <1>2, <1>3, <1>4

\* ... and loses its first number with the first command.
LEMMA ForecastTail ==
  ASSUME NEW q \in Seq(Commands), q # <<>>, NEW f \in Forecasts(q)
  PROVE  \E d \in Forecasts(Tail(q)) :
           /\ d[0] = f[1] /\ d[Len(Tail(q))] = f[Len(q)]
           /\ \A i \in 1..Len(Tail(q)) : /\ i + 1 \in 1..Len(q) /\ Tail(q)[i] = q[i + 1]
                                         /\ d[i - 1] = f[(i + 1) - 1] /\ d[i] = f[i + 1]
<1> DEFINE n == Len(q)
           d == [i \in 0..(n - 1) |-> f[i + 1]]
<1>1. /\ n \in Nat \ {0} /\ Len(Tail(q)) = n - 1
      /\ \A i \in 1..(n - 1) : Tail(q)[i] = q[i + 1]
  OBVIOUS
<1>2. d \in Forecasts(Tail(q))
  BY <1>1 DEF Forecasts
<1>3. d[0] = f[1] /\ d[n - 1] = f[n]
  BY <1>1
<1>4. ASSUME NEW i \in 1..(n - 1)
      PROVE  /\ i + 1 \in 1..n /\ Tail(q)[i] = q[i + 1]
             /\ d[i - 1] = f[(i + 1) - 1] /\ d[i] = f[i + 1]
  BY <1>1
<1>5. QED
  BY <1>1, <1>2, <1>3, <1>4

\* A command moves the count as it should, except that a remove finds nobody but
\* the phantom, or an add a full counter, which counts as lost.
LEMMA HandleMoves ==
  ASSUME TypeOK, CountMatchesPhase, EagerNeverParks, Handle
  PROVE  /\ Counted \in Nat /\ Counted' \in Nat
         /\ Head(queue).op = "AddConsumer"
              => Counted' = Counted + 1 \/ ("AddConsumer" \in lost' /\ Counted' = Counted)
         /\ Head(queue).op = "RemoveConsumer"
              => Counted' = Counted - 1 \/ (Counted = 0 /\ Counted' = 0)
         /\ Head(queue).op \notin ConsumerOps => Counted' = Counted
<1> DEFINE op == Head(queue).op
<1>1. op \in ConsumerOps \union PipelineOps /\ state' = Apply(op)
  BY CommandKinds DEF Handle, TypeOK
<1>2. state \in LifecycleStates
  BY DEF TypeOK
<1>3. Phantom(state'.mode) = Phantom(state.mode) /\ Phantom(state.mode) \in {0, 1}
  BY <1>1, <1>2, ModeNeverChanges DEF Phantom
<1>4. CountFits(state)
  BY <1>2 DEF CountFits, CountMatchesPhase, EagerNeverParks, Phantom, LifecycleStates
<1>5. Counted \in Nat /\ state.consumers \in Nat
  BY <1>2, <1>3, <1>4, LifecycleStateAssumption DEF Counted, CountFits, LifecycleStates
<1>6. CASE op = "AddConsumer"
  <2>1. CASE state.consumers = MaxU32
    <3>1. state'.consumers = state.consumers
      BY <1>1, <1>2, <1>4, <1>6, <2>1, LifecycleStateAssumption
      DEF Apply, AddConsumer, SaturatingInc, CountFits, LifecycleStates, Phases
    <3>2. "AddConsumer" \in lost'
      BY <1>6, <2>1 DEF Handle
    <3>3. QED
      BY <1>3, <1>5, <1>6, <3>1, <3>2 DEF Counted, ConsumerOps
  <2>2. CASE state.consumers # MaxU32
    <3>1. state'.consumers = state.consumers + 1
      BY <1>1, <1>2, <1>4, <1>6, <2>2, ConsumerAdded DEF Apply
    <3>2. Counted' = Counted + 1
      BY <1>3, <1>5, <3>1 DEF Counted
    <3>3. Counted' \in Nat
      BY <1>3, <1>5, <3>1, <3>2 DEF Counted
    <3>4. QED
      BY <1>5, <1>6, <3>2, <3>3 DEF ConsumerOps
  <2>3. QED
    BY <2>1, <2>2
<1>7. CASE op = "RemoveConsumer"
  <2>1. CASE state.consumers > Phantom(state.mode)
    <3>1. state'.consumers = state.consumers - 1
      BY <1>1, <1>2, <1>4, <1>7, <2>1, ConsumerRemoved DEF Apply
    <3>2. Counted' = Counted - 1
      BY <1>3, <1>5, <3>1 DEF Counted
    <3>3. Counted' \in Nat
      BY <1>3, <1>5, <3>1, <2>1, <3>2 DEF Counted
    <3>4. QED
      BY <1>5, <1>7, <3>2, <3>3 DEF ConsumerOps
  <2>2. CASE ~(state.consumers > Phantom(state.mode))
    <3>1. state'.consumers = state.consumers /\ state.consumers = Phantom(state.mode)
      BY <1>1, <1>2, <1>4, <1>7, <2>2
      DEF Apply, RemoveConsumer, SaturatingDec, Phantom, CountFits, LifecycleStates, Phases
    <3>2. QED
      BY <1>3, <1>5, <1>7, <3>1 DEF Counted, ConsumerOps
  <2>3. QED
    BY <2>1, <2>2
<1>8. CASE op \in PipelineOps
  <2>1. state'.consumers = state.consumers
    BY <1>1, <1>2, <1>8
    DEF Apply, PipelineOps, LifecycleStates, PipelineReady, PipelineError, DrainExpired,
        ResetErrorBackoff
  <2>2. QED
    BY <1>3, <1>5, <1>8, <2>1 DEF Counted, ConsumerOps, PipelineOps
<1>9. QED
  BY <1>1, <1>6, <1>7, <1>8 DEF ConsumerOps

\* The forecasts of DriftInv live through every step.
LEMMA DriftInvStep ==
  TypeOK /\ CountMatchesPhase /\ EagerNeverParks /\ DriftInv /\ [Next]_vars => DriftInv'
<1> SUFFICES ASSUME TypeOK, CountMatchesPhase, EagerNeverParks, DriftInv, [Next]_vars, alive'
             PROVE  /\ "AddConsumer" \notin lost'
                         => \E f : TooLow(f, Counted', queue', Cardinality(wants'))
                    /\ "RemoveConsumer" \notin lost'
                         => \E f : TooHigh(f, Counted', queue', Cardinality(wants'))
  BY DEF DriftInv
<1> DEFINE n == Cardinality(wants)
           Goal == /\ "AddConsumer" \notin lost'
                         => \E f : TooLow(f, Counted', queue', Cardinality(wants'))
                   /\ "RemoveConsumer" \notin lost'
                         => \E f : TooHigh(f, Counted', queue', Cardinality(wants'))
<1>1. /\ queue \in Seq(Commands) /\ Len(queue) \in Nat
      /\ \A S \in SUBSET Holders : IsFiniteSet(S) /\ Cardinality(S) \in Nat
      /\ n \in Nat
  BY HoldersFinite DEF TypeOK
\* A command that moves the goal as it will move the count goes in.
<1>2. ASSUME alive, NEW c \in Commands, queue' = Append(queue, c), lost' = lost,
             Counted' = Counted, Cardinality(wants') \in Nat,
             Cardinality(wants') = n + Moves(c)
      PROVE  Goal
  <2> DEFINE k == Cardinality(wants')
  <2>1. ASSUME NEW f, TooLow(f, Counted, queue, n)
        PROVE  \E d : TooLow(d, Counted', queue', k)
    <3>1. f \in Forecasts(queue)
      BY <2>1 DEF TooLow
    <3>2. PICK d \in Forecasts(queue') :
            /\ d[0] = f[0] /\ d[Len(queue')] = k
            /\ \A i \in 1..Len(queue') :
                 \/ /\ i \in 1..Len(queue) /\ queue'[i] = queue[i]
                    /\ d[i - 1] = f[i - 1] /\ d[i] = f[i]
                 \/ queue'[i] = c /\ d[i - 1] = f[Len(queue)] /\ d[i] = k
      <4>1. k \in Nat /\ queue \in Seq(Commands) /\ c \in Commands
        BY <1>1, <1>2
      <4>2. QED
        BY <1>2, <3>1, <4>1, ForecastAppend
    <3>3. f[Len(queue)] \in Nat /\ f[Len(queue)] >= n /\ Moves(c) \in {-1, 0, 1}
      BY <1>1, <2>1, <3>1 DEF TooLow, Forecasts, Moves
    <3>4. k <= f[Len(queue)] + Moves(c)
      BY <1>1, <1>2, <3>3
    <3>5. \A i \in 1..Len(queue') : d[i] <= d[i - 1] + Moves(queue'[i])
      BY <2>1, <3>2, <3>4 DEF TooLow
    <3>6. TooLow(d, Counted', queue', k)
      BY <1>2, <2>1, <3>2, <3>5 DEF TooLow
    <3>7. QED
      BY <3>6
  <2>2. ASSUME NEW f, TooHigh(f, Counted, queue, n)
        PROVE  \E d : TooHigh(d, Counted', queue', k)
    <3>1. f \in Forecasts(queue)
      BY <2>2 DEF TooHigh
    <3>2. PICK d \in Forecasts(queue') :
            /\ d[0] = f[0] /\ d[Len(queue')] = k
            /\ \A i \in 1..Len(queue') :
                 \/ /\ i \in 1..Len(queue) /\ queue'[i] = queue[i]
                    /\ d[i - 1] = f[i - 1] /\ d[i] = f[i]
                 \/ queue'[i] = c /\ d[i - 1] = f[Len(queue)] /\ d[i] = k
      <4>1. k \in Nat /\ queue \in Seq(Commands) /\ c \in Commands
        BY <1>1, <1>2
      <4>2. QED
        BY <1>2, <3>1, <4>1, ForecastAppend
    <3>3. f[Len(queue)] \in Nat /\ f[Len(queue)] <= n /\ Moves(c) \in {-1, 0, 1}
      BY <1>1, <2>2, <3>1 DEF TooHigh, Forecasts, Moves
    <3>4. k >= f[Len(queue)] + Moves(c)
      BY <1>1, <1>2, <3>3
    <3>5. \A i \in 1..Len(queue') : d[i] >= d[i - 1] + Moves(queue'[i])
      BY <2>2, <3>2, <3>4 DEF TooHigh
    <3>6. TooHigh(d, Counted', queue', k)
      BY <1>2, <2>2, <3>2, <3>5 DEF TooHigh
    <3>7. QED
      BY <3>6
  <2>3. QED
    BY <1>2, <2>1, <2>2 DEF DriftInv
<1>3. ASSUME NEW h \in Holders, h \notin wants, alive, wants' = wants \union {h},
             queue' = Append(queue, Command("AddConsumer", h)), UNCHANGED <<state, lost>>
      PROVE  Goal
  <2>1. /\ Command("AddConsumer", h) \in Commands
        /\ Moves(Command("AddConsumer", h)) = 1
    BY CommandsTyped DEF ConsumerOps, Moves
  <2>2. Cardinality(wants') = n + 1
    BY <1>1, <1>3, FS_AddElement DEF TypeOK
  <2>3. Cardinality(wants') \in Nat
    BY <1>1, <2>2
  <2>4. QED
    BY <1>1, <1>2, <1>3, <2>1, <2>2, <2>3 DEF Counted
<1>4. ASSUME NEW h \in Holders, h \in wants, alive, wants' = wants \ {h},
             queue' = Append(queue, Command("RemoveConsumer", h)), UNCHANGED <<state, lost>>
      PROVE  Goal
  <2>1. /\ Command("RemoveConsumer", h) \in Commands
        /\ Moves(Command("RemoveConsumer", h)) = -1
    BY CommandsTyped DEF ConsumerOps, Moves
  <2>2. Cardinality(wants') = n - 1
    BY <1>1, <1>4, FS_RemoveElement DEF TypeOK
  <2>3. Cardinality(wants') \in Nat
    BY <1>1, <1>4 DEF TypeOK
  <2>4. QED
    BY <1>1, <1>2, <1>4, <2>1, <2>2, <2>3 DEF Counted
\* A consumer command that was dropped moves the goal away on the side it is lost for.
<1>5. ASSUME NEW h \in Holders, h \notin wants, wants' = wants \union {h},
             alive, lost' = lost \union {"AddConsumer"}, UNCHANGED <<state, queue>>
      PROVE  Goal
  <2>1. Cardinality(wants') = n + 1
    BY <1>1, <1>5, FS_AddElement DEF TypeOK
  <2>2. ASSUME NEW f, TooHigh(f, Counted, queue, n)
        PROVE  TooHigh(f, Counted', queue', Cardinality(wants'))
    <3>1. f[Len(queue)] \in Nat
      BY <1>1, <2>2 DEF TooHigh, Forecasts
    <3>2. QED
      BY <1>1, <1>5, <2>1, <2>2, <3>1 DEF TooHigh, Counted
  <2>3. QED
    BY <1>5, <2>2 DEF DriftInv
<1>6. ASSUME NEW h \in Holders, h \in wants, wants' = wants \ {h},
             alive, lost' = lost \union {"RemoveConsumer"}, UNCHANGED <<state, queue>>
      PROVE  Goal
  <2>1. Cardinality(wants') = n - 1
    BY <1>1, <1>6, FS_RemoveElement DEF TypeOK
  <2>2. ASSUME NEW f, TooLow(f, Counted, queue, n)
        PROVE  TooLow(f, Counted', queue', Cardinality(wants'))
    <3>1. f[Len(queue)] \in Nat
      BY <1>1, <2>2 DEF TooLow, Forecasts
    <3>2. QED
      BY <1>1, <1>6, <2>1, <2>2, <3>1 DEF TooLow, Counted
  <2>3. QED
    BY <1>6, <2>2 DEF DriftInv
<1>7. ASSUME NEW h \in Requesters, RequestAdd(h) PROVE Goal
  BY <1>3, <1>7 DEF RequestAdd, Request, Holders
<1>8. ASSUME NEW h \in Requesters, RequestRemove(h) PROVE Goal
  BY <1>4, <1>8 DEF RequestRemove, Request, Holders
<1>9. ASSUME NEW h \in Background, AddInBackground(h) PROVE Goal
  BY <1>3, <1>5, <1>9 DEF AddInBackground, TrySend, Holders
<1>10. ASSUME NEW h \in Background, RemoveInBackground(h) PROVE Goal
  BY <1>4, <1>6, <1>10 DEF RemoveInBackground, TrySend, Holders
<1>11. ASSUME NEW op \in PipelineOps, RequestPipelineOp(op) PROVE Goal
  <2>1. Command(op, Watcher) \in Commands /\ Moves(Command(op, Watcher)) = 0
    BY CommandsTyped DEF PipelineOps, Moves
  <2>2. QED
    BY <1>1, <1>2, <1>11, <2>1 DEF RequestPipelineOp, Request, Counted
<1>12. CASE ShutdownInBackground
  <2>1. Command("Shutdown", NoOne) \in Commands /\ Moves(Command("Shutdown", NoOne)) = 0
    BY CommandsTyped DEF Moves
  <2>2. alive
    BY <1>12 DEF ShutdownInBackground
  <2>3. QED
    BY <1>1, <1>2, <1>12, <2>1, <2>2 DEF ShutdownInBackground, Counted
<1>13. CASE Handle
  <2> DEFINE c == queue[1]
  <2>1. /\ alive /\ queue # <<>> /\ queue' = Tail(queue) /\ wants' = wants
        /\ c = Head(queue) /\ 1 \in 1..Len(queue) /\ lost \subseteq lost'
    BY <1>1, <1>13 DEF Handle
  <2>2. /\ Counted \in Nat /\ Counted' \in Nat
        /\ c.op = "AddConsumer"
             => Counted' = Counted + 1 \/ ("AddConsumer" \in lost' /\ Counted' = Counted)
        /\ c.op = "RemoveConsumer"
             => Counted' = Counted - 1 \/ (Counted = 0 /\ Counted' = 0)
        /\ c.op \notin ConsumerOps => Counted' = Counted
    BY <1>13, <2>1, HandleMoves
  <2>3. ASSUME NEW f, TooLow(f, Counted, queue, n), "AddConsumer" \notin lost'
        PROVE  \E d : TooLow(d, Counted', queue', Cardinality(wants'))
    <3>1. f \in Forecasts(queue) /\ f[0] \in Nat /\ f[1] \in Nat
      BY <1>1, <2>1, <2>3 DEF TooLow, Forecasts
    <3>2. PICK d \in Forecasts(Tail(queue)) :
            /\ d[0] = f[1] /\ d[Len(Tail(queue))] = f[Len(queue)]
            /\ \A i \in 1..Len(Tail(queue)) :
                  /\ i + 1 \in 1..Len(queue) /\ Tail(queue)[i] = queue[i + 1]
                  /\ d[i - 1] = f[(i + 1) - 1] /\ d[i] = f[i + 1]
      BY <1>1, <2>1, <3>1, ForecastTail
    <3>3. f[1] <= f[0] + Moves(c) /\ Counted >= f[0]
      BY <2>1, <2>3 DEF TooLow
    <3>4. Counted' >= f[1]
      BY <2>2, <2>3, <3>1, <3>3 DEF Moves, ConsumerOps
    <3>5. TooLow(d, Counted', Tail(queue), n)
      BY <2>3, <3>2, <3>4 DEF TooLow
    <3>6. QED
      BY <2>1, <3>5
  <2>4. ASSUME NEW f, TooHigh(f, Counted, queue, n)
        PROVE  \E d : TooHigh(d, Counted', queue', Cardinality(wants'))
    <3>1. f \in Forecasts(queue) /\ f[0] \in Nat /\ f[1] \in Nat
      BY <1>1, <2>1, <2>4 DEF TooHigh, Forecasts
    <3>2. PICK d \in Forecasts(Tail(queue)) :
            /\ d[0] = f[1] /\ d[Len(Tail(queue))] = f[Len(queue)]
            /\ \A i \in 1..Len(Tail(queue)) :
                  /\ i + 1 \in 1..Len(queue) /\ Tail(queue)[i] = queue[i + 1]
                  /\ d[i - 1] = f[(i + 1) - 1] /\ d[i] = f[i + 1]
      BY <1>1, <2>1, <3>1, ForecastTail
    <3>3. f[1] >= f[0] + Moves(c) /\ Counted <= f[0]
      BY <2>1, <2>4 DEF TooHigh
    <3>4. Counted' <= f[1]
      BY <2>2, <3>1, <3>3 DEF Moves, ConsumerOps
    <3>5. TooHigh(d, Counted', Tail(queue), n)
      BY <2>4, <3>2, <3>4 DEF TooHigh
    <3>6. QED
      BY <2>1, <3>5
  <2>5. QED
    BY <2>1, <2>3, <2>4 DEF DriftInv
<1>14. CASE HandleShutdown
  BY <1>14 DEF HandleShutdown
<1>15. CASE UNCHANGED vars
  BY <1>15 DEF vars, DriftInv, Counted
<1>16. QED
  BY <1>7, <1>8, <1>9, <1>10, <1>11, <1>12, <1>13, <1>14, <1>15 DEF Next

\* Once the channel is drained, the count understates the holders only if an add
\* was lost, and overstates them only if a remove was.
THEOREM DriftFollowsLossAlways == Spec => []DriftFollowsLoss
<1>1. Init => DriftInv
  <2> SUFFICES ASSUME Init PROVE DriftInv
    OBVIOUS
  <2> DEFINE f == [i \in 0..0 |-> 0]
  <2>1. Counted = 0 /\ Cardinality(wants) = 0 /\ Len(queue) = 0
    BY FS_EmptySet DEF Init, InitialState, Lazy, Eager, Phantom, Modes, Counted
  <2>2. f \in Forecasts(queue) /\ f[0] = 0
    BY <2>1 DEF Forecasts
  <2>3. TooLow(f, Counted, queue, Cardinality(wants))
    BY <2>1, <2>2 DEF TooLow
  <2>4. TooHigh(f, Counted, queue, Cardinality(wants))
    BY <2>1, <2>2 DEF TooHigh
  <2>5. QED
    BY <2>3, <2>4 DEF DriftInv
<1>2. TypeOK /\ DriftInv => DriftFollowsLoss
  <2> SUFFICES ASSUME TypeOK, DriftInv, alive, queue = <<>>
               PROVE  /\ "AddConsumer" \notin lost
                           => state.consumers >= Phantom(state.mode) + Cardinality(wants)
                      /\ "RemoveConsumer" \notin lost
                           => state.consumers <= Phantom(state.mode) + Cardinality(wants)
    BY DEF DriftFollowsLoss
  <2>1. Cardinality(wants) \in Nat /\ Phantom(state.mode) \in {0, 1} /\ state.consumers \in Nat
    BY HoldersFinite, LifecycleStateAssumption DEF TypeOK, Phantom, LifecycleStates
  <2>2. ASSUME NEW f, TooLow(f, Counted, queue, Cardinality(wants))
        PROVE  state.consumers >= Phantom(state.mode) + Cardinality(wants)
    <3>1. f[0] \in Nat /\ Counted >= f[0] /\ f[0] >= Cardinality(wants)
      BY <2>2 DEF TooLow, Forecasts
    <3>2. QED
      BY <2>1, <3>1 DEF Counted
  <2>3. ASSUME NEW f, TooHigh(f, Counted, queue, Cardinality(wants))
        PROVE  state.consumers <= Phantom(state.mode) + Cardinality(wants)
    <3>1. f[0] \in Nat /\ Counted <= f[0] /\ f[0] <= Cardinality(wants)
      BY <2>3 DEF TooHigh, Forecasts
    <3>2. QED
      BY <2>1, <3>1 DEF Counted
  <2>4. QED
    BY <2>2, <2>3 DEF DriftInv
<1>3. QED
  BY <1>1, <1>2, TypeCorrect, CountMatchesPhaseAlways, EagerNeverParksAlways, DriftInvStep,
     PTL DEF Spec
=============================================================================
