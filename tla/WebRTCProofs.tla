---------------------------- MODULE WebRTCProofs -----------------------------
(***************************************************************************)
(* TLAPS proofs about WebRTC: signalling and its sessions, for any         *)
(* connections and sessions, and the sink of a session, for any encoders,  *)
(* any number of buffers, of offers and of losses of the peer.             *)
(***************************************************************************)
EXTENDS WebRTCSessions, WebRTCPeer, LifecycleStateProofs, FiniteSetTheorems,
        SequenceTheorems, TLAPS

-----------------------------------------------------------------------------
(* The inductive invariant *)

\* add_session has counted a consumer and not yet recorded the session.
Adds(t)     == t[2] = "recv" /\ At(t) \in {"waiting", "attach", "undo", "track"}
Releases(t) == At(t) = "release"
HasInHand(t) == Adds(t) \/ Releases(t)

\* Nothing is left of a stream that is gone.
StreamIs ==
  /\ current \in {0, added}
  /\ ~Exists => /\ tracked = {} /\ counted = {} /\ attached = {}
                /\ life = InitialState(life.mode)
  /\ \A t \in Tasks : /\ Adds(t) => added > 0
                      /\ Releases(t) => task[t].target \in 1..added

\* The count, as long as no consumer was released that was not counted.
Counts ==
  /\ CountFits(life)
  /\ Exists /\ ~strayed => life.consumers = Phantom(life.mode) + Cardinality(counted)

\* A connection works on sessions of its own.
Own ==
  /\ \A t \in Tasks : At(t) \notin {"ready", "done", "select", "drain"} =>
       Doing(t) \in Sessions /\ owner[Doing(t)] = t[1]
  /\ \A c \in Connections : \A s \in active[c] \union orphans[c] \union mailbox[c] : owner[s] = c
  /\ \A s \in tracked \union counted \union attached : owner[s] \in Connections

\* The consumer of a session is in one hand: of the task that adds it, of the
\* stream's record, or of one task that gives it back.
OneHand ==
  /\ \A t \in Tasks : HasInHand(t) => Doing(t) \notin tracked
  /\ \A t, u \in Tasks : HasInHand(t) /\ HasInHand(u) /\ Doing(t) = Doing(u) => t = u

\* Of the first instance of the stream, whoever has the consumer in hand has one
\* that is counted.
FirstCounted ==
  added = 1 /\ Exists =>
    /\ tracked \subseteq counted
    /\ \A t \in Tasks : HasInHand(t) => Doing(t) \in counted

\* A consumer the stream counts is in somebody's hand, and given back to this
\* stream, unless its connection was cut.
Held ==
  /\ \A s \in counted :
       \/ owner[s] \in cut \/ s \in tracked
       \/ \E t \in Tasks : HasInHand(t) /\ Doing(t) = s
  /\ \A t \in Tasks : Releases(t) /\ Doing(t) \in counted => task[t].target = current

\* A recorded session is one its connection can still find.
Listed ==
  \A s \in tracked :
    LET c == owner[s]
    IN  \/ c \in cut \/ s \in active[c] \/ s \in orphans[c]
        \/ At(Main(c)) = "remove" /\ Doing(Main(c)) = s
        \/ At(Recv(c)) = "push" /\ Doing(Recv(c)) = s

\* After its main task has moved on, a connection that was not cut does no more.
Closing ==
  \A c \in Connections :
    /\ At(Main(c)) # "select" /\ c \notin cut => Between(c) /\ active[c] = {}
    /\ At(Main(c)) \in {"select", "done"} => orphans[c] = {}

IInv ==
  /\ TypeOK /\ StreamIs /\ Counts /\ Own /\ OneHand /\ FirstCounted
  /\ (strayed => added > 1)
  /\ NoOrphanSink /\ Held /\ Listed /\ Closing

-----------------------------------------------------------------------------
(* Tasks *)

LEMMA TasksAre ==
    /\ \A c \in Connections :
         /\ Recv(c) \in Tasks /\ Recv(c)[1] = c /\ Recv(c)[2] = "recv"
         /\ Send(c) \in Tasks /\ Send(c)[1] = c /\ Send(c)[2] = "send"
         /\ Main(c) \in Tasks /\ Main(c)[1] = c /\ Main(c)[2] = "main"
         /\ Recv(c) # Send(c) /\ Recv(c) # Main(c) /\ Send(c) # Main(c)
    /\ \A t \in Tasks :
         /\ t[1] \in Connections /\ t[2] \in {"recv", "send", "main"}
         /\ t[2] = "recv" <=> t = Recv(t[1])
         /\ t[2] = "send" <=> t = Send(t[1])
         /\ t[2] = "main" <=> t = Main(t[1])
<1>1. \A c \in Connections :
         /\ Recv(c) \in Tasks /\ Recv(c)[1] = c /\ Recv(c)[2] = "recv"
         /\ Send(c) \in Tasks /\ Send(c)[1] = c /\ Send(c)[2] = "send"
         /\ Main(c) \in Tasks /\ Main(c)[1] = c /\ Main(c)[2] = "main"
    BY DEF Tasks, Recv, Send, Main
<1>2. ASSUME NEW t \in Tasks
      PROVE  /\ t[1] \in Connections /\ t[2] \in {"recv", "send", "main"}
             /\ t[2] = "recv" <=> t = Recv(t[1])
             /\ t[2] = "send" <=> t = Send(t[1])
             /\ t[2] = "main" <=> t = Main(t[1])
    BY <1>2 DEF Tasks, Recv, Send, Main
<1>3. QED
    BY <1>1, <1>2

TaskRecords == [at : Labels, session : Sessions \union {NoOne}, target : 0..MaxInstances]

LEMMA Typed ==
    TypeOK <=> /\ current \in 0..MaxInstances /\ added \in 0..MaxInstances
               /\ live \in BOOLEAN
               /\ attached \subseteq Sessions /\ tracked \subseteq Sessions
               /\ life \in LifecycleStates
               /\ task \in [Tasks -> TaskRecords]
               /\ active \in [Connections -> SUBSET Sessions]
               /\ orphans \in [Connections -> SUBSET Sessions]
               /\ mailbox \in [Connections -> SUBSET Sessions]
               /\ owner \in [Sessions -> Connections \union {NoOne}]
               /\ cut \subseteq Connections
               /\ counted \subseteq Sessions
               /\ strayed \in BOOLEAN
BY DEF TypeOK, TaskRecords

LEMMA TypedNext ==
    TypeOK' <=> /\ current' \in 0..MaxInstances /\ added' \in 0..MaxInstances
                /\ live' \in BOOLEAN
                /\ attached' \subseteq Sessions /\ tracked' \subseteq Sessions
                /\ life' \in LifecycleStates
                /\ task' \in [Tasks -> TaskRecords]
                /\ active' \in [Connections -> SUBSET Sessions]
                /\ orphans' \in [Connections -> SUBSET Sessions]
                /\ mailbox' \in [Connections -> SUBSET Sessions]
                /\ owner' \in [Sessions -> Connections \union {NoOne}]
                /\ cut' \subseteq Connections
                /\ counted' \subseteq Sessions
                /\ strayed' \in BOOLEAN
BY DEF TypeOK, TaskRecords

LEMMA IdleTyped ==
    ASSUME NEW l \in Labels
    PROVE  /\ Idle(l) \in TaskRecords
           /\ Idle(l).at = l /\ Idle(l).session = NoOne /\ Idle(l).target = 0
BY WebRTCSessionsAssumption DEF Idle, TaskRecords

\* One task moves, the others stay.
Moves(t) == task' \in [Tasks -> TaskRecords] /\ \A u \in Tasks \ {t} : task'[u] = task[u]

LEMMA Gone ==
    ASSUME TypeOK, NEW t \in Tasks, NEW l \in Labels, Goto(t, l)
    PROVE  Moves(t) /\ At(t)' = l /\ Doing(t)' = Doing(t) /\ task'[t].target = task[t].target
<1>1. task \in [Tasks -> TaskRecords]
    BY Typed
<1>2. QED
    BY <1>1 DEF Goto, Moves, At, Doing, TaskRecords

LEMMA Taken ==
    ASSUME TypeOK, NEW t \in Tasks, NEW l \in Labels, NEW s \in Sessions, Take(t, s, l)
    PROVE  Moves(t) /\ At(t)' = l /\ Doing(t)' = s
<1>1. task \in [Tasks -> TaskRecords]
    BY Typed
<1>2. QED
    BY <1>1 DEF Take, Moves, At, Doing, TaskRecords

LEMMA Cloned ==
    ASSUME TypeOK, NEW t \in Tasks, NEW l \in Labels, Clone(t, l)
    PROVE  Moves(t) /\ At(t)' = l /\ Doing(t)' = Doing(t) /\ task'[t].target = current
<1>1. task \in [Tasks -> TaskRecords] /\ current \in 0..MaxInstances
    BY Typed
<1>2. QED
    BY <1>1 DEF Clone, Moves, At, Doing, TaskRecords

LEMMA Left ==
    ASSUME TypeOK, NEW t \in Tasks, NEW l \in Labels, Leave(t, l)
    PROVE  Moves(t) /\ At(t)' = l
<1>1. task \in [Tasks -> TaskRecords]
    BY Typed
<1>2. QED
    BY <1>1, IdleTyped DEF Leave, Moves, At

\* Returning from remove_session, to a label at which nothing is in hand.
LEMMA Returned ==
    ASSUME TypeOK, NEW t \in Tasks, Return(t)
    PROVE  /\ Moves(t) /\ At(t)' \in {"ready", "done", "drain"}
           /\ t[2] = "main" => At(t)' = "drain"
           /\ active' \in [Connections -> SUBSET Sessions]
           /\ t[2] = "main" => active' = active
           /\ \A c \in Connections \ {t[1]} : active'[c] = active[c]
           /\ active'[t[1]] \subseteq active[t[1]]
           /\ active[t[1]] \subseteq active'[t[1]] \union {Doing(t)}
<1>1. t[2] \in {"recv", "send", "main"} /\ t[1] \in Connections
    BY TasksAre
<1>2. Caller(t) \in {"ready", "done", "drain"} /\ (t[2] = "main" => Caller(t) = "drain")
    BY <1>1 DEF Caller
<1>3. Moves(t) /\ At(t)' = Caller(t)
    BY <1>2, Left DEF Return, Labels
<1>4. active \in [Connections -> SUBSET Sessions]
    BY Typed
<1>5. QED
    BY <1>1, <1>2, <1>3, <1>4 DEF Return

-----------------------------------------------------------------------------
(* The stream *)

\* What the invariant says of tasks does not change while they do not move.
LEMMA TasksStay ==
    ASSUME UNCHANGED task
    PROVE  /\ \A t : At(t)' = At(t) /\ Doing(t)' = Doing(t) /\ task'[t] = task[t]
           /\ \A t : /\ Adds(t)' <=> Adds(t)
                     /\ Releases(t)' <=> Releases(t)
                     /\ HasInHand(t)' <=> HasInHand(t)
           /\ \A c : Between(c)' <=> Between(c)
BY DEF At, Doing, Adds, Releases, HasInHand, Between

\* The watcher counts nobody.
LEMMA WatcherKeeps ==
    ASSUME IInv, WatcherCreates \/ WatcherFails \/ WatcherParks
    PROVE  IInv'
<1>0. /\ TypeOK /\ life \in LifecycleStates /\ CountFits(life) /\ Exists
      /\ UNCHANGED <<stream, tracked, counted, strayed, task, lists, mailbox, owner, cut>>
      /\ live' \in BOOLEAN /\ attached' \subseteq attached
    BY Typed DEF IInv, Counts, WatcherCreates, WatcherFails, WatcherParks, DropPipeline
<1>1. /\ life' \in LifecycleStates /\ CountFits(life')
      /\ life'.consumers = life.consumers /\ life'.mode = life.mode
    <2>1. /\ PipelineReady(life) \in LifecycleStates /\ CountFits(PipelineReady(life))
          /\ PipelineReady(life).consumers = life.consumers /\ PipelineReady(life).mode = life.mode
        BY <1>0, OperationsTyped, ReportsCountNobody
    <2>2. CASE life' = PipelineReady(life)
        BY <2>1, <2>2
    <2>3. CASE life' = ResetErrorBackoff(PipelineReady(life))
        BY <2>1, <2>3, OperationsTyped, ReportsCountNobody
    <2>4. CASE life' \in {PipelineError(life), DrainExpired(life)}
        BY <1>0, <2>4, OperationsTyped, ReportsCountNobody
    <2>5. QED
        BY <2>2, <2>3, <2>4 DEF WatcherCreates, WatcherFails, WatcherParks
<1>2. UNCHANGED <<current, added, tracked, counted, strayed, task, active, orphans, mailbox, owner, cut>>
    BY <1>0 DEF stream, lists
<1>3. TypeOK'
    BY <1>0, <1>1, <1>2, Typed DEF TypeOK
<1>4. StreamIs' /\ Counts'
    BY <1>0, <1>1, <1>2, TasksStay DEF IInv, StreamIs, Counts, Exists
<1>5. Own' /\ OneHand' /\ FirstCounted' /\ Held' /\ Listed' /\ Closing'
    BY <1>0, <1>2, TasksStay DEF IInv, Own, OneHand, FirstCounted, Held, Listed, Closing, Exists
<1>6. NoOrphanSink'
    BY <1>0, <1>2, TasksStay DEF IInv, NoOrphanSink
<1>7. QED
    BY <1>2, <1>3, <1>4, <1>5, <1>6 DEF IInv

LEMMA RemovedKeeps ==
    ASSUME IInv, StreamRemoved
    PROVE  IInv'
<1>0. /\ TypeOK /\ life.mode \in Modes
      /\ current' = 0 /\ tracked' = {} /\ counted' = {} /\ attached' = {} /\ live' \in BOOLEAN
      /\ life' = InitialState(life.mode)
      /\ UNCHANGED <<added, strayed, task, active, orphans, mailbox, owner, cut>>
    BY Typed DEF IInv, LifecycleStates, StreamRemoved, DropPipeline, lists
<1>1. life' \in LifecycleStates /\ CountFits(life') /\ life' = InitialState(life'.mode)
    BY <1>0, InitialStateTyped DEF CountFits, Phantom, Modes
<1>2. TypeOK'
    BY <1>0, <1>1, Typed, TypedNext, WebRTCSessionsAssumption
<1>3. StreamIs' /\ Counts'
    BY <1>0, <1>1, TasksStay DEF IInv, StreamIs, Counts, Exists
<1>4. Own' /\ OneHand' /\ FirstCounted' /\ Held' /\ Listed' /\ Closing' /\ NoOrphanSink'
    BY <1>0, TasksStay
       DEF IInv, Own, OneHand, FirstCounted, Held, Listed, Closing, NoOrphanSink, Exists
<1>5. QED
    BY <1>0, <1>2, <1>3, <1>4 DEF IInv

\* Of the first instance nobody has a consumer in hand yet.
LEMMA AddedKeeps ==
    ASSUME IInv, StreamAdded
    PROVE  IInv'
<1>0. /\ TypeOK /\ added \in 0..MaxInstances /\ MaxInstances \in Nat /\ added < MaxInstances
      /\ added' = added + 1 /\ current' = added + 1
      /\ tracked = {} /\ counted = {} /\ attached = {} /\ life = InitialState(life.mode)
      /\ life \in LifecycleStates /\ CountFits(life)
      /\ UNCHANGED <<live, attached, tracked, life, counted, strayed, task, active, orphans,
                     mailbox, owner, cut>>
    BY Typed, WebRTCSessionsAssumption
       DEF IInv, StreamIs, Counts, StreamAdded, sinks, account, lists
<1>1. TypeOK'
    BY <1>0, Typed DEF TypeOK
<1>2. StreamIs'
    <2>1. \A t \in Tasks : Releases(t) => task[t].target \in 1..(added + 1)
        BY <1>0 DEF IInv, StreamIs
    <2>2. QED
        BY <1>0, <2>1, TasksStay DEF IInv, StreamIs, Exists
<1>3. Counts'
    <2>1. life.consumers = Phantom(life.mode) /\ Phantom(life.mode) \in Nat
        BY <1>0, InitialStateTyped DEF LifecycleStates, Phantom
    <2>2. QED
        BY <1>0, <2>1, FS_EmptySet DEF Counts
<1>4. FirstCounted'
    <2>1. added = 0 => \A t \in Tasks : ~HasInHand(t)
        BY DEF IInv, StreamIs, HasInHand
    <2>2. QED
        BY <1>0, <2>1, TasksStay DEF FirstCounted
<1>5. Own' /\ OneHand' /\ Held' /\ Listed' /\ Closing' /\ NoOrphanSink'
    BY <1>0, TasksStay DEF IInv, Own, OneHand, Held, Listed, Closing, NoOrphanSink
<1>6. strayed' => added' > 1
    BY <1>0 DEF IInv
<1>7. QED
    BY <1>1, <1>2, <1>3, <1>4, <1>5, <1>6 DEF IInv

\* A sink that gives up tells the connection its session belongs to.
LEMMA SinkEndsKeeps ==
    ASSUME IInv, NEW s \in Sessions, SinkEndsSession(s)
    PROVE  IInv'
<1>0. /\ TypeOK /\ s \in attached /\ owner[s] \in Connections
      /\ mailbox' = [mailbox EXCEPT ![owner[s]] = @ \union {s}]
      /\ mailbox \in [Connections -> SUBSET Sessions]
      /\ UNCHANGED <<current, added, live, attached, tracked, life, counted, strayed, task, active,
                     orphans, owner, cut>>
    BY Typed DEF IInv, Own, SinkEndsSession, stream, sinks, account, lists
<1>1. mailbox' \in [Connections -> SUBSET Sessions]
    BY <1>0
<1>2. TypeOK'
    BY <1>0, <1>1, Typed DEF TypeOK
<1>3. Own'
    BY <1>0, TasksStay DEF IInv, Own
<1>4. StreamIs' /\ Counts' /\ OneHand' /\ FirstCounted' /\ Held' /\ Listed' /\ Closing' /\ NoOrphanSink'
    BY <1>0, TasksStay DEF IInv, StreamIs, Counts, OneHand, FirstCounted, Held, Listed, Closing,
                           NoOrphanSink, Exists
<1>5. QED
    BY <1>0, <1>2, <1>3, <1>4 DEF IInv

-----------------------------------------------------------------------------
(* Manager::add_session *)

LEMMA OthersStay ==
    ASSUME NEW t \in Tasks, Moves(t)
    PROVE  /\ \A u \in Tasks \ {t} :
                /\ At(u)' = At(u) /\ Doing(u)' = Doing(u) /\ task'[u] = task[u]
                /\ Adds(u)' <=> Adds(u)
                /\ Releases(u)' <=> Releases(u)
                /\ HasInHand(u)' <=> HasInHand(u)
           /\ \A c \in Connections \ {t[1]} : Between(c)' <=> Between(c)
<1>1. \A u \in Tasks \ {t} :
         /\ At(u)' = At(u) /\ Doing(u)' = Doing(u) /\ task'[u] = task[u]
         /\ Adds(u)' <=> Adds(u)
         /\ Releases(u)' <=> Releases(u)
         /\ HasInHand(u)' <=> HasInHand(u)
    BY DEF Moves, At, Doing, Adds, Releases, HasInHand
<1>2. QED
    BY <1>1, TasksAre DEF Between

\* A connection whose main task has moved on works on nothing, unless it was cut.
LEMMA BusyBeforeSelect ==
    ASSUME IInv, NEW t \in Tasks, t[2] # "main", At(t) \notin {"ready", "done"}
    PROVE  At(Main(t[1])) = "select" \/ t[1] \in cut
<1>1. t[1] \in Connections /\ (t = Recv(t[1]) \/ t = Send(t[1]))
    BY TasksAre
<1>2. ~Between(t[1])
    BY <1>1 DEF Between
<1>3. QED
    BY <1>1, <1>2 DEF IInv, Closing

\* A move of one task keeps a part of the invariant if it does so at that task.
LEMMA MoveStreamIs ==
    ASSUME IInv, NEW t \in Tasks, Moves(t), UNCHANGED <<current, added>>,
           Exists \/ UNCHANGED <<tracked, counted, attached, life>>,
           Adds(t)' => added > 0,
           Releases(t)' => task'[t].target \in 1..added
    PROVE  StreamIs'
<1>1. \A u \in Tasks : /\ Adds(u) => added > 0
                       /\ Releases(u) => task[u].target \in 1..added
    BY DEF IInv, StreamIs
<1>2. \A u \in Tasks : /\ Adds(u)' => added > 0
                       /\ Releases(u)' => task'[u].target \in 1..added
    BY <1>1, OthersStay
<1>3. /\ current \in {0, added}
      /\ ~Exists => /\ tracked = {} /\ counted = {} /\ attached = {}
                    /\ life = InitialState(life.mode)
    BY DEF IInv, StreamIs
<1>4. QED
    BY <1>2, <1>3 DEF StreamIs, Exists

LEMMA MoveOwn ==
    ASSUME IInv, NEW t \in Tasks, Moves(t), UNCHANGED owner,
           At(t)' \notin {"ready", "done", "select", "drain"} =>
             Doing(t)' \in Sessions /\ owner[Doing(t)'] = t[1],
           \A c \in Connections :
             \A s \in active'[c] \union orphans'[c] \union mailbox'[c] : owner[s] = c,
           \A s \in tracked' \union counted' \union attached' : owner[s] \in Connections
    PROVE  Own'
<1>1. \A u \in Tasks : At(u) \notin {"ready", "done", "select", "drain"} =>
        Doing(u) \in Sessions /\ owner[Doing(u)] = u[1]
    BY DEF IInv, Own
<1>2. \A u \in Tasks : At(u)' \notin {"ready", "done", "select", "drain"} =>
        Doing(u)' \in Sessions /\ owner[Doing(u)'] = u[1]
    BY <1>1, OthersStay
<1>3. QED
    BY <1>2 DEF Own

LEMMA MoveOneHand ==
    ASSUME IInv, NEW t \in Tasks, Moves(t),
           HasInHand(t)' => /\ Doing(t)' \notin tracked'
                            /\ \A u \in Tasks \ {t} : HasInHand(u) => Doing(u) # Doing(t)',
           \A u \in Tasks \ {t} : HasInHand(u) => Doing(u) \notin tracked'
    PROVE  OneHand'
<1>1. \A u, v \in Tasks : HasInHand(u) /\ HasInHand(v) /\ Doing(u) = Doing(v) => u = v
    BY DEF IInv, OneHand
<1>2. \A u \in Tasks : HasInHand(u)' => Doing(u)' \notin tracked'
    BY OthersStay
<1>3. ASSUME NEW u \in Tasks, NEW v \in Tasks, HasInHand(u)', HasInHand(v)', Doing(u)' = Doing(v)'
      PROVE  u = v
    <2>1. CASE u = t
        BY <1>3, <2>1, OthersStay
    <2>2. CASE v = t
        BY <1>3, <2>2, OthersStay
    <2>3. CASE u # t /\ v # t
        BY <1>1, <1>3, <2>3, OthersStay
    <2>4. QED
        BY <2>1, <2>2, <2>3
<1>4. QED
    BY <1>2, <1>3 DEF OneHand

LEMMA MoveFirstCounted ==
    ASSUME IInv, NEW t \in Tasks, Moves(t), UNCHANGED <<current, added>>,
           added = 1 /\ Exists =>
             /\ tracked' \subseteq counted'
             /\ HasInHand(t)' => Doing(t)' \in counted'
             /\ \A u \in Tasks \ {t} : HasInHand(u) => Doing(u) \in counted'
    PROVE  FirstCounted'
<1>1. added = 1 /\ Exists => \A u \in Tasks : HasInHand(u)' => Doing(u)' \in counted'
    BY OthersStay
<1>2. QED
    BY <1>1 DEF FirstCounted, Exists

LEMMA MoveHeld ==
    ASSUME IInv, NEW t \in Tasks, Moves(t), UNCHANGED <<current, owner>>,
           cut \subseteq cut', counted' \subseteq counted,
           \A s \in counted' \intersect tracked :
             \/ s \in tracked' \/ owner[s] \in cut'
             \/ HasInHand(t)' /\ Doing(t)' = s,
           HasInHand(t) /\ Doing(t) \in counted' =>
             \/ Doing(t) \in tracked' \/ owner[Doing(t)] \in cut'
             \/ HasInHand(t)' /\ Doing(t)' = Doing(t),
           Releases(t)' /\ Doing(t)' \in counted' => task'[t].target = current
    PROVE  Held'
<1>1. ASSUME NEW s \in counted'
      PROVE  \/ owner[s] \in cut' \/ s \in tracked'
             \/ \E u \in Tasks : HasInHand(u)' /\ Doing(u)' = s
    <2>1. \/ owner[s] \in cut \/ s \in tracked
          \/ \E u \in Tasks : HasInHand(u) /\ Doing(u) = s
        BY <1>1 DEF IInv, Held
    <2>2. CASE owner[s] \in cut \/ s \in tracked
        BY <1>1, <2>2
    <2>3. CASE \E u \in Tasks : HasInHand(u) /\ Doing(u) = s
        <3>1. PICK u \in Tasks : HasInHand(u) /\ Doing(u) = s
            BY <2>3
        <3>2. CASE u = t
            BY <1>1, <3>1, <3>2
        <3>3. CASE u # t
            <4>1. HasInHand(u)' /\ Doing(u)' = s
                BY <3>1, <3>3, OthersStay
            <4>2. QED
                BY <4>1
        <3>4. QED
            BY <3>2, <3>3
    <2>4. QED
        BY <2>1, <2>2, <2>3
<1>2. \A u \in Tasks : Releases(u) /\ Doing(u) \in counted => task[u].target = current
    BY DEF IInv, Held
<1>3. \A u \in Tasks : Releases(u)' /\ Doing(u)' \in counted' => task'[u].target = current
    BY <1>2, OthersStay
<1>4. QED
    BY <1>1, <1>3 DEF Held

\* The connection of a recorded session can find it.
Finds(c, s) ==
  \/ c \in cut \/ s \in active[c] \/ s \in orphans[c]
  \/ At(Main(c)) = "remove" /\ Doing(Main(c)) = s
  \/ At(Recv(c)) = "push" /\ Doing(Recv(c)) = s

LEMMA MoveListed ==
    ASSUME IInv, NEW t \in Tasks, Moves(t), UNCHANGED owner, cut \subseteq cut',
           \A c \in Connections \ {t[1]} : active'[c] = active[c] /\ orphans'[c] = orphans[c],
           \A s \in tracked' : s \in tracked \/ owner[s] = t[1],
           \A s \in tracked' : owner[s] = t[1] => Finds(t[1], s)'
    PROVE  Listed'
<1>1. \A s \in tracked : owner[s] \in Connections /\ Finds(owner[s], s)
    BY DEF IInv, Own, Listed, Finds
<1>2. ASSUME NEW c \in Connections \ {t[1]}, NEW s, Finds(c, s) PROVE Finds(c, s)'
    <2>1. Main(c) \in Tasks \ {t} /\ Recv(c) \in Tasks \ {t}
        BY TasksAre
    <2>2. /\ At(Main(c))' = At(Main(c)) /\ Doing(Main(c))' = Doing(Main(c))
          /\ At(Recv(c))' = At(Recv(c)) /\ Doing(Recv(c))' = Doing(Recv(c))
        BY <2>1, OthersStay
    <2>3. QED
        BY <1>2, <2>2 DEF Finds
<1>3. \A s \in tracked' : Finds(owner[s], s)'
    BY <1>1, <1>2
<1>4. ASSUME NEW s \in tracked', NEW c, c = owner'[s]
      PROVE  \/ c \in cut' \/ s \in active'[c] \/ s \in orphans'[c]
             \/ At(Main(c))' = "remove" /\ Doing(Main(c))' = s
             \/ At(Recv(c))' = "push" /\ Doing(Recv(c))' = s
    BY <1>3, <1>4 DEF Finds
<1>5. QED
    BY <1>4 DEF Listed

LEMMA MoveClosing ==
    ASSUME IInv, NEW t \in Tasks, Moves(t), cut \subseteq cut',
           \A c \in Connections \ {t[1]} : active'[c] = active[c] /\ orphans'[c] = orphans[c],
           At(Main(t[1]))' # "select" /\ t[1] \notin cut' => Between(t[1])' /\ active'[t[1]] = {},
           At(Main(t[1]))' \in {"select", "done"} => orphans'[t[1]] = {}
    PROVE  Closing'
<1>1. ASSUME NEW c \in Connections
      PROVE  /\ At(Main(c))' # "select" /\ c \notin cut' => Between(c)' /\ active'[c] = {}
             /\ At(Main(c))' \in {"select", "done"} => orphans'[c] = {}
    <2>1. CASE c = t[1]
        BY <2>1
    <2>2. CASE c # t[1]
        <3>1. Main(c) \in Tasks \ {t} /\ c \in Connections \ {t[1]}
            BY <2>2, TasksAre
        <3>2. At(Main(c))' = At(Main(c)) /\ (Between(c)' <=> Between(c))
            BY <3>1, OthersStay
        <3>3. /\ At(Main(c)) # "select" /\ c \notin cut => Between(c) /\ active[c] = {}
              /\ At(Main(c)) \in {"select", "done"} => orphans[c] = {}
            BY DEF IInv, Closing
        <3>4. QED
            BY <3>1, <3>2, <3>3
    <2>3. QED
        BY <2>1, <2>2
<1>2. QED
    BY <1>1 DEF Closing

LEMMA MoveSinks ==
    ASSUME IInv, NEW t \in Tasks, Moves(t), UNCHANGED owner, cut \subseteq cut',
           \A s \in attached' :
             \/ s \in attached
             \/ At(t)' = "track" /\ Doing(t)' = s /\ t = Recv(owner[s]),
           \A s \in attached' \intersect tracked : s \in tracked' \/ owner[s] \in cut',
           t[2] = "recv" /\ At(t) = "track" /\ Doing(t) \in attached' =>
             Doing(t) \in tracked' \/ owner[Doing(t)] \in cut'
    PROVE  NoOrphanSink'
<1>1. ASSUME NEW s \in attached'
      PROVE  \/ s \in tracked'
             \/ At(Recv(owner[s]))' = "track" /\ Doing(Recv(owner[s]))' = s
             \/ owner[s] \in cut'
    <2>1. CASE s \notin attached
        BY <1>1, <2>1
    <2>2. CASE s \in attached
        <3>1. \/ s \in tracked
              \/ At(Recv(owner[s])) = "track" /\ Doing(Recv(owner[s])) = s
              \/ owner[s] \in cut
            BY <2>2 DEF IInv, NoOrphanSink
        <3>2. CASE At(Recv(owner[s])) = "track" /\ Doing(Recv(owner[s])) = s
            <4>1. owner[s] \in Connections /\ Recv(owner[s]) \in Tasks /\ Recv(owner[s])[2] = "recv"
                BY <2>2, TasksAre DEF IInv, Own
            <4>2. CASE Recv(owner[s]) = t
                BY <1>1, <3>2, <4>1, <4>2
            <4>3. CASE Recv(owner[s]) # t
                <5>1. /\ At(Recv(owner[s]))' = At(Recv(owner[s]))
                      /\ Doing(Recv(owner[s]))' = Doing(Recv(owner[s]))
                    BY <4>1, <4>3, OthersStay
                <5>2. QED
                    BY <3>2, <5>1
            <4>4. QED
                BY <4>2, <4>3
        <3>3. QED
            BY <1>1, <3>1, <3>2
    <2>3. QED
        BY <2>1, <2>2
<1>2. QED
    BY <1>1 DEF NoOrphanSink

\* A session that is opened is nobody's yet; it is counted as one more.
LEMMA StartKeeps ==
    ASSUME IInv, NEW c \in Connections, NEW s \in Sessions, StartSession(c, s),
           NEW t, t = Recv(c)
    PROVE  IInv'
<1>0. /\ TypeOK /\ t \in Tasks /\ t[1] = c /\ t[2] = "recv" /\ At(t) = "ready"
      /\ At(Main(c)) = "select" /\ owner[s] = NoOne /\ NoOne \notin Connections
      /\ owner' = [owner EXCEPT ![s] = c]
      /\ owner \in [Sessions -> Connections \union {NoOne}]
      /\ UNCHANGED <<current, added, live, attached, tracked, strayed, active, orphans, mailbox, cut>>
    BY Typed, TasksAre, WebRTCSessionsAssumption DEF IInv, StartSession, stream, sinks, lists
<1>1. owner' \in [Sessions -> Connections \union {NoOne}] /\ owner'[s] = c
      /\ \A q \in Sessions \ {s} : owner'[q] = owner[q]
    BY <1>0
<1>2. /\ Moves(t) /\ At(t)' \in {"waiting", "done"}
      /\ At(t)' = "waiting" => Doing(t)' = s /\ Exists /\ s \in counted'
      /\ \/ UNCHANGED <<life, counted>>
         \/ At(t)' = "waiting" /\ life' = AddConsumer(life) /\ counted' = counted \union {s}
    BY <1>0, Taken, Left DEF StartSession, Labels
<1>3. /\ s \notin tracked /\ s \notin counted /\ s \notin attached
      /\ \A d \in Connections : s \notin active[d] \union orphans[d] \union mailbox[d]
      /\ \A u \in Tasks : HasInHand(u) => Doing(u) # s
    <2>1. \A u \in Tasks : u[1] # NoOne
        BY <1>0, TasksAre
    <2>2. QED
        BY <1>0, <2>1 DEF IInv, Own, HasInHand, Adds, Releases
<1>4. /\ life' \in LifecycleStates /\ CountFits(life') /\ counted' \subseteq Sessions
      /\ Exists /\ ~strayed => life'.consumers = Phantom(life'.mode) + Cardinality(counted')
    <2>0. /\ life \in LifecycleStates /\ CountFits(life) /\ counted \subseteq Sessions
          /\ Exists /\ ~strayed => life.consumers = Phantom(life.mode) + Cardinality(counted)
        BY <1>0, Typed DEF IInv, Counts
    <2>1. CASE UNCHANGED <<life, counted>>
        BY <2>0, <2>1
    <2>2. CASE life' = AddConsumer(life) /\ counted' = counted \union {s}
        <3>1. life' \in LifecycleStates /\ CountFits(life')
            BY <2>0, <2>2, OperationsTyped, AddConsumerFits
        <3>2. ASSUME Exists, ~strayed
              PROVE  life'.consumers = Phantom(life'.mode) + Cardinality(counted')
            <4>1. /\ IsFiniteSet(counted) /\ Cardinality(counted) \in Nat
                  /\ Cardinality(counted') = Cardinality(counted) + 1
                  /\ Cardinality(counted') <= Cardinality(Sessions) /\ Cardinality(Sessions) \in Nat
                BY <1>3, <2>0, <2>2, WebRTCSessionsAssumption,
                   FS_Subset, FS_AddElement, FS_CardinalityType
            <4>2. Phantom(life.mode) \in 0..1
                BY DEF Phantom
            <4>3. life.consumers # MaxU32
                BY <2>0, <3>2, <4>1, <4>2, WebRTCSessionsAssumption, LifecycleStateAssumption
            <4>4. life'.consumers = life.consumers + 1 /\ life'.mode = life.mode
                BY <2>0, <2>2, <4>3, ConsumerAdded
            <4>5. QED
                BY <2>0, <3>2, <4>1, <4>2, <4>4
        <3>3. QED
            BY <2>0, <2>2, <3>1, <3>2
    <2>3. QED
        BY <1>2, <2>1, <2>2
<1>5. TypeOK'
    BY <1>0, <1>1, <1>2, <1>4, Typed, TypedNext DEF Moves
<1>6. /\ Adds(t)' <=> At(t)' = "waiting"
      /\ ~Releases(t)'
      /\ HasInHand(t)' <=> At(t)' = "waiting"
    BY <1>0, <1>2 DEF Adds, Releases, HasInHand, At
<1>7. StreamIs'
    <2>1. UNCHANGED <<current, added>> /\ (Exists \/ UNCHANGED <<tracked, counted, attached, life>>)
        BY <1>0, <1>2
    <2>2. (Adds(t)' => added > 0) /\ (Releases(t)' => task'[t].target \in 1..added)
        BY <1>0, <1>2, <1>6, Typed DEF IInv, StreamIs, Exists
    <2>3. QED
        BY <1>0, <1>2, <2>1, <2>2, MoveStreamIs
<1>8. Counts'
    BY <1>0, <1>4 DEF Counts, Exists
<1>9. Own'
    <2>1. \A u \in Tasks \ {t} : At(u) \notin {"ready", "done", "select", "drain"} =>
            Doing(u) \in Sessions /\ owner[Doing(u)] = u[1] /\ u[1] # NoOne
        BY <1>0, TasksAre DEF IInv, Own
    <2>2. \A u \in Tasks \ {t} : At(u)' \notin {"ready", "done", "select", "drain"} =>
            Doing(u)' \in Sessions /\ owner'[Doing(u)'] = u[1]
        BY <1>0, <1>1, <1>2, <2>1, OthersStay
    <2>3. At(t)' \notin {"ready", "done", "select", "drain"} =>
            Doing(t)' \in Sessions /\ owner'[Doing(t)'] = t[1]
        BY <1>0, <1>1, <1>2
    <2>4. \A d \in Connections : active[d] \union orphans[d] \union mailbox[d] \subseteq Sessions
        BY <1>0, Typed
    <2>5. \A d \in Connections : \A q \in active'[d] \union orphans'[d] \union mailbox'[d] :
            owner'[q] = d
        <3>1. \A d \in Connections : \A q \in active[d] \union orphans[d] \union mailbox[d] :
                owner[q] = d /\ q \in Sessions \ {s}
            BY <1>3, <2>4 DEF IInv, Own
        <3>2. QED
            BY <1>0, <1>1, <3>1
    <2>6. \A q \in tracked' \union counted' \union attached' : owner'[q] \in Connections
        <3>1. \A q \in tracked \union counted \union attached :
                owner[q] \in Connections /\ q \in Sessions
            BY <1>0, Typed DEF IInv, Own
        <3>2. QED
            BY <1>0, <1>1, <1>2, <3>1
    <2>7. \A u \in Tasks : At(u)' \notin {"ready", "done", "select", "drain"} =>
            Doing(u)' \in Sessions /\ owner'[Doing(u)'] = u[1]
        BY <2>2, <2>3
    <2>8. QED
        BY <2>5, <2>6, <2>7 DEF Own
<1>10. OneHand'
    BY <1>0, <1>2, <1>3, <1>6, OthersStay DEF IInv, OneHand
<1>11. FirstCounted'
    BY <1>0, <1>2, <1>6, OthersStay DEF IInv, FirstCounted, Exists
<1>12. Held'
    <2>1. ASSUME NEW q \in counted'
          PROVE  \/ owner'[q] \in cut' \/ q \in tracked'
                 \/ \E u \in Tasks : HasInHand(u)' /\ Doing(u)' = q
        <3>1. CASE q = s
            BY <1>0, <1>2, <1>3, <1>6, <2>1, <3>1
        <3>2. CASE q # s
            <4>1. q \in counted /\ owner'[q] = owner[q]
                BY <1>0, <1>1, <1>2, <2>1, <3>2, Typed
            <4>2. CASE owner[q] \in cut \/ q \in tracked
                BY <1>0, <4>1, <4>2
            <4>3. CASE \E u \in Tasks : HasInHand(u) /\ Doing(u) = q
                <5>1. PICK u \in Tasks : HasInHand(u) /\ Doing(u) = q
                    BY <4>3
                <5>2. u # t
                    BY <1>0, <5>1 DEF HasInHand, Adds, Releases
                <5>3. HasInHand(u)' /\ Doing(u)' = q
                    BY <1>0, <1>2, <5>1, <5>2, OthersStay
                <5>4. QED
                    BY <5>3
            <4>4. QED
                BY <4>1, <4>2, <4>3 DEF IInv, Held
        <3>3. QED
            BY <3>1, <3>2
    <2>2. \A u \in Tasks : Releases(u) => Doing(u) # s
        BY <1>3 DEF HasInHand
    <2>3. \A u \in Tasks : Releases(u) /\ Doing(u) \in counted => task[u].target = current
        BY DEF IInv, Held
    <2>4. ASSUME NEW u \in Tasks, Releases(u)', Doing(u)' \in counted'
          PROVE  task'[u].target = current'
        <3>1. u # t
            BY <1>6, <2>4
        <3>2. Releases(u) /\ Doing(u) = Doing(u)' /\ task'[u] = task[u]
            BY <1>0, <1>2, <2>4, <3>1, OthersStay
        <3>3. QED
            BY <1>0, <1>2, <2>2, <2>3, <2>4, <3>2
    <2>5. QED
        BY <2>1, <2>4 DEF Held
<1>13. Main(c) \in Tasks \ {t} /\ \A d \in Connections : Main(d) \in Tasks \ {t}
    BY <1>0, TasksAre
<1>14. \A d \in Connections : At(Main(d))' = At(Main(d)) /\ Doing(Main(d))' = Doing(Main(d))
    BY <1>0, <1>2, <1>13, OthersStay
<1>15. ASSUME NEW d \in Connections, At(Recv(d)) \in {"push", "track"}
       PROVE  At(Recv(d))' = At(Recv(d)) /\ Doing(Recv(d))' = Doing(Recv(d))
    <2>1. Recv(d) \in Tasks \ {t}
        BY <1>0, <1>15, TasksAre
    <2>2. QED
        BY <1>0, <1>2, <2>1, OthersStay
<1>16. \A q \in tracked \union attached : owner'[q] = owner[q] /\ owner[q] \in Connections
    BY <1>0, <1>1, <1>3, Typed DEF IInv, Own
<1>17. NoOrphanSink'
    <2>1. \A q \in attached : \/ q \in tracked
                              \/ At(Recv(owner[q])) = "track" /\ Doing(Recv(owner[q])) = q
                              \/ owner[q] \in cut
        BY DEF IInv, NoOrphanSink
    <2>2. ASSUME NEW q \in attached', NEW d, d = owner'[q]
          PROVE  q \in tracked' \/ (At(Recv(d))' = "track" /\ Doing(Recv(d))' = q) \/ d \in cut'
        BY <1>0, <1>15, <1>16, <2>1, <2>2
    <2>3. QED
        BY <2>2 DEF NoOrphanSink
<1>18. Listed'
    <2>1. ASSUME NEW q \in tracked, NEW d, d = owner[q]
          PROVE  \/ d \in cut \/ q \in active[d] \/ q \in orphans[d]
                 \/ At(Main(d)) = "remove" /\ Doing(Main(d)) = q
                 \/ At(Recv(d)) = "push" /\ Doing(Recv(d)) = q
        BY <2>1 DEF IInv, Listed
    <2>2. ASSUME NEW q \in tracked', NEW d, d = owner'[q]
          PROVE  \/ d \in cut' \/ q \in active'[d] \/ q \in orphans'[d]
                 \/ At(Main(d))' = "remove" /\ Doing(Main(d))' = q
                 \/ At(Recv(d))' = "push" /\ Doing(Recv(d))' = q
        BY <1>0, <1>14, <1>15, <1>16, <2>1, <2>2
    <2>3. QED
        BY <2>2 DEF Listed
<1>19. Closing'
    BY <1>0, <1>2, <1>14, MoveClosing DEF IInv, Closing
<1>20. QED
    BY <1>0, <1>5, <1>7, <1>8, <1>9, <1>10, <1>11, <1>12, <1>17, <1>18, <1>19 DEF IInv

\* Sender and receiver, unless it is at "push", give up nothing a connection lists
\* except what they forget.
LEMMA StepListed ==
    ASSUME IInv, NEW t \in Tasks, Moves(t), UNCHANGED <<owner, orphans>>, cut \subseteq cut',
           t[2] # "main", At(t) # "push", tracked' \subseteq tracked,
           \A c \in Connections \ {t[1]} : active'[c] = active[c],
           \A s \in tracked' : s \in active[t[1]] => s \in active'[t[1]]
    PROVE  Listed'
<1>1. /\ t[1] \in Connections /\ Main(t[1]) \in Tasks \ {t}
      /\ Recv(t[1]) \in Tasks /\ (Recv(t[1]) = t \/ Recv(t[1]) \in Tasks \ {t})
    BY TasksAre
<1>2. At(Main(t[1]))' = At(Main(t[1])) /\ Doing(Main(t[1]))' = Doing(Main(t[1]))
    BY <1>1, OthersStay
<1>3. At(Recv(t[1])) = "push" =>
        At(Recv(t[1]))' = "push" /\ Doing(Recv(t[1]))' = Doing(Recv(t[1]))
    BY <1>1, OthersStay
<1>4. ASSUME NEW s \in tracked', owner[s] = t[1] PROVE Finds(t[1], s)'
    <2>1. Finds(t[1], s)
        BY <1>4 DEF IInv, Listed, Finds
    <2>2. QED
        BY <1>2, <1>3, <1>4, <2>1 DEF Finds
<1>5. QED
    BY <1>4, MoveListed

\* A task in mid-operation works before main has moved on, or was cut.
LEMMA StepClosing ==
    ASSUME IInv, NEW t \in Tasks, Moves(t), UNCHANGED <<orphans, cut>>,
           t[2] # "main", At(t) \notin {"ready", "done"},
           \A c \in Connections \ {t[1]} : active'[c] = active[c]
    PROVE  Closing'
<1>1. Main(t[1]) \in Tasks \ {t} /\ t[1] \in Connections
    BY TasksAre
<1>2. At(Main(t[1]))' = At(Main(t[1]))
    BY <1>1, OthersStay
<1>3. At(Main(t[1])) = "select" \/ t[1] \in cut
    BY BusyBeforeSelect
<1>4. At(Main(t[1])) \in {"select", "done"} => orphans[t[1]] = {}
    BY <1>1 DEF IInv, Closing
<1>5. QED
    BY <1>2, <1>3, <1>4, MoveClosing

\* The steps of add_session up to the sink: the consumer stays in hand, or the
\* stream has gone with all it counted.
LEMMA AddingKeeps ==
    ASSUME IInv, NEW c \in Connections, Wait(c) \/ Attach(c) \/ Undo(c), NEW t, t = Recv(c)
    PROVE  IInv'
<1>0. /\ TypeOK /\ t \in Tasks /\ t[1] = c /\ t[2] = "recv"
      /\ At(t) \in {"waiting", "attach", "undo"}
      /\ UNCHANGED <<current, added, live, tracked, life, counted, strayed, active, orphans,
                     mailbox, owner, cut>>
    BY TasksAre DEF IInv, Wait, Attach, Undo, stream, sinks, account, lists
<1>1. Adds(t) /\ HasInHand(t) /\ ~Releases(t)
    BY <1>0 DEF HasInHand, Adds, Releases
<1>2. /\ Doing(t) \in Sessions /\ owner[Doing(t)] = c /\ Doing(t) \notin tracked
      /\ added > 0 /\ (Exists => current = added /\ current # 0)
      /\ added = 1 /\ Exists => Doing(t) \in counted /\ tracked \subseteq counted
      /\ ~Exists => counted = {} /\ attached = {}
    BY <1>0, <1>1 DEF IInv, Own, OneHand, StreamIs, FirstCounted, Exists
<1>3. /\ Moves(t) /\ At(t)' \in {"attach", "undo", "track", "release", "done"}
      /\ At(t)' = "done" => ~Exists
      /\ At(t)' # "done" => Doing(t)' = Doing(t)
      /\ At(t)' = "release" => Exists /\ task'[t].target = current
      /\ \/ UNCHANGED attached
         \/ Exists /\ At(t)' = "track" /\ attached' = attached \union {Doing(t)}
    <2>1. CASE Wait(c)
        BY <1>0, <2>1, Gone, Left DEF Wait, Labels, sinks
    <2>2. CASE Attach(c)
        BY <1>0, <2>2, Gone DEF Attach, Labels
    <2>3. CASE Undo(c)
        BY <1>0, <2>3, Cloned, Left DEF Undo, Labels, sinks
    <2>4. QED
        BY <2>1, <2>2, <2>3
<1>4. /\ Adds(t)' <=> At(t)' \in {"attach", "undo", "track"}
      /\ Releases(t)' <=> At(t)' = "release"
      /\ HasInHand(t)' <=> At(t)' # "done"
    BY <1>0, <1>3 DEF Adds, Releases, HasInHand, At
<1>5. TypeOK'
    BY <1>0, <1>2, <1>3, Typed, TypedNext DEF Moves
<1>6. StreamIs'
    <2>1. added \in Nat
        BY <1>0, Typed, WebRTCSessionsAssumption
    <2>2. (Adds(t)' => added > 0) /\ (Releases(t)' => task'[t].target \in 1..added)
        BY <1>2, <1>3, <1>4, <2>1
    <2>3. Exists \/ UNCHANGED <<tracked, counted, attached, life>>
        BY <1>0, <1>3
    <2>4. QED
        BY <1>0, <1>3, <2>2, <2>3, MoveStreamIs
<1>7. Counts' /\ (strayed' => added' > 1)
    BY <1>0 DEF IInv, Counts, Exists
<1>8. Own'
    <2>1. /\ \A d \in Connections :
               \A s \in active'[d] \union orphans'[d] \union mailbox'[d] : owner[s] = d
          /\ \A s \in tracked' \union counted' \union attached' : owner[s] \in Connections
        BY <1>0, <1>2, <1>3 DEF IInv, Own
    <2>2. QED
        BY <1>0, <1>2, <1>3, <2>1, MoveOwn
<1>9. OneHand'
    <2>1. /\ \A u \in Tasks \ {t} : HasInHand(u) => Doing(u) # Doing(t)
          /\ \A u \in Tasks \ {t} : HasInHand(u) => Doing(u) \notin tracked'
        BY <1>0, <1>1 DEF IInv, OneHand
    <2>2. QED
        BY <1>0, <1>2, <1>3, <1>4, <2>1, MoveOneHand
<1>10. FirstCounted'
    <2>1. added = 1 /\ Exists => \A u \in Tasks \ {t} : HasInHand(u) => Doing(u) \in counted'
        BY <1>0 DEF IInv, FirstCounted
    <2>2. QED
        BY <1>0, <1>2, <1>3, <1>4, <2>1, MoveFirstCounted
<1>11. Held'
    BY <1>0, <1>2, <1>3, <1>4, MoveHeld
<1>12. Listed'
    BY <1>0, <1>3, StepListed
<1>13. Closing'
    BY <1>0, <1>3, StepClosing
<1>14. NoOrphanSink'
    BY <1>0, <1>2, <1>3, MoveSinks
<1>15. QED
    BY <1>0, <1>5, <1>6, <1>7, <1>8, <1>9, <1>10, <1>11, <1>12, <1>13, <1>14 DEF IInv

LEMMA TrackKeeps ==
    ASSUME IInv, NEW c \in Connections, Track(c), NEW t, t = Recv(c)
    PROVE  IInv'
<1>0. /\ TypeOK /\ t \in Tasks /\ t[1] = c /\ t[2] = "recv" /\ At(t) = "track"
      /\ tracked' = IF Exists THEN tracked \union {Doing(t)} ELSE tracked
      /\ UNCHANGED <<current, added, live, attached, life, counted, strayed, active, orphans,
                     mailbox, owner, cut>>
    BY TasksAre DEF IInv, Track, stream, sinks, account, lists
<1>1. HasInHand(t)
    BY <1>0 DEF HasInHand, Adds
<1>2. /\ Doing(t) \in Sessions /\ owner[Doing(t)] = c
      /\ ~Exists => counted = {} /\ attached = {}
      /\ added = 1 /\ Exists => Doing(t) \in counted /\ tracked \subseteq counted
    BY <1>0, <1>1 DEF IInv, Own, StreamIs, FirstCounted, Exists
<1>3. Moves(t) /\ At(t)' = "push" /\ Doing(t)' = Doing(t)
    BY <1>0, Gone DEF Track, Labels
<1>4. ~Adds(t)' /\ ~Releases(t)' /\ ~HasInHand(t)'
    BY <1>0, <1>3 DEF Adds, Releases, HasInHand, At
<1>5. \A u \in Tasks \ {t} : HasInHand(u) => Doing(u) \notin tracked'
    <2>1. \A u \in Tasks \ {t} : HasInHand(u) => Doing(u) \notin tracked /\ Doing(u) # Doing(t)
        BY <1>0, <1>1 DEF IInv, OneHand
    <2>2. QED
        BY <1>0, <2>1
<1>6. TypeOK'
    BY <1>0, <1>2, <1>3, Typed, TypedNext DEF Moves
<1>7. StreamIs'
    BY <1>0, <1>3, <1>4, MoveStreamIs
<1>8. Counts' /\ (strayed' => added' > 1)
    BY <1>0 DEF IInv, Counts, Exists
<1>9. Own'
    <2>1. /\ \A d \in Connections :
               \A s \in active'[d] \union orphans'[d] \union mailbox'[d] : owner[s] = d
          /\ \A s \in tracked' \union counted' \union attached' : owner[s] \in Connections
        BY <1>0, <1>2 DEF IInv, Own
    <2>2. QED
        BY <1>0, <1>2, <1>3, <2>1, MoveOwn
<1>10. OneHand'
    BY <1>0, <1>3, <1>4, <1>5, MoveOneHand
<1>11. FirstCounted'
    <2>1. added = 1 /\ Exists => \A u \in Tasks \ {t} : HasInHand(u) => Doing(u) \in counted'
        BY <1>0 DEF IInv, FirstCounted
    <2>2. QED
        BY <1>0, <1>2, <1>3, <1>4, <2>1, MoveFirstCounted
<1>12. Held'
    BY <1>0, <1>2, <1>3, <1>4, MoveHeld
<1>13. Listed'
    <2>1. Main(c) \in Tasks \ {t} /\ t = Recv(c)
        BY <1>0, TasksAre
    <2>2. At(Main(c))' = At(Main(c)) /\ Doing(Main(c))' = Doing(Main(c))
        BY <1>0, <1>3, <2>1, OthersStay
    <2>3. ASSUME NEW s \in tracked', owner[s] = c PROVE Finds(c, s)'
        <3>1. CASE s = Doing(t)
            BY <1>0, <1>3, <2>1, <3>1 DEF Finds
        <3>2. CASE s # Doing(t)
            <4>1. Finds(c, s)
                BY <1>0, <2>3, <3>2 DEF IInv, Listed, Finds
            <4>2. QED
                BY <1>0, <2>1, <2>2, <4>1 DEF Finds
        <3>3. QED
            BY <3>1, <3>2
    <2>4. \A s \in tracked' : s \in tracked \/ owner[s] = t[1]
        BY <1>0, <1>2
    <2>5. QED
        BY <1>0, <1>3, <2>3, <2>4, MoveListed
<1>14. Closing'
    BY <1>0, <1>3, StepClosing
<1>15. NoOrphanSink'
    BY <1>0, <1>2, <1>3, MoveSinks
<1>16. QED
    BY <1>6, <1>7, <1>8, <1>9, <1>10, <1>11, <1>12, <1>13, <1>14, <1>15 DEF IInv

LEMMA PushKeeps ==
    ASSUME IInv, NEW c \in Connections, Push(c), NEW t, t = Recv(c)
    PROVE  IInv'
<1>0. /\ TypeOK /\ t \in Tasks /\ t[1] = c /\ t[2] = "recv" /\ At(t) = "push"
      /\ active' = [active EXCEPT ![c] = @ \union {Doing(t)}]
      /\ active \in [Connections -> SUBSET Sessions]
      /\ UNCHANGED <<current, added, live, attached, tracked, life, counted, strayed, orphans,
                     mailbox, owner, cut>>
    BY Typed, TasksAre DEF IInv, Push, stream, sinks, account
<1>1. Doing(t) \in Sessions /\ owner[Doing(t)] = c
    BY <1>0 DEF IInv, Own
<1>2. /\ active' \in [Connections -> SUBSET Sessions]
      /\ \A d \in Connections \ {c} : active'[d] = active[d]
      /\ active'[c] = active[c] \union {Doing(t)}
    BY <1>0, <1>1
<1>3. Moves(t) /\ At(t)' = "ready"
    BY <1>0, Left DEF Push, Labels
<1>4. /\ ~Adds(t)' /\ ~Releases(t)' /\ ~HasInHand(t)'
      /\ ~HasInHand(t)
    BY <1>0, <1>3 DEF Adds, Releases, HasInHand, At
<1>5. TypeOK'
    BY <1>0, <1>2, <1>3, Typed, TypedNext DEF Moves
<1>6. StreamIs'
    BY <1>0, <1>3, <1>4, MoveStreamIs
<1>7. Counts' /\ (strayed' => added' > 1)
    BY <1>0 DEF IInv, Counts, Exists
<1>8. Own'
    <2>1. /\ \A d \in Connections :
               \A s \in active'[d] \union orphans'[d] \union mailbox'[d] : owner[s] = d
          /\ \A s \in tracked' \union counted' \union attached' : owner[s] \in Connections
        BY <1>0, <1>1, <1>2 DEF IInv, Own
    <2>2. QED
        BY <1>0, <1>3, <2>1, MoveOwn
<1>9. OneHand'
    <2>1. \A u \in Tasks \ {t} : HasInHand(u) => Doing(u) \notin tracked'
        BY <1>0 DEF IInv, OneHand
    <2>2. QED
        BY <1>0, <1>3, <1>4, <2>1, MoveOneHand
<1>10. FirstCounted'
    <2>1. added = 1 /\ Exists => /\ tracked' \subseteq counted'
                                 /\ \A u \in Tasks \ {t} : HasInHand(u) => Doing(u) \in counted'
        BY <1>0 DEF IInv, FirstCounted
    <2>2. QED
        BY <1>0, <1>3, <1>4, <2>1, MoveFirstCounted
<1>11. Held'
    BY <1>0, <1>3, <1>4, MoveHeld
<1>12. Listed'
    <2>1. Main(c) \in Tasks \ {t}
        BY <1>0, TasksAre
    <2>2. At(Main(c))' = At(Main(c)) /\ Doing(Main(c))' = Doing(Main(c))
        BY <1>0, <1>3, <2>1, OthersStay
    <2>3. ASSUME NEW s \in tracked', owner[s] = c PROVE Finds(c, s)'
        <3>1. Finds(c, s)
            BY <1>0, <2>3 DEF IInv, Listed, Finds
        <3>2. QED
            BY <1>0, <1>2, <2>2, <3>1 DEF Finds
    <2>4. QED
        BY <1>0, <1>2, <1>3, <2>3, MoveListed
<1>13. Closing'
    BY <1>0, <1>2, <1>3, StepClosing
<1>14. NoOrphanSink'
    BY <1>0, <1>3, MoveSinks
<1>15. QED
    BY <1>5, <1>6, <1>7, <1>8, <1>9, <1>10, <1>11, <1>12, <1>13, <1>14 DEF IInv

-----------------------------------------------------------------------------
(* Manager::remove_session *)

\* Whichever task removes a session: what it forgets is no longer recorded.
LEMMA RemovingFinds ==
    ASSUME IInv, NEW t \in Tasks, Moves(t), At(t) \in {"remove", "release"},
           UNCHANGED <<owner, orphans, cut>>,
           tracked' \subseteq tracked, Doing(t) \notin tracked',
           t[2] = "main" => At(t)' \in {"release", "drain"} /\ active' = active,
           \A c \in Connections \ {t[1]} : active'[c] = active[c],
           active[t[1]] \subseteq active'[t[1]] \union {Doing(t)}
    PROVE  Listed' /\ Closing'
<1>1. CASE t[2] # "main"
    BY <1>1, StepListed, StepClosing
<1>2. CASE t[2] = "main"
    <2>1. /\ t[1] \in Connections /\ t = Main(t[1])
          /\ Recv(t[1]) \in Tasks \ {t} /\ Send(t[1]) \in Tasks \ {t}
        BY <1>2, TasksAre
    <2>2. /\ At(Recv(t[1]))' = At(Recv(t[1])) /\ Doing(Recv(t[1]))' = Doing(Recv(t[1]))
          /\ At(Send(t[1]))' = At(Send(t[1]))
        BY <2>1, OthersStay
    <2>3. Between(t[1])' <=> Between(t[1])
        BY <2>2 DEF Between
    <2>4. At(t)' \in {"release", "drain"} /\ active' = active
        BY <1>2
    <2>5. Closing'
        <3>1. t[1] \notin cut => Between(t[1]) /\ active[t[1]] = {}
            BY <2>1 DEF IInv, Closing
        <3>2. /\ At(Main(t[1]))' # "select" /\ t[1] \notin cut' =>
                   Between(t[1])' /\ active'[t[1]] = {}
              /\ At(Main(t[1]))' \notin {"select", "done"}
            BY <2>1, <2>3, <2>4, <3>1
        <3>3. QED
            BY <3>2, MoveClosing
    <2>6. ASSUME NEW s \in tracked', owner[s] = t[1] PROVE Finds(t[1], s)'
        <3>1. Finds(t[1], s) /\ s # Doing(t)
            BY <2>6 DEF IInv, Listed, Finds
        <3>2. QED
            BY <2>1, <2>2, <2>4, <3>1 DEF Finds
    <2>7. Listed'
        BY <2>6, MoveListed
    <2>8. QED
        BY <2>5, <2>7
<1>3. QED
    BY <1>1, <1>2

LEMMA RemoveKeeps ==
    ASSUME IInv, NEW t \in Tasks, RemoveSession(t)
    PROVE  IInv'
<1>0. /\ TypeOK /\ At(t) = "remove" /\ t[1] \in Connections
      /\ Doing(t) \in Sessions /\ owner[Doing(t)] = t[1]
      /\ active \in [Connections -> SUBSET Sessions]
      /\ UNCHANGED <<current, added, live, life, counted, strayed, orphans, mailbox, owner, cut>>
    BY Typed, TasksAre DEF IInv, Own, RemoveSession, stream, account
<1>1. ~HasInHand(t)
    BY <1>0 DEF HasInHand, Adds, Releases
<1>2. /\ ~Exists => tracked = {}
      /\ Exists => current = added /\ added > 0
      /\ added = 1 /\ Exists => tracked \subseteq counted
    BY <1>0, Typed, WebRTCSessionsAssumption DEF IInv, StreamIs, FirstCounted, Exists
\* Either a recorded session is taken off the record and its sink away,
\* or there is nothing to do.
<1>3. \/ /\ Exists /\ Doing(t) \in tracked
         /\ tracked' = tracked \ {Doing(t)} /\ attached' = attached \ {Doing(t)}
         /\ active' = active
         /\ At(t)' = "release" /\ Doing(t)' = Doing(t) /\ task'[t].target = current
      \/ /\ Doing(t) \notin tracked /\ UNCHANGED <<tracked, attached>>
         /\ At(t)' \in {"ready", "done", "drain"}
    <2>1. CASE Exists /\ Doing(t) \in tracked
        BY <2>1, <1>0, Cloned DEF RemoveSession, Labels
    <2>2. CASE ~(Exists /\ Doing(t) \in tracked)
        BY <2>2, <1>0, <1>2, Returned DEF RemoveSession
    <2>3. QED
        BY <2>1, <2>2
<1>4. /\ Moves(t)
      /\ t[2] = "main" => At(t)' \in {"release", "drain"} /\ active' = active
      /\ active' \in [Connections -> SUBSET Sessions]
      /\ \A c \in Connections \ {t[1]} : active'[c] = active[c]
      /\ active'[t[1]] \subseteq active[t[1]]
      /\ active[t[1]] \subseteq active'[t[1]] \union {Doing(t)}
    <2>1. CASE Exists /\ Doing(t) \in tracked
        BY <2>1, <1>0, Cloned DEF RemoveSession, Labels
    <2>2. CASE ~(Exists /\ Doing(t) \in tracked)
        BY <2>2, <1>0, Returned DEF RemoveSession
    <2>3. QED
        BY <2>1, <2>2
<1>5. /\ tracked' \subseteq tracked /\ attached' \subseteq attached /\ Doing(t) \notin tracked'
      /\ \A s \in tracked : s \in tracked' \/ (s = Doing(t) /\ s \notin attached' /\ At(t)' = "release")
    BY <1>3
<1>6. /\ ~Adds(t)'
      /\ Releases(t)' <=> At(t)' = "release"
      /\ HasInHand(t)' <=> At(t)' = "release"
    BY <1>3 DEF Adds, Releases, HasInHand, At
<1>7. TypeOK'
    BY <1>0, <1>4, <1>5, Typed, TypedNext DEF Moves
<1>8. StreamIs'
    <2>1. added \in Nat
        BY <1>0, Typed, WebRTCSessionsAssumption
    <2>2. Releases(t)' => task'[t].target \in 1..added
        BY <1>2, <1>3, <1>6, <2>1
    <2>3. Exists \/ UNCHANGED <<tracked, counted, attached, life>>
        BY <1>0, <1>3
    <2>4. QED
        BY <1>0, <1>4, <1>6, <2>2, <2>3, MoveStreamIs
<1>9. Counts' /\ (strayed' => added' > 1)
    BY <1>0 DEF IInv, Counts, Exists
<1>10. Own'
    <2>1. At(t)' \notin {"ready", "done", "select", "drain"} =>
            Doing(t)' \in Sessions /\ owner[Doing(t)'] = t[1]
        BY <1>0, <1>3
    <2>2. \A d \in Connections : active'[d] \subseteq active[d]
        BY <1>4
    <2>3. /\ \A d \in Connections :
               \A s \in active'[d] \union orphans'[d] \union mailbox'[d] : owner[s] = d
          /\ \A s \in tracked' \union counted' \union attached' : owner[s] \in Connections
        BY <1>0, <1>5, <2>2 DEF IInv, Own
    <2>4. QED
        BY <1>0, <1>4, <2>1, <2>3, MoveOwn
<1>11. OneHand'
    <2>1. \A u \in Tasks : HasInHand(u) => Doing(u) \notin tracked
        BY DEF IInv, OneHand
    <2>2. /\ \A u \in Tasks : HasInHand(u) => Doing(u) \notin tracked'
          /\ At(t)' = "release" => /\ Doing(t)' \notin tracked'
                                   /\ \A u \in Tasks : HasInHand(u) => Doing(u) # Doing(t)'
        BY <1>3, <1>5, <2>1
    <2>3. QED
        BY <1>4, <1>6, <2>2, MoveOneHand
<1>12. FirstCounted'
    <2>1. added = 1 /\ Exists => \A u \in Tasks \ {t} : HasInHand(u) => Doing(u) \in counted'
        BY <1>0 DEF IInv, FirstCounted
    <2>2. added = 1 /\ Exists => tracked' \subseteq counted' /\ (HasInHand(t)' => Doing(t)' \in counted')
        BY <1>0, <1>2, <1>3, <1>5, <1>6
    <2>3. QED
        BY <1>0, <1>4, <2>1, <2>2, MoveFirstCounted
<1>13. Held'
    <2>1. \A s \in tracked : s \in tracked' \/ (HasInHand(t)' /\ Doing(t)' = s)
        BY <1>3, <1>5, <1>6
    <2>2. Releases(t)' => task'[t].target = current
        BY <1>3, <1>6
    <2>3. QED
        BY <1>0, <1>1, <1>4, <2>1, <2>2, MoveHeld
<1>14. Listed' /\ Closing'
    BY <1>0, <1>4, <1>5, RemovingFinds
<1>15. NoOrphanSink'
    <2>1. \A s \in attached' \intersect tracked : s \in tracked'
        BY <1>5
    <2>2. QED
        BY <1>0, <1>4, <1>5, <2>1, MoveSinks
<1>16. QED
    BY <1>7, <1>8, <1>9, <1>10, <1>11, <1>12, <1>13, <1>14, <1>15 DEF IInv

\* The consumer is given back: counted down if this stream counted it, and it did
\* if it is the first of its id.
LEMMA ReleaseKeeps ==
    ASSUME IInv, NEW t \in Tasks, Release(t)
    PROVE  IInv'
<1>0. /\ TypeOK /\ At(t) = "release" /\ t[1] \in Connections
      /\ Doing(t) \in Sessions /\ owner[Doing(t)] = t[1]
      /\ counted \subseteq Sessions /\ added \in Nat /\ life \in LifecycleStates /\ CountFits(life)
      /\ strayed \in BOOLEAN
      /\ UNCHANGED <<current, added, live, attached, tracked, orphans, mailbox, owner, cut>>
    BY Typed, TasksAre, WebRTCSessionsAssumption
       DEF IInv, Own, Counts, Release, stream, sinks
<1>1. Releases(t) /\ HasInHand(t)
    BY <1>0 DEF HasInHand, Releases
<1>2. /\ Doing(t) \notin tracked /\ task[t].target \in 1..added /\ current \in {0, added}
      /\ Doing(t) \in counted => task[t].target = current
      /\ added = 1 /\ Exists => Doing(t) \in counted
    BY <1>1 DEF IInv, OneHand, StreamIs, Held, FirstCounted
<1>3. /\ Moves(t) /\ At(t)' \in {"ready", "done", "drain"}
      /\ t[2] = "main" => At(t)' \in {"release", "drain"} /\ active' = active
      /\ active' \in [Connections -> SUBSET Sessions]
      /\ \A c \in Connections \ {t[1]} : active'[c] = active[c]
      /\ active'[t[1]] \subseteq active[t[1]]
      /\ active[t[1]] \subseteq active'[t[1]] \union {Doing(t)}
    BY <1>0, Returned DEF Release
<1>4. ~Adds(t)' /\ ~Releases(t)' /\ ~HasInHand(t)'
    BY <1>3 DEF Adds, Releases, HasInHand, At
<1>5. /\ life' \in LifecycleStates /\ CountFits(life') /\ strayed' \in BOOLEAN
      /\ counted' = counted \ {Doing(t)}
      /\ Exists \/ UNCHANGED <<life, counted>>
      /\ strayed' => added > 1
      /\ Exists /\ ~strayed' => life'.consumers = Phantom(life'.mode) + Cardinality(counted')
    <2>1. CASE task[t].target # current
        <3>1. UNCHANGED <<life, counted, strayed>> /\ Doing(t) \notin counted
            BY <1>2, <2>1 DEF Release, account
        <3>2. QED
            BY <1>0, <3>1 DEF IInv, Counts
    <2>2. CASE task[t].target = current
        <3>1. /\ Exists /\ current = added
              /\ life' = RemoveConsumer(life) /\ counted' = counted \ {Doing(t)}
              /\ strayed' = (strayed \/ Doing(t) \notin counted)
            BY <1>0, <1>2, <2>2 DEF Release, Exists
        <3>2. life' \in LifecycleStates /\ CountFits(life')
            BY <1>0, <3>1, OperationsTyped, RemoveConsumerFits
        <3>3. strayed' => added > 1
            <4>1. strayed => added > 1
                BY DEF IInv
            <4>2. Doing(t) \notin counted => added # 1 /\ added >= 1
                BY <1>0, <1>2, <3>1
            <4>3. QED
                BY <1>0, <3>1, <4>1, <4>2
        <3>4. ASSUME ~strayed'
              PROVE  life'.consumers = Phantom(life'.mode) + Cardinality(counted')
            <4>1. ~strayed /\ Doing(t) \in counted
                BY <1>0, <3>1, <3>4
            <4>2. life.consumers = Phantom(life.mode) + Cardinality(counted)
                BY <3>1, <4>1 DEF IInv, Counts
            <4>3. /\ IsFiniteSet(counted) /\ Cardinality(counted) \in Nat
                  /\ Cardinality(counted') \in Nat
                  /\ Cardinality(counted') = Cardinality(counted) - 1
                BY <1>0, <3>1, <4>1, WebRTCSessionsAssumption,
                   FS_Subset, FS_RemoveElement, FS_CardinalityType
            <4>4. Phantom(life.mode) \in 0..1
                BY DEF Phantom
            <4>5. life.consumers > Phantom(life.mode)
                BY <4>2, <4>3, <4>4
            <4>6. life'.consumers = life.consumers - 1 /\ life'.mode = life.mode
                BY <1>0, <3>1, <4>5, ConsumerRemoved
            <4>7. QED
                BY <4>2, <4>3, <4>4, <4>6
        <3>5. QED
            BY <1>0, <3>1, <3>2, <3>3, <3>4
    <2>3. QED
        BY <2>1, <2>2
<1>6. TypeOK'
    BY <1>0, <1>3, <1>5, Typed, TypedNext DEF Moves
<1>7. StreamIs'
    BY <1>0, <1>3, <1>4, <1>5, MoveStreamIs
<1>8. Counts' /\ (strayed' => added' > 1)
    BY <1>0, <1>5 DEF Counts, Exists
<1>9. Own'
    <2>1. \A d \in Connections : active'[d] \subseteq active[d]
        BY <1>3
    <2>2. /\ \A d \in Connections :
               \A s \in active'[d] \union orphans'[d] \union mailbox'[d] : owner[s] = d
          /\ \A s \in tracked' \union counted' \union attached' : owner[s] \in Connections
        BY <1>0, <1>5, <2>1 DEF IInv, Own
    <2>3. QED
        BY <1>0, <1>3, <2>2, MoveOwn
<1>10. OneHand'
    <2>1. \A u \in Tasks \ {t} : HasInHand(u) => Doing(u) \notin tracked'
        BY <1>0 DEF IInv, OneHand
    <2>2. QED
        BY <1>3, <1>4, <2>1, MoveOneHand
<1>11. FirstCounted'
    <2>1. \A u \in Tasks \ {t} : HasInHand(u) => Doing(u) # Doing(t)
        BY <1>1 DEF IInv, OneHand
    <2>2. added = 1 /\ Exists => /\ tracked' \subseteq counted'
                                 /\ \A u \in Tasks \ {t} : HasInHand(u) => Doing(u) \in counted'
        BY <1>0, <1>2, <1>5, <2>1 DEF IInv, FirstCounted
    <2>3. QED
        BY <1>0, <1>3, <1>4, <2>2, MoveFirstCounted
<1>12. Held'
    BY <1>0, <1>3, <1>4, <1>5, MoveHeld
<1>13. Listed' /\ Closing'
    BY <1>0, <1>2, <1>3, RemovingFinds
<1>14. NoOrphanSink'
    BY <1>0, <1>3, MoveSinks
<1>15. QED
    BY <1>6, <1>7, <1>8, <1>9, <1>10, <1>11, <1>12, <1>13, <1>14 DEF IInv

-----------------------------------------------------------------------------
(* The rest of a connection *)

\* A question of the client or of a sink sets an idle task to work, or ends it.
LEMMA IdleKeeps ==
    ASSUME IInv, NEW t \in Tasks,
           \/ \E s \in Sessions : ClientEndsSession(t[1], s) /\ t = Recv(t[1])
           \/ SenderEndsSession(t[1]) /\ t = Send(t[1])
           \/ TaskEnds(t)
    PROVE  IInv'
<1>0. /\ TypeOK /\ At(t) = "ready" /\ t[1] \in Connections /\ t[2] # "main"
      /\ mailbox \in [Connections -> SUBSET Sessions]
      /\ UNCHANGED <<current, added, live, attached, tracked, life, counted, strayed, active,
                     orphans, owner, cut>>
    BY Typed, TasksAre DEF IInv, ClientEndsSession, SenderEndsSession, TaskEnds,
                           stream, sinks, account, lists
<1>1. /\ Moves(t) /\ At(t)' \in {"remove", "done"}
      /\ At(t)' = "remove" => /\ At(Main(t[1])) = "select"
                              /\ Doing(t)' \in Sessions /\ owner[Doing(t)'] = t[1]
    <2>1. CASE \E s \in Sessions : ClientEndsSession(t[1], s) /\ t = Recv(t[1])
        BY <1>0, <2>1, Taken DEF ClientEndsSession, Labels
    <2>2. CASE SenderEndsSession(t[1]) /\ t = Send(t[1])
        <3>1. \A s \in mailbox[t[1]] : s \in Sessions /\ owner[s] = t[1]
            BY <1>0 DEF IInv, Own
        <3>2. QED
            BY <1>0, <2>2, <3>1, Taken, Left DEF SenderEndsSession, Labels
    <2>3. CASE TaskEnds(t)
        BY <1>0, <2>3, Left DEF TaskEnds, Labels
    <2>4. QED
        BY <2>1, <2>2, <2>3
<1>2. /\ mailbox' \in [Connections -> SUBSET Sessions]
      /\ \A d \in Connections : mailbox'[d] \subseteq mailbox[d]
    BY <1>0 DEF ClientEndsSession, SenderEndsSession, TaskEnds, Undelivered
<1>3. /\ ~Adds(t)' /\ ~Releases(t)' /\ ~HasInHand(t)'
      /\ ~HasInHand(t)
    BY <1>0, <1>1 DEF Adds, Releases, HasInHand, At
<1>4. TypeOK'
    BY <1>0, <1>1, <1>2, Typed, TypedNext DEF Moves
<1>5. StreamIs'
    BY <1>0, <1>1, <1>3, MoveStreamIs
<1>6. Counts' /\ (strayed' => added' > 1)
    BY <1>0 DEF IInv, Counts, Exists
<1>7. Own'
    <2>1. /\ \A d \in Connections :
               \A s \in active'[d] \union orphans'[d] \union mailbox'[d] : owner[s] = d
          /\ \A s \in tracked' \union counted' \union attached' : owner[s] \in Connections
        BY <1>0, <1>2 DEF IInv, Own
    <2>2. QED
        BY <1>0, <1>1, <2>1, MoveOwn
<1>8. OneHand'
    <2>1. \A u \in Tasks \ {t} : HasInHand(u) => Doing(u) \notin tracked'
        BY <1>0 DEF IInv, OneHand
    <2>2. QED
        BY <1>1, <1>3, <2>1, MoveOneHand
<1>9. FirstCounted'
    <2>1. added = 1 /\ Exists => /\ tracked' \subseteq counted'
                                 /\ \A u \in Tasks \ {t} : HasInHand(u) => Doing(u) \in counted'
        BY <1>0 DEF IInv, FirstCounted
    <2>2. QED
        BY <1>0, <1>1, <1>3, <2>1, MoveFirstCounted
<1>10. Held'
    BY <1>0, <1>1, <1>3, MoveHeld
<1>11. Listed'
    BY <1>0, <1>1, StepListed
<1>12. Closing'
    <2>1. t[1] \in Connections /\ Main(t[1]) \in Tasks \ {t} /\ (t = Recv(t[1]) \/ t = Send(t[1]))
          /\ Recv(t[1]) \in Tasks /\ Send(t[1]) \in Tasks
        BY <1>0, TasksAre
    <2>2. At(Main(t[1]))' = At(Main(t[1]))
        BY <1>1, <2>1, OthersStay
    <2>3. At(t)' = "done" /\ Between(t[1]) => Between(t[1])'
        <3>1. CASE t = Recv(t[1])
            <4>1. At(Send(t[1]))' = At(Send(t[1]))
                BY <1>1, <2>1, <3>1, TasksAre, OthersStay
            <4>2. QED
                BY <3>1, <4>1 DEF Between
        <3>2. CASE t = Send(t[1])
            <4>1. At(Recv(t[1]))' = At(Recv(t[1]))
                BY <1>1, <2>1, <3>2, TasksAre, OthersStay
            <4>2. QED
                BY <3>2, <4>1 DEF Between
        <3>3. QED
            BY <2>1, <3>1, <3>2
    <2>4. /\ At(Main(t[1])) # "select" /\ t[1] \notin cut => Between(t[1]) /\ active[t[1]] = {}
          /\ At(Main(t[1])) \in {"select", "done"} => orphans[t[1]] = {}
        BY <2>1 DEF IInv, Closing
    <2>5. QED
        BY <1>0, <1>1, <2>2, <2>3, <2>4, MoveClosing
<1>13. NoOrphanSink'
    BY <1>0, <1>1, MoveSinks
<1>14. QED
    BY <1>4, <1>5, <1>6, <1>7, <1>8, <1>9, <1>10, <1>11, <1>12, <1>13 DEF IInv

\* What an aborted task leaves behind is left behind by a connection that was cut.
LEMMA AbortKeeps ==
    ASSUME IInv, NEW t \in Tasks, Abort(t)
    PROVE  IInv'
<1>0. /\ TypeOK /\ At(t) \notin {"push", "done"} /\ t[1] \in Connections /\ t[2] # "main"
      /\ mailbox \in [Connections -> SUBSET Sessions] /\ At(Main(t[1])) # "select"
      /\ UNCHANGED <<current, added, live, attached, life, counted, strayed, active,
                     orphans, owner, cut>>
    BY Typed, TasksAre DEF IInv, Abort, stream, sinks, account, lists
<1>1. Moves(t) /\ At(t)' = "done"
    BY <1>0, Left DEF Abort, Labels
<1>2. /\ mailbox' \in [Connections -> SUBSET Sessions]
      /\ \A d \in Connections : mailbox'[d] \subseteq mailbox[d]
    BY <1>0 DEF Abort, Undelivered
<1>3. ~Adds(t)' /\ ~Releases(t)' /\ ~HasInHand(t)'
    BY <1>1 DEF Adds, Releases, HasInHand, At
<1>4. /\ At(t) # "ready" => t[1] \in cut
      /\ HasInHand(t) \/ At(t) = "remove" => owner[Doing(t)] = t[1]
    <2>1. At(t) # "ready" => t[1] \in cut
        BY <1>0, BusyBeforeSelect
    <2>2. HasInHand(t) \/ At(t) = "remove" => owner[Doing(t)] = t[1]
        BY DEF IInv, Own, HasInHand, Adds, Releases
    <2>3. QED
        BY <2>1, <2>2
<1>5. /\ tracked' \subseteq tracked
      /\ \A s \in tracked : s \in tracked' \/ owner[s] \in cut'
      /\ Exists \/ UNCHANGED tracked
    BY <1>0, <1>4 DEF Abort
<1>6. TypeOK'
    BY <1>0, <1>1, <1>2, <1>5, Typed, TypedNext DEF Moves
<1>7. StreamIs'
    BY <1>0, <1>1, <1>3, <1>5, MoveStreamIs
<1>8. Counts' /\ (strayed' => added' > 1)
    BY <1>0 DEF IInv, Counts, Exists
<1>9. Own'
    <2>1. /\ \A d \in Connections :
               \A s \in active'[d] \union orphans'[d] \union mailbox'[d] : owner[s] = d
          /\ \A s \in tracked' \union counted' \union attached' : owner[s] \in Connections
        BY <1>0, <1>2, <1>5 DEF IInv, Own
    <2>2. QED
        BY <1>0, <1>1, <2>1, MoveOwn
<1>10. OneHand'
    <2>1. \A u \in Tasks \ {t} : HasInHand(u) => Doing(u) \notin tracked'
        BY <1>5 DEF IInv, OneHand
    <2>2. QED
        BY <1>1, <1>3, <2>1, MoveOneHand
<1>11. FirstCounted'
    <2>1. added = 1 /\ Exists => /\ tracked' \subseteq counted'
                                 /\ \A u \in Tasks \ {t} : HasInHand(u) => Doing(u) \in counted'
        BY <1>0, <1>5 DEF IInv, FirstCounted
    <2>2. QED
        BY <1>0, <1>1, <1>3, <2>1, MoveFirstCounted
<1>12. Held'
    <2>1. HasInHand(t) => owner[Doing(t)] \in cut'
        BY <1>0, <1>4 DEF HasInHand, Adds, Releases
    <2>2. QED
        BY <1>0, <1>1, <1>3, <1>5, <2>1, MoveHeld
<1>13. Listed'
    BY <1>0, <1>1, <1>5, StepListed
<1>14. Closing'
    <2>1. CASE At(t) # "ready"
        BY <1>0, <1>1, <2>1, StepClosing
    <2>2. CASE At(t) = "ready"
        <3>1. Main(t[1]) \in Tasks \ {t} /\ (t = Recv(t[1]) \/ t = Send(t[1]))
              /\ Recv(t[1]) \in Tasks /\ Send(t[1]) \in Tasks
            BY <1>0, TasksAre
        <3>2. At(Main(t[1]))' = At(Main(t[1]))
            BY <1>1, <3>1, OthersStay
        <3>3. Between(t[1]) => Between(t[1])'
            <4>1. At(Send(t[1]))' \in {At(Send(t[1])), "done"}
                BY <1>1, <3>1, OthersStay
            <4>2. At(Recv(t[1]))' \in {At(Recv(t[1])), "done"}
                BY <1>1, <3>1, OthersStay
            <4>3. QED
                BY <4>1, <4>2 DEF Between
        <3>4. /\ At(Main(t[1])) # "select" /\ t[1] \notin cut => Between(t[1]) /\ active[t[1]] = {}
              /\ At(Main(t[1])) \in {"select", "done"} => orphans[t[1]] = {}
            BY <1>0 DEF IInv, Closing
        <3>5. QED
            BY <1>0, <1>1, <3>2, <3>3, <3>4, MoveClosing
    <2>3. QED
        BY <2>1, <2>2
<1>15. NoOrphanSink'
    <2>1. t[2] = "recv" /\ At(t) = "track" => owner[Doing(t)] \in cut'
        BY <1>0, <1>4 DEF HasInHand, Adds
    <2>2. QED
        BY <1>0, <1>1, <1>5, <2>1, MoveSinks
<1>16. QED
    BY <1>6, <1>7, <1>8, <1>9, <1>10, <1>11, <1>12, <1>13, <1>14, <1>15 DEF IInv

\* The main task of a connection, between the sessions it removes.
MainSteps(c) == Select(c) \/ DrainOrphan(c)

LEMMA MainKeeps ==
    ASSUME IInv, NEW c \in Connections, MainSteps(c), NEW t, t = Main(c)
    PROVE  IInv'
<1>0. /\ TypeOK /\ t \in Tasks /\ t[1] = c /\ t[2] = "main" /\ At(t) \in {"select", "drain"}
      /\ active \in [Connections -> SUBSET Sessions]
      /\ orphans \in [Connections -> SUBSET Sessions]
      /\ cut \subseteq Connections
      /\ Recv(c) \in Tasks \ {t} /\ Send(c) \in Tasks \ {t}
      /\ UNCHANGED <<current, added, live, attached, tracked, life, counted, strayed, mailbox, owner>>
    BY Typed, TasksAre DEF IInv, MainSteps, Select, DrainOrphan, stream, sinks, account, lists
<1>1. /\ Moves(t) /\ At(t)' \in {"drain", "done", "remove"}
      /\ At(t)' = "remove" => /\ Doing(t)' \in orphans[c]
                              /\ orphans[c] = orphans'[c] \union {Doing(t)'}
      /\ At(t)' = "done" => orphans'[c] = {}
    <2>1. CASE Select(c)
        BY <1>0, <2>1, Gone DEF Select, Labels
    <2>2. CASE DrainOrphan(c)
        <3>1. CASE orphans[c] = {}
            BY <1>0, <2>2, <3>1, Left DEF DrainOrphan, Labels
        <3>2. CASE orphans[c] # {}
            <4>1. PICK s \in orphans[c] :
                    orphans' = [orphans EXCEPT ![c] = @ \ {s}] /\ Take(Main(c), s, "remove")
                BY <2>2, <3>2 DEF DrainOrphan
            <4>2. s \in Sessions /\ orphans[c] = orphans'[c] \union {s}
                BY <1>0, <4>1
            <4>3. Moves(t) /\ At(t)' = "remove" /\ Doing(t)' = s
                BY <1>0, <4>1, <4>2, Taken DEF Labels
            <4>4. QED
                BY <4>2, <4>3
        <3>3. QED
            BY <3>1, <3>2
    <2>3. QED
        BY <2>1, <2>2 DEF MainSteps
<1>2. /\ active' \in [Connections -> SUBSET Sessions]
      /\ orphans' \in [Connections -> SUBSET Sessions]
      /\ cut' \subseteq Connections /\ cut \subseteq cut'
      /\ \A d \in Connections \ {c} : active'[d] = active[d] /\ orphans'[d] = orphans[d]
    BY <1>0 DEF MainSteps, Select, DrainOrphan
\* Select moves what is listed to the orphans; DrainOrphan takes one in hand.
<1>3. \/ /\ At(t) = "select" /\ At(t)' = "drain"
         /\ orphans'[c] = active[c] /\ active'[c] = {}
         /\ c \in cut' \/ Between(c)
      \/ At(t) = "drain" /\ UNCHANGED <<active, cut>>
         /\ (At(t)' = "done" => orphans' = orphans)
         /\ At(t)' \in {"done", "remove"}
    <2>1. CASE Select(c)
        <3>1. At(t)' = "drain"
            BY <1>0, <2>1, Gone DEF Select, Labels
        <3>2. QED
            BY <1>0, <2>1, <3>1 DEF Select
    <2>2. CASE DrainOrphan(c)
        BY <1>0, <2>2, Left, Taken DEF DrainOrphan, Labels
    <2>3. QED
        BY <2>1, <2>2 DEF MainSteps
<1>4. /\ ~Adds(t)' /\ ~Releases(t)' /\ ~HasInHand(t)'
      /\ ~HasInHand(t)
    BY <1>0, <1>1 DEF Adds, Releases, HasInHand, At
<1>5. /\ At(Recv(c))' = At(Recv(c)) /\ Doing(Recv(c))' = Doing(Recv(c))
      /\ At(Send(c))' = At(Send(c))
      /\ Between(c)' <=> Between(c)
    <2>1. /\ At(Recv(c))' = At(Recv(c)) /\ Doing(Recv(c))' = Doing(Recv(c))
          /\ At(Send(c))' = At(Send(c))
        BY <1>0, <1>1, OthersStay
    <2>2. QED
        BY <2>1 DEF Between
<1>6. TypeOK'
    BY <1>0, <1>1, <1>2, Typed, TypedNext DEF Moves
<1>7. StreamIs'
    BY <1>0, <1>1, <1>4, MoveStreamIs
<1>8. Counts' /\ (strayed' => added' > 1)
    BY <1>0 DEF IInv, Counts, Exists
<1>9. Own'
    <2>1. \A d \in Connections : \A s \in active[d] \union orphans[d] \union mailbox[d] : owner[s] = d
        BY DEF IInv, Own
    <2>2. active'[c] \union orphans'[c] \subseteq active[c] \union orphans[c]
        <3>1. orphans'[c] \subseteq active[c] \union orphans[c]
            BY <1>0, <1>1, <1>3
        <3>2. QED
            BY <1>3, <3>1
    <2>3. /\ \A d \in Connections :
               \A s \in active'[d] \union orphans'[d] \union mailbox'[d] : owner[s] = d
          /\ \A s \in tracked' \union counted' \union attached' : owner[s] \in Connections
        BY <1>0, <1>2, <2>1, <2>2 DEF IInv, Own
    <2>4. At(t)' = "remove" => Doing(t)' \in Sessions /\ owner[Doing(t)'] = t[1]
        BY <1>0, <1>1, <2>1
    <2>5. QED
        BY <1>0, <1>1, <2>3, <2>4, MoveOwn
<1>10. OneHand'
    <2>1. \A u \in Tasks \ {t} : HasInHand(u) => Doing(u) \notin tracked'
        BY <1>0 DEF IInv, OneHand
    <2>2. QED
        BY <1>0, <1>1, <1>4, <2>1, MoveOneHand
<1>11. FirstCounted'
    <2>1. added = 1 /\ Exists => /\ tracked' \subseteq counted'
                                 /\ \A u \in Tasks \ {t} : HasInHand(u) => Doing(u) \in counted'
        BY <1>0 DEF IInv, FirstCounted
    <2>2. QED
        BY <1>0, <1>1, <1>4, <2>1, MoveFirstCounted
<1>12. Held'
    BY <1>0, <1>1, <1>2, <1>4, MoveHeld
<1>13. Listed'
    <2>1. ASSUME NEW s \in tracked', owner[s] = c PROVE Finds(c, s)'
        <3>1. Finds(c, s)
            BY <1>0, <2>1 DEF IInv, Listed, Finds
        <3>2. CASE (At(Recv(c)) = "push" /\ Doing(Recv(c)) = s) \/ c \in cut
            BY <1>2, <1>5, <3>1, <3>2 DEF Finds
        <3>3. CASE s \in active[c]
            <4>1. s \in active'[c] \/ s \in orphans'[c]
                BY <1>3, <3>3
            <4>2. QED
                BY <4>1 DEF Finds
        <3>4. CASE s \in orphans[c]
            <4>1. At(t) = "drain"
                BY <1>0, <3>4 DEF IInv, Closing
            <4>2. s \in orphans'[c] \/ (At(t)' = "remove" /\ Doing(t)' = s)
                BY <1>1, <1>3, <3>4, <4>1
            <4>3. QED
                BY <4>2 DEF Finds
        <3>5. QED
            BY <1>0, <3>1, <3>2, <3>3, <3>4 DEF Finds
    <2>2. QED
        BY <1>0, <1>1, <1>2, <2>1, MoveListed
<1>14. Closing'
    <2>1. At(t) = "drain" /\ c \notin cut => Between(c) /\ active[c] = {}
        BY <1>0 DEF IInv, Closing
    <2>2. c \notin cut' => Between(c)' /\ active'[c] = {}
        BY <1>2, <1>3, <1>5, <2>1
    <2>3. At(t)' \in {"select", "done"} => orphans'[c] = {}
        BY <1>1
    <2>4. QED
        BY <1>0, <1>1, <1>2, <2>2, <2>3, MoveClosing
<1>15. NoOrphanSink'
    BY <1>0, <1>1, <1>2, MoveSinks
<1>16. QED
    BY <1>0, <1>6, <1>7, <1>8, <1>9, <1>10, <1>11, <1>12, <1>13, <1>14, <1>15 DEF IInv

-----------------------------------------------------------------------------
(* Theorems *)

LEMMA InitEstablishes ==
    Init => IInv
<1> SUFFICES ASSUME Init PROVE IInv
    OBVIOUS
<1>0. /\ current = 0 /\ added = 0 /\ live = FALSE /\ attached = {} /\ tracked = {}
      /\ task = [t \in Tasks |-> Idle(IF t[2] = "main" THEN "select" ELSE "ready")]
      /\ active = [c \in Connections |-> {}] /\ orphans = active /\ mailbox = active
      /\ owner = [s \in Sessions |-> NoOne]
      /\ cut = {} /\ counted = {} /\ strayed = FALSE
    BY DEF Init
<1>1. PICK mode \in Modes : life = InitialState(mode)
    BY DEF Init
<1>2. /\ life \in LifecycleStates /\ life.mode = mode /\ life.consumers = Phantom(mode)
      /\ CountFits(life) /\ life = InitialState(life.mode)
    BY <1>1, InitialStateTyped DEF CountFits, Phantom, Modes
<1>3. /\ \A t \in Tasks : task[t] \in TaskRecords /\ At(t) \in {"ready", "select"}
      /\ \A c \in Connections : At(Main(c)) = "select"
    BY <1>0, IdleTyped, TasksAre DEF At, Labels
<1>4. \A t \in Tasks : ~Adds(t) /\ ~Releases(t) /\ ~HasInHand(t)
    BY <1>3 DEF Adds, Releases, HasInHand
<1>5. TypeOK
    <2>1. task \in [Tasks -> TaskRecords]
        BY <1>0, <1>3
    <2>2. /\ active \in [Connections -> SUBSET Sessions]
          /\ orphans \in [Connections -> SUBSET Sessions]
          /\ mailbox \in [Connections -> SUBSET Sessions]
          /\ owner \in [Sessions -> Connections \union {NoOne}]
        BY <1>0
    <2>3. current \in 0..MaxInstances /\ added \in 0..MaxInstances
        BY <1>0, WebRTCSessionsAssumption
    <2>4. QED
        BY <1>0, <1>2, <2>1, <2>2, <2>3, Typed
<1>6. StreamIs /\ Counts
    BY <1>0, <1>2, <1>4 DEF StreamIs, Counts, Exists
<1>7. Own
    BY <1>0, <1>3 DEF Own
<1>8. OneHand /\ FirstCounted /\ Held
    BY <1>0, <1>4 DEF OneHand, FirstCounted, Held
<1>9. Listed /\ NoOrphanSink
    BY <1>0 DEF Listed, NoOrphanSink
<1>10. Closing
    BY <1>0, <1>3 DEF Closing
<1>11. QED
    BY <1>0, <1>5, <1>6, <1>7, <1>8, <1>9, <1>10 DEF IInv

LEMMA StutterKeeps ==
    ASSUME IInv, UNCHANGED vars
    PROVE  IInv'
<1>1. UNCHANGED <<current, added, live, attached, tracked, life, counted, strayed, task, active,
                  orphans, mailbox, owner, cut>>
    BY DEF vars, stream, sinks, account, lists
<1>2. TypeOK'
    BY <1>1 DEF IInv, TypeOK
<1>3. StreamIs' /\ Counts' /\ Own' /\ OneHand' /\ FirstCounted'
    BY <1>1, TasksStay DEF IInv, StreamIs, Counts, Own, OneHand, FirstCounted, Exists
<1>4. NoOrphanSink' /\ Held' /\ Listed' /\ Closing'
    BY <1>1, TasksStay DEF IInv, NoOrphanSink, Held, Listed, Closing
<1>5. QED
    BY <1>1, <1>2, <1>3, <1>4 DEF IInv

\* The inductive invariant: who has a session's consumer in hand, and who can
\* still find the session, in every state of every task.
THEOREM InductiveInvariant == Spec => []IInv
<1>1. ASSUME IInv, [Next]_vars PROVE IInv'
    <2>1. CASE \E c \in Connections, s \in Sessions : StartSession(c, s) \/ ClientEndsSession(c, s)
        <3>1. PICK c \in Connections, s \in Sessions : StartSession(c, s) \/ ClientEndsSession(c, s)
            BY <2>1
        <3>2. Recv(c) \in Tasks /\ Recv(c)[1] = c
            BY TasksAre
        <3>3. QED
            BY <1>1, <3>1, <3>2, StartKeeps, IdleKeeps
    <2>2. CASE \E c \in Connections :
                 AddSession(c) \/ SenderEndsSession(c) \/ Select(c) \/ DrainOrphan(c)
        <3>1. PICK c \in Connections :
                AddSession(c) \/ SenderEndsSession(c) \/ Select(c) \/ DrainOrphan(c)
            BY <2>2
        <3>2. CASE AddSession(c)
            BY <1>1, <3>2, AddingKeeps, TrackKeeps, PushKeeps DEF AddSession
        <3>3. CASE SenderEndsSession(c)
            <4>1. Send(c) \in Tasks /\ Send(c)[1] = c
                BY TasksAre
            <4>2. QED
                BY <1>1, <3>3, <4>1, IdleKeeps
        <3>4. CASE Select(c) \/ DrainOrphan(c)
            BY <1>1, <3>4, MainKeeps DEF MainSteps
        <3>5. QED
            BY <3>1, <3>2, <3>3, <3>4
    <2>3. CASE \E t \in Tasks : TaskStep(t) \/ TaskEnds(t)
        BY <1>1, <2>3, RemoveKeeps, ReleaseKeeps, AbortKeeps, IdleKeeps DEF TaskStep
    <2>4. CASE \E s \in Sessions : SinkEndsSession(s)
        BY <1>1, <2>4, SinkEndsKeeps
    <2>5. CASE WatcherCreates \/ WatcherFails \/ WatcherParks \/ StreamRemoved \/ StreamAdded
        BY <1>1, <2>5, WatcherKeeps, RemovedKeeps, AddedKeeps
    <2>6. CASE UNCHANGED vars
        BY <1>1, <2>6, StutterKeeps
    <2>7. QED
        BY <1>1, <2>1, <2>2, <2>3, <2>4, <2>5, <2>6 DEF Next
<1>2. QED
    BY <1>1, InitEstablishes, PTL DEF Spec

\* The stream's lifecycle counts one consumer for every session that has taken one
\* and not given it back, whatever ends the session and however often: the count
\* remove_session takes down is the one add_session put up (manager.rs).
THEOREM OneConsumerAlways == Spec => []OneConsumerPerSession
<1>1. IInv => OneConsumerPerSession
    BY DEF IInv, Counts, OneConsumerPerSession
<1>2. QED
    BY <1>1, InductiveInvariant, PTL

\* No sink is left in the pipeline that no remove_session can find any more, but of
\* connections cut in mid-operation.
THEOREM NoOrphanSinkAlways == Spec => []NoOrphanSink
<1>1. IInv => NoOrphanSink
    BY DEF IInv
<1>2. QED
    BY <1>1, InductiveInvariant, PTL

\* When handle_connection returns, and no task of the connection was cut in
\* mid-operation, none of its sessions has a sink or a consumer of the stream.
THEOREM ClosedCleanlyAlways == Spec => []ClosedCleanly
<1>1. ASSUME IInv PROVE ClosedCleanly
    <2> SUFFICES ASSUME NEW c \in Connections, At(Main(c)) = "done", c \notin cut,
                        NEW s \in counted \union attached, owner[s] = c
                 PROVE  FALSE
        BY DEF ClosedCleanly, Holds
    <2>1. Between(c) /\ active[c] = {} /\ orphans[c] = {}
        BY <1>1 DEF IInv, Closing
    <2>2. s \notin tracked
        BY <1>1, <2>1 DEF IInv, Listed, Between
    <2>3. s \notin attached
        BY <1>1, <2>1, <2>2 DEF IInv, NoOrphanSink, Between
    <2>4. \E t \in Tasks : HasInHand(t) /\ Doing(t) = s
        BY <1>1, <2>2, <2>3 DEF IInv, Held
    <2>5. PICK t \in Tasks : HasInHand(t) /\ Doing(t) = s
        BY <2>4
    <2>6. t[1] = c /\ At(t) \notin {"ready", "done"}
        BY <1>1, <2>5 DEF IInv, Own, HasInHand, Adds, Releases
    <2>7. t \in {Recv(c), Send(c), Main(c)}
        BY <2>6, TasksAre
    <2>8. QED
        BY <2>1, <2>6, <2>7 DEF Between
<1>2. QED
    BY <1>1, InductiveInvariant, PTL

-----------------------------------------------------------------------------
(* The sink of a session and its peer *)

Kinds == {"start", "offer", "candidate", "end"}

\* The encoders come with the first offer, and the connection after an answer to one.
Negotiated ==
    /\ \A e \in Encoders : encoders[e] = "absent" => offers = 0
    /\ signaling = "offered" => offers > 0
    /\ remote => offers > 0
    /\ busy \in {"telling", "excising"} => remote

\* The probe goes only when no encoder is in the path; one that is gone is not put back.
Blocked ==
    probe = "removed" => \A e \in Encoders : encoders[e] \in {"left", "out"}

\* Each kind is noted once; the session's start is the first thing said, and an offer that
\* has been made is sent unless nobody reads.
Spoken ==
    /\ said \in Seq(Kinds)
    /\ \A i, j \in 1..Len(said) : said[i] = said[j] => i = j
    /\ IF stage = "none" THEN said = <<>> /\ killer = "off" /\ busy = "idle"
                         ELSE said # <<>> /\ said[1] = "start"
    /\ offers > 0 /\ busy # "offering" /\ channel = "open" =>
         \E i \in 1..Len(said) : said[i] = "offer"

\* The killer of a session that is connected has a message waiting.
Informed ==
    /\ stage = "none" => peer = "new"
    /\ peer = "connected" /\ busy # "telling" /\ killer = "waiting" => told

PeerIInv ==
    /\ PeerTypeOK /\ Negotiated /\ Blocked /\ Spoken /\ Informed
    /\ NothingPassesUnshaped /\ MessagesInOrder /\ PadGivenBack
-----------------------------------------------------------------------------
(* What is said *)

LEMMA KindsAreFour == IsFiniteSet(Kinds) /\ Cardinality(Kinds) = 4
<1>1. IsFiniteSet({}) /\ Cardinality({}) = 0
    BY FS_EmptySet
<1>2. IsFiniteSet({"start"}) /\ Cardinality({"start"}) = 1
    BY FS_Singleton
<1>3. IsFiniteSet({"start", "offer"}) /\ Cardinality({"start", "offer"}) = 2
    <2>1. {"start", "offer"} = {"start"} \union {"offer"} /\ "offer" \notin {"start"}
        OBVIOUS
    <2>2. QED
        BY <1>2, <2>1, FS_AddElement
<1>4. IsFiniteSet({"start", "offer", "candidate"}) /\ Cardinality({"start", "offer", "candidate"}) = 3
    <2>1. /\ {"start", "offer", "candidate"} = {"start", "offer"} \union {"candidate"}
          /\ "candidate" \notin {"start", "offer"}
        OBVIOUS
    <2>2. QED
        BY <1>3, <2>1, FS_AddElement
<1>5. Kinds = {"start", "offer", "candidate"} \union {"end"} /\ "end" \notin {"start", "offer", "candidate"}
    BY DEF Kinds
<1>6. QED
    BY <1>4, <1>5, FS_AddElement

\* Four kinds, each at most once.
LEMMA AtMostFour ==
    ASSUME NEW s \in Seq(Kinds), \A i, j \in 1..Len(s) : s[i] = s[j] => i = j
    PROVE  s \in SeqOf(Kinds, 4)
<1>1. s \in [1..Len(s) -> Kinds] /\ Len(s) \in Nat
    OBVIOUS
<1>2. s \in Injection(1..Len(s), Kinds)
    BY <1>1 DEF Injection, IsInjective
<1>3. Cardinality(1..Len(s)) = Len(s)
    <2>1. 1 \in Int /\ Len(s) \in Int
        BY <1>1
    <2>2. Cardinality(1..Len(s)) = IF 1 > Len(s) THEN 0 ELSE Len(s) - 1 + 1
        BY <2>1, FS_Interval
    <2>3. QED
        BY <1>1, <2>2
<1>4. Len(s) <= 4
    BY <1>2, <1>3, KindsAreFour, FS_Injection
<1>5. QED
    BY <1>1, <1>4 DEF SeqOf

\* Something is said: nothing if it was said before, or at the end.
LEMMA Says ==
    ASSUME said \in Seq(Kinds), \A i, j \in 1..Len(said) : said[i] = said[j] => i = j,
           NEW kind \in Kinds, TellPeer(kind)
    PROVE  /\ said' \in Seq(Kinds)
           /\ \A i, j \in 1..Len(said') : said'[i] = said'[j] => i = j
           /\ \E i \in 1..Len(said') : said'[i] = kind
           /\ Len(said') >= Len(said)
           /\ \A i \in 1..Len(said) : said'[i] = said[i]
           /\ \A i \in 1..Len(said') : i \in 1..Len(said) \/ said'[i] = kind
           /\ said' # <<>> /\ (said = <<>> => said' = <<kind>>)
<1>1. ToSet(said) = {said[i] : i \in 1..Len(said)}
    BY DEF ToSet
<1>2. CASE kind \in ToSet(said)
    <2>1. said' = said /\ \E i \in 1..Len(said) : said[i] = kind
        BY <1>1, <1>2 DEF TellPeer
    <2>2. QED
        BY <2>1
<1>3. CASE kind \notin ToSet(said)
    <2>1. said' = Append(said, kind) /\ \A i \in 1..Len(said) : said[i] # kind
        BY <1>1, <1>3 DEF TellPeer
    <2>2. /\ said' \in Seq(Kinds) /\ Len(said') = Len(said) + 1 /\ Len(said) \in Nat
          /\ \A i \in 1..Len(said) : said'[i] = said[i]
          /\ said'[Len(said) + 1] = kind
        BY <2>1
    <2>3. \A i \in 1..Len(said') : i \in 1..Len(said) \/ i = Len(said) + 1
        BY <2>2
    <2>4. \A i, j \in 1..Len(said') : said'[i] = said'[j] => i = j
        BY <2>1, <2>2, <2>3
    <2>5. said' # <<>> /\ (said = <<>> => said' = <<kind>>)
        <3>1. said' # <<>>
            BY <2>2
        <3>2. Append(<<>>, kind) = <<kind>>
            OBVIOUS
        <3>3. QED
            BY <2>1, <3>1, <3>2
    <2>6. QED
        BY <2>2, <2>3, <2>4, <2>5
<1>4. QED
    BY <1>2, <1>3
-----------------------------------------------------------------------------
(* The steps *)

\* Nothing is said, and nothing is owed that was not before.
LEMMA SilenceKeeps ==
    ASSUME Spoken, MessagesInOrder, UNCHANGED said,
           stage' = "none" <=> stage = "none", stage = "none" => UNCHANGED <<killer, busy>>,
           offers' > 0 /\ busy' # "offering" /\ channel' = "open" =>
             offers > 0 /\ busy # "offering" /\ channel = "open"
    PROVE  Spoken' /\ MessagesInOrder'
<1>1. Spoken'
    BY DEF Spoken
<1>2. MessagesInOrder'
    BY DEF MessagesInOrder
<1>3. QED
    BY <1>1, <1>2

\* Something is said at its time.
LEMMA SpeechKeeps ==
    ASSUME Spoken, MessagesInOrder, NEW kind \in Kinds, TellPeer(kind),
           stage = "none" <=> kind = "start", stage' # "none",
           kind = "candidate" => \E i \in 1..Len(said) : said[i] = "offer",
           offers' > 0 /\ busy' # "offering" /\ channel' = "open" =>
             kind = "offer" \/ (offers > 0 /\ busy # "offering" /\ channel = "open")
    PROVE  Spoken' /\ MessagesInOrder'
<1>1. /\ said \in Seq(Kinds) /\ Len(said) \in Nat
      /\ \A i, j \in 1..Len(said) : said[i] = said[j] => i = j
    BY DEF Spoken
<1>2. /\ said' \in Seq(Kinds)
      /\ \A i, j \in 1..Len(said') : said'[i] = said'[j] => i = j
      /\ \E i \in 1..Len(said') : said'[i] = kind
      /\ Len(said') >= Len(said)
      /\ \A i \in 1..Len(said) : said'[i] = said[i]
      /\ \A i \in 1..Len(said') : i \in 1..Len(said) \/ said'[i] = kind
      /\ said' # <<>> /\ (said = <<>> => said' = <<kind>>)
    BY <1>1, Says
<1>3. Len(said') \in Nat /\ \A i \in 1..Len(said) : i \in 1..Len(said')
    BY <1>1, <1>2
<1>4. said'[1] = "start"
    <2>1. CASE stage = "none"
        BY <1>2, <2>1 DEF Spoken
    <2>2. CASE stage # "none"
        <3>1. said # <<>> /\ said[1] = "start"
            BY <2>2 DEF Spoken
        <3>2. 1 \in 1..Len(said)
            BY <1>1, <3>1
        <3>3. QED
            BY <1>2, <3>1, <3>2
    <2>3. QED
        BY <2>1, <2>2
<1>5. offers' > 0 /\ busy' # "offering" /\ channel' = "open" =>
        \E i \in 1..Len(said') : said'[i] = "offer"
    <2>1. CASE kind = "offer"
        BY <1>2, <2>1
    <2>2. CASE kind # "offer"
        <3>1. SUFFICES ASSUME offers > 0 /\ busy # "offering" /\ channel = "open"
                       PROVE  \E i \in 1..Len(said') : said'[i] = "offer"
            BY <2>2
        <3>2. PICK i \in 1..Len(said) : said[i] = "offer"
            BY <3>1 DEF Spoken
        <3>3. QED
            BY <1>2, <1>3, <3>2
    <2>3. QED
        BY <2>1, <2>2
<1>6. Spoken'
    BY <1>2, <1>4, <1>5 DEF Spoken
<1>7. ASSUME NEW i \in DOMAIN said', said'[i] = "candidate"
      PROVE  \E j \in 1..(i - 1) : said'[j] = "offer"
    <2>1. i \in 1..Len(said') /\ DOMAIN said = 1..Len(said)
        BY <1>1, <1>2, <1>7
    <2>2. CASE i \in 1..Len(said)
        <3>1. said[i] = "candidate"
            BY <1>2, <1>7, <2>2
        <3>2. PICK j \in 1..(i - 1) : said[j] = "offer"
            BY <2>1, <2>2, <3>1 DEF MessagesInOrder
        <3>3. j \in 1..Len(said)
            BY <1>1, <2>2, <3>2
        <3>4. QED
            BY <1>2, <3>2, <3>3
    <2>3. CASE i \notin 1..Len(said)
        <3>1. PICK j \in 1..Len(said) : said[j] = "offer"
            BY <1>2, <1>7, <2>1, <2>3
        <3>2. j \in 1..(i - 1)
            BY <1>1, <2>1, <2>3, <3>1
        <3>3. QED
            BY <1>2, <3>1, <3>2
    <2>4. QED
        BY <2>2, <2>3
<1>8. MessagesInOrder'
    BY <1>4, <1>7 DEF MessagesInOrder
<1>9. QED
    BY <1>6, <1>8

LEMMA StepSpoken ==
    PeerTypeOK /\ Negotiated /\ Spoken /\ MessagesInOrder /\ [PeerNext]_peerVars => Spoken' /\ MessagesInOrder'
<1> SUFFICES ASSUME PeerTypeOK, Negotiated, Spoken, MessagesInOrder, [PeerNext]_peerVars
             PROVE  Spoken' /\ MessagesInOrder'
    OBVIOUS
<1>1. offers \in Nat
    BY PeerAssumption DEF PeerTypeOK
<1>2. ASSUME Terminate, stage # "none", stage' # "none",
             UNCHANGED <<offers, busy, channel>>
      PROVE  Spoken' /\ MessagesInOrder'
    <2>1. CASE channel = "open"
        <3>1. TellPeer("end") /\ "end" \in Kinds
            BY <1>2, <2>1 DEF Terminate, Kinds
        <3>2. QED
            BY <1>2, <3>1, SpeechKeeps
    <2>2. CASE channel # "open"
        BY <1>2, <2>2, SilenceKeeps DEF Terminate
    <2>3. QED
        BY <2>1, <2>2
<1>3. CASE TryNew
    <2>1. /\ TellPeer("start") /\ "start" \in Kinds
          /\ stage = "none" /\ stage' # "none" /\ UNCHANGED <<offers, busy, channel>>
        BY <1>3 DEF TryNew, Kinds, nego
    <2>2. QED
        BY <2>1, SpeechKeeps
<1>4. CASE SendOffer
    <2>1. stage # "none" /\ UNCHANGED <<stage, offers, channel, killer>> /\ busy' = "idle"
        BY <1>4 DEF SendOffer, Spoken, link, nego, guard
    <2>2. CASE channel = "open"
        <3>1. TellPeer("offer") /\ "offer" \in Kinds
            BY <1>4, <2>2 DEF SendOffer, Kinds
        <3>2. QED
            BY <2>1, <3>1, SpeechKeeps
    <2>3. CASE channel # "open"
        BY <1>4, <2>1, <2>3, SilenceKeeps DEF SendOffer
    <2>4. QED
        BY <2>2, <2>3
<1>5. CASE OnIceCandidate
    <2>1. /\ offers > 0 /\ busy = "idle" /\ stage # "none"
          /\ UNCHANGED <<stage, offers, busy, channel, killer>>
        BY <1>5 DEF OnIceCandidate, Alive, link, nego, guard
    <2>2. CASE channel = "open"
        <3>1. TellPeer("candidate") /\ "candidate" \in Kinds
            BY <1>5, <2>2 DEF OnIceCandidate, Kinds
        <3>2. \E i \in 1..Len(said) : said[i] = "offer"
            BY <2>1, <2>2 DEF Spoken
        <3>3. QED
            BY <2>1, <2>2, <3>1, <3>2, SpeechKeeps
    <2>3. CASE channel # "open"
        BY <1>5, <2>1, <2>3, SilenceKeeps DEF OnIceCandidate
    <2>4. QED
        BY <2>2, <2>3
<1>6. ASSUME NEW r \in Reports, Lose(r[1], r[2]) PROVE Spoken' /\ MessagesInOrder'
    <2>1. stage # "none" /\ UNCHANGED <<stage, offers, busy, channel, killer>>
        BY <1>6 DEF Lose, Alive, link, nego, guard
    <2>2. CASE r[2] \in Ends(r[1])
        BY <1>2, <1>6, <2>1, <2>2 DEF Lose
    <2>3. CASE r[2] \notin Ends(r[1])
        BY <1>6, <2>1, <2>3, SilenceKeeps DEF Lose
    <2>4. QED
        BY <2>2, <2>3
<1>7. CASE CloseLate
    <2>1. /\ Terminate /\ stage # "none"
          /\ UNCHANGED <<stage, offers, busy, channel>>
        BY <1>7 DEF CloseLate, link, nego, guard
    <2>2. QED
        BY <1>2, <2>1
<1>8. CASE KillerKills
    <2>1. /\ Terminate /\ stage # "none"
          /\ UNCHANGED <<stage, offers, busy, channel>>
        BY <1>8 DEF KillerKills, Spoken, link, nego
    <2>2. QED
        BY <1>2, <2>1
<1>9. CASE BlockTee \/ Link \/ LinkFails \/ Start \/ Unlink
    <2>1. /\ stage # "none" /\ stage' # "none"
          /\ UNCHANGED <<said, offers, busy, channel>>
        BY <1>9 DEF BlockTee, Link, LinkFails, Start, Unlink, nego
    <2>2. QED
        BY <2>1, SilenceKeeps
<1>10. CASE Tell \/ Unblock \/ Connect
    <2>1. /\ stage # "none" /\ busy # "offering"
          /\ UNCHANGED <<stage, said, offers, channel>>
        BY <1>10 DEF Tell, Unblock, Connect, Alive, Spoken, link, nego
    <2>2. QED
        BY <2>1, SilenceKeeps
<1>11. CASE Produce \/ Flow \/ HandleAnswer \/ ApplyAnswer
    <2>1. stage # "none" /\ UNCHANGED <<stage, said, offers, busy, channel>>
        BY <1>11 DEF Produce, Flow, HandleAnswer, ApplyAnswer, Alive, link, nego
    <2>2. QED
        BY <2>1, SilenceKeeps
<1>12. ASSUME NEW e \in Encoders, Excise(e) PROVE Spoken' /\ MessagesInOrder'
    <2>1. stage # "none" /\ UNCHANGED <<stage, said, offers, busy, channel>>
        BY <1>12 DEF Excise, Spoken, link, nego
    <2>2. QED
        BY <2>1, SilenceKeeps
<1>13. CASE OnOfferCreated
    <2>1. stage # "none" /\ UNCHANGED <<stage, said, channel>> /\ busy' = "offering"
        BY <1>13 DEF OnOfferCreated, Alive, link
    <2>2. QED
        BY <2>1, SilenceKeeps
<1>14. CASE KillerIsTold \/ KillerTimesOut
    <2>1. stage # "none" /\ UNCHANGED <<stage, said, offers, busy, channel>>
        BY <1>14 DEF KillerIsTold, KillerTimesOut, Spoken, link, nego
    <2>2. QED
        BY <2>1, SilenceKeeps
<1>15. CASE CloseChannel
    <2>1. channel' # "open" /\ UNCHANGED <<stage, said, offers, busy, killer>>
        BY <1>15 DEF CloseChannel, link, nego, guard
    <2>2. QED
        BY <2>1, SilenceKeeps
<1>16. CASE UNCHANGED peerVars
    <2>1. UNCHANGED <<stage, said, offers, busy, channel, killer>>
        BY <1>16 DEF peerVars, link, nego, guard
    <2>2. QED
        BY <2>1, SilenceKeeps
<1>17. QED
    BY <1>3, <1>4, <1>5, <1>6, <1>7, <1>8, <1>9, <1>10, <1>11, <1>12, <1>13, <1>14, <1>15,
       <1>16
    DEF PeerNext, Manager, Connected, Killer

\* The rest of the invariant does not read what is said.
LEMMA StepRest ==
    PeerTypeOK /\ Negotiated /\ Blocked /\ Spoken /\ Informed /\ NothingPassesUnshaped /\ PadGivenBack
      /\ [PeerNext]_peerVars
    => Negotiated' /\ Blocked' /\ Informed' /\ NothingPassesUnshaped' /\ PadGivenBack'
<1> SUFFICES ASSUME PeerTypeOK, Negotiated, Blocked, Spoken, Informed, NothingPassesUnshaped,
                    PadGivenBack, [PeerNext]_peerVars
             PROVE  Negotiated' /\ Blocked' /\ Informed' /\ NothingPassesUnshaped' /\ PadGivenBack'
    OBVIOUS
<1>0. /\ offers \in Nat
      /\ encoders \in [Encoders -> {"absent", "in", "left", "out"}]
      /\ probe \in {"none", "set", "removed"}
    BY PeerAssumption DEF PeerTypeOK
<1> USE <1>0 DEF Negotiated, Blocked, Informed, NothingPassesUnshaped, PadGivenBack, link, data,
                 nego, conn, guard
<1>1. CASE TryNew
    BY <1>1 DEF TryNew
<1>2. CASE BlockTee
    BY <1>2 DEF BlockTee
<1>3. CASE Link
    BY <1>3 DEF Link
<1>4. CASE LinkFails
    BY <1>4 DEF LinkFails
<1>5. CASE Start
    BY <1>5 DEF Start
<1>6. CASE Unlink
    BY <1>6 DEF Unlink
<1>7. CASE Tell
    BY <1>7 DEF Tell
<1>8. ASSUME NEW e \in Encoders, Excise(e)
      PROVE  Negotiated' /\ Blocked' /\ Informed' /\ NothingPassesUnshaped' /\ PadGivenBack'
    BY <1>8 DEF Excise
<1>9. CASE Unblock
    BY <1>9 DEF Unblock, Excised
<1>10. CASE KillerIsTold \/ KillerTimesOut \/ KillerKills
    BY <1>10 DEF KillerIsTold, KillerTimesOut, KillerKills
<1>11. CASE Produce
    BY <1>11 DEF Produce
<1>12. CASE Flow
    BY <1>12 DEF Flow
<1>13. CASE OnOfferCreated
    BY <1>13 DEF OnOfferCreated
<1>14. CASE SendOffer
    BY <1>14 DEF SendOffer
<1>15. CASE OnIceCandidate
    BY <1>15 DEF OnIceCandidate
<1>16. CASE HandleAnswer
    BY <1>16 DEF HandleAnswer
<1>17. CASE ApplyAnswer
    BY <1>17 DEF ApplyAnswer
<1>18. CASE Connect
    BY <1>18 DEF Connect, Alive
<1>19. CASE CloseLate
    BY <1>19 DEF CloseLate
<1>20. CASE CloseChannel
    BY <1>20 DEF CloseChannel
<1>21. ASSUME NEW r \in Reports, Lose(r[1], r[2])
       PROVE  Negotiated' /\ Blocked' /\ Informed' /\ NothingPassesUnshaped' /\ PadGivenBack'
    BY <1>21 DEF Lose, Reports, Lost, Alive
<1>22. CASE UNCHANGED peerVars
    BY <1>22 DEF peerVars
<1>23. QED
    BY <1>1, <1>2, <1>3, <1>4, <1>5, <1>6, <1>7, <1>8, <1>9, <1>10, <1>11, <1>12, <1>13, <1>14,
       <1>15, <1>16, <1>17, <1>18, <1>19, <1>20, <1>21, <1>22
    DEF PeerNext, Manager, Connected, Killer

\* What the steps do to the small variables of the type invariant, by kind of step.
LEMMA PeerStepTyped == PeerTypeOK /\ Spoken /\ Spoken' /\ [PeerNext]_peerVars => PeerTypeOK'
<1> SUFFICES ASSUME PeerTypeOK, Spoken, Spoken', [PeerNext]_peerVars PROVE PeerTypeOK'
    OBVIOUS
<1>1. said' \in SeqOf({"start", "offer", "candidate", "end"}, 4)
    BY AtMostFour DEF Spoken, Kinds
<1> DEFINE Rest ==
      /\ stage \in {"none", "made", "linked", "playing", "gone"}
      /\ tee \in {"none", "unlinked", "blocked", "linked"}
      /\ probe \in {"none", "set", "removed"}
      /\ queued \in 0..MaxQueued
      /\ encoders \in [Encoders -> {"absent", "in", "left", "out"}]
      /\ passed \subseteq Encoders
      /\ busy \in {"idle", "offering", "telling", "excising", "unblocking"}
      /\ offers \in 0..MaxOffers /\ answers \in 0..MaxOffers + 1
      /\ signaling \in {"stable", "offered"}
      /\ peer \in {"new", "connected"} \cup Lost /\ losses \in 0..MaxLosses
      /\ killer \in {"off", "waiting", "timed_out", "done"}
      /\ remote \in BOOLEAN /\ told \in BOOLEAN /\ linkFailed \in BOOLEAN
      /\ channel \in {"open", "closed"}
<1>2. Rest /\ MaxQueued \in Nat /\ MaxOffers \in Nat /\ MaxLosses \in Nat
    BY PeerAssumption DEF PeerTypeOK
<1>3. SUFFICES Rest'
    BY <1>1 DEF PeerTypeOK
<1> USE <1>2 DEF link, data, nego, conn, guard
<1>4. CASE Manager
    <2>1. CASE TryNew
        BY <2>1 DEF TryNew
    <2>2. CASE BlockTee
        BY <2>2 DEF BlockTee
    <2>3. CASE Link
        BY <2>3 DEF Link
    <2>4. CASE LinkFails
        BY <2>4 DEF LinkFails
    <2>5. CASE Start
        BY <2>5 DEF Start
    <2>6. CASE Unlink
        BY <2>6 DEF Unlink
    <2>7. QED
        BY <1>4, <2>1, <2>2, <2>3, <2>4, <2>5, <2>6 DEF Manager
<1>5. CASE Tell
    BY <1>5 DEF Tell
<1>6. ASSUME NEW e \in Encoders, Excise(e) PROVE Rest'
    BY <1>6 DEF Excise
<1>7. CASE Unblock
    BY <1>7 DEF Unblock
<1>8. CASE KillerIsTold
    <2>1. /\ killer' = "done" /\ told' = FALSE
          /\ UNCHANGED <<stage, tee, linkFailed, data, busy, nego, conn, channel>>
        BY <1>8 DEF KillerIsTold
    <2>2. /\ remote' \in BOOLEAN /\ told' \in BOOLEAN /\ linkFailed' \in BOOLEAN
          /\ killer' \in {"off", "waiting", "timed_out", "done"}
        BY <2>1
    <2>3. UNCHANGED <<stage, tee, probe, queued, encoders, passed, busy, offers, answers, signaling,
                      peer, losses, channel>>
        BY <2>1
    <2>4. QED
        BY <2>2, <2>3
<1>9. CASE KillerTimesOut
    BY <1>9 DEF KillerTimesOut
<1>10. CASE KillerKills
    BY <1>10 DEF KillerKills
<1>11. CASE Produce
    BY <1>11 DEF Produce
<1>12. CASE Flow
    BY <1>12 DEF Flow
<1>13. CASE OnOfferCreated
    BY <1>13 DEF OnOfferCreated
<1>14. CASE SendOffer
    BY <1>14 DEF SendOffer
<1>15. CASE OnIceCandidate
    BY <1>15 DEF OnIceCandidate
<1>16. CASE HandleAnswer
    BY <1>16 DEF HandleAnswer
<1>17. CASE ApplyAnswer
    BY <1>17 DEF ApplyAnswer
<1>18. CASE Connect
    BY <1>18 DEF Connect
<1>19. CASE CloseLate
    BY <1>19 DEF CloseLate, Lost
<1>20. CASE CloseChannel
    BY <1>20 DEF CloseChannel
<1>21. ASSUME NEW r \in Reports, Lose(r[1], r[2]) PROVE Rest'
    <2>1. r[2] \in Lost
        BY DEF Reports
    <2>2. QED
        BY <1>21, <2>1 DEF Lose
<1>22. CASE UNCHANGED peerVars
    BY <1>22 DEF peerVars
<1>23. QED
    BY <1>4, <1>5, <1>6, <1>7, <1>8, <1>9, <1>10, <1>11, <1>12, <1>13, <1>14, <1>15, <1>16, <1>17,
       <1>18, <1>19, <1>20, <1>21, <1>22
    DEF PeerNext, Connected, Killer

LEMMA PeerInitIInv == PeerInit => PeerIInv
<1> SUFFICES ASSUME PeerInit PROVE PeerIInv
    OBVIOUS
<1>1. said = <<>> /\ <<>> \in Seq(Kinds) /\ Len(<<>>) = 0
    BY DEF PeerInit
<1>2. PeerTypeOK
    <2>1. said \in SeqOf({"start", "offer", "candidate", "end"}, 4)
        <3>1. \A i, j \in 1..Len(said) : said[i] = said[j] => i = j
            BY <1>1
        <3>2. QED
            BY <1>1, <3>1, AtMostFour DEF Kinds
    <2>2. 0 \in 0..MaxQueued /\ 0 \in 0..MaxOffers /\ 0 \in 0..MaxOffers + 1 /\ 0 \in 0..MaxLosses
        BY PeerAssumption
    <2>3. QED
        BY <2>1, <2>2 DEF PeerInit, PeerTypeOK
<1>3. Negotiated /\ Blocked /\ Informed /\ NothingPassesUnshaped /\ PadGivenBack
    BY DEF PeerInit, Negotiated, Blocked, Informed, NothingPassesUnshaped, PadGivenBack
<1>4. Spoken /\ MessagesInOrder
    BY <1>1 DEF PeerInit, Spoken, MessagesInOrder
<1>5. QED
    BY <1>2, <1>3, <1>4 DEF PeerIInv

\* The inductive invariant: what the session has told its peer, and what that says of its
\* negotiation, its killer and its blocking probe.
THEOREM PeerInductiveInvariant == PeerSpec => []PeerIInv
<1>1. PeerIInv /\ [PeerNext]_peerVars => PeerIInv'
    BY PeerStepTyped, StepSpoken, StepRest DEF PeerIInv
<1>2. QED
    BY PeerInitIInv, <1>1, PTL DEF PeerSpec

\* In every reachable state the peer hears of its session first and of the offer before the
\* candidates, no buffer has gone through an encoder that was not looked at, and a sink that
\* was linked and is gone has given its pad back.
THEOREM PeerInvAlways == PeerSpec => []PeerInv
<1>1. PeerIInv => PeerInv
    BY DEF PeerIInv, PeerInv
<1>2. QED
    BY PeerInductiveInvariant, <1>1, PTL

\* The killer never gives a session up that has been connected: it finds the message, whatever
\* happens between the connection and its time.
THEOREM KillerSparesAlways == PeerSpec => KillerSparesConnected
<1>1. PeerIInv /\ [PeerNext]_peerVars =>
        (killer' = "timed_out" /\ killer # "timed_out" => ~(peer = "connected" /\ busy # "telling"))
    <2> SUFFICES ASSUME PeerIInv, [PeerNext]_peerVars, killer' = "timed_out", killer # "timed_out"
                 PROVE  ~(peer = "connected" /\ busy # "telling")
        OBVIOUS
    <2>1. KillerTimesOut
        BY DEF PeerNext, Manager, Connected, Killer, TryNew, BlockTee, Link, LinkFails, Start, Unlink,
               Tell, Excise, Unblock, KillerIsTold, KillerKills, Produce, Flow, OnOfferCreated,
               SendOffer, OnIceCandidate, HandleAnswer, ApplyAnswer, Connect, CloseLate,
               CloseChannel, Lose, peerVars, guard
    <2>2. QED
        BY <2>1 DEF KillerTimesOut, PeerIInv, Informed
<1>2. QED
    BY PeerInductiveInvariant, <1>1, PTL DEF PeerSpec, KillerSparesConnected
==============================================================================
