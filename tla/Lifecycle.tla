------------------------------ MODULE Lifecycle ------------------------------
(***************************************************************************)
(* The lifecycle actor of one stream (src/lib/stream/lifecycle), the       *)
(* bounded command channel in front of it and the holders that talk to it. *)
(*                                                                         *)
(* A holder is whoever counts as one consumer: an RTSP client connection,  *)
(* a WebRTC session, a thumbnail cooldown.  RTSP clients (Background) use  *)
(* the *_in_background methods, which try_send and lose the command when   *)
(* the channel is full; the others (Requesters) wait for room and then for *)
(* the reply.  The stream's watcher sends the four pipeline commands, one  *)
(* at a time, and dropping the Stream sends Shutdown.                      *)
(***************************************************************************)
EXTENDS LifecycleState, Sequences, FiniteSets

CONSTANTS
  Background,  \* holders that use add/remove_consumer_in_background
  Requesters,  \* holders that use add/remove_consumer and await the reply
  Watcher,     \* the stream's watcher task
  NoOne,       \* sender of Shutdown: the destructor, which awaits nothing
  Capacity     \* COMMAND_CHANNEL_CAPACITY

Holders == Background \union Requesters

ASSUME LifecycleAssumption ==
  /\ Background \intersect Requesters = {}
  /\ Watcher \notin Holders /\ NoOne \notin Holders /\ Watcher # NoOne
  /\ IsFiniteSet(Background) /\ IsFiniteSet(Requesters)
  /\ Capacity \in Nat \ {0}

VARIABLES
  state,    \* LifecycleState, owned by the actor
  queue,    \* the mpsc channel: commands sent and not yet handled
  alive,    \* the actor task runs (Shutdown ends it)
  waiting,  \* tasks suspended in request(), waiting for their reply
  wants,    \* holders that have asked to be a consumer and not asked to leave
  counted,  \* history: holders whose last handled command was an add
  lost      \* history: which kinds of command were dropped or saturated away

vars == <<state, queue, alive, waiting, wants, counted, lost>>

ConsumerOps == {"AddConsumer", "RemoveConsumer"}
PipelineOps == {"PipelineReady", "PipelineError", "DrainExpired", "ResetErrorBackoff"}

\* Requests carry a reply channel; the sender decides whether one is awaited.
Commands == [op : ConsumerOps, from : Holders]
              \union [op : PipelineOps, from : {Watcher}]
              \union [op : {"Shutdown"}, from : {NoOne}]

Command(op, who) == [op |-> op, from |-> who]

HasRoom == Len(queue) < Capacity

ShutdownSent == ~alive \/ \E i \in 1..Len(queue) : queue[i].op = "Shutdown"

-----------------------------------------------------------------------------
(* The handle's side: request, *_in_background, shutdown_in_background *)

\* request(): send().await blocks until there is room and fails once the
\* receiver is gone; the caller then awaits its reply.
Request(who, op) ==
  /\ alive
  /\ HasRoom
  /\ who \notin waiting
  /\ queue' = Append(queue, Command(op, who))
  /\ waiting' = waiting \union {who}
  /\ UNCHANGED <<state, alive, counted, lost>>

RequestAdd(h) ==
  /\ h \in Requesters \ wants
  /\ Request(h, "AddConsumer")
  /\ wants' = wants \union {h}

RequestRemove(h) ==
  /\ h \in Requesters \intersect wants
  /\ Request(h, "RemoveConsumer")
  /\ wants' = wants \ {h}

RequestPipelineOp(op) ==
  /\ Request(Watcher, op)
  /\ UNCHANGED wants

\* try_send: the caller goes on whether or not the command went in.  (Once the
\* actor is gone the closed channel refuses everything and nothing changes.)
TrySend(h, op) ==
  /\ alive
  /\ \/ /\ HasRoom
        /\ queue' = Append(queue, Command(op, h))
        /\ UNCHANGED lost
     \/ /\ ~HasRoom
        /\ lost' = lost \union {op}
        /\ UNCHANGED queue
  /\ UNCHANGED <<state, alive, waiting, counted>>

AddInBackground(h) ==
  /\ h \in Background \ wants
  /\ TrySend(h, "AddConsumer")
  /\ wants' = wants \union {h}

RemoveInBackground(h) ==
  /\ h \in Background \intersect wants
  /\ TrySend(h, "RemoveConsumer")
  /\ wants' = wants \ {h}

\* Drop for Stream: try_send, once; a full channel swallows it.
ShutdownInBackground ==
  /\ ~ShutdownSent
  /\ HasRoom
  /\ queue' = Append(queue, Command("Shutdown", NoOne))
  /\ UNCHANGED <<state, alive, waiting, wants, counted, lost>>

-----------------------------------------------------------------------------
(* The actor's side: run and handle_command *)

Apply(op) ==
  CASE op = "AddConsumer"       -> AddConsumer(state)
    [] op = "RemoveConsumer"    -> RemoveConsumer(state)
    [] op = "PipelineReady"     -> PipelineReady(state)
    [] op = "PipelineError"     -> PipelineError(state)
    [] op = "DrainExpired"      -> DrainExpired(state)
    [] op = "ResetErrorBackoff" -> ResetErrorBackoff(state)

\* The holders that are in once command c has been handled.
After(c, in) ==
  CASE c.op = "AddConsumer"    -> in \union {c.from}
    [] c.op = "RemoveConsumer" -> in \ {c.from}
    [] OTHER                   -> in

\* One command: mutate, publish the snapshot, reply.
Handle ==
  /\ alive
  /\ queue # <<>>
  /\ LET c == Head(queue) IN
       /\ c.op # "Shutdown"
       /\ state' = Apply(c.op)
       /\ queue' = Tail(queue)
       /\ waiting' = waiting \ {c.from}
       /\ counted' = After(c, counted)
       /\ lost' = IF c.op = "AddConsumer" /\ state.consumers = MaxU32
                    THEN lost \union {"AddConsumer"} ELSE lost
  /\ UNCHANGED <<alive, wants>>

\* Ending the task drops the receiver: the commands behind Shutdown are
\* dropped with their reply channels, so every suspended request() returns an
\* error.
HandleShutdown_KeepsReplies ==
  /\ alive
  /\ queue # <<>>
  /\ Head(queue).op = "Shutdown"
  /\ alive' = FALSE
  /\ queue' = <<>>
  /\ UNCHANGED <<state, waiting, wants, counted, lost>>

HandleShutdown ==
  /\ alive
  /\ queue # <<>>
  /\ Head(queue).op = "Shutdown"
  /\ alive' = FALSE
  /\ queue' = <<>>
  /\ waiting' = {}
  /\ UNCHANGED <<state, wants, counted, lost>>

-----------------------------------------------------------------------------
Init ==
  /\ \E mode \in Modes : state = InitialState(mode)
  /\ queue = <<>>
  /\ alive = TRUE
  /\ waiting = {}
  /\ wants = {}
  /\ counted = {}
  /\ lost = {}

Next ==
  \/ \E h \in Requesters : RequestAdd(h) \/ RequestRemove(h)
  \/ \E op \in PipelineOps : RequestPipelineOp(op)
  \/ \E h \in Background : AddInBackground(h) \/ RemoveInBackground(h)
  \/ ShutdownInBackground
  \/ Handle
  \/ HandleShutdown

Spec == Init /\ [][Next]_vars

\* The actor is a spawned tokio task: it is polled while its channel is not
\* empty.  Nothing is assumed of the holders, the watcher or the destructor.
FairSpec == Spec /\ WF_vars(Handle) /\ WF_vars(HandleShutdown)

-----------------------------------------------------------------------------
(* Properties *)

\* Every variable keeps its type; in particular the u32 counters stay in range
\* whatever the holders and the watcher send.
TypeOK ==
  /\ state \in LifecycleStates
  /\ queue \in Seq(Commands) /\ Len(queue) <= Capacity
  /\ alive \in BOOLEAN
  /\ waiting \subseteq Requesters \union {Watcher}
  /\ wants \subseteq Holders
  /\ counted \subseteq Holders
  /\ lost \subseteq ConsumerOps

\* assert_snapshot_invariants of the tests, and more: a Running pipeline has a
\* consumer, and an Idle or Draining one hides no count that would resurface.
CountMatchesPhase ==
  /\ state.phase = "Running" => state.consumers > 0
  /\ state.phase \in {"Idle", "Draining"} => state.consumers = 0

\* The counter keeps its width, whatever saturates, and agrees with the phase after every command.
LifecycleInv == TypeOK /\ CountMatchesPhase

\* An eager stream is never parked: no sequence of removals, errors and drain
\* expiries takes it out of Waking and Running or below its phantom consumer.
EagerNeverParks ==
  state.mode = "Eager" => /\ state.phase \in {"Waking", "Running"}
                          /\ state.consumers >= 1

\* As long as no command was dropped and no add saturated, the counter is
\* exactly the number of holders that are in, whatever the interleaving of
\* adds, removes, pipeline errors, readiness and drains: nobody's add is ever
\* used up by somebody else's remove.
ExactCount ==
  lost = {} => state.consumers = Phantom(state.mode) + Cardinality(counted)

\* Once the channel is drained the counter has drifted from the real holders
\* only in the direction of what was lost: without a lost add it never
\* understates them (a watched pipeline is not parked), and without a lost
\* remove it never overstates them (an unwatched one is not kept up).
DriftFollowsLoss ==
  alive /\ queue = <<>> =>
    LET holders == Phantom(state.mode) + Cardinality(wants) IN
      /\ "AddConsumer" \notin lost    => state.consumers >= holders
      /\ "RemoveConsumer" \notin lost => state.consumers <= holders

\* The lifecycle implements the lease: only a lifecycle without consumers ever
\* goes back to Idle, and only an add takes it out of Idle.
Lease == INSTANCE PipelineLease WITH
           MaxUsers <- MaxU32,
           reserved <- Phantom(state.mode),
           users    <- state.consumers,
           powered  <- (state.phase # "Idle")

ImplementsLease == Lease!Spec

\* A suspended request() is answered, with a value or with "actor closed".
EveryRequestReturns ==
  \A w \in Requesters \union {Watcher} : w \in waiting ~> w \notin waiting
=============================================================================
