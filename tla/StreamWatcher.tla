---------------------------- MODULE StreamWatcher ----------------------------
(***************************************************************************)
(* One Stream (src/lib/stream/mod.rs): its watcher task, the lifecycle it   *)
(* drives, the pipeline state it creates and tears down, and the consumers *)
(* that come and go meanwhile.                                             *)
(*                                                                         *)
(* The lifecycle actor handles one command at a time and the watcher waits *)
(* for each reply, so a request is one atomic step here (module Lifecycle  *)
(* has the channel).  The watcher itself is not atomic: it reads a         *)
(* snapshot, and everything else may move before it acts on it.            *)
(***************************************************************************)
EXTENDS LifecycleState, Integers, FiniteSets

CONSTANTS
  Clients,       \* consumers from outside: RTSP clients, sessions, thumbnails
  Grace,         \* idle_grace_period, in ticks
  EvictAfter,    \* --stream-recreation-failure-timeout, in ticks
  MaxPins        \* bound: creations of a pinned stream

\* The counters are wide enough for everybody who can be counted at once: what
\* saturation does is in Lifecycle.
ASSUME StreamWatcherAssumption ==
  /\ IsFiniteSet(Clients)
  /\ Grace \in Nat \ {0} /\ EvictAfter \in Nat /\ MaxPins \in Nat \ {0}
  /\ Cardinality(Clients) + MaxPins < MaxU32

VARIABLES
  life,       \* the lifecycle's LifecycleState
  pinned,     \* the stream has a UDP or Zenoh sink, which holds a consumer
  setup,      \* where try_new is: "adding", "removing" (its first consumer), "done"
  pc,         \* the watcher: where it is in its loop
  pipeline,   \* Stream::state: "None", "Default" (no pipeline), "Live", "Dead"
  awaited,    \* a teardown the Waking handler waits for is in progress
  detached,   \* teardowns in progress that nobody waits for: "parked", "timedOut"
  drainAge,   \* ticks since drain_start, or Unset
  failAge,    \* ticks since RecreateFailureTracker::started_at, or Unset
  sleep,      \* ticks of backoff left
  holders,    \* clients whose consumer is counted
  pins        \* history: consumers added by StreamState::try_new

control == <<life, pinned, setup, pc, pipeline, awaited, detached>>

VARIABLES
  drainedFor, \* history: ticks the lifecycle has been Draining without a break
  unseen,     \* history: since drain_start was set, it left Draining and the
              \*          watcher has not observed it outside Draining
  sinceRun,   \* history: ticks since the lifecycle last was Running (or the start)
  overlooked  \* history: since the tracker was reset last, a client made a draining
              \*          stream Running while the tracker had a failure on record

history == <<drainedFor, unseen, sinceRun, overlooked>>

vars == <<control, drainAge, failAge, sleep, holders, pins, history>>

Unset == -1

States == {"None", "Default", "Live", "Dead"}
Exists(st) == st \in {"Live", "Dead"}

Steps == {"select", "Idle", "Waking", "teardown", "create", "pinned", "ready", "reset",
          "Running", "Draining", "park", "sleep", "evicted", "stopped"}

-----------------------------------------------------------------------------
(* The lifecycle as seen from here *)

\* Every change of the lifecycle goes through these actions, which keep the
\* history of its drains and of when it was Running.
SetDrained(next, missed) ==
  /\ life' = next
  /\ drainedFor' = IF next.phase = "Draining" /\ life.phase = "Draining"
                     THEN drainedFor ELSE 0
  /\ unseen' = missed
  /\ sinceRun' = IF "Running" \in {life.phase, next.phase} THEN 0 ELSE sinceRun

SetLife(next) ==
  SetDrained(next, unseen \/ (life.phase = "Draining" /\ next.phase = "Running"))

LifeUnchanged == UNCHANGED <<life, drainedFor, unseen, sinceRun>>

Gone == pc = "stopped"

\* try_new: a lazy stream is poked awake once by a consumer that leaves again.
SetupAdds ==
  /\ ~Gone /\ setup = "adding"
  /\ SetLife(AddConsumer(life))
  /\ setup' = "removing"
  /\ UNCHANGED <<pinned, pc, pipeline, awaited, detached, drainAge, failAge, sleep,
                 holders, pins, overlooked>>

SetupRemoves ==
  /\ ~Gone /\ setup = "removing"
  /\ SetLife(RemoveConsumer(life))
  /\ setup' = "done"
  /\ UNCHANGED <<pinned, pc, pipeline, awaited, detached, drainAge, failAge, sleep,
                 holders, pins, overlooked>>

Connect(c) ==
  /\ ~Gone /\ setup = "done" /\ c \notin holders
  /\ SetLife(AddConsumer(life))
  /\ holders' = holders \union {c}
  /\ overlooked' = (overlooked \/ (life.phase = "Draining" /\ failAge # Unset))
  /\ UNCHANGED <<pinned, setup, pc, pipeline, awaited, detached, drainAge, failAge, sleep,
                 pins>>

Disconnect(c) ==
  /\ ~Gone /\ c \in holders
  /\ SetLife(RemoveConsumer(life))
  /\ holders' = holders \ {c}
  /\ UNCHANGED <<pinned, setup, pc, pipeline, awaited, detached, drainAge, failAge, sleep,
                 pins, overlooked>>

-----------------------------------------------------------------------------
(* The watcher *)

\* The top of the loop: woken by a snapshot or by the 100 ms tick, it reads
\* the current snapshot.
Observe ==
  /\ pc = "select"
  /\ pc' = life.phase
  /\ unseen' = (unseen /\ life.phase = "Draining")
  /\ UNCHANGED <<life, pinned, setup, pipeline, awaited, detached, drainAge, failAge,
                 sleep, holders, pins, drainedFor, sinceRun, overlooked>>

\* A pipeline still there in Idle is dropped on a blocking thread.
IdleHandler ==
  /\ pc = "Idle"
  /\ drainAge' = Unset
  /\ pipeline' = IF Exists(pipeline) THEN "None" ELSE pipeline
  /\ detached' = detached \union (IF Exists(pipeline) THEN {"parked"} ELSE {})
  /\ pc' = "select"
  /\ LifeUnchanged
  /\ UNCHANGED <<pinned, setup, awaited, failAge, sleep, holders, pins, overlooked>>

\* Waking: the old state is dropped and its teardown awaited before anything
\* is created.  A state without pipeline drops at once.
WakingHandler ==
  /\ pc = "Waking"
  /\ drainAge' = Unset
  /\ pipeline' = "None"
  /\ awaited' = Exists(pipeline)
  /\ pc' = IF Exists(pipeline) THEN "teardown" ELSE "create"
  /\ LifeUnchanged
  /\ UNCHANGED <<pinned, setup, detached, failAge, sleep, holders, pins, overlooked>>

\* The join handle resolved, or ten seconds passed and the teardown goes on
\* by itself.
TeardownAwaited ==
  /\ pc = "teardown"
  /\ pc' = "create"
  /\ awaited' = FALSE
  /\ detached' = detached \union (IF awaited THEN {"timedOut"} ELSE {})
  /\ LifeUnchanged
  /\ UNCHANGED <<pinned, setup, pipeline, drainAge, failAge, sleep, holders, pins,
                 overlooked>>

\* The source cannot be refreshed, the device is missing, or StreamState
\* cannot be built.  The tracker is asked first: it starts at this failure or
\* says how long the failures have lasted.
Elapsed == IF failAge = Unset THEN 0 ELSE failAge

WakeFails ==
  /\ pc \in {"create", "pinned"}
  /\ pinned => pins < MaxPins
  /\ failAge' = Elapsed
  /\ IF Elapsed >= EvictAfter
       THEN /\ pc' = "evicted"
            /\ LifeUnchanged
            /\ UNCHANGED sleep
       ELSE /\ pc' = "sleep"
            /\ SetLife(PipelineError(life))
            /\ sleep' = ComputeBackoff(PipelineError(life).error_count)
  /\ UNCHANGED <<pinned, setup, pipeline, awaited, detached, drainAge, holders, pins,
                 overlooked>>

\* StreamState::try_new adds the permanent consumer of a UDP or Zenoh sink;
\* a later step of the same creation may still fail.
PinConsumer ==
  /\ pc = "create" /\ pinned
  /\ SetLife(AddConsumer(life))
  /\ pins' = pins + 1
  /\ pc' = "pinned"
  /\ UNCHANGED <<pinned, setup, pipeline, awaited, detached, drainAge, failAge, sleep,
                 holders, overlooked>>

WakeSucceeds ==
  /\ pc = IF pinned THEN "pinned" ELSE "create"
  /\ pipeline' = "Live"
  /\ pc' = "ready"
  /\ LifeUnchanged
  /\ UNCHANGED <<pinned, setup, awaited, detached, drainAge, failAge, sleep, holders, pins,
                 overlooked>>

\* pipeline_ready: without consumers the lifecycle drains instead, and the
\* failure tracker is left as it is.
ReportReady ==
  /\ pc = "ready"
  /\ SetLife(PipelineReady(life))
  /\ pc' = IF ReachesRunning(life) THEN "reset" ELSE "select"
  /\ UNCHANGED <<pinned, setup, pipeline, awaited, detached, drainAge, failAge, sleep,
                 holders, pins, overlooked>>

ResetFailures_KeepsTracker ==
  /\ pc = "reset"
  /\ SetLife(ResetErrorBackoff(life))
  /\ failAge' = failAge
  /\ overlooked' = FALSE
  /\ pc' = "select"
  /\ UNCHANGED <<pinned, setup, pipeline, awaited, detached, drainAge, sleep, holders, pins>>

ResetFailures ==
  /\ pc = "reset"
  /\ SetLife(ResetErrorBackoff(life))
  /\ failAge' = Unset
  /\ overlooked' = FALSE
  /\ pc' = "select"
  /\ UNCHANGED <<pinned, setup, pipeline, awaited, detached, drainAge, sleep, holders, pins>>

RunningHandler_KeepsDrainStart ==
  /\ pc = "Running"
  /\ drainAge' = drainAge
  /\ IF pipeline = "Live"
       THEN pc' = "select" /\ LifeUnchanged /\ UNCHANGED sleep
       ELSE /\ pc' = "sleep"
            /\ SetLife(PipelineError(life))
            /\ sleep' = ComputeBackoff(PipelineError(life).error_count)
  /\ UNCHANGED <<pinned, setup, pipeline, awaited, detached, failAge, holders, pins,
                 overlooked>>

RunningHandler_TrustsState ==
  /\ pc = "Running"
  /\ drainAge' = Unset
  /\ IF Exists(pipeline)
       THEN pc' = "select" /\ LifeUnchanged /\ UNCHANGED sleep
       ELSE /\ pc' = "sleep"
            /\ SetLife(PipelineError(life))
            /\ sleep' = ComputeBackoff(PipelineError(life).error_count)
  /\ UNCHANGED <<pinned, setup, pipeline, awaited, detached, failAge, holders, pins,
                 overlooked>>

\* Running: a pipeline whose runner has ended is reported as an error.
RunningHandler ==
  /\ pc = "Running"
  /\ drainAge' = Unset
  /\ IF pipeline = "Live"
       THEN pc' = "select" /\ LifeUnchanged /\ UNCHANGED sleep
       ELSE /\ pc' = "sleep"
            /\ SetLife(PipelineError(life))
            /\ sleep' = ComputeBackoff(PipelineError(life).error_count)
  /\ UNCHANGED <<pinned, setup, pipeline, awaited, detached, failAge, holders, pins,
                 overlooked>>

DrainingHandler_IgnoresReply ==
  /\ pc = "Draining"
  /\ IF drainAge >= Grace
       THEN /\ drainAge' = Unset
            /\ SetDrained(DrainExpired(life), FALSE)
            /\ pc' = "park"
       ELSE /\ drainAge' = IF drainAge = Unset THEN 0 ELSE drainAge
            /\ LifeUnchanged
            /\ pc' = "select"
  /\ UNCHANGED <<pinned, setup, pipeline, awaited, detached, failAge, sleep, holders, pins,
                 overlooked>>

\* Draining: the first observation starts the grace period; once it is over,
\* drain_expired decides, by compare and set, whether the stream parks.
DrainingHandler ==
  /\ pc = "Draining"
  /\ IF drainAge >= Grace
       THEN /\ drainAge' = Unset
            /\ SetDrained(DrainExpired(life), FALSE)
            /\ pc' = IF DrainExpires(life) THEN "park" ELSE "select"
       ELSE /\ drainAge' = IF drainAge = Unset THEN 0 ELSE drainAge
            /\ LifeUnchanged
            /\ pc' = "select"
  /\ UNCHANGED <<pinned, setup, pipeline, awaited, detached, failAge, sleep, holders, pins,
                 overlooked>>

\* The parked pipeline is dropped on a blocking thread nobody waits for.
Park ==
  /\ pc = "park"
  /\ pipeline' = "None"
  /\ detached' = detached \union (IF Exists(pipeline) THEN {"parked"} ELSE {})
  /\ pc' = "select"
  /\ LifeUnchanged
  /\ UNCHANGED <<pinned, setup, awaited, drainAge, failAge, sleep, holders, pins,
                 overlooked>>

BackoffOver ==
  /\ pc = "sleep" /\ sleep = 0
  /\ pc' = "select"
  /\ LifeUnchanged
  /\ UNCHANGED <<pinned, setup, pipeline, awaited, detached, drainAge, failAge, sleep,
                 holders, pins, overlooked>>

WatcherStep ==
  \/ Observe \/ IdleHandler \/ WakingHandler \/ TeardownAwaited
  \/ PinConsumer \/ ReportReady \/ ResetFailures
  \/ RunningHandler \/ DrainingHandler \/ Park \/ BackoffOver

-----------------------------------------------------------------------------
(* Everything else *)

\* The pipeline's runner ends: an error or EOS on the bus, or no progress.
PipelineDies ==
  /\ pipeline = "Live"
  /\ pinned => pins < MaxPins
  /\ pipeline' = "Dead"
  /\ LifeUnchanged
  /\ UNCHANGED <<pinned, setup, pc, awaited, detached, drainAge, failAge, sleep, holders,
                 pins, overlooked>>

TeardownEnds ==
  /\ \/ awaited /\ awaited' = FALSE /\ UNCHANGED detached
     \/ /\ \E d \in detached : detached' = detached \ {d}
        /\ UNCHANGED awaited
  /\ LifeUnchanged
  /\ UNCHANGED <<pinned, setup, pc, pipeline, drainAge, failAge, sleep, holders, pins,
                 overlooked>>

\* The Stream is dropped, by an API call or by the removal an eviction spawned:
\* the watcher is aborted and the last state goes with it.
StreamDropped ==
  /\ ~Gone
  /\ pc' = "stopped"
  /\ pipeline' = "None"
  /\ LifeUnchanged
  /\ UNCHANGED <<pinned, setup, awaited, detached, drainAge, failAge, sleep, holders, pins, overlooked>>

Older(age, limit) == IF age \in 0..(limit - 1) THEN age + 1 ELSE age

\* Time passes everywhere at once.  Ages stop at the limit they are compared
\* with.
Tick ==
  /\ ~Gone
  /\ drainAge' = Older(drainAge, Grace)
  /\ failAge' = Older(failAge, EvictAfter)
  /\ sleep' = SaturatingDec(sleep)
  /\ drainedFor' = IF life.phase = "Draining" THEN Older(drainedFor, Grace) ELSE 0
  /\ sinceRun' = IF life.phase = "Running" THEN 0 ELSE Older(sinceRun, EvictAfter)
  /\ UNCHANGED <<control, holders, pins, unseen, overlooked>>

-----------------------------------------------------------------------------
Init ==
  /\ \E mode \in Modes :
       /\ life = InitialState(mode)
       /\ setup = IF mode = "Lazy" THEN "adding" ELSE "done"
  /\ pinned \in BOOLEAN
  /\ pc = "select"
  /\ pipeline = "Default"
  /\ awaited = FALSE /\ detached = {}
  /\ drainAge = Unset /\ failAge = Unset /\ sleep = 0
  /\ holders = {} /\ pins = 0
  /\ drainedFor = 0 /\ unseen = FALSE /\ sinceRun = 0 /\ overlooked = FALSE

Next ==
  \/ SetupAdds \/ SetupRemoves
  \/ \E c \in Clients : Connect(c) \/ Disconnect(c)
  \/ WatcherStep \/ WakeFails \/ WakeSucceeds
  \/ PipelineDies \/ TeardownEnds \/ StreamDropped \/ Tick

Spec == Init /\ [][Next]_vars

\* The watcher and the threads it spawns are scheduled, time passes, and a
\* source that is retried for ever is not down for ever.  Nothing is assumed
\* of the clients, of pipelines dying or of the stream being dropped.
FairSpec ==
  /\ Spec
  /\ WF_vars(SetupAdds) /\ WF_vars(SetupRemoves)
  /\ WF_vars(WatcherStep)
  /\ WF_vars(WakeFails \/ WakeSucceeds) /\ SF_vars(WakeSucceeds)
  /\ WF_vars(TeardownEnds) /\ WF_vars(Tick)
  /\ WF_vars(pc = "evicted" /\ StreamDropped)

-----------------------------------------------------------------------------
(* Properties *)

TypeOK ==
  /\ life \in LifecycleStates
  /\ pinned \in BOOLEAN
  /\ setup \in {"adding", "removing", "done"}
  /\ pc \in Steps
  /\ pipeline \in States
  /\ awaited \in BOOLEAN
  /\ detached \subseteq {"parked", "timedOut"}
  /\ drainAge \in {Unset} \union 0..Grace
  /\ failAge \in {Unset} \union 0..EvictAfter
  /\ sleep \in 0..BackoffCap
  /\ holders \subseteq Clients
  /\ pins \in 0..MaxPins
  /\ drainedFor \in 0..Grace
  /\ unseen \in BOOLEAN
  /\ sinceRun \in 0..EvictAfter /\ overlooked \in BOOLEAN

\* A stream that says Running or Draining has a pipeline object: neither a
\* stale snapshot in the watcher nor a client that comes back while it parks
\* makes the watcher take the pipeline away from under a running lifecycle.
RunningHasPipeline ==
  ~Gone /\ life.phase \in {"Running", "Draining"} => Exists(pipeline)

\* The lifecycle counts exactly the clients, the initial consumer of try_new,
\* the phantom and the consumers every creation of a pinned stream has added:
\* errors, recreations and drains neither lose a client nor forget one.
ConsumersAccountedFor ==
  life.consumers = Phantom(life.mode) + Cardinality(holders) + pins
                     + (IF setup = "removing" THEN 1 ELSE 0)

\* "so the stream never enters Draining/Idle": from the creation that adds the
\* UDP or Zenoh consumer on, whatever clients do and however often it fails.
PinnedStaysUp ==
  pins > 0 => life.phase \in {"Waking", "Running"}

\* A pipeline is parked only after a full grace period without consumers,
\* unless a client came and left between two looks of the watcher.
FullGrace ==
  [][ life.phase = "Draining" /\ life'.phase = "Idle" /\ pc = "Draining"
        => drainedFor >= Grace \/ unseen ]_vars

\* A stream is evicted only when its lifecycle has not been Running, however it
\* got there, for the whole of the recreation failure timeout: unless a client
\* that came back to a draining stream made it Running, which resets neither the
\* tracker nor the backoff, so that an old failure still counts.
EvictedOnlyAfterTimeout ==
  pc = "evicted" => sinceRun >= EvictAfter \/ overlooked

\* What --stream-recreation-failure-timeout says, "How long to keep retrying
\* failed stream recreation before removing the stream": the stream has been
\* retried, and has not been Running, for that long.
RetriedForTheTimeout ==
  pc = "evicted" => sinceRun >= EvictAfter

\* The Waking handler awaits the old teardown so that the resources are
\* released before it creates the new pipeline; only its own timeout may make
\* it go ahead.
ReleasedBeforeRecreation ==
  pc \in {"create", "pinned"} => "parked" \notin detached

\* A connected client gets a live pipeline, however often it has died before,
\* unless the client leaves or the stream is given up.
Served ==
  holders # {} ~> \/ pipeline = "Live"
                  \/ holders = {}
                  \/ pc \in {"evicted", "stopped"}

\* A lazy stream nobody watches ends up without a pipeline.
Released ==
  ~pinned /\ life.mode = "Lazy" /\ setup = "done" /\ holders = {}
    ~> ~Exists(pipeline) \/ holders # {}

\* What a stream's watcher keeps true of its pipeline and its consumers between any
\* two steps.
WatcherInv ==
  TypeOK /\ RunningHasPipeline /\ ConsumersAccountedFor /\ PinnedStaysUp
=============================================================================
