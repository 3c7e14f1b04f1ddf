----------------------------- MODULE Thumbnails -----------------------------
(***************************************************************************)
(* Thumbnail requests for one stream (manager.rs,                          *)
(* get_jpeg_thumbnail_from_source): a thread per request keeps the         *)
(* manager's lock for reading while it wakes the stream, waits for its     *)
(* pipeline and has its image sink (module ImageSink) make a JPEG.  The    *)
(* first request adds a consumer, which a thread gives back when nobody    *)
(* has asked for a while: the cooldown.                                    *)
(*                                                                         *)
(* The locks of the manager and of the stream's state are tokio's: whoever *)
(* asked first goes first, so a writer that waits stops later readers.     *)
(* Time: a request may give up, a grace period end and the cooldown become *)
(* old whenever they may be under way.  The one-second cache of answers    *)
(* in front of all this is left out: it only takes requests away.          *)
(***************************************************************************)
EXTENDS ImageSink, LifecycleState

CONSTANTS
  MaxErrors  \* bound: failures of the pipeline

\* Every request may be a consumer of the stream, which counts them in a u32.
ASSUME ThumbnailsAssumption == MaxErrors \in Nat /\ Cardinality(Requests) <= MaxU32

VARIABLES
  life,      \* the stream's lifecycle
  pipeline,  \* what the stream's state holds: "none", "live" or "dead"
  parking,   \* the watcher waits for the state's lock, to drop the pipeline
  queue,     \* who waits for the manager's lock: requests and Writer
  writer,    \* an operation that writes the manager: "out", "waiting" or "in"
  cooldown,  \* thumbnail_cooldown: "none", "recent" or "old"
  first,     \* first_request of every request
  sleepers,  \* cooldown threads
  errors     \* pipeline failures so far

streamState == <<life, pipeline, parking, errors>>
coolState   == <<cooldown, first, sleepers>>
lockState   == <<queue, writer>>
vars        == <<sinkVars, streamState, coolState, lockState>>

\* In the queue, the writer is nobody's number.
Writer == 0

\* What a request holds: the manager's lock from Enter to its end, the lock of the
\* stream's state while a JPEG is made.
Inside == {r \in Requests : at[r] \notin {"idle", "lock", "done"}}
Making == {r \in Requests : at[r] \in SinkLabels}

-----------------------------------------------------------------------------
(* A request *)

\* The thread of a request ends: its guards are dropped and the answer is sent.
Ends(r) ==
  /\ Goto(r, "done")
  /\ want' = [want EXCEPT ![r] = None] /\ got' = [got EXCEPT ![r] = NoJpeg]

\* Threads are numbered in the order in which they start.
Ask(r) ==
  /\ at[r] = "idle" /\ \A q \in 1..(r - 1) : at[q] # "idle"
  /\ \E s \in Settings : want' = [want EXCEPT ![r] = s]
  /\ UNCHANGED got
  /\ Goto(r, "lock")
  /\ queue' = Append(queue, r)
  /\ UNCHANGED <<sinkState, streamState, coolState, writer>>

Enter(r) ==
  /\ at[r] = "lock" /\ queue # <<>> /\ Head(queue) = r /\ writer # "in"
  /\ queue' = Tail(queue)
  /\ Goto(r, "cool")
  /\ UNCHANGED <<want, got, sinkState, streamState, coolState, writer>>

\* The stream is looked up with try_read: one that is being changed is not found.
NotFound(r) ==
  /\ at[r] = "cool"
  /\ Ends(r)
  /\ UNCHANGED <<sinkState, streamState, coolState, lockState>>

\* Whoever finds no cooldown is the first and adds the consumer.
CheckCooldown(r) ==
  /\ at[r] = "cool"
  /\ first' = [first EXCEPT ![r] = (cooldown = "none")]
  /\ cooldown' = "recent"
  /\ Goto(r, IF cooldown = "none" THEN "add" ELSE "await")
  /\ UNCHANGED <<want, got, sinkState, streamState, sleepers, lockState>>

AddFirst(r) ==
  /\ at[r] = "add"
  /\ life' = AddConsumer(life)
  /\ Goto(r, "await")
  /\ UNCHANGED <<want, got, sinkState, pipeline, parking, errors, coolState, lockState>>

\* The poll reads the state, sees the pipeline Playing, and gives the state up again.
SeePipeline(r) ==
  /\ at[r] = "await" /\ ~parking /\ pipeline # "none"
  /\ Goto(r, "take")
  /\ UNCHANGED <<want, got, sinkState, streamState, coolState, lockState>>

GiveUp_AllGiveBack(r) ==
  /\ at[r] = "await"
  /\ cooldown' = IF first[r] THEN "none" ELSE cooldown
  /\ Goto(r, "giveback") /\ UNCHANGED <<want, got>>
  /\ UNCHANGED <<sinkState, streamState, first, sleepers, lockState>>

\* 30 seconds have passed: the first request undoes what it did, in two steps.
GiveUp(r) ==
  /\ at[r] = "await"
  /\ cooldown' = IF first[r] THEN "none" ELSE cooldown
  /\ IF first[r] THEN Goto(r, "giveback") /\ UNCHANGED <<want, got>> ELSE Ends(r)
  /\ UNCHANGED <<sinkState, streamState, first, sleepers, lockState>>

GiveBack(r) ==
  /\ at[r] = "giveback"
  /\ life' = RemoveConsumer(life)
  /\ first' = [first EXCEPT ![r] = FALSE]
  /\ Ends(r)
  /\ UNCHANGED <<sinkState, pipeline, parking, errors, cooldown, sleepers,
                 lockState>>

\* The state is read again, and this time kept; the pipeline may have gone.
TakeState(r) ==
  /\ at[r] = "take" /\ ~parking
  /\ IF pipeline = "none"
       THEN Make(r, NoJpeg)
       ELSE Goto(r, "quick") /\ UNCHANGED got
  /\ UNCHANGED <<want, sinkState, streamState, coolState, lockState>>

\* The first request leaves its consumer to a cooldown thread.
Answer(r) ==
  /\ at[r] = "made"
  /\ sleepers' = sleepers + (IF first[r] THEN 1 ELSE 0)
  /\ first' = [first EXCEPT ![r] = FALSE]
  /\ Ends(r)
  /\ UNCHANGED <<sinkState, streamState, cooldown, lockState>>

Rest == UNCHANGED <<streamState, coolState, lockState>>

RequestStep(r) ==
  \/ Enter(r) \/ NotFound(r) \/ CheckCooldown(r) \/ AddFirst(r) \/ SeePipeline(r) \/ GiveUp(r)
  \/ GiveBack(r) \/ TakeState(r) \/ Answer(r)
  \/ SinkStep(r) /\ Rest

-----------------------------------------------------------------------------
(* The cooldown *)

CooldownAges ==
  /\ sleepers > 0 /\ cooldown = "recent"
  /\ cooldown' = "old"
  /\ UNCHANGED <<sinkVars, streamState, first, sleepers, lockState>>

\* The thread wakes up, and sleeps on if somebody has asked meanwhile.
CooldownOver ==
  /\ sleepers > 0 /\ cooldown # "recent"
  /\ cooldown' = "none"
  /\ sleepers' = sleepers - 1
  /\ life' = IF cooldown = "old" THEN RemoveConsumer(life) ELSE life
  /\ UNCHANGED <<sinkVars, pipeline, parking, errors, first, lockState>>

-----------------------------------------------------------------------------
(* The stream: its watcher and its pipeline *)

WatcherWakes ==
  /\ life.phase = "Waking" /\ pipeline = "none"
  /\ \/ /\ pipeline' = "live"
        /\ life' = IF ReachesRunning(life) THEN ResetErrorBackoff(PipelineReady(life))
                                           ELSE PipelineReady(life)
        /\ UNCHANGED errors
     \/ /\ errors < MaxErrors /\ errors' = errors + 1
        /\ life' = PipelineError(life)
        /\ UNCHANGED pipeline
  /\ UNCHANGED <<sinkVars, parking, coolState, lockState>>

PipelineDies ==
  /\ pipeline = "live" /\ errors < MaxErrors
  /\ pipeline' = "dead" /\ errors' = errors + 1
  /\ UNCHANGED <<sinkVars, life, parking, coolState, lockState>>

WatcherNotices ==
  /\ \/ life.phase = "Running" /\ pipeline = "dead" /\ life' = PipelineError(life)
     \/ life.phase = "Draining" /\ life' = DrainExpired(life)
  /\ UNCHANGED <<sinkVars, pipeline, parking, errors, coolState, lockState>>

\* A pipeline there in Idle or Waking is dropped, once the state can be written.
WatcherParks ==
  /\ life.phase \in {"Idle", "Waking"} /\ pipeline # "none" /\ ~parking
  /\ parking' = TRUE
  /\ UNCHANGED <<sinkVars, life, pipeline, errors, coolState, lockState>>

\* The image sink goes with its pipeline: the next one starts afresh.
WatcherDrops ==
  /\ parking /\ Making = {}
  /\ parking' = FALSE /\ pipeline' = "none"
  /\ rawLock' = None /\ rawFresh' = FALSE /\ encLock' = None
  /\ config' = None /\ held' = "none" /\ encoder' = <<>> /\ inbox' = NoJpeg
  /\ cache' = [s \in Settings |-> NoJpeg]
  /\ tangled' = FALSE /\ overlapped' = FALSE
  /\ UNCHANGED <<at, want, got, life, errors, coolState, lockState>>

WatcherStep == WatcherWakes \/ WatcherNotices \/ WatcherParks \/ WatcherDrops

-----------------------------------------------------------------------------
(* Another operation on the manager, such as adding a stream *)

WriterAsks ==
  /\ writer = "out"
  /\ writer' = "waiting" /\ queue' = Append(queue, Writer)
  /\ UNCHANGED <<sinkVars, streamState, coolState>>

WriterEnters ==
  /\ writer = "waiting" /\ queue # <<>> /\ Head(queue) = Writer /\ Inside = {}
  /\ writer' = "in" /\ queue' = Tail(queue)
  /\ UNCHANGED <<sinkVars, streamState, coolState>>

WriterLeaves ==
  /\ writer = "in"
  /\ writer' = "out"
  /\ UNCHANGED <<sinkVars, streamState, coolState, queue>>

-----------------------------------------------------------------------------
Init ==
  /\ SinkInit
  /\ at = [r \in Requests |-> "idle"] /\ got = [r \in Requests |-> NoJpeg]
  /\ want = [r \in Requests |-> None]
  /\ life = InitialState("Lazy") /\ pipeline = "none" /\ parking = FALSE
  /\ queue = <<>> /\ writer = "out"
  /\ cooldown = "none" /\ first = [r \in Requests |-> FALSE] /\ sleepers = 0
  /\ errors = 0

Next ==
  \/ \E r \in Requests : Ask(r) \/ RequestStep(r)
  \/ EncoderStep /\ Rest
  \/ RawFrameAges /\ Rest
  \/ \E s \in Settings : JpegAges(s) /\ Rest
  \/ CooldownAges \/ CooldownOver
  \/ PipelineDies \/ WatcherStep
  \/ WriterAsks \/ WriterEnters \/ WriterLeaves

Spec == Init /\ [][Next]_vars

\* Every thread is scheduled and every wait has its timeout; the locks are fair.
Fairness ==
  /\ \A r \in Requests : WF_vars(RequestStep(r))
  /\ WF_vars(WatcherStep) /\ WF_vars(CooldownOver)
  /\ WF_vars(WriterEnters) /\ WF_vars(WriterLeaves)

FairSpec == Spec /\ Fairness

-----------------------------------------------------------------------------
(* Properties *)

TypeOK ==
  /\ SinkTypeOK
  /\ at \in [Requests -> SinkLabels \union {"idle", "lock", "cool", "add", "await", "take",
                                            "giveback", "done"}]
  /\ life \in LifecycleStates
  /\ pipeline \in {"none", "live", "dead"} /\ writer \in {"out", "waiting", "in"}
  /\ parking \in BOOLEAN
  /\ queue \in Seq(Requests \union {Writer})
  /\ cooldown \in {"none", "recent", "old"} /\ first \in [Requests -> BOOLEAN]
  /\ sleepers \in Nat /\ errors \in 0..MaxErrors

Owners == {r \in Requests : first[r] /\ at[r] # "giveback"}

\* While the cooldown is set, exactly one request or one thread will clear it: no
\* request counts on a consumer that nobody added, and none stays for ever.
CooldownOwned ==
  Cardinality(Owners) + sleepers = IF cooldown = "none" THEN 0 ELSE 1

Holders ==
  Cardinality({r \in Requests : first[r] /\ at[r] # "add"}) + sleepers

\* The stream has the consumers of a first request, from its add to its end, and of a
\* cooldown thread, and no others, however requests time out.
ThumbnailConsumers ==
  life.consumers = IF life.phase \in {"Idle", "Draining"} THEN 0 ELSE Holders

\* Whatever thumbnail requests wait for with the manager's lock in their hands, a
\* pipeline, a frame, each other's captures and JPEGs, they give it up in time:
\* another user of the manager gets in.
WriterGetsIn == writer = "waiting" ~> writer = "in"

\* The consumers that thumbnail requests and their cooldown keep on the stream.
ConsumersInv == TypeOK /\ CooldownOwned /\ ThumbnailConsumers

\* The pictures that requests are answered with: made as asked, from the last frame
\* that was captured (image_sink.rs, make_jpeg_thumbnail).
PicturesInv == JpegAsAsked /\ CacheShowsLastFrame
=============================================================================
