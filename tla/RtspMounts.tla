------------------------------ MODULE RtspMounts ------------------------------
(***************************************************************************)
(* One RTSP path: the server's factory and mount for it                    *)
(* (src/lib/stream/rtsp/rtsp_server.rs), the flow handle of a sink with its *)
(* valve and its count of clients (src/lib/stream/sink/rtsp_sink.rs),      *)
(* Pipeline::add_sink and remove_sink, and the streams that use the path   *)
(* one after the other.                                                    *)
(*                                                                         *)
(* A factory outlives the pipelines of its stream: its callbacks hold the  *)
(* flow handle, which every new sink of the stream takes over.  Watchers,  *)
(* teardown threads and the threads of the RTSP server run side by side    *)
(* and meet in the server's mutex, the valve's mutex and an atomic count.  *)
(*                                                                         *)
(* Of the watcher (module StreamWatcher) there is what touches the path.   *)
(* Backoffs have no length here, so the error count stays at zero.         *)
(***************************************************************************)
EXTENDS LifecycleState, Sequences, FiniteSets

CONSTANTS
  Media,       \* bound: RTSP media at one time (a factory shares one among its clients)
  MaxStreams,  \* bound: streams added, one after the other, with this path
  MaxHandles   \* bound: flow handles made

\* The lifecycle's counter is wide enough for the clients there can be.
ASSUME RtspMountsAssumption ==
  /\ IsFiniteSet(Media) /\ 0 \notin Media /\ Cardinality(Media) < MaxU32
  /\ MaxStreams \in Nat \ {0} /\ MaxHandles \in Nat \ {0}

None == 0

VARIABLES
  table,     \* the stream in MANAGER.streams, or None
  added,     \* streams added so far
  dropping,  \* that stream's destructor is running
  life,      \* per stream: its lifecycle
  watched,   \* streams that also have a consumer of another kind
  at,        \* per stream: where the watcher is
  sink,      \* per stream: the RTSP sink of Stream::state, or NoSink
  alive,     \* per stream: that state's pipeline is running
  making,    \* per stream: the sink under construction, or NoSink
  kept,      \* per stream: the handle in persistent_rtsp, or None
  handle,    \* flow handles: owner, count of clients, whether the valve is open, and the
             \*   medium of the appsrc
  loaded,    \* per stream: what update_valve read, while it is at "swap"
  torn,      \* sinks in the hands of teardown threads
  factory,   \* path_to_factory: the handle of the factory, or None
  mounted,   \* the mount points: likewise
  media,     \* RTSP media: where its callbacks are; orphan, if its factory is gone, and
             \*   mixed (history), if its handle has had another medium at the same time
  raced      \* history: handles on which two operations have overlapped

manager == <<table, added, dropping>>
clients == <<life, watched>>
watcher == <<at, sink, alive, making, kept, loaded>>
server  == <<factory, mounted>>
vars == <<manager, clients, watcher, handle, torn, server, media, raced>>

Streams == 1..MaxStreams

NoSink == [stream |-> None, handle |-> None, preserve |-> FALSE, stale |-> FALSE]
\* preserve is preserve_factory; a stale sink's valve is no longer the one in its handle.
Sinks  == [stream : Streams, handle : 1..MaxHandles, preserve : BOOLEAN, stale : BOOLEAN]

NoMedia == [at |-> "none", handle |-> None, edge |-> FALSE, orphan |-> FALSE, mixed |-> FALSE]

Goto(s, label) == at' = [at EXCEPT ![s] = label]

\* Where a watcher does not await: an abort takes effect after these.
MidPoll == {"swap", "check", "unmount", "insert", "mount"}

\* Requests reach the lifecycle until the destructor has shut it down.
InTable(s) == table = s /\ ~dropping

Uses(m, h) == media[m].at # "none" /\ media[m].handle = h

\* Some operation on the handle is between its count and its valve.
Busy(h) ==
  \/ \E m \in Media : Uses(m, h) /\ media[m].at \in {"opening", "closing"}
  \/ \E s \in Streams : at[s] = "swap" /\ making[s].handle = h

Operates(h) == raced' = IF Busy(h) THEN raced \union {h} ELSE raced

-----------------------------------------------------------------------------
(* RTSPServer::stop_pipeline, and the removal of a sink *)

Orphaned == [m \in Media |->
  IF media[m].at = "none" THEN NoMedia ELSE [media[m] EXCEPT !.orphan = TRUE]]

\* A path that is not known is an error, which callers log or ignore.  Media
\* that exist play on without their factory.
StopPipeline ==
  IF factory # None
    THEN factory' = None /\ mounted' = None /\ media' = Orphaned
    ELSE UNCHANGED <<server, media>>

\* unlink() takes the valve from the handle.  If that has been swapped, the
\* valve is not in the sink's pipeline, unlink() fails and remove_sink ends.
RemoveSink(k) ==
  IF k # NoSink /\ ~k.stale /\ ~k.preserve
    THEN StopPipeline
    ELSE UNCHANGED <<server, media>>

\* A StreamState dropped on a thread of its own, after a pipeline has taken
\* its time to stop.
Teardown(k) ==
  /\ k \in torn
  /\ torn' = torn \ {k}
  /\ RemoveSink(k)
  /\ UNCHANGED <<manager, clients, watcher, handle, raced>>

\* Equal sinks in torn are one: all but the newest of a handle are stale and do nothing.
Tear(k) == torn' = IF k = NoSink THEN torn ELSE torn \union {k}

-----------------------------------------------------------------------------
(* The stream is added and removed *)

\* try_new pokes the lifecycle awake with a consumer that leaves again.
AddStream ==
  /\ table = None /\ added < MaxStreams
  /\ added' = added + 1 /\ table' = added + 1
  /\ life' = [life EXCEPT ![added + 1] = RemoveConsumer(AddConsumer(@))]
  /\ Goto(added + 1, "select")
  /\ UNCHANGED <<dropping, watched, sink, alive, making, kept, loaded, handle, torn, server,
                 media, raced>>

\* Stream::drop, under the manager's write lock: the lifecycle is shut down,
\* the watcher's abort requested, and the path stopped.
DropStream ==
  /\ table # None /\ ~dropping
  /\ dropping' = TRUE
  /\ StopPipeline
  /\ UNCHANGED <<table, added, clients, watcher, handle, torn, raced>>

\* Then its fields go.  The state goes with them if the watcher has let go of
\* it; else it goes when the watcher does.
ReleaseStream ==
  /\ dropping
  /\ dropping' = FALSE /\ table' = None
  /\ IF at[table] = "ended"
       THEN /\ RemoveSink(sink[table])
            /\ sink' = [sink EXCEPT ![table] = NoSink]
            /\ alive' = [alive EXCEPT ![table] = FALSE]
       ELSE UNCHANGED <<sink, alive, server, media>>
  /\ life' = [life EXCEPT ![table] = Lazy] /\ watched' = watched \ {table}
  /\ UNCHANGED <<added, at, making, kept, loaded, handle, torn, raced>>

\* The runtime drops the aborted watcher at an await, and with it a sink that
\* is already in the pipeline under construction.
WatcherEnds(s) ==
  /\ at[s] \notin MidPoll \union {"new", "ended"}
  /\ ~InTable(s)
  /\ Goto(s, "ended")
  /\ making' = [making EXCEPT ![s] = NoSink] /\ kept' = [kept EXCEPT ![s] = None]
  /\ IF at[s] = "rest"
       THEN Tear(making[s]) /\ UNCHANGED <<sink, alive>>
       ELSE IF table = s
         THEN UNCHANGED <<sink, alive, torn>>
         ELSE /\ Tear(sink[s])
              /\ sink' = [sink EXCEPT ![s] = NoSink]
              /\ alive' = [alive EXCEPT ![s] = FALSE]
  /\ UNCHANGED <<manager, clients, loaded, handle, server, media, raced>>

\* Sessions, thumbnails and other sinks come and go.
OtherConsumer(s) ==
  /\ InTable(s)
  /\ IF s \in watched
       THEN watched' = watched \ {s} /\ life' = [life EXCEPT ![s] = RemoveConsumer(@)]
       ELSE watched' = watched \union {s} /\ life' = [life EXCEPT ![s] = AddConsumer(@)]
  /\ UNCHANGED <<manager, watcher, handle, torn, server, media, raced>>

PipelineDies(s) ==
  /\ alive[s]
  /\ alive' = [alive EXCEPT ![s] = FALSE]
  /\ UNCHANGED <<manager, clients, at, sink, making, kept, loaded, handle, torn, server,
                 media, raced>>

-----------------------------------------------------------------------------
(* The watcher *)

Observe(s) ==
  /\ at[s] = "select" /\ InTable(s)
  /\ Goto(s, life[s].phase)
  /\ UNCHANGED <<manager, clients, sink, alive, making, kept, loaded, handle, torn, server,
                 media, raced>>

\* Idle drops a state that is still there on a thread; Waking does so too and
\* waits for it, but not for ever.
GiveUpState(s) ==
  /\ at[s] \in {"Idle", "Waking"} /\ InTable(s)
  /\ Goto(s, IF at[s] = "Idle" THEN "select" ELSE "create")
  /\ sink' = [sink EXCEPT ![s] = NoSink]
  /\ alive' = [alive EXCEPT ![s] = FALSE]
  /\ \/ Tear(sink[s]) /\ UNCHANGED <<server, media>>
     \/ at[s] = "Waking" /\ RemoveSink(sink[s]) /\ UNCHANGED torn
  /\ UNCHANGED <<manager, clients, making, kept, loaded, handle, raced>>

RunningHandler_ForgetsFactory(s) ==
  /\ at[s] = "Running" /\ InTable(s)
  /\ Goto(s, IF alive[s] THEN "select" ELSE "error")
  /\ UNCHANGED <<manager, clients, sink, alive, making, kept, loaded, handle, torn, server,
                 media, raced>>

\* A pipeline that has stopped: its factory is to survive, then the error is
\* reported (ReportError).
RunningHandler(s) ==
  /\ at[s] = "Running" /\ InTable(s)
  /\ Goto(s, IF alive[s] THEN "select" ELSE "error")
  /\ sink' = [sink EXCEPT ![s].preserve = @ \/ (~alive[s] /\ sink[s] # NoSink)]
  /\ UNCHANGED <<manager, clients, alive, making, kept, loaded, handle, torn, server, media,
                 raced>>

ReportError(s) ==
  /\ at[s] = "error" /\ InTable(s)
  /\ life' = [life EXCEPT ![s] = ResetErrorBackoff(PipelineError(@))]
  /\ Goto(s, "select")
  /\ UNCHANGED <<manager, watched, sink, alive, making, kept, loaded, handle, torn, server,
                 media, raced>>

\* The grace period goes on, or it is over and drain_expired decides.
DrainingHandler(s) ==
  /\ at[s] = "Draining" /\ InTable(s)
  /\ \/ Goto(s, "select") /\ UNCHANGED life
     \/ /\ life' = [life EXCEPT ![s] = DrainExpired(@)]
        /\ Goto(s, IF DrainExpires(life[s]) THEN "park" ELSE "select")
  /\ UNCHANGED <<manager, watched, sink, alive, making, kept, loaded, handle, torn, server,
                 media, raced>>

\* The parked pipeline is dropped on a thread, its factory preserved.
Park(s) ==
  /\ at[s] = "park" /\ InTable(s)
  /\ Goto(s, "select")
  /\ Tear(IF sink[s] = NoSink THEN NoSink ELSE [sink[s] EXCEPT !.preserve = TRUE])
  /\ sink' = [sink EXCEPT ![s] = NoSink]
  /\ alive' = [alive EXCEPT ![s] = FALSE]
  /\ UNCHANGED <<manager, clients, making, kept, loaded, handle, server, media, raced>>

-----------------------------------------------------------------------------
(* StreamState::try_new: the sink, and Pipeline::add_sink *)

Sink(s, h) == [stream |-> s, handle |-> h, preserve |-> FALSE, stale |-> FALSE]

NewHandle(s) == [owner |-> s, clients |-> 0, open |-> FALSE, appsrc |-> None]

\* RtspSink::try_new: a new handle, or the one that is kept, whose valve
\* update_valve replaces: it reads the count ...
CreateSink(s) ==
  /\ at[s] = "create" /\ InTable(s)
  /\ IF kept[s] = None
       THEN /\ Len(handle) < MaxHandles
            /\ handle' = Append(handle, NewHandle(s))
            /\ making' = [making EXCEPT ![s] = Sink(s, Len(handle) + 1)]
            /\ Goto(s, "link")
            /\ UNCHANGED <<loaded, raced>>
       ELSE /\ making' = [making EXCEPT ![s] = Sink(s, kept[s])]
            /\ loaded' = [loaded EXCEPT ![s] = handle[kept[s]].clients > 0]
            /\ Goto(s, "swap")
            /\ Operates(kept[s])
            /\ UNCHANGED handle
  /\ UNCHANGED <<manager, clients, sink, alive, kept, torn, server, media>>

SwapValve_KeepsClosed(s) ==
  /\ at[s] = "swap"
  /\ handle' = [handle EXCEPT ![making[s].handle].open = FALSE]
  /\ torn' = {IF k.handle = making[s].handle THEN [k EXCEPT !.stale = TRUE] ELSE k : k \in torn}
  /\ loaded' = [loaded EXCEPT ![s] = FALSE]
  /\ Goto(s, "link")
  /\ UNCHANGED <<manager, clients, sink, alive, making, kept, server, media, raced>>

\* ... and puts the new valve, set by what it has read, in the place of the old.
SwapValve(s) ==
  /\ at[s] = "swap"
  /\ handle' = [handle EXCEPT ![making[s].handle].open = loaded[s]]
  /\ torn' = {IF k.handle = making[s].handle THEN [k EXCEPT !.stale = TRUE] ELSE k : k \in torn}
  /\ loaded' = [loaded EXCEPT ![s] = FALSE]
  /\ Goto(s, "link")
  /\ UNCHANGED <<manager, clients, sink, alive, making, kept, server, media, raced>>

\* add_sink links the sink and waits for the pipeline to play.  That takes longer
\* than the rest of a poll: a watcher aborted before is at an await by then.
Link(s) ==
  /\ at[s] = "link" /\ InTable(s)
  /\ \A o \in Streams \ {s} : at[o] \notin MidPoll
  /\ Goto(s, "check")
  /\ UNCHANGED <<manager, clients, sink, alive, making, kept, loaded, handle, torn, server,
                 media, raced>>

\* Creation fails before the sink is in the pipeline's table: the device, the
\* source, the link, the wait or the caps.  The sink goes, the server is left alone.
CreationFails(s) ==
  /\ at[s] \in {"create", "link", "check"} /\ (at[s] # "check" => InTable(s))
  /\ Goto(s, "error")
  /\ making' = [making EXCEPT ![s] = NoSink]
  /\ UNCHANGED <<manager, clients, sink, alive, kept, loaded, handle, torn, server, media,
                 raced>>

\* has_factory: a factory that is there is used again, whoever made it.
CheckFactory(s) ==
  /\ at[s] = "check"
  /\ Goto(s, IF factory # None THEN "rest" ELSE "unmount")
  /\ UNCHANGED <<manager, clients, sink, alive, making, kept, loaded, handle, torn, server,
                 media, raced>>

Unmount(s) ==
  /\ at[s] = "unmount"
  /\ Goto(s, "insert")
  /\ StopPipeline
  /\ UNCHANGED <<manager, clients, sink, alive, making, kept, loaded, handle, torn, raced>>

\* add_pipeline: a factory that is there is replaced, and that is an error.
InsertFactory(s) ==
  /\ at[s] = "insert"
  /\ factory' = making[s].handle
  /\ IF factory # None
       THEN Goto(s, "error") /\ making' = [making EXCEPT ![s] = NoSink]
       ELSE Goto(s, "mount") /\ UNCHANGED making
  /\ UNCHANGED <<manager, clients, sink, alive, kept, loaded, handle, torn, mounted, media, raced>>

\* start_pipeline mounts what the path has now, if anything.
Mount(s) ==
  /\ at[s] = "mount"
  /\ IF factory = None
       THEN /\ Goto(s, "error")
            /\ making' = [making EXCEPT ![s] = NoSink]
            /\ UNCHANGED <<mounted, media>>
       ELSE /\ Goto(s, "rest")
            /\ mounted' = factory
            /\ media' = Orphaned
            /\ UNCHANGED making
  /\ UNCHANGED <<manager, clients, sink, alive, kept, loaded, handle, torn, factory, raced>>

\* The other sinks or the runner fail: the state is dropped, and its RTSP sink
\* is not marked to preserve the factory.
RestFails(s) ==
  /\ at[s] = "rest" /\ InTable(s)
  /\ RemoveSink(making[s])
  /\ making' = [making EXCEPT ![s] = NoSink]
  /\ Goto(s, "error")
  /\ UNCHANGED <<manager, clients, sink, alive, kept, loaded, handle, torn, raced>>

\* The first sink's handle is kept for the sinks to come.
CreationSucceeds(s) ==
  /\ at[s] = "rest" /\ InTable(s)
  /\ sink' = [sink EXCEPT ![s] = making[s]]
  /\ alive' = [alive EXCEPT ![s] = TRUE]
  /\ making' = [making EXCEPT ![s] = NoSink]
  /\ kept' = [kept EXCEPT ![s] = IF @ = None THEN making[s].handle ELSE @]
  /\ Goto(s, "ready")
  /\ UNCHANGED <<manager, clients, loaded, handle, torn, server, media, raced>>

ReportReady(s) ==
  /\ at[s] = "ready" /\ InTable(s)
  /\ life' = [life EXCEPT ![s] = PipelineReady(@)]
  /\ Goto(s, "select")
  /\ UNCHANGED <<manager, watched, sink, alive, making, kept, loaded, handle, torn, server,
                 media, raced>>

-----------------------------------------------------------------------------
(* The callbacks of the factory, on threads of the RTSP server *)

\* The lifecycle in the handle is that of the stream that made it.
LifeOf(h) == life[handle[h].owner]

Inform(h, new) ==
  life' = IF InTable(handle[h].owner) THEN [life EXCEPT ![handle[h].owner] = new] ELSE life

\* media_configure, when a client asks for a path that has no medium yet: the
\* handle's appsrc becomes the medium's, the count goes up ...
Configure(m) ==
  /\ media[m].at = "none" /\ mounted # None
  /\ \A n \in Media : media[n].at = "none" \/ media[n].orphan
  /\ media' = [n \in Media |->
       IF n = m THEN [at |-> "opening", handle |-> mounted, orphan |-> FALSE,
                      edge  |-> handle[mounted].clients = 0,
                      mixed |-> \E o \in Media : Uses(o, mounted)]
       ELSE [media[n] EXCEPT !.mixed = @ \/ Uses(n, mounted)]]
  /\ handle' = [handle EXCEPT ![mounted].appsrc = m, ![mounted].clients = @ + 1]
  /\ Operates(mounted)
  /\ UNCHANGED <<manager, clients, watcher, torn, server>>

\* ... the first one opens the valve, and the lifecycle gets a consumer.
OpenValve(m) ==
  LET h == media[m].handle
  IN  /\ media[m].at = "opening"
      /\ media' = [media EXCEPT ![m].at = "playing", ![m].edge = FALSE]
      /\ handle' = [handle EXCEPT ![h].open = @ \/ media[m].edge]
      /\ Inform(h, AddConsumer(LifeOf(h)))
      /\ UNCHANGED <<manager, watched, watcher, torn, server, raced>>

\* unprepared, when the last client of the medium has left ...
Unprepare(m) ==
  LET h == media[m].handle
  IN  /\ media[m].at = "playing"
      /\ media' = [media EXCEPT ![m].at = "closing", ![m].edge = handle[h].clients = 1]
      /\ handle' = [handle EXCEPT ![h].appsrc = None, ![h].clients = @ - 1]
      /\ Operates(h)
      /\ UNCHANGED <<manager, clients, watcher, torn, server>>

CloseValve_OnlyLastLeaves(m) ==
  LET h == media[m].handle
  IN  /\ media[m].at = "closing"
      /\ media' = [media EXCEPT ![m] = NoMedia]
      /\ handle' = [handle EXCEPT ![h].open = @ /\ ~media[m].edge]
      /\ IF media[m].edge THEN Inform(h, RemoveConsumer(LifeOf(h))) ELSE UNCHANGED life
      /\ UNCHANGED <<manager, watched, watcher, torn, server, raced>>

\* ... the last one closes the valve, and the lifecycle gives its consumer back.
CloseValve(m) ==
  LET h == media[m].handle
  IN  /\ media[m].at = "closing"
      /\ media' = [media EXCEPT ![m] = NoMedia]
      /\ handle' = [handle EXCEPT ![h].open = @ /\ ~media[m].edge]
      /\ Inform(h, RemoveConsumer(LifeOf(h)))
      /\ UNCHANGED <<manager, watched, watcher, torn, server, raced>>

-----------------------------------------------------------------------------
Init ==
  /\ table = None /\ added = 0 /\ dropping = FALSE
  /\ life = [s \in Streams |-> Lazy] /\ watched = {}
  /\ at = [s \in Streams |-> "new"]
  /\ sink = [s \in Streams |-> NoSink] /\ making = sink
  /\ alive = [s \in Streams |-> FALSE] /\ loaded = alive
  /\ kept = [s \in Streams |-> None]
  /\ handle = <<>> /\ torn = {}
  /\ factory = None /\ mounted = None
  /\ media = [m \in Media |-> NoMedia]
  /\ raced = {}

WatcherStep(s) ==
  \/ Observe(s) \/ GiveUpState(s) \/ RunningHandler(s) \/ ReportError(s) \/ DrainingHandler(s)
  \/ Park(s) \/ CreateSink(s) \/ SwapValve(s) \/ Link(s) \/ CheckFactory(s) \/ Unmount(s)
  \/ InsertFactory(s) \/ Mount(s) \/ CreationSucceeds(s) \/ ReportReady(s)

Next ==
  \/ AddStream \/ DropStream \/ ReleaseStream
  \/ \E s \in Streams : \/ WatcherStep(s) \/ WatcherEnds(s) \/ CreationFails(s) \/ RestFails(s)
                        \/ OtherConsumer(s) \/ PipelineDies(s)
  \/ \E k \in torn : Teardown(k)
  \/ \E m \in Media : Configure(m) \/ OpenValve(m) \/ Unprepare(m) \/ CloseValve(m)

Spec == Init /\ [][Next]_vars

-----------------------------------------------------------------------------
(* Properties *)

Labels == {"new", "select", "Idle", "Waking", "Running", "Draining", "error", "park", "create",
           "swap", "link", "check", "unmount", "insert", "mount", "rest", "ready", "ended"}

Handles == 0..MaxHandles

\* Every variable has its type, and the handles that sinks, factories and media
\* hold have been made.
TypeOK ==
  /\ table \in 0..added /\ added \in 0..MaxStreams /\ dropping \in BOOLEAN
  /\ life \in [Streams -> LifecycleStates] /\ watched \subseteq Streams
  /\ at \in [Streams -> Labels]
  /\ sink \in [Streams -> Sinks \union {NoSink}] /\ making \in [Streams -> Sinks \union {NoSink}]
  /\ alive \in [Streams -> BOOLEAN] /\ loaded \in [Streams -> BOOLEAN]
  /\ kept \in [Streams -> 0..Len(handle)]
  /\ handle \in Seq([owner : Streams, clients : Nat, open : BOOLEAN, appsrc : Media \union {None}])
  /\ Len(handle) <= MaxHandles
  /\ torn \subseteq Sinks
  /\ factory \in 0..Len(handle) /\ mounted \in 0..Len(handle)
  /\ media \in [Media -> [at : {"none", "opening", "playing", "closing"}, edge : BOOLEAN,
                          handle : 0..Len(handle), orphan : BOOLEAN, mixed : BOOLEAN]]
  /\ raced \subseteq Handles

\* When no callback and no update_valve is under way on a handle, its valve is
\* open if and only if it has clients, however often pipelines, valves and
\* factories have been replaced -- unless two such operations have overlapped.
ValveFollowsClients ==
  \A h \in DOMAIN handle : ~Busy(h) /\ h \notin raced => handle[h].open = (handle[h].clients > 0)

\* What the comment on update_valve says, without that exception: a client that
\* is connected, with nothing under way, has an open valve.
ConnectedClientsFlow ==
  \A h \in DOMAIN handle : ~Busy(h) /\ handle[h].clients > 0 => handle[h].open

\* Once the first stream with the path has had a pipeline, and unless one is being
\* made, the path is mounted with a factory that holds the handle of the stream's
\* sinks: an RTSP client can connect, and wake the stream if it is parked, as the
\* test of the cold connection asserts of an idle stream.  A second stream cannot
\* rely on it: what the first one leaves behind when it is dropped, or tears down
\* late, stops whatever is mounted at the path.
ReachableWhenIdle ==
  added <= 1 =>
    \A s \in Streams :
      InTable(s) /\ kept[s] # None /\ life[s].phase # "Waking"
        => mounted = kept[s] /\ (sink[s] = NoSink \/ sink[s].handle = mounted)

\* When the last stream with the path has been removed and everything it had
\* under way has ended, the server knows the path no more.
PathFreed ==
  table = None /\ torn = {} /\ (\A s \in Streams : at[s] \in {"new", "ended"})
    => factory = None /\ mounted = None

\* The lifecycle counts one consumer for each medium of the stream, through
\* whichever of its handles and factories it came, and one for the others: no
\* recreation, remounting or parking loses or doubles a client.
ConsumersCounted ==
  \A s \in Streams : InTable(s) =>
    LET viewers == {m \in Media : /\ media[m].at \in {"playing", "closing"}
                                  /\ handle[media[m].handle].owner = s}
    IN  life[s].consumers * (IF life[s].phase \in {"Idle", "Draining"} THEN 0 ELSE 1)
          = Cardinality(viewers) + Cardinality(watched \intersect {s})

\* A medium that plays is the one the frames go to, and while its factory is the
\* one of the path, they come from the sink the stream has now.  Excepted are media
\* whose handle had another medium: that clears the handle's appsrc when it ends.
MediumIsFed ==
  \A m \in Media : media[m].at = "playing" /\ ~media[m].mixed =>
    LET h == media[m].handle
        s == handle[h].owner
    IN  /\ handle[h].appsrc = m
        /\ ~media[m].orphan /\ InTable(s) /\ sink[s] # NoSink => sink[s].handle = h

\* What the RTSP clients of a path may rely on: each is counted once and fed from
\* the sink the stream has, and a path without a stream is gone.
MediaInv == TypeOK /\ ConsumersCounted /\ PathFreed /\ MediumIsFed
=============================================================================
