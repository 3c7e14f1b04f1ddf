--------------------------- MODULE RtspMountsProofs ---------------------------
(***************************************************************************)
(* TLAPS proofs about the RTSP path of a camera, for any number of media,  *)
(* of flow handles, and of streams that use the path one after the other.  *)
(***************************************************************************)
EXTENDS RtspMounts, LifecycleStateProofs

\* Where a sink is under construction, and where it has the factory to itself.
Making == {"swap", "link", "check", "unmount", "insert", "mount", "rest"}
Mounting == {"check", "unmount", "insert", "mount"}

\* Streams that are not added yet have nothing; watchers of streams in the manager's table
\* are under way, and the consumers of other kinds are theirs.
Added ==
    /\ dropping => table # None
    /\ \A s \in Streams : s > added => at[s] = "new" /\ life[s] = Lazy
    /\ \A s \in Streams : at[s] = "new" => sink[s] = NoSink /\ kept[s] = None
    /\ \A s \in Streams : InTable(s) => at[s] \notin {"new", "ended"}
    /\ watched \subseteq {table}
    /\ \A s \in Streams : CountFits(life[s]) /\ life[s].mode = "Lazy"

\* A handle is of the stream that made it, which keeps the one of its first pipeline.
Owns(s) ==
    /\ kept[s] # None => handle[kept[s]].owner = s
    /\ at[s] \in Making =>
         /\ making[s] = Sink(s, making[s].handle) /\ making[s].handle \in DOMAIN handle
         /\ handle[making[s].handle].owner = s
         /\ kept[s] # None => making[s].handle = kept[s]
    /\ at[s] # "ended" /\ sink[s] # NoSink => sink[s].handle = kept[s]

Owned ==
    /\ \A h \in DOMAIN handle : handle[h].owner <= added
    /\ \A s \in Streams : Owns(s)

\* What is mounted is the factory of the path, and media that are not orphans came from it.
\* One watcher at a time deals with the server.
Mounted ==
    /\ mounted # None => mounted = factory
    /\ \A s, t \in Streams : at[s] \in Mounting /\ at[t] \in Mounting => s = t
    /\ \A s \in Streams : at[s] = "insert" => factory = None
    /\ \A m \in Media : media[m].at # "none" =>
         /\ media[m].handle \in DOMAIN handle
         /\ ~media[m].orphan => media[m].handle = mounted

\* A factory is the one of the handle its stream keeps, or of the first sink, in the making.
Factored ==
    factory # None =>
      LET s == handle[factory].owner
      IN  InTable(s) => IF kept[s] # None THEN factory = kept[s]
                        ELSE at[s] \in {"mount", "rest"} /\ making[s].handle = factory

\* A sink whose teardown takes the path off the server.
Stops(k) ==
    /\ ~k.stale /\ ~k.preserve
    /\ at[k.stream] = "ended"
    /\ k.handle \in DOMAIN handle /\ handle[k.handle].owner = k.stream

\* A path that is known has somebody who will take it off the server: the destructor of a
\* stream, a watcher whose new sink is torn down, or the teardown of one.
Answerable ==
    factory # None => \/ table # None /\ ~dropping
                      \/ \E s \in Streams : at[s] \in {"mount", "rest"}
                      \/ \E k \in torn : Stops(k)

\* A handle has one medium, unless the history says otherwise, and that has the appsrc.
Fed ==
    /\ \A m, n \in Media : /\ m # n /\ media[m].at # "none" /\ media[n].at # "none"
                           /\ media[m].handle = media[n].handle
                           => media[m].mixed
    /\ \A m \in Media : media[m].at \in {"opening", "playing"} /\ ~media[m].mixed
                          => handle[media[m].handle].appsrc = m

Viewers(h) == {m \in Media : media[m].at \in {"opening", "playing"} /\ media[m].handle = h}

Swaps(s, h) == at[s] = "swap" /\ making[s].handle = h

Moves(m, h) == media[m].at \in {"opening", "closing"} /\ media[m].handle = h

\* A handle counts its media, and the valve follows the count: at rest, and through the one
\* operation under way on a handle that has had no two at a time.
ValvedAt(h) ==
    /\ handle[h].clients = Cardinality(Viewers(h))
    /\ h \notin raced =>
         /\ \A s, t \in Streams : Swaps(s, h) /\ Swaps(t, h) => s = t
         /\ \A s \in Streams, m \in Media : ~(Swaps(s, h) /\ Moves(m, h))
         /\ \A m, n \in Media : Moves(m, h) /\ Moves(n, h) => m = n
         /\ \A s \in Streams : Swaps(s, h) => loaded[s] = (handle[h].clients > 0)
         /\ \A m \in Media : Moves(m, h) =>
              IF media[m].at = "opening"
                THEN handle[h].clients > 0 /\ (media[m].edge \/ handle[h].open)
                ELSE media[m].edge = (handle[h].clients = 0) /\ handle[h].open
         /\ ~Busy(h) => handle[h].open = (handle[h].clients > 0)

Valved == \A h \in DOMAIN handle : ValvedAt(h)

\* The first stream, before another has had the path: what is torn down spares the factory,
\* and the path of its handle stays mounted, but for a pipeline that failed to be made.
FirstPath ==
    /\ \A k \in torn : k.preserve
    /\ at[1] \in Making \cup {"Waking", "create", "ready"} => life[1].phase = "Waking"
    /\ at[1] \in {"Running", "Draining"} => life[1].phase \in {"Running", "Draining"}
    /\ at[1] \in Making \cup {"create"} => sink[1] = NoSink
    /\ \/ at[1] \in {"Idle", "Waking", "error"}
       \/ at[1] = "select" /\ life[1].phase \in {"Idle", "Waking"}
       => sink[1] = NoSink \/ sink[1].preserve
    /\ at[1] # "mount" => mounted = factory
    /\ at[1] \in {"mount", "rest"} => factory = making[1].handle
    /\ kept[1] # None /\ (life[1].phase # "Waking" \/ at[1] = "ready") => mounted = kept[1]

Alone ==
    /\ added = 0 => torn = {}
    /\ added = 1 /\ InTable(1) => FirstPath

IInv ==
    /\ TypeOK /\ Added /\ Owned /\ Mounted /\ Factored /\ Answerable /\ Fed /\ Valved /\ Alone
    /\ ConsumersCounted
-----------------------------------------------------------------------------
(* The server *)

\* Media that go on, orphaned at most.
SameMedia ==
    \A m \in Media :
      /\ media'[m].at = media[m].at
      /\ media[m].at # "none" =>
           /\ media'[m].handle = media[m].handle /\ media'[m].edge = media[m].edge
           /\ media'[m].mixed = media[m].mixed /\ (media[m].orphan => media'[m].orphan)

MediaType == [at : {"none", "opening", "playing", "closing"}, edge : BOOLEAN,
              handle : 0..Len(handle), orphan : BOOLEAN, mixed : BOOLEAN]

LEMMA LenType == TypeOK => Len(handle) \in Nat /\ DOMAIN handle = 1..Len(handle)
BY DEF TypeOK

LEMMA OrphanedMedia ==
    ASSUME TypeOK, media' = Orphaned
    PROVE  /\ media' \in [Media -> MediaType] /\ SameMedia
           /\ \A m \in Media : media'[m].at # "none" => media'[m].orphan
<1>1. media \in [Media -> MediaType] /\ NoMedia \in MediaType
    BY LenType DEF TypeOK, MediaType, NoMedia, None
<1>2. ASSUME NEW m \in Media
      PROVE  /\ media'[m] \in MediaType /\ media'[m].at = media[m].at
             /\ media[m].at # "none" =>
                  /\ media'[m].handle = media[m].handle /\ media'[m].edge = media[m].edge
                  /\ media'[m].mixed = media[m].mixed /\ media'[m].orphan
    <2>1. media'[m] = IF media[m].at = "none" THEN NoMedia ELSE [media[m] EXCEPT !.orphan = TRUE]
        BY DEF Orphaned
    <2>2. CASE media[m].at = "none"
        BY <1>1, <2>1, <2>2 DEF NoMedia
    <2>3. CASE media[m].at # "none"
        BY <1>1, <2>1, <2>3 DEF MediaType
    <2>4. QED
        BY <2>2, <2>3
<1>3. media' = [m \in Media |-> media'[m]]
    BY DEF Orphaned
<1>4. QED
    BY <1>2, <1>3 DEF SameMedia

\* The path is off the server, and its media are orphans.
Stopped ==
    /\ factory' = None /\ mounted' = None
    /\ media' \in [Media -> MediaType] /\ SameMedia
    /\ \A m \in Media : media'[m].at # "none" => media'[m].orphan

\* What goes for StopPipeline and for the removal of a sink.
LEMMA Stopping ==
    ASSUME TypeOK, Mounted, StopPipeline
    PROVE  Stopped
<1>1. CASE factory # None
    BY <1>1, OrphanedMedia DEF StopPipeline, Stopped
<1>2. CASE factory = None
    <2>1. mounted = None /\ UNCHANGED <<factory, mounted, media>>
        BY <1>2 DEF StopPipeline, Mounted, server
    <2>2. \A m \in Media : media[m].at # "none" => media[m].orphan
        BY <2>1, LenType DEF Mounted, None
    <2>3. QED
        BY <1>2, <2>1, <2>2 DEF Stopped, SameMedia, TypeOK, MediaType
<1>3. QED
    BY <1>1, <1>2

LEMMA SinkRemoved ==
    ASSUME TypeOK, Mounted, NEW k, RemoveSink(k)
    PROVE  \/ UNCHANGED <<factory, mounted, media>> /\ (k = NoSink \/ k.stale \/ k.preserve)
           \/ Stopped
BY Stopping DEF RemoveSink, server

LEMMA SameMediaIfUnchanged == UNCHANGED media => SameMedia
BY DEF SameMedia
-----------------------------------------------------------------------------
(* Types *)

HandleType == [owner : Streams, clients : Nat, open : BOOLEAN, appsrc : Media \cup {None}]

SinkType == Sinks \cup {NoSink}

\* The first three parts of the type, which most actions leave alone, and the others.
TypesOfServer ==
    /\ handle \in Seq(HandleType) /\ Len(handle) <= MaxHandles
    /\ kept \in [Streams -> 0..Len(handle)]
    /\ factory \in 0..Len(handle) /\ mounted \in 0..Len(handle)
    /\ media \in [Media -> MediaType] /\ raced \subseteq Handles

TypesOfStreams ==
    /\ table \in 0..added /\ added \in 0..MaxStreams /\ dropping \in BOOLEAN
    /\ life \in [Streams -> LifecycleStates] /\ watched \subseteq Streams
    /\ at \in [Streams -> Labels]
    /\ alive \in [Streams -> BOOLEAN] /\ loaded \in [Streams -> BOOLEAN]

TypesOfSinks ==
    /\ sink \in [Streams -> SinkType] /\ making \in [Streams -> SinkType] /\ torn \subseteq Sinks

LEMMA Typed == TypeOK <=> TypesOfServer /\ TypesOfStreams /\ TypesOfSinks
BY DEF TypeOK, TypesOfServer, TypesOfStreams, TypesOfSinks, HandleType, SinkType, MediaType

LEMMA LifecycleTyped ==
    /\ Lazy \in LifecycleStates
    /\ \A s \in LifecycleStates :
         /\ AddConsumer(s) \in LifecycleStates /\ RemoveConsumer(s) \in LifecycleStates
         /\ PipelineReady(s) \in LifecycleStates /\ DrainExpired(s) \in LifecycleStates
         /\ ResetErrorBackoff(PipelineError(s)) \in LifecycleStates
<1>1. Lazy \in LifecycleStates
    BY LifecycleStateAssumption DEF Lazy, LifecycleStates, Modes, Phases
<1>2. QED
    BY <1>1, OperationsTyped

LEMMA StepStreamsTyped == TypeOK /\ Added /\ [Next]_vars => TypesOfStreams'
<1> SUFFICES ASSUME TypesOfStreams, Added, [Next]_vars PROVE TypesOfStreams'
    BY Typed
<1> USE DEF TypesOfStreams
<1>1. CASE AddStream
    <2>1. added + 1 \in Streams /\ added + 1 \in 0..MaxStreams
        BY <1>1, RtspMountsAssumption DEF AddStream, Streams
    <2>2. QED
        BY <1>1, <2>1, LifecycleTyped DEF AddStream, Goto, Labels, None
<1>2. CASE DropStream
    BY <1>2 DEF DropStream, clients, watcher
<1>3. CASE ReleaseStream
    <2>1. table \in Streams
        BY <1>3, RtspMountsAssumption DEF ReleaseStream, Streams, Added, None
    <2>2. alive' \in [Streams -> BOOLEAN]
        BY <1>3 DEF ReleaseStream
    <2>3. /\ life' = [life EXCEPT ![table] = Lazy] /\ watched' = watched \ {table}
          /\ dropping' = FALSE /\ table' = 0 /\ UNCHANGED <<added, at, loaded>>
        BY <1>3 DEF ReleaseStream, None
    <2>4. life' \in [Streams -> LifecycleStates] /\ watched' \subseteq Streams
        BY <2>1, <2>3, LifecycleTyped
    <2>5. QED
        <3>1. table' \in 0..added' /\ added' \in 0..MaxStreams
            BY <2>3, RtspMountsAssumption
        <3>2. dropping' \in BOOLEAN /\ at' \in [Streams -> Labels]
            BY <2>3
        <3>3. loaded' \in [Streams -> BOOLEAN]
            BY <2>3
        <3>4. QED
            BY <2>2, <2>4, <3>1, <3>2, <3>3
<1>4. ASSUME NEW s \in Streams,
             Observe(s) \/ GiveUpState(s) \/ RunningHandler(s) \/ Park(s) \/ Link(s)
      PROVE  TypesOfStreams'
    <2>1. life[s].phase \in Phases /\ Phases \subseteq Labels
        BY DEF LifecycleStates, Phases, Labels
    <2>2. at' \in [Streams -> Labels]
        BY <1>4, <2>1 DEF Observe, GiveUpState, RunningHandler, Park, Link, Goto, Labels
    <2>3. alive' \in [Streams -> BOOLEAN]
        BY <1>4 DEF Observe, GiveUpState, RunningHandler, Park, Link
    <2>4. QED
        BY <1>4, <2>2, <2>3 DEF Observe, GiveUpState, RunningHandler, Park, Link, manager,
                                clients
<1>5. ASSUME NEW s \in Streams, ReportError(s) \/ DrainingHandler(s) \/ ReportReady(s)
      PROVE  TypesOfStreams'
    <2>1. at' \in [Streams -> Labels]
        BY <1>5 DEF ReportError, DrainingHandler, ReportReady, Goto, Labels
    <2>2. \/ life' = life
          \/ life' = [life EXCEPT ![s] = DrainExpired(life[s])]
          \/ life' = [life EXCEPT ![s] = PipelineReady(life[s])]
          \/ life' = [life EXCEPT ![s] = ResetErrorBackoff(PipelineError(life[s]))]
        BY <1>5 DEF ReportError, DrainingHandler, ReportReady
    <2>3. life' \in [Streams -> LifecycleStates]
        BY <2>2, LifecycleTyped
    <2>4. QED
        BY <1>5, <2>1, <2>3 DEF ReportError, DrainingHandler, ReportReady, manager
<1>6. ASSUME NEW s \in Streams, CreateSink(s) \/ SwapValve(s)
      PROVE  TypesOfStreams'
    <2>1. at' \in [Streams -> Labels]
        BY <1>6 DEF CreateSink, SwapValve, Goto, Labels
    <2>2. loaded' \in [Streams -> BOOLEAN]
        <3>1. (handle[kept[s]].clients > 0) \in BOOLEAN
            OBVIOUS
        <3>2. QED
            BY <1>6, <3>1 DEF CreateSink, SwapValve
    <2>3. UNCHANGED <<table, added, dropping, life, watched, alive>>
        BY <1>6 DEF CreateSink, SwapValve, manager, clients
    <2>4. QED
        BY <2>1, <2>2, <2>3
<1>7. ASSUME NEW s \in Streams, CheckFactory(s) \/ Unmount(s) \/ InsertFactory(s) \/ Mount(s)
      PROVE  TypesOfStreams'
    BY <1>7 DEF CheckFactory, Unmount, InsertFactory, Mount, Goto, Labels, manager, clients
<1>8. ASSUME NEW s \in Streams,
             CreationSucceeds(s) \/ CreationFails(s) \/ RestFails(s) \/ WatcherEnds(s)
      PROVE  TypesOfStreams'
    BY <1>8 DEF CreationSucceeds, CreationFails, RestFails, WatcherEnds, Goto, Labels, manager,
                clients
<1>9. ASSUME NEW s \in Streams, OtherConsumer(s) \/ PipelineDies(s)
      PROVE  TypesOfStreams'
    <2>1. \/ life' = life
          \/ life' = [life EXCEPT ![s] = RemoveConsumer(life[s])]
          \/ life' = [life EXCEPT ![s] = AddConsumer(life[s])]
        BY <1>9 DEF OtherConsumer, PipelineDies, clients
    <2>2. life' \in [Streams -> LifecycleStates]
        BY <2>1, LifecycleTyped
    <2>3. watched' \subseteq Streams /\ alive' \in [Streams -> BOOLEAN]
        BY <1>9 DEF OtherConsumer, PipelineDies, clients, watcher
    <2>4. UNCHANGED <<table, added, dropping, at, loaded>>
        BY <1>9 DEF OtherConsumer, PipelineDies, manager, watcher
    <2>5. QED
        BY <2>2, <2>3, <2>4
<1>10. ASSUME NEW k \in torn, Teardown(k)
       PROVE  TypesOfStreams'
    BY <1>10 DEF Teardown, manager, clients, watcher
<1>11. ASSUME NEW m \in Media, Configure(m) \/ Unprepare(m)
       PROVE  TypesOfStreams'
    BY <1>11 DEF Configure, Unprepare, manager, clients, watcher
<1>12. ASSUME NEW m \in Media, OpenValve(m) \/ CloseValve(m)
       PROVE  TypesOfStreams'
    <2>1. life' \in [Streams -> LifecycleStates]
      <3>1. \E o : \/ life' = life
                   \/ life' = [life EXCEPT ![o] = AddConsumer(life[o])]
                   \/ life' = [life EXCEPT ![o] = RemoveConsumer(life[o])]
          BY <1>12 DEF OpenValve, CloseValve, Inform, LifeOf
      <3>2. QED
          BY <3>1, LifecycleTyped
    <2>2. QED
        BY <1>12, <2>1 DEF OpenValve, CloseValve, manager, watcher
<1>13. CASE UNCHANGED vars
    BY <1>13 DEF vars, manager, clients, watcher
<1>14. QED
    BY <1>1, <1>2, <1>3, <1>4, <1>5, <1>6, <1>7, <1>8, <1>9, <1>10, <1>11, <1>12, <1>13
    DEF Next, WatcherStep

LEMMA StepSinksTyped == TypeOK /\ Owned /\ [Next]_vars => TypesOfSinks'
<1> SUFFICES ASSUME TypesOfSinks, TypeOK, Owned, [Next]_vars PROVE TypesOfSinks'
    BY Typed
<1> USE DEF TypesOfSinks
<1>0. NoSink \in SinkType /\ Sinks \subseteq SinkType
      /\ \A k \in SinkType : k # NoSink => k \in Sinks
    BY DEF SinkType
<1>1. \A k : torn \subseteq Sinks /\ k \in SinkType /\ Tear(k) => torn' \subseteq Sinks
    BY <1>0 DEF Tear
<1>2. \A k \in SinkType : k # NoSink =>
        [k EXCEPT !.preserve = TRUE] \in Sinks /\ [k EXCEPT !.stale = TRUE] \in Sinks
    BY DEF SinkType, Sinks
<1>3. CASE AddStream \/ DropStream
    BY <1>3 DEF AddStream, DropStream, watcher
<1>4. CASE ReleaseStream
    BY <1>0, <1>4 DEF ReleaseStream
<1>5. ASSUME NEW s \in Streams, WatcherEnds(s)
      PROVE  TypesOfSinks'
    <2>1. making[s] \in SinkType /\ sink[s] \in SinkType
        OBVIOUS
    <2>2. making' \in [Streams -> SinkType] /\ sink' \in [Streams -> SinkType]
        BY <1>0, <1>5 DEF WatcherEnds
    <2>3. torn' = torn \/ Tear(making[s]) \/ Tear(sink[s])
        BY <1>5 DEF WatcherEnds
    <2>4. QED
        BY <1>1, <2>1, <2>2, <2>3
<1>6. ASSUME NEW s \in Streams, GiveUpState(s) \/ Park(s)
      PROVE  TypesOfSinks'
    <2>1. sink[s] \in SinkType
        OBVIOUS
    <2>2. making' = making /\ sink' = [sink EXCEPT ![s] = NoSink]
        BY <1>6 DEF GiveUpState, Park
    <2>3. torn' = torn \/ Tear(sink[s]) \/ (\E k \in SinkType : Tear(k))
        BY <1>0, <1>2, <1>6, <2>1 DEF GiveUpState, Park
    <2>4. QED
        BY <1>0, <1>1, <2>1, <2>2, <2>3
<1>7. ASSUME NEW s \in Streams, RunningHandler(s)
      PROVE  TypesOfSinks'
    <2> DEFINE b == sink[s].preserve \/ (~alive[s] /\ sink[s] # NoSink)
    <2>1. sink' = [sink EXCEPT ![s] = [sink[s] EXCEPT !.preserve = b]]
        BY <1>7 DEF RunningHandler
    <2>2. CASE sink[s] = NoSink
        <3>1. b = FALSE
            BY <2>2 DEF NoSink
        <3>2. NoSink.preserve = FALSE /\ NoSink \in
                [stream : {None}, handle : {None}, preserve : BOOLEAN, stale : BOOLEAN]
            BY DEF NoSink
        <3>3. [sink[s] EXCEPT !.preserve = b] = NoSink
            BY <2>2, <3>1, <3>2
        <3> HIDE DEF b
        <3>4. QED
            BY <1>0, <2>1, <3>3, <1>7 DEF RunningHandler
    <2>3. CASE sink[s] # NoSink
        <3>1. b \in BOOLEAN /\ sink[s] \in Sinks
            BY <1>0, <2>3
        <3>2. [sink[s] EXCEPT !.preserve = b] \in Sinks
            BY <3>1 DEF Sinks
        <3> HIDE DEF b
        <3>3. QED
            BY <1>0, <2>1, <3>2, <1>7 DEF RunningHandler
    <2>4. QED
        BY <2>2, <2>3
<1>8. ASSUME NEW s \in Streams, CreateSink(s)
      PROVE  TypesOfSinks'
    <2>1. Len(handle) \in Nat /\ kept[s] \in 0..Len(handle) /\ Len(handle) <= MaxHandles
        BY LenType DEF TypeOK
    <2>2. \E h \in 1..MaxHandles : making' = [making EXCEPT ![s] = Sink(s, h)]
        BY <1>8, <2>1, RtspMountsAssumption DEF CreateSink, None
    <2>3. \A h \in 1..MaxHandles : Sink(s, h) \in SinkType
        BY DEF Sink, SinkType, Sinks
    <2>4. sink' = sink /\ torn' = torn
        BY <1>8 DEF CreateSink
    <2>5. QED
        BY <2>2, <2>3, <2>4
<1>9. ASSUME NEW s \in Streams, SwapValve(s)
      PROVE  TypesOfSinks'
    <2>1. sink' = sink /\ making' = making
        BY <1>9 DEF SwapValve
    <2>2. NoSink \notin torn
        BY RtspMountsAssumption DEF Sinks, NoSink, Streams, None
    <2>3. \A k \in torn' : \E j \in torn : k = j \/ k = [j EXCEPT !.stale = TRUE]
        BY <1>9 DEF SwapValve
    <2>4. QED
        BY <1>0, <1>2, <2>1, <2>2, <2>3
<1>10. ASSUME NEW s \in Streams,
              CreationFails(s) \/ InsertFactory(s) \/ Mount(s) \/ RestFails(s)
       PROVE  TypesOfSinks'
    BY <1>0, <1>10 DEF CreationFails, InsertFactory, Mount, RestFails
<1>11. ASSUME NEW s \in Streams, CreationSucceeds(s)
       PROVE  TypesOfSinks'
    BY <1>0, <1>11 DEF CreationSucceeds
<1>12. ASSUME NEW s \in Streams,
              \/ Observe(s) \/ ReportError(s) \/ DrainingHandler(s) \/ Link(s)
              \/ CheckFactory(s) \/ Unmount(s) \/ ReportReady(s)
       PROVE  TypesOfSinks'
    BY <1>12 DEF Observe, ReportError, DrainingHandler, Link, CheckFactory, Unmount, ReportReady
<1>13. ASSUME NEW s \in Streams, OtherConsumer(s) \/ PipelineDies(s)
       PROVE  TypesOfSinks'
    BY <1>13 DEF OtherConsumer, PipelineDies, watcher
<1>14. ASSUME NEW k \in torn, Teardown(k)
       PROVE  TypesOfSinks'
    BY <1>14 DEF Teardown, watcher
<1>15. ASSUME NEW m \in Media, Configure(m) \/ OpenValve(m) \/ Unprepare(m) \/ CloseValve(m)
       PROVE  TypesOfSinks'
    BY <1>15 DEF Configure, OpenValve, Unprepare, CloseValve, watcher
<1>16. CASE UNCHANGED vars
    BY <1>16 DEF vars, watcher
<1>17. QED
    BY <1>3, <1>4, <1>5, <1>6, <1>7, <1>8, <1>9, <1>10, <1>11, <1>12, <1>13, <1>14, <1>15, <1>16
    DEF Next, WatcherStep

LEMMA HandleAt ==
    ASSUME TypeOK, NEW h \in DOMAIN handle
    PROVE  handle[h] \in HandleType
BY Typed DEF TypesOfServer

LEMMA HandleChanged ==
    ASSUME NEW r \in HandleType, NEW b \in BOOLEAN, NEW n \in Nat, NEW a \in Media \cup {None}
    PROVE  /\ r.open \in BOOLEAN /\ r.clients \in Nat
           /\ [r EXCEPT !.open = b] \in HandleType
           /\ [r EXCEPT !.appsrc = a, !.clients = n] \in HandleType
BY DEF HandleType

LEMMA HandleTyped ==
    ASSUME TypesOfServer, NEW h \in DOMAIN handle, NEW r \in HandleType,
           handle' = [handle EXCEPT ![h] = r]
    PROVE  /\ handle' \in Seq(HandleType) /\ Len(handle') = Len(handle)
           /\ DOMAIN handle' = DOMAIN handle
           /\ handle'[h] = r /\ \A g \in DOMAIN handle : g # h => handle'[g] = handle[g]
BY DEF TypesOfServer

\* The media that use a handle are counted by it.
LEMMA ViewersFinite ==
    ASSUME NEW h
    PROVE  IsFiniteSet(Viewers(h)) /\ Cardinality(Viewers(h)) \in Nat
BY RtspMountsAssumption, FS_Subset, FS_CardinalityType DEF Viewers

LEMMA ViewerCounted ==
    ASSUME NEW h, NEW m \in Viewers(h)
    PROVE  Cardinality(Viewers(h)) > 0
BY ViewersFinite, FS_EmptySet

LEMMA StepServerTyped == TypeOK /\ Owned /\ Mounted /\ Valved /\ [Next]_vars => TypesOfServer'
<1> SUFFICES ASSUME TypesOfServer, TypeOK, Owned, Mounted, Valved, [Next]_vars
             PROVE  TypesOfServer'
    BY Typed
<1> USE DEF TypesOfServer
<1>0. Len(handle) \in Nat /\ DOMAIN handle = 1..Len(handle) /\ 0 \in 0..Len(handle)
    BY LenType
<1>1. ASSUME UNCHANGED <<handle, kept, raced>>,
             UNCHANGED <<factory, mounted, media>> \/ Stopped
      PROVE  TypesOfServer'
    BY <1>0, <1>1 DEF Stopped, MediaType, None
<1>2. CASE AddStream
    BY <1>1, <1>2 DEF AddStream, server
<1>3. CASE DropStream
    BY <1>1, <1>3, Stopping DEF DropStream, watcher
<1>4. CASE ReleaseStream
    <2>1. UNCHANGED <<factory, mounted, media>> \/ Stopped
        BY <1>4, SinkRemoved DEF ReleaseStream, server
    <2>2. QED
        BY <1>1, <1>4, <2>1 DEF ReleaseStream
<1>5. ASSUME NEW s \in Streams, WatcherEnds(s)
      PROVE  TypesOfServer'
    <2>1. /\ kept' = [kept EXCEPT ![s] = None]
          /\ UNCHANGED <<handle, factory, mounted, media, raced>>
        BY <1>5 DEF WatcherEnds, server
    <2>2. QED
        BY <1>0, <2>1 DEF MediaType, None
<1>6. ASSUME NEW s \in Streams, GiveUpState(s)
      PROVE  TypesOfServer'
    <2>1. UNCHANGED <<factory, mounted, media>> \/ Stopped
        BY <1>6, SinkRemoved DEF GiveUpState, server
    <2>2. QED
        BY <1>1, <1>6, <2>1 DEF GiveUpState
<1>7. ASSUME NEW s \in Streams,
             \/ Observe(s) \/ RunningHandler(s) \/ ReportError(s) \/ DrainingHandler(s)
             \/ Park(s) \/ Link(s) \/ CreationFails(s) \/ CheckFactory(s) \/ ReportReady(s)
      PROVE  TypesOfServer'
    <2>1. UNCHANGED <<handle, kept, raced, factory, mounted, media>>
        BY <1>7 DEF Observe, RunningHandler, ReportError, DrainingHandler, Park, Link,
                    CreationFails, CheckFactory, ReportReady, server
    <2>2. QED
        BY <1>1, <2>1
<1>8. ASSUME NEW s \in Streams, CreateSink(s)
      PROVE  TypesOfServer'
    <2>1. NewHandle(s) \in HandleType
        BY DEF NewHandle, HandleType
    <2>2. handle' \in Seq(HandleType) /\ Len(handle') \in Nat /\ Len(handle) <= Len(handle')
          /\ Len(handle') <= MaxHandles
        <3>1. CASE kept[s] = None
            <4>1. handle' = Append(handle, NewHandle(s)) /\ Len(handle) < MaxHandles
                BY <1>8, <3>1 DEF CreateSink
            <4>2. QED
                BY <1>0, <2>1, <4>1, RtspMountsAssumption
        <3>2. CASE kept[s] # None
            BY <1>0, <1>8, <3>2 DEF CreateSink
        <3>3. QED
            BY <3>1, <3>2
    <2>3. raced' \subseteq Handles
        <3>1. kept[s] \in Handles
            BY <1>0, RtspMountsAssumption DEF Handles
        <3>2. raced' \subseteq raced \cup {kept[s]}
            BY <1>8 DEF CreateSink, Operates
        <3>3. QED
            BY <3>1, <3>2
    <2>4. UNCHANGED <<kept, factory, mounted, media>>
        BY <1>8 DEF CreateSink, server
    <2>5. \A i \in 0..Len(handle) : i \in 0..Len(handle')
        BY <1>0, <2>2
    <2>6. media' \in [Media -> MediaType']
        BY <2>4, <2>5 DEF MediaType
    <2>7. QED
        BY <2>2, <2>3, <2>4, <2>5, <2>6
<1>9. ASSUME NEW s \in Streams, SwapValve(s)
      PROVE  TypesOfServer'
    <2>1. making[s].handle \in DOMAIN handle /\ loaded[s] \in BOOLEAN
        BY <1>9 DEF SwapValve, Owned, Owns, Making, TypeOK
    <2>2. [handle[making[s].handle] EXCEPT !.open = loaded[s]] \in HandleType
        BY <2>1, HandleAt, HandleChanged
    <2>3. handle' \in Seq(HandleType) /\ Len(handle') = Len(handle)
        BY <1>9, <2>1, <2>2, HandleTyped DEF SwapValve
    <2>4. UNCHANGED <<kept, factory, mounted, media, raced>>
        BY <1>9 DEF SwapValve, server
    <2>5. QED
        BY <2>3, <2>4 DEF MediaType
<1>10. ASSUME NEW s \in Streams, Unmount(s)
       PROVE  TypesOfServer'
    BY <1>1, <1>10, Stopping DEF Unmount
<1>11. ASSUME NEW s \in Streams, InsertFactory(s)
       PROVE  TypesOfServer'
    <2>1. making[s].handle \in 0..Len(handle)
        BY <1>0, <1>11 DEF InsertFactory, Owned, Owns, Making
    <2>2. factory' = making[s].handle /\ UNCHANGED <<handle, kept, raced, mounted, media>>
        BY <1>11 DEF InsertFactory
    <2>3. QED
        BY <2>1, <2>2 DEF MediaType
<1>12. ASSUME NEW s \in Streams, Mount(s)
       PROVE  TypesOfServer'
    <2>1. UNCHANGED <<handle, kept, raced, factory>>
        BY <1>12 DEF Mount
    <2>2. \/ mounted' = mounted /\ media' = media
          \/ mounted' = factory /\ media' \in [Media -> MediaType]
        BY <1>12, OrphanedMedia DEF Mount
    <2>3. QED
        BY <2>1, <2>2 DEF MediaType
<1>13. ASSUME NEW s \in Streams, RestFails(s)
       PROVE  TypesOfServer'
    <2>1. UNCHANGED <<factory, mounted, media>> \/ Stopped
        BY <1>13, SinkRemoved DEF RestFails
    <2>2. QED
        BY <1>1, <1>13, <2>1 DEF RestFails
<1>14. ASSUME NEW s \in Streams, CreationSucceeds(s)
       PROVE  TypesOfServer'
    <2>1. making[s].handle \in 0..Len(handle)
        BY <1>0, <1>14 DEF CreationSucceeds, Owned, Owns, Making
    <2>2. kept' \in [Streams -> 0..Len(handle)]
        BY <1>14, <2>1 DEF CreationSucceeds
    <2>3. UNCHANGED <<handle, raced, factory, mounted, media>>
        BY <1>14 DEF CreationSucceeds, server
    <2>4. QED
        BY <2>2, <2>3 DEF MediaType
<1>15. ASSUME NEW s \in Streams, OtherConsumer(s) \/ PipelineDies(s)
       PROVE  TypesOfServer'
    <2>1. UNCHANGED <<handle, kept, raced, factory, mounted, media>>
        BY <1>15 DEF OtherConsumer, PipelineDies, watcher, server
    <2>2. QED
        BY <1>1, <2>1
<1>16. ASSUME NEW k \in torn, Teardown(k)
       PROVE  TypesOfServer'
    <2>1. UNCHANGED <<factory, mounted, media>> \/ Stopped
        BY <1>16, SinkRemoved DEF Teardown
    <2>2. QED
        BY <1>1, <1>16, <2>1 DEF Teardown, watcher
<1>17. ASSUME NEW m \in Media, Configure(m)
       PROVE  TypesOfServer'
    <2> DEFINE r == [handle[mounted] EXCEPT !.appsrc = m, !.clients = @ + 1]
    <2>1. mounted \in DOMAIN handle
        BY <1>0, <1>17 DEF Configure, None
    <2>2. r \in HandleType
        <3>1. handle[mounted].clients + 1 \in Nat
            BY <2>1, HandleAt DEF HandleType
        <3>2. QED
            BY <2>1, <3>1, HandleAt, HandleChanged
    <2>3. handle' = [handle EXCEPT ![mounted] = r]
        BY <1>17 DEF Configure
    <2>4. handle' \in Seq(HandleType) /\ Len(handle') = Len(handle)
        BY <2>1, <2>2, <2>3, HandleTyped
    <2>5. (handle[mounted].clients = 0) \in BOOLEAN /\ (\E o \in Media : Uses(o, mounted)) \in BOOLEAN
        OBVIOUS
    <2>6. ASSUME NEW n \in Media PROVE media'[n] \in MediaType
        <3>1. CASE n = m
            BY <1>17, <2>5, <3>1 DEF Configure, MediaType
        <3>2. CASE n # m
            <4>1. media'[n] = [media[n] EXCEPT !.mixed = @ \/ Uses(n, mounted)]
                BY <1>17, <3>2 DEF Configure
            <4>2. media[n] \in MediaType /\ (media[n].mixed \/ Uses(n, mounted)) \in BOOLEAN
                OBVIOUS
            <4>3. QED
                BY <4>1, <4>2 DEF MediaType
        <3>3. QED
            BY <3>1, <3>2
    <2>7. media' \in [Media -> MediaType']
        BY <1>17, <2>4, <2>6 DEF Configure, MediaType
    <2>8. raced' \subseteq Handles
        BY <1>0, <1>17, RtspMountsAssumption DEF Configure, Operates, Handles
    <2>9. UNCHANGED <<kept, factory, mounted>>
        BY <1>17 DEF Configure, watcher, server
    <2>10. QED
        BY <2>4, <2>7, <2>8, <2>9
<1>18. ASSUME NEW m \in Media, OpenValve(m) \/ CloseValve(m)
       PROVE  TypesOfServer'
    <2> DEFINE h == media[m].handle
    <2>1. h \in DOMAIN handle
        BY <1>18 DEF OpenValve, CloseValve, Mounted
    <2>2. PICK b \in BOOLEAN : handle' = [handle EXCEPT ![h] = [handle[h] EXCEPT !.open = b]]
        <3>1. handle[h].open \in BOOLEAN /\ media[m].edge \in BOOLEAN
            BY <2>1, HandleAt, HandleChanged DEF MediaType
        <3>2. (handle[h].open \/ media[m].edge) \in BOOLEAN
              /\ (handle[h].open /\ ~media[m].edge) \in BOOLEAN
            OBVIOUS
        <3>3. QED
            BY <1>18, <3>2 DEF OpenValve, CloseValve
    <2>3. [handle[h] EXCEPT !.open = b] \in HandleType
        BY <2>1, HandleAt, HandleChanged
    <2>4. handle' \in Seq(HandleType) /\ Len(handle') = Len(handle)
        BY <2>1, <2>2, <2>3, HandleTyped
    <2>5. media' \in [Media -> MediaType]
        <3>1. NoMedia \in MediaType
            BY <1>0 DEF NoMedia, MediaType, None
        <3>2. [media[m] EXCEPT !.at = "playing", !.edge = FALSE] \in MediaType
            BY DEF MediaType
        <3>3. QED
            BY <1>18, <3>1, <3>2 DEF OpenValve, CloseValve
    <2>6. UNCHANGED <<kept, factory, mounted, raced>>
        BY <1>18 DEF OpenValve, CloseValve, watcher, server
    <2>7. QED
        BY <2>4, <2>5, <2>6 DEF MediaType
<1>19. ASSUME NEW m \in Media, Unprepare(m)
       PROVE  TypesOfServer'
    <2> DEFINE h == media[m].handle
               r == [handle[h] EXCEPT !.appsrc = None, !.clients = @ - 1]
    <2>1. h \in DOMAIN handle /\ media[m].at = "playing"
        BY <1>19 DEF Unprepare, Mounted
    <2>2. handle[h].clients = Cardinality(Viewers(h)) /\ Cardinality(Viewers(h)) > 0
        BY <2>1, ViewerCounted DEF Valved, ValvedAt, Viewers
    <2>3. r \in HandleType
        <3>1. handle[h].clients - 1 \in Nat
            BY <2>2, ViewersFinite
        <3>2. QED
            BY <2>1, <3>1, HandleAt, HandleChanged
    <2>4. handle' = [handle EXCEPT ![h] = r]
        BY <1>19 DEF Unprepare
    <2>5. handle' \in Seq(HandleType) /\ Len(handle') = Len(handle)
        BY <2>1, <2>3, <2>4, HandleTyped
    <2>6. (handle[h].clients = 1) \in BOOLEAN
        OBVIOUS
    <2>7. [media[m] EXCEPT !.at = "closing", !.edge = handle[h].clients = 1] \in MediaType
        BY <2>6 DEF MediaType
    <2>8. media' \in [Media -> MediaType]
        BY <1>19, <2>7 DEF Unprepare
    <2>9. raced' \subseteq Handles
        BY <1>0, <1>19, <2>1, RtspMountsAssumption DEF Unprepare, Operates, Handles
    <2>10. UNCHANGED <<kept, factory, mounted>>
        BY <1>19 DEF Unprepare, watcher, server
    <2>11. QED
        BY <2>5, <2>8, <2>9, <2>10 DEF MediaType
<1>20. CASE UNCHANGED vars
    BY <1>1, <1>20 DEF vars, watcher, server
<1>21. QED
    BY <1>2, <1>3, <1>4, <1>5, <1>6, <1>7, <1>8, <1>9, <1>10, <1>11, <1>12, <1>13, <1>14, <1>15,
       <1>16, <1>17, <1>18, <1>19, <1>20
    DEF Next, WatcherStep

LEMMA StepTyped == TypeOK /\ Added /\ Owned /\ Mounted /\ Valved /\ [Next]_vars => TypeOK'
<1>1. TypesOfServer' /\ TypesOfStreams' /\ TypesOfSinks' => TypeOK'
    BY DEF TypeOK, TypesOfServer, TypesOfStreams, TypesOfSinks, HandleType, SinkType, MediaType
<1>2. QED
    BY <1>1, StepServerTyped, StepStreamsTyped, StepSinksTyped
-----------------------------------------------------------------------------
(* Streams *)

\* A watcher's step is about its own stream, which has been added; it ends only when that
\* has been taken from the table.
WatcherActs(s) == WatcherStep(s) \/ CreationFails(s) \/ RestFails(s) \/ WatcherEnds(s)

LEMMA OwnStream ==
    ASSUME TypeOK, NEW s \in Streams, WatcherActs(s)
    PROVE  /\ UNCHANGED <<table, added, dropping, watched>>
           /\ at[s] \notin {"new", "ended"} /\ at'[s] # "new"
           /\ at'[s] = "ended" => ~InTable(s)
           /\ \A t \in Streams : t # s => /\ at'[t] = at[t] /\ sink'[t] = sink[t]
                                          /\ making'[t] = making[t] /\ kept'[t] = kept[t]
                                          /\ loaded'[t] = loaded[t] /\ life'[t] = life[t]
<1> USE DEF TypeOK, Goto, manager, clients
<1>1. CASE Observe(s)
    <2>1. life[s].phase \in Phases
        BY DEF LifecycleStates
    <2>2. QED
        BY <1>1, <2>1 DEF Observe, Phases
<1>2. CASE GiveUpState(s)
    BY <1>2 DEF GiveUpState
<1>3. CASE RunningHandler(s)
    BY <1>3 DEF RunningHandler
<1>4. CASE ReportError(s) \/ ReportReady(s)
    BY <1>4 DEF ReportError, ReportReady
<1>5. CASE DrainingHandler(s)
    BY <1>5 DEF DrainingHandler
<1>6. CASE Park(s) \/ Link(s) \/ CheckFactory(s) \/ Unmount(s)
    BY <1>6 DEF Park, Link, CheckFactory, Unmount
<1>7. CASE CreateSink(s)
    BY <1>7 DEF CreateSink
<1>8. CASE SwapValve(s)
    BY <1>8 DEF SwapValve
<1>9. CASE InsertFactory(s)
    BY <1>9 DEF InsertFactory
<1>10. CASE Mount(s)
    BY <1>10 DEF Mount
<1>11. CASE CreationSucceeds(s) \/ CreationFails(s) \/ RestFails(s)
    BY <1>11 DEF CreationSucceeds, CreationFails, RestFails
<1>12. CASE WatcherEnds(s)
    BY <1>12 DEF WatcherEnds
<1>13. QED
    BY <1>1, <1>2, <1>3, <1>4, <1>5, <1>6, <1>7, <1>8, <1>9, <1>10, <1>11, <1>12
    DEF WatcherActs, WatcherStep

\* What a watcher does to its lifecycle counts nobody, and but for its reports nothing.
LEMMA OwnLife ==
    ASSUME TypeOK, NEW s \in Streams, WatcherActs(s)
    PROVE  \/ life'[s] = life[s]
           \/ at[s] = "ready" /\ life'[s] = PipelineReady(life[s])
           \/ at[s] = "error" /\ life'[s] = ResetErrorBackoff(PipelineError(life[s]))
           \/ at[s] = "Draining" /\ life'[s] = DrainExpired(life[s])
<1> USE DEF TypeOK, clients
<1>1. CASE ReportError(s) \/ ReportReady(s) \/ DrainingHandler(s)
    BY <1>1 DEF ReportError, ReportReady, DrainingHandler
<1>2. CASE \/ Observe(s) \/ GiveUpState(s) \/ RunningHandler(s) \/ Park(s) \/ Link(s)
           \/ CheckFactory(s) \/ Unmount(s)
    BY <1>2 DEF Observe, GiveUpState, RunningHandler, Park, Link, CheckFactory, Unmount
<1>3. CASE \/ CreateSink(s) \/ SwapValve(s) \/ InsertFactory(s) \/ Mount(s)
           \/ CreationSucceeds(s) \/ CreationFails(s) \/ RestFails(s) \/ WatcherEnds(s)
    BY <1>3 DEF CreateSink, SwapValve, InsertFactory, Mount, CreationSucceeds, CreationFails,
                RestFails, WatcherEnds
<1>4. QED
    BY <1>1, <1>2, <1>3 DEF WatcherActs, WatcherStep

LEMMA LazyFits == CountFits(Lazy) /\ Lazy.mode = "Lazy" /\ Lazy \in LifecycleStates
BY LifecycleTyped DEF CountFits, Lazy, Phantom

\* A lifecycle that counts rightly does so after each operation.
LEMMA LifeFits ==
    ASSUME NEW l \in LifecycleStates, CountFits(l), l.mode = "Lazy",
           NEW r \in {AddConsumer(l), RemoveConsumer(l), PipelineReady(l), DrainExpired(l),
                      ResetErrorBackoff(PipelineError(l)), Lazy,
                      RemoveConsumer(AddConsumer(l))}
    PROVE  CountFits(r) /\ r.mode = "Lazy"
<1>1. PipelineError(l) \in LifecycleStates /\ AddConsumer(l) \in LifecycleStates
    BY OperationsTyped
<1>2. CountFits(PipelineError(l)) /\ PipelineError(l).mode = "Lazy"
    BY ReportsCountNobody
<1>3. CountFits(AddConsumer(l)) /\ AddConsumer(l).mode = "Lazy"
    BY AddConsumerFits
<1>4. CASE r = RemoveConsumer(AddConsumer(l))
    BY <1>1, <1>3, <1>4, RemoveConsumerFits
<1>5. CASE r = ResetErrorBackoff(PipelineError(l))
    BY <1>1, <1>2, <1>5, ReportsCountNobody
<1>6. CASE r \in {PipelineReady(l), DrainExpired(l)}
    BY <1>6, ReportsCountNobody
<1>7. CASE r \in {RemoveConsumer(l), AddConsumer(l), Lazy}
    BY <1>3, <1>7, RemoveConsumerFits, LazyFits
<1>8. QED
    BY <1>4, <1>5, <1>6, <1>7

\* What the steps that are no watcher's do to streams and lifecycles.
LEMMA Consumers ==
    ASSUME TypeOK,
           \/ \E s \in Streams : OtherConsumer(s)
           \/ \E m \in Media : OpenValve(m) \/ CloseValve(m)
    PROVE  /\ UNCHANGED <<table, added, dropping, watcher>>
           /\ \A s \in Streams : \/ life'[s] = life[s]
                                 \/ /\ InTable(s)
                                    /\ life'[s] \in {AddConsumer(life[s]), RemoveConsumer(life[s])}
           /\ \A s \in watched' : s \in watched \/ table = s
<1> USE DEF TypeOK
<1>1. CASE \E s \in Streams : OtherConsumer(s)
    BY <1>1 DEF OtherConsumer, manager, InTable
<1>2. ASSUME NEW m \in Media, OpenValve(m) \/ CloseValve(m)
      PROVE  /\ UNCHANGED <<table, added, dropping, watcher, watched>>
             /\ \A s \in Streams : \/ life'[s] = life[s]
                                   \/ /\ InTable(s)
                                      /\ life'[s] \in {AddConsumer(life[s]),
                                                       RemoveConsumer(life[s])}
    <2>1. UNCHANGED <<table, added, dropping, watcher, watched>>
        BY <1>2 DEF OpenValve, CloseValve, manager
    <2> DEFINE o == handle[media[m].handle].owner
    <2>2. \/ life' = (IF InTable(o) THEN [life EXCEPT ![o] = AddConsumer(life[o])] ELSE life)
          \/ life' = (IF InTable(o) THEN [life EXCEPT ![o] = RemoveConsumer(life[o])] ELSE life)
        BY <1>2 DEF OpenValve, CloseValve, Inform, LifeOf
    <2> HIDE DEF o
    <2>3. ASSUME NEW s \in Streams, life'[s] # life[s]
          PROVE  InTable(s) /\ life'[s] \in {AddConsumer(life[s]), RemoveConsumer(life[s])}
        BY <2>2, <2>3
    <2>4. QED
        BY <2>1, <2>3
<1>3. QED
    BY <1>1, <1>2

LEMMA NothingOfStreams ==
    ASSUME \/ \E s \in Streams : PipelineDies(s)
           \/ \E k \in torn : Teardown(k)
           \/ \E m \in Media : Configure(m) \/ Unprepare(m)
           \/ UNCHANGED vars
    PROVE  UNCHANGED <<table, added, dropping, life, watched, at, sink, making, kept, loaded>>
BY DEF PipelineDies, Teardown, Configure, Unprepare, vars, manager, clients, watcher

LEMMA AddedLife ==
    ASSUME TypeOK, Added, NEW s \in Streams
    PROVE  life[s] \in LifecycleStates /\ CountFits(life[s]) /\ life[s].mode = "Lazy"
BY DEF TypeOK, Added

LEMMA StepAdded == TypeOK /\ Added /\ [Next]_vars => Added'
<1> SUFFICES ASSUME TypeOK, Added, [Next]_vars PROVE Added'
    OBVIOUS
<1>0. added \in Nat /\ table \in 0..added /\ watched \subseteq Streams /\ 0 \notin Streams
    BY RtspMountsAssumption DEF TypeOK, Streams
<1>1. CASE AddStream
    <2> DEFINE n == added + 1
    <2>1. /\ n \in Streams /\ added' = n /\ table' = n /\ ~dropping /\ dropping' = dropping
          /\ at' = [at EXCEPT ![n] = "select"] /\ table = 0
          /\ life' = [life EXCEPT ![n] = RemoveConsumer(AddConsumer(life[n]))]
          /\ UNCHANGED <<sink, kept, watched>>
        BY <1>0, <1>1, RtspMountsAssumption DEF AddStream, Streams, Goto, Added, None
    <2>2. watched = {}
        BY <1>0, <2>1 DEF Added
    <2>3. \A s \in Streams : CountFits(life'[s]) /\ life'[s].mode = "Lazy"
        BY <2>1, AddedLife, LifeFits DEF TypeOK
    <2>4. \A s \in Streams : s # n => at'[s] = at[s] /\ life'[s] = life[s]
        BY <2>1 DEF TypeOK
    <2>5. at'[n] = "select"
        BY <2>1 DEF TypeOK
    <2>6. \A s \in Streams : s > n => s # n /\ s > added
        BY <1>0 DEF Streams
    <2>7. QED
        BY <1>0, <2>1, <2>2, <2>3, <2>4, <2>5, <2>6 DEF Added, InTable, None
<1>2. CASE DropStream
    BY <1>2 DEF Added, DropStream, clients, watcher, InTable
<1>3. CASE ReleaseStream
    <2>1. /\ table' = 0 /\ dropping' = FALSE /\ life' = [life EXCEPT ![table] = Lazy]
          /\ watched' = watched \ {table} /\ UNCHANGED <<added, at, kept>>
          /\ \A s \in Streams : sink[s] = NoSink => sink'[s] = NoSink
        BY <1>3 DEF ReleaseStream, None, TypeOK
    <2>2. \A s \in Streams : life'[s] = life[s] \/ life'[s] = Lazy
        BY <2>1 DEF TypeOK
    <2>3. \A s \in Streams : CountFits(life'[s]) /\ life'[s].mode = "Lazy"
        BY <2>2, LazyFits, AddedLife
    <2>4. QED
        BY <1>0, <2>1, <2>2, <2>3 DEF Added, InTable
<1>4. ASSUME NEW s \in Streams, WatcherActs(s)
      PROVE  Added'
    <2>1. s <= added
        BY <1>0, <1>4, OwnStream DEF Added, Streams
    <2>2. CountFits(life'[s]) /\ life'[s].mode = "Lazy"
        BY <1>4, OwnLife, AddedLife, LifeFits
    <2>3. UNCHANGED <<table, added, dropping, watched>> /\ ~(s > added)
        BY <1>0, <1>4, <2>1, OwnStream DEF Streams
    <2>4. QED
        BY <1>4, <2>2, <2>3, OwnStream DEF Added, InTable
<1>5. CASE \/ \E s \in Streams : OtherConsumer(s)
           \/ \E m \in Media : OpenValve(m) \/ CloseValve(m)
    <2>1. \A s \in Streams : CountFits(life'[s]) /\ life'[s].mode = "Lazy"
        BY <1>5, Consumers, AddedLife, LifeFits
    <2>2. \A s \in Streams : InTable(s) => ~(s > added)
        BY <1>0 DEF InTable
    <2>3. UNCHANGED <<at, sink, kept>>
        BY <1>5, Consumers DEF watcher
    <2>4. QED
        BY <1>5, <2>1, <2>2, <2>3, Consumers DEF Added, InTable
<1>6. CASE \/ \E s \in Streams : PipelineDies(s)
           \/ \E k \in torn : Teardown(k)
           \/ \E m \in Media : Configure(m) \/ Unprepare(m)
           \/ UNCHANGED vars
    BY <1>6, NothingOfStreams DEF Added, InTable
<1>7. QED
    BY <1>1, <1>2, <1>3, <1>4, <1>5, <1>6 DEF Next, WatcherActs
-----------------------------------------------------------------------------
(* Handles *)

\* The steps that make, move or count a handle, and those of the watcher that do not.
HandleStep(s) == CreateSink(s) \/ SwapValve(s)

QuietStep(s) ==
    \/ Observe(s) \/ GiveUpState(s) \/ RunningHandler(s) \/ ReportError(s) \/ DrainingHandler(s)
    \/ Park(s) \/ Link(s) \/ CheckFactory(s) \/ Unmount(s) \/ InsertFactory(s) \/ Mount(s)
    \/ CreationSucceeds(s) \/ ReportReady(s) \/ CreationFails(s) \/ RestFails(s)
    \/ WatcherEnds(s)

LEMMA HandlesKept ==
    ASSUME \/ \E s \in Streams : QuietStep(s) \/ OtherConsumer(s) \/ PipelineDies(s)
           \/ AddStream \/ DropStream \/ ReleaseStream
           \/ \E k \in torn : Teardown(k)
           \/ UNCHANGED vars
    PROVE  UNCHANGED <<handle, raced>>
<1>1. ASSUME NEW s \in Streams, QuietStep(s)
      PROVE  UNCHANGED <<handle, raced>>
    BY <1>1 DEF QuietStep, Observe, GiveUpState, RunningHandler, ReportError, DrainingHandler, Park,
                Link, CheckFactory, Unmount, InsertFactory, Mount, CreationSucceeds, ReportReady,
                CreationFails, RestFails, WatcherEnds
<1>2. QED
    BY <1>1 DEF OtherConsumer, PipelineDies, AddStream, DropStream, ReleaseStream, Teardown, vars

\* A new handle is its stream's; the others stay.
LEMMA HandleMade ==
    ASSUME TypeOK, NEW s \in Streams, CreateSink(s)
    PROVE  /\ DOMAIN handle \subseteq DOMAIN handle'
           /\ \A h \in DOMAIN handle : handle'[h] = handle[h]
           /\ \A h \in DOMAIN handle' \ DOMAIN handle :
                handle'[h] = NewHandle(s) /\ kept[s] = None
           /\ making' = [making EXCEPT ![s] = Sink(s, making'[s].handle)]
           /\ making'[s].handle \in DOMAIN handle'
           /\ IF kept[s] = None
                THEN /\ making'[s].handle \notin DOMAIN handle
                     /\ at'[s] = "link" /\ UNCHANGED <<loaded, raced>>
                ELSE /\ making'[s].handle = kept[s] /\ handle' = handle /\ at'[s] = "swap"
                     /\ loaded'[s] = (handle[kept[s]].clients > 0) /\ Operates(kept[s])
<1>1. Len(handle) \in Nat /\ DOMAIN handle = 1..Len(handle) /\ kept[s] \in 0..Len(handle)
    BY LenType DEF TypeOK
<1>2. CASE kept[s] = None
    <2>1. /\ handle' = Append(handle, NewHandle(s)) /\ at' = [at EXCEPT ![s] = "link"]
          /\ making' = [making EXCEPT ![s] = Sink(s, Len(handle) + 1)]
          /\ UNCHANGED <<loaded, raced>>
        BY <1>2 DEF CreateSink, Goto
    <2>2. \E T : handle \in Seq(T)
        BY DEF TypeOK
    <2>3. /\ DOMAIN handle' = 1..(Len(handle) + 1) /\ handle'[Len(handle) + 1] = NewHandle(s)
          /\ \A h \in DOMAIN handle : handle'[h] = handle[h]
        BY <1>1, <2>1, <2>2
    <2>4. making'[s] = Sink(s, Len(handle) + 1) /\ making'[s].handle = Len(handle) + 1
          /\ at'[s] = "link"
        BY <2>1 DEF TypeOK, Sink
    <2>5. \A h \in DOMAIN handle' \ DOMAIN handle : h = Len(handle) + 1
        BY <1>1, <2>3
    <2>6. /\ Len(handle) + 1 \in DOMAIN handle' /\ Len(handle) + 1 \notin DOMAIN handle
          /\ DOMAIN handle \subseteq DOMAIN handle'
        BY <1>1, <2>3
    <2>7. making' = [making EXCEPT ![s] = Sink(s, making'[s].handle)]
        BY <2>1, <2>4
    <2>8. QED
        BY <1>2, <2>1, <2>3, <2>4, <2>5, <2>6, <2>7
<1>3. CASE kept[s] # None
    <2>1. /\ handle' = handle /\ at' = [at EXCEPT ![s] = "swap"] /\ Operates(kept[s])
          /\ making' = [making EXCEPT ![s] = Sink(s, kept[s])]
          /\ loaded' = [loaded EXCEPT ![s] = handle[kept[s]].clients > 0]
        BY <1>3 DEF CreateSink, Goto
    <2>2. /\ making'[s] = Sink(s, kept[s]) /\ making'[s].handle = kept[s] /\ at'[s] = "swap"
          /\ loaded'[s] = (handle[kept[s]].clients > 0)
        BY <2>1 DEF TypeOK, Sink
    <2>3. kept[s] \in DOMAIN handle
        BY <1>1, <1>3 DEF None
    <2>4. QED
        BY <1>3, <2>1, <2>2, <2>3
<1>4. QED
    BY <1>2, <1>3

\* What the callbacks and update_valve do to a handle leaves its owner.
LEMMA HandleUsed ==
    ASSUME TypeOK, Owned, Mounted,
           \/ \E s \in Streams : SwapValve(s)
           \/ \E m \in Media : Configure(m) \/ OpenValve(m) \/ Unprepare(m) \/ CloseValve(m)
    PROVE  /\ DOMAIN handle' = DOMAIN handle /\ Len(handle') = Len(handle)
           /\ \A h \in DOMAIN handle : handle'[h].owner = handle[h].owner
<1>1. TypesOfServer /\ DOMAIN handle = 1..Len(handle) /\ Len(handle) \in Nat
    BY Typed, LenType
<1>2. ASSUME NEW g \in DOMAIN handle, NEW r, r.owner = handle[g].owner,
             handle' = [handle EXCEPT ![g] = r]
      PROVE  /\ DOMAIN handle' = DOMAIN handle /\ Len(handle') = Len(handle)
             /\ \A h \in DOMAIN handle : handle'[h].owner = handle[h].owner
    <2>1. DOMAIN handle' = DOMAIN handle
        BY <1>2
    <2>2. Len(handle') = Len(handle)
        BY <1>1, <1>2, <2>1 DEF TypesOfServer
    <2>3. \A h \in DOMAIN handle : handle'[h].owner = handle[h].owner
        BY <1>2
    <2>4. QED
        BY <2>1, <2>2, <2>3
<1>3. \A h \in DOMAIN handle : \A x, y :
        /\ [handle[h] EXCEPT !.open = x].owner = handle[h].owner
        /\ [handle[h] EXCEPT !.appsrc = x, !.clients = y].owner = handle[h].owner
    BY HandleAt DEF HandleType
<1>4. ASSUME NEW s \in Streams, SwapValve(s)
      PROVE  /\ DOMAIN handle' = DOMAIN handle /\ Len(handle') = Len(handle)
             /\ \A h \in DOMAIN handle : handle'[h].owner = handle[h].owner
    <2>1. PICK g : g = making[s].handle
        OBVIOUS
    <2>2. PICK r : r = [handle[g] EXCEPT !.open = loaded[s]]
        OBVIOUS
    <2>3. g \in DOMAIN handle
        BY <1>4, <2>1 DEF SwapValve, Owned, Owns, Making
    <2>4. handle' = [handle EXCEPT ![g] = r]
        BY <1>4, <2>1, <2>2 DEF SwapValve
    <2>5. QED
        BY <1>2, <1>3, <2>2, <2>3, <2>4
<1>5. ASSUME NEW m \in Media, OpenValve(m) \/ CloseValve(m)
      PROVE  /\ DOMAIN handle' = DOMAIN handle /\ Len(handle') = Len(handle)
             /\ \A h \in DOMAIN handle : handle'[h].owner = handle[h].owner
    <2>1. PICK g : g = media[m].handle
        OBVIOUS
    <2>2. PICK o : o = IF OpenValve(m) THEN handle[g].open \/ media[m].edge
                                       ELSE handle[g].open /\ ~media[m].edge
        OBVIOUS
    <2>3. PICK r : r = [handle[g] EXCEPT !.open = o]
        OBVIOUS
    <2>4. g \in DOMAIN handle
        BY <1>5, <2>1 DEF OpenValve, CloseValve, Mounted
    <2>5. handle' = [handle EXCEPT ![g] = r]
        BY <1>5, <2>1, <2>2, <2>3 DEF OpenValve, CloseValve
    <2>6. QED
        BY <1>2, <1>3, <2>3, <2>4, <2>5
<1>6. ASSUME NEW m \in Media, Configure(m) \/ Unprepare(m)
      PROVE  /\ DOMAIN handle' = DOMAIN handle /\ Len(handle') = Len(handle)
             /\ \A h \in DOMAIN handle : handle'[h].owner = handle[h].owner
    <2>1. CASE Configure(m)
        <3>1. PICK r : r = [handle[mounted] EXCEPT !.appsrc = m, !.clients = handle[mounted].clients + 1]
            OBVIOUS
        <3>2. mounted \in DOMAIN handle
            BY <1>1, <2>1 DEF Configure, None, TypesOfServer
        <3>3. handle' = [handle EXCEPT ![mounted] = r]
            BY <2>1, <3>1 DEF Configure
        <3>4. QED
            BY <1>2, <1>3, <3>1, <3>2, <3>3
    <2>2. CASE Unprepare(m)
        <3>1. PICK g : g = media[m].handle
            OBVIOUS
        <3>2. PICK r : r = [handle[g] EXCEPT !.appsrc = None, !.clients = handle[g].clients - 1]
            OBVIOUS
        <3>3. g \in DOMAIN handle
            BY <2>2, <3>1 DEF Unprepare, Mounted
        <3>4. handle' = [handle EXCEPT ![g] = r]
            BY <2>2, <3>1, <3>2 DEF Unprepare
        <3>5. QED
            BY <1>2, <1>3, <3>2, <3>3, <3>4
    <2>3. QED
        BY <1>6, <2>1, <2>2
<1>7. QED
    BY <1>4, <1>5, <1>6

\* A sink that is to preserve its factory is the same otherwise, and none is none.
LEMMA Preserved ==
    ASSUME TypeOK, NEW s \in Streams, RunningHandler(s)
    PROVE  /\ sink[s] = NoSink => sink'[s] = NoSink
           /\ sink'[s].handle = sink[s].handle
           /\ sink[s] # NoSink => sink'[s].preserve = (sink[s].preserve \/ ~alive[s])
<1> DEFINE b == sink[s].preserve \/ (~alive[s] /\ sink[s] # NoSink)
<1>1. sink'[s] = [sink[s] EXCEPT !.preserve = b]
    BY DEF RunningHandler, TypeOK
<1>2. sink[s] \in Sinks \/ sink[s] = NoSink
    BY DEF TypeOK
<1>3. NoSink.preserve = FALSE /\ NoSink \in
        [stream : {None}, handle : {None}, preserve : BOOLEAN, stale : BOOLEAN]
    BY DEF NoSink
<1>4. CASE sink[s] = NoSink
    <2>1. b = FALSE
        BY <1>3, <1>4
    <2>2. sink'[s] = NoSink
        BY <1>1, <1>3, <1>4, <2>1
    <2>3. QED
        BY <1>4, <2>2
<1>5. CASE sink[s] # NoSink
    <2>1. b = (sink[s].preserve \/ ~alive[s])
        BY <1>5
    <2> HIDE DEF b
    <2>2. sink'[s].handle = sink[s].handle /\ sink'[s].preserve = b
        BY <1>1, <1>2, <1>5 DEF Sinks
    <2>3. QED
        BY <1>5, <2>1, <2>2
<1>6. QED
    BY <1>4, <1>5

\* Handles that exist go on to be owned by their streams.
OwnersKept ==
    /\ DOMAIN handle \subseteq DOMAIN handle'
    /\ \A h \in DOMAIN handle : handle'[h].owner = handle[h].owner

LEMMA StillOwns ==
    ASSUME TypeOK, OwnersKept, NEW s \in Streams, Owns(s),
           at'[s] = at[s] \/ (at'[s] \in Making => at[s] \in Making),
           at[s] = "ended" => at'[s] = "ended",
           kept'[s] = kept[s], at'[s] \in Making => making'[s] = making[s],
           sink'[s] = NoSink \/ (sink[s] # NoSink /\ sink'[s].handle = sink[s].handle)
    PROVE  Owns(s)'
<1>1. kept[s] # None => kept[s] \in DOMAIN handle
    BY LenType DEF TypeOK, None
<1>2. QED
    BY <1>1 DEF Owns, OwnersKept

LEMMA QuietOwns ==
    ASSUME TypeOK, Owned, OwnersKept, NEW s \in Streams, QuietStep(s) \/ SwapValve(s)
    PROVE  Owns(s)'
<1>0. Owns(s) /\ at[s] # "ended" /\ (at[s] \in Making => making[s] # NoSink)
    <2>1. Owns(s)
        BY DEF Owned
    <2>2. at[s] # "ended"
        BY OwnStream DEF WatcherActs, WatcherStep, QuietStep
    <2>3. 0 \notin Streams
        BY RtspMountsAssumption DEF Streams
    <2>4. QED
        BY <2>1, <2>2, <2>3 DEF Owns, Sink, NoSink, None
<1>1. CASE Observe(s)
    <2>1. life[s].phase \notin Making /\ at' = [at EXCEPT ![s] = life[s].phase]
          /\ UNCHANGED <<sink, making, kept>>
        BY <1>1 DEF Observe, TypeOK, LifecycleStates, Phases, Making, Goto
    <2>2. QED
        BY <1>0, <2>1, StillOwns DEF TypeOK
<1>2. CASE GiveUpState(s) \/ Park(s)
    <2>1. at'[s] \notin Making /\ sink'[s] = NoSink /\ UNCHANGED <<making, kept>>
        BY <1>2 DEF GiveUpState, Park, TypeOK, Making, Goto
    <2>2. QED
        BY <1>0, <2>1, StillOwns
<1>3. CASE RunningHandler(s)
    <2>1. at'[s] \notin Making /\ UNCHANGED <<making, kept>>
        BY <1>3 DEF RunningHandler, TypeOK, Making, Goto
    <2>2. QED
        BY <1>0, <1>3, <2>1, StillOwns, Preserved
<1>4. CASE ReportError(s) \/ DrainingHandler(s) \/ ReportReady(s)
    <2>1. at'[s] \notin Making /\ UNCHANGED <<sink, making, kept>>
        BY <1>4 DEF ReportError, DrainingHandler, ReportReady, TypeOK, Making, Goto
    <2>2. QED
        BY <1>0, <2>1, StillOwns
<1>5. CASE SwapValve(s) \/ Link(s) \/ CheckFactory(s) \/ Unmount(s)
    <2>1. at[s] \in Making /\ UNCHANGED <<sink, making, kept>>
        BY <1>5 DEF SwapValve, Link, CheckFactory, Unmount, TypeOK, Making
    <2>2. QED
        BY <1>0, <2>1, StillOwns
<1>6. CASE InsertFactory(s) \/ Mount(s)
    <2>1. at[s] \in Making /\ UNCHANGED <<sink, kept>>
          /\ (at'[s] \in Making => making' = making)
        BY <1>6 DEF InsertFactory, Mount, TypeOK, Making, Goto
    <2>2. QED
        BY <1>0, <2>1, StillOwns
<1>7. CASE CreationFails(s) \/ RestFails(s)
    <2>1. at'[s] \notin Making /\ UNCHANGED <<sink, kept>>
        BY <1>7 DEF CreationFails, RestFails, TypeOK, Making, Goto
    <2>2. QED
        BY <1>0, <2>1, StillOwns
<1>8. CASE CreationSucceeds(s)
    <2>1. /\ at[s] \in Making /\ at'[s] = "ready" /\ "ready" \notin Making
          /\ sink'[s] = making[s]
          /\ kept'[s] = IF kept[s] = None THEN making[s].handle ELSE kept[s]
        BY <1>8 DEF CreationSucceeds, TypeOK, Making, Goto
    <2>2. kept'[s] = making[s].handle /\ making[s].handle \in DOMAIN handle
          /\ handle[making[s].handle].owner = s
        BY <1>0, <2>1 DEF Owns
    <2>3. QED
        BY <2>1, <2>2 DEF Owns, OwnersKept
<1>9. CASE WatcherEnds(s)
    <2>1. at'[s] = "ended" /\ "ended" \notin Making /\ kept'[s] = None
        BY <1>9 DEF WatcherEnds, TypeOK, Making, Goto
    <2>2. QED
        BY <2>1 DEF Owns
<1>10. QED
    BY <1>1, <1>2, <1>3, <1>4, <1>5, <1>6, <1>7, <1>8, <1>9 DEF QuietStep

LEMMA StepOwned == TypeOK /\ Added /\ Owned /\ Mounted /\ [Next]_vars => Owned'
<1> SUFFICES ASSUME TypeOK, Added, Owned, Mounted, [Next]_vars PROVE Owned'
    OBVIOUS
<1>0. added \in Nat /\ \A s \in Streams : Owns(s)
    BY DEF TypeOK, Owned
<1>1. ASSUME UNCHANGED <<handle, kept, making>>, added' \in {added, added + 1},
             \A s \in Streams : /\ at'[s] \in Making => at[s] \in Making
                                /\ at[s] = "ended" => at'[s] = "ended"
                                /\ sink'[s] = sink[s] \/ sink'[s] = NoSink
      PROVE  Owned'
    <2>1. OwnersKept
        BY <1>1 DEF OwnersKept
    <2>2. \A s \in Streams : Owns(s)'
        BY <1>0, <1>1, <2>1, StillOwns
    <2>3. \A h \in DOMAIN handle : handle[h].owner \in Nat
        BY HandleAt DEF HandleType, Streams
    <2>4. \A h \in DOMAIN handle : handle[h].owner <= added'
        BY <1>0, <1>1, <2>3 DEF Owned
    <2>5. QED
        BY <1>1, <2>2, <2>4 DEF Owned
<1>2. CASE AddStream
    <2>1. /\ at' = [at EXCEPT ![added + 1] = "select"] /\ added' = added + 1
          /\ added + 1 \in Streams /\ UNCHANGED <<handle, kept, making, sink>>
        BY <1>0, <1>2, RtspMountsAssumption DEF AddStream, Streams, Goto, TypeOK
    <2>2. at[added + 1] = "new"
        BY <1>0, <2>1 DEF Added
    <2>3. QED
        BY <1>1, <2>1, <2>2 DEF TypeOK, Making
<1>3. CASE DropStream
    BY <1>1, <1>3 DEF DropStream, clients, watcher
<1>4. CASE ReleaseStream
    <2>1. UNCHANGED <<handle, kept, making, added, at>>
          /\ \A s \in Streams : sink'[s] = sink[s] \/ sink'[s] = NoSink
        BY <1>4 DEF ReleaseStream, TypeOK
    <2>2. QED
        BY <1>1, <2>1
<1>5. ASSUME NEW s \in Streams, QuietStep(s) \/ SwapValve(s)
      PROVE  Owned'
    <2>1. OwnersKept
        BY <1>5, HandlesKept, HandleUsed DEF OwnersKept
    <2>2. WatcherActs(s)
        BY <1>5 DEF WatcherActs, WatcherStep, QuietStep
    <2>3. Owns(s)'
        BY <1>5, <2>1, QuietOwns
    <2>4. \A t \in Streams : t # s => Owns(t)'
        BY <1>0, <2>1, <2>2, OwnStream, StillOwns
    <2>5. DOMAIN handle' = DOMAIN handle /\ added' = added
        BY <1>5, <2>2, HandlesKept, HandleUsed, OwnStream
    <2>6. QED
        BY <2>1, <2>3, <2>4, <2>5 DEF Owned, OwnersKept
<1>6. ASSUME NEW s \in Streams, CreateSink(s)
      PROVE  Owned'
    <2>1. OwnersKept
        BY <1>6, HandleMade DEF OwnersKept
    <2>2. /\ at[s] = "create" /\ InTable(s) /\ UNCHANGED <<kept, sink>> /\ added' = added
          /\ "create" # "ended"
        BY <1>6 DEF CreateSink, manager
    <2>3. making'[s] = Sink(s, making'[s].handle) /\ making'[s].handle \in DOMAIN handle'
        BY <1>6, HandleMade DEF TypeOK
    <2>4. handle'[making'[s].handle].owner = s /\ (kept[s] # None => making'[s].handle = kept[s])
        <3>1. CASE kept[s] = None
            BY <1>6, <2>3, <3>1, HandleMade DEF NewHandle
        <3>2. CASE kept[s] # None
            <4>1. making'[s].handle = kept[s] /\ handle' = handle
                BY <1>6, <3>2, HandleMade
            <4>2. QED
                BY <1>0, <3>2, <4>1 DEF Owns
        <3>3. QED
            BY <3>1, <3>2
    <2>5. kept[s] # None => kept[s] \in DOMAIN handle
        BY LenType DEF TypeOK, None
    <2>6. Owns(s)'
        BY <1>0, <2>1, <2>2, <2>3, <2>4, <2>5 DEF Owns, OwnersKept
    <2>7. \A t \in Streams : t # s => Owns(t)'
        BY <1>0, <1>6, <2>1, OwnStream, StillOwns DEF WatcherActs, WatcherStep
    <2>8. s <= added
        BY <1>0, <2>2 DEF TypeOK, InTable
    <2>9. \A h \in DOMAIN handle' : handle'[h].owner <= added'
        BY <1>6, <2>1, <2>2, <2>8, HandleMade DEF Owned, OwnersKept, NewHandle
    <2>10. QED
        BY <2>6, <2>7, <2>9 DEF Owned
<1>7. CASE \/ \E s \in Streams : OtherConsumer(s) \/ PipelineDies(s)
           \/ \E k \in torn : Teardown(k)
           \/ UNCHANGED vars
    <2>1. UNCHANGED <<handle, kept, making, added, at, sink>>
        BY <1>7, HandlesKept
        DEF OtherConsumer, PipelineDies, Teardown, vars, manager, watcher
    <2>2. QED
        BY <1>1, <2>1
<1>8. ASSUME NEW m \in Media, Configure(m) \/ OpenValve(m) \/ Unprepare(m) \/ CloseValve(m)
      PROVE  Owned'
    <2>1. OwnersKept /\ DOMAIN handle' = DOMAIN handle
        BY <1>8, HandleUsed DEF OwnersKept
    <2>2. UNCHANGED <<kept, making, added, at, sink>>
        BY <1>8 DEF Configure, OpenValve, Unprepare, CloseValve, manager, watcher
    <2>3. \A s \in Streams : Owns(s)'
        BY <1>0, <2>1, <2>2, StillOwns
    <2>4. QED
        BY <2>1, <2>2, <2>3 DEF Owned, OwnersKept
<1>9. QED
    BY <1>2, <1>3, <1>4, <1>5, <1>6, <1>7, <1>8 DEF Next, WatcherStep, QuietStep
-----------------------------------------------------------------------------
(* The factory, the mount and the media *)

ServerKept == UNCHANGED <<factory, mounted, media>>

\* Whatever is not about mounting or media leaves the server alone, or stops the path.
LEMMA StopsAtMost ==
    ASSUME TypeOK, Mounted,
           \/ AddStream \/ DropStream \/ ReleaseStream
           \/ \E s \in Streams : /\ QuietStep(s) \/ HandleStep(s) \/ OtherConsumer(s)
                                    \/ PipelineDies(s)
                                 /\ ~InsertFactory(s) /\ ~Mount(s)
           \/ \E k \in torn : Teardown(k)
           \/ UNCHANGED vars
    PROVE  ServerKept \/ Stopped
<1> USE DEF ServerKept
<1>1. CASE AddStream \/ UNCHANGED vars
    BY <1>1 DEF AddStream, vars, server
<1>2. CASE DropStream
    BY <1>2, Stopping DEF DropStream
<1>3. CASE ReleaseStream
    BY <1>3, SinkRemoved DEF ReleaseStream, server
<1>4. CASE \E k \in torn : Teardown(k)
    BY <1>4, SinkRemoved DEF Teardown
<1>5. ASSUME NEW s \in Streams, GiveUpState(s) \/ Unmount(s) \/ RestFails(s)
      PROVE  ServerKept \/ Stopped
    BY <1>5, SinkRemoved, Stopping DEF GiveUpState, Unmount, RestFails, server
<1>6. ASSUME NEW s \in Streams,
             \/ Observe(s) \/ RunningHandler(s) \/ ReportError(s) \/ DrainingHandler(s)
             \/ Park(s) \/ Link(s) \/ CheckFactory(s) \/ CreationSucceeds(s) \/ ReportReady(s)
             \/ CreationFails(s) \/ WatcherEnds(s) \/ CreateSink(s) \/ SwapValve(s)
             \/ OtherConsumer(s) \/ PipelineDies(s)
      PROVE  ServerKept
    BY <1>6 DEF Observe, RunningHandler, ReportError, DrainingHandler, Park, Link, CheckFactory,
                CreationSucceeds, ReportReady, CreationFails, WatcherEnds, CreateSink, SwapValve,
                OtherConsumer, PipelineDies, server
<1>7. QED
    BY <1>1, <1>2, <1>3, <1>4, <1>5, <1>6 DEF QuietStep, HandleStep

\* A watcher gets at the server when no other one is there.
LEMMA Enters ==
    ASSUME TypeOK, NEW s \in Streams, WatcherActs(s), at'[s] \in Mounting
    PROVE  /\ at[s] \in Mounting \/ \A o \in Streams \ {s} : at[o] \notin Mounting
           /\ at'[s] = "insert" => Unmount(s)
<1> USE DEF TypeOK, Goto, Mounting
<1>1. CASE Observe(s)
    BY <1>1 DEF Observe, LifecycleStates, Phases
<1>2. CASE Link(s)
    BY <1>2 DEF Link, MidPoll
<1>3. CASE CheckFactory(s) \/ Unmount(s) \/ InsertFactory(s) \/ Mount(s)
    BY <1>3 DEF CheckFactory, Unmount, InsertFactory, Mount
<1>4. CASE \/ GiveUpState(s) \/ RunningHandler(s) \/ ReportError(s) \/ DrainingHandler(s)
           \/ Park(s) \/ CreateSink(s) \/ SwapValve(s)
    BY <1>4 DEF GiveUpState, RunningHandler, ReportError, DrainingHandler, Park, CreateSink,
                SwapValve
<1>5. CASE \/ CreationSucceeds(s) \/ ReportReady(s) \/ CreationFails(s) \/ RestFails(s)
           \/ WatcherEnds(s)
    BY <1>5 DEF CreationSucceeds, ReportReady, CreationFails, RestFails, WatcherEnds
<1>6. QED
    BY <1>1, <1>2, <1>3, <1>4, <1>5 DEF WatcherActs, WatcherStep

\* Only a watcher moves itself, but for the first step.
LEMMA OthersStay ==
    ASSUME TypeOK, Added, [Next]_vars, ~\E s \in Streams : WatcherActs(s)
    PROVE  \A s \in Streams : /\ at'[s] = at[s] \/ (at[s] = "new" /\ at'[s] = "select")
                              /\ making'[s] = making[s]
<1>1. CASE AddStream
    BY <1>1 DEF AddStream, Goto, TypeOK, Added
<1>2. CASE DropStream \/ ReleaseStream
    BY <1>2 DEF DropStream, ReleaseStream, watcher
<1>3. CASE \/ \E s \in Streams : OtherConsumer(s)
           \/ \E m \in Media : OpenValve(m) \/ CloseValve(m)
    BY <1>3, Consumers DEF watcher
<1>4. CASE \/ \E s \in Streams : PipelineDies(s)
           \/ \E k \in torn : Teardown(k)
           \/ \E m \in Media : Configure(m) \/ Unprepare(m)
           \/ UNCHANGED vars
    BY <1>4, NothingOfStreams
<1>5. QED
    BY <1>1, <1>2, <1>3, <1>4 DEF Next, WatcherActs

\* What the callbacks of the factory do to the media.
LEMMA MediaMove ==
    ASSUME TypeOK, NEW m \in Media,
           Configure(m) \/ OpenValve(m) \/ Unprepare(m) \/ CloseValve(m)
    PROVE  /\ UNCHANGED <<factory, mounted>>
           /\ IF Configure(m)
                THEN /\ media[m].at = "none" /\ media'[m].at = "opening"
                     /\ media'[m].handle = mounted /\ mounted # None /\ ~media'[m].orphan
                ELSE /\ media[m].at # "none" /\ media'[m].at # media[m].at
                     /\ media'[m].at # "none" =>
                          /\ media'[m].handle = media[m].handle
                          /\ media'[m].orphan = media[m].orphan
                          /\ media'[m].mixed = media[m].mixed
           /\ \A n \in Media : n # m =>
                /\ media'[n].at = media[n].at /\ media'[n].handle = media[n].handle
                /\ media'[n].orphan = media[n].orphan /\ media'[n].edge = media[n].edge
                /\ media'[n].mixed = (media[n].mixed \/ (Configure(m) /\ Uses(n, mounted)))
<1>1. \A n \in Media : media[n] \in MediaType
    BY Typed DEF TypesOfServer
<1>2. media = [n \in Media |-> media[n]]
    BY DEF TypeOK
<1>3. CASE Configure(m)
    <2>1. media' = [n \in Media |->
             IF n = m THEN [at |-> "opening", handle |-> mounted, orphan |-> FALSE,
                            edge  |-> handle[mounted].clients = 0,
                            mixed |-> \E o \in Media : Uses(o, mounted)]
             ELSE [media[n] EXCEPT !.mixed = media[n].mixed \/ Uses(n, mounted)]]
          /\ media[m].at = "none" /\ mounted # None /\ UNCHANGED <<factory, mounted>>
        BY <1>3 DEF Configure, server
    <2>2. ASSUME NEW n \in Media, n # m
          PROVE  /\ media'[n].at = media[n].at /\ media'[n].handle = media[n].handle
                 /\ media'[n].orphan = media[n].orphan /\ media'[n].edge = media[n].edge
                 /\ media'[n].mixed = (media[n].mixed \/ Uses(n, mounted))
        <3>1. PICK b : b = (media[n].mixed \/ Uses(n, mounted))
            OBVIOUS
        <3>2. media'[n] = [media[n] EXCEPT !.mixed = b]
            BY <2>1, <2>2, <3>1
        <3>3. QED
            BY <1>1, <3>1, <3>2 DEF MediaType
    <2>3. /\ media'[m].at = "opening" /\ media'[m].handle = mounted /\ ~media'[m].orphan
        BY <2>1
    <2>4. /\ media[m].at = "none" /\ mounted # None /\ UNCHANGED <<factory, mounted>>
        BY <2>1
    <2>5. QED
        BY <1>3, <2>2, <2>3, <2>4
<1>4. CASE OpenValve(m) \/ Unprepare(m) \/ CloseValve(m)
    <2>1. ~Configure(m)
        BY <1>4 DEF Configure, OpenValve, Unprepare, CloseValve
    <2>2. UNCHANGED <<factory, mounted>> /\ \A n \in Media : n # m => media'[n] = media[n]
        BY <1>2, <1>4 DEF OpenValve, Unprepare, CloseValve, server
    <2>3. /\ media[m].at # "none" /\ media'[m].at # media[m].at
          /\ media'[m].at # "none" => /\ media'[m].handle = media[m].handle
                                      /\ media'[m].orphan = media[m].orphan
                                      /\ media'[m].mixed = media[m].mixed
        <3>1. CASE OpenValve(m)
            BY <1>1, <1>2, <3>1 DEF OpenValve, MediaType
        <3>2. CASE Unprepare(m)
            <4>1. PICK b : b = (handle[media[m].handle].clients = 1)
                OBVIOUS
            <4>2. media'[m] = [media[m] EXCEPT !.at = "closing", !.edge = b]
                  /\ media[m].at = "playing"
                BY <1>2, <3>2, <4>1 DEF Unprepare
            <4>3. QED
                BY <1>1, <4>2 DEF MediaType
        <3>3. CASE CloseValve(m)
            BY <1>2, <3>3 DEF CloseValve, NoMedia
        <3>4. QED
            BY <1>4, <3>1, <3>2, <3>3
    <2>4. \A n \in Media : n # m => media'[n].mixed = (media[n].mixed \/ FALSE)
        BY <1>1, <2>2 DEF MediaType
    <2>5. QED
        BY <2>1, <2>2, <2>3, <2>4
<1>5. QED
    BY <1>3, <1>4

LEMMA StepMounted == TypeOK /\ Added /\ Owned /\ Mounted /\ [Next]_vars => Mounted'
<1> SUFFICES ASSUME TypeOK, Added, Owned, Mounted, [Next]_vars PROVE Mounted'
    OBVIOUS
<1>1. \A s, t \in Streams : at'[s] \in Mounting /\ at'[t] \in Mounting => s = t
    <2>1. CASE \E s \in Streams : WatcherActs(s)
        BY <2>1, OwnStream, Enters DEF Mounted
    <2>2. CASE ~\E s \in Streams : WatcherActs(s)
        BY <2>2, OthersStay DEF Mounted, Mounting
    <2>3. QED
        BY <2>1, <2>2
<1>2. \A s \in Streams : at'[s] = "insert" => at[s] = "insert" \/ Unmount(s)
    <2>1. CASE \E s \in Streams : WatcherActs(s)
        BY <2>1, OwnStream, Enters DEF Mounting
    <2>2. CASE ~\E s \in Streams : WatcherActs(s)
        BY <2>2, OthersStay
    <2>3. QED
        BY <2>1, <2>2
<1>3. DOMAIN handle \subseteq DOMAIN handle'
    <2>1. CASE \E s \in Streams : CreateSink(s)
        BY <2>1, HandleMade
    <2>2. CASE \/ \E s \in Streams : SwapValve(s)
               \/ \E m \in Media : Configure(m) \/ OpenValve(m) \/ Unprepare(m) \/ CloseValve(m)
        BY <2>2, HandleUsed
    <2>3. QED
        BY <2>1, <2>2, HandlesKept DEF Next, WatcherStep, QuietStep
<1>4. CASE \E s \in Streams : InsertFactory(s)
    <2>1. PICK s \in Streams : InsertFactory(s)
        BY <1>4
    <2>2. at[s] = "insert" /\ factory = None /\ UNCHANGED <<mounted, media>>
        BY <2>1 DEF InsertFactory, Mounted
    <2>3. mounted = None
        BY <2>2 DEF Mounted
    <2>4. \A t \in Streams : at'[t] # "insert"
        <3>1. at'[s] # "insert"
            BY <2>1 DEF InsertFactory, Goto, TypeOK
        <3>2. \A t \in Streams : t # s => at[t] # "insert"
            BY <2>2 DEF Mounted, Mounting
        <3>3. \A t \in Streams : t # s => at'[t] = at[t]
            BY <2>1, OwnStream DEF WatcherActs, WatcherStep
        <3>4. QED
            BY <3>1, <3>2, <3>3
    <2>5. QED
        BY <1>1, <1>3, <2>2, <2>3, <2>4 DEF Mounted
<1>5. CASE \E s \in Streams : Mount(s)
    <2>1. PICK s \in Streams : Mount(s)
        BY <1>5
    <2>2. at[s] = "mount" /\ factory' = factory
        BY <2>1 DEF Mount
    <2>3. \A t \in Streams : at'[t] # "insert"
        <3>1. at'[s] # "insert"
            BY <2>1 DEF Mount, Goto, TypeOK
        <3>2. \A t \in Streams : t # s => at[t] # "insert"
            BY <2>2 DEF Mounted, Mounting
        <3>3. \A t \in Streams : t # s => at'[t] = at[t]
            BY <2>1, OwnStream DEF WatcherActs, WatcherStep
        <3>4. QED
            BY <3>1, <3>2, <3>3
    <2>4. CASE factory = None
        BY <1>1, <1>3, <2>1, <2>2, <2>3, <2>4 DEF Mounted, Mount
    <2>5. CASE factory # None
        <3>1. mounted' = factory /\ media' = Orphaned
            BY <2>1, <2>5 DEF Mount
        <3>2. SameMedia /\ \A m \in Media : media'[m].at # "none" => media'[m].orphan
            BY <3>1, OrphanedMedia
        <3>3. QED
            BY <1>1, <1>3, <2>2, <2>3, <3>1, <3>2 DEF Mounted, SameMedia
    <2>6. QED
        BY <2>4, <2>5
<1>6. CASE \E m \in Media : Configure(m) \/ OpenValve(m) \/ Unprepare(m) \/ CloseValve(m)
    <2>1. PICK m \in Media : Configure(m) \/ OpenValve(m) \/ Unprepare(m) \/ CloseValve(m)
        BY <1>6
    <2>2. mounted # None => mounted \in DOMAIN handle
        BY LenType DEF TypeOK, None
    <2>3. \A n \in Media : media'[n].at # "none" =>
            /\ media'[n].handle \in DOMAIN handle
            /\ ~media'[n].orphan => media'[n].handle = mounted
        BY <2>1, <2>2, MediaMove DEF Mounted
    <2>4. UNCHANGED <<factory, mounted>> /\ \A s \in Streams : ~Unmount(s)
        BY <2>1, MediaMove DEF Configure, OpenValve, Unprepare, CloseValve, Unmount, watcher, Goto, TypeOK
    <2>5. QED
        BY <1>1, <1>2, <1>3, <2>3, <2>4 DEF Mounted
<1>7. CASE ServerKept
    <2>1. \A s \in Streams : at'[s] = "insert" => factory' = None
        <3>1. \A s \in Streams : Unmount(s) => factory' = None
            BY Stopping DEF Unmount, Stopped
        <3>2. QED
            BY <1>2, <1>7, <3>1 DEF Mounted, ServerKept
    <2>2. QED
        BY <1>1, <1>3, <1>7, <2>1 DEF Mounted, ServerKept
<1>8. CASE Stopped
    BY <1>1, <1>3, <1>8 DEF Mounted, Stopped, SameMedia
<1>9. QED
    BY <1>4, <1>5, <1>6, <1>7, <1>8, StopsAtMost DEF Next, WatcherStep, QuietStep, HandleStep
-----------------------------------------------------------------------------
(* The factory is its stream's *)

\* From mount and rest a watcher goes on in four ways; the handle it keeps changes in two.
LEMMA Proceeds ==
    ASSUME TypeOK, NEW s \in Streams, WatcherActs(s)
    PROVE  /\ kept'[s] = kept[s] \/ CreationSucceeds(s) \/ WatcherEnds(s)
           /\ at[s] \in {"mount", "rest"} =>
                Mount(s) \/ RestFails(s) \/ CreationSucceeds(s) \/ WatcherEnds(s)
           /\ making'[s] # making[s] =>
                \/ CreateSink(s) \/ CreationFails(s) \/ InsertFactory(s) \/ Mount(s)
                \/ RestFails(s) \/ CreationSucceeds(s) \/ WatcherEnds(s)
<1>1. CASE Mount(s) \/ RestFails(s) \/ CreationSucceeds(s) \/ WatcherEnds(s)
    BY <1>1 DEF Mount, RestFails
<1>2. CASE \/ Observe(s) \/ GiveUpState(s) \/ RunningHandler(s) \/ ReportError(s)
           \/ DrainingHandler(s) \/ Park(s)
    BY <1>2 DEF Observe, GiveUpState, RunningHandler, ReportError, DrainingHandler, Park
<1>3. CASE \/ CreateSink(s) \/ SwapValve(s) \/ Link(s) \/ CheckFactory(s) \/ Unmount(s)
           \/ InsertFactory(s) \/ ReportReady(s) \/ CreationFails(s)
    BY <1>3 DEF CreateSink, SwapValve, Link, CheckFactory, Unmount, InsertFactory, ReportReady,
                CreationFails
<1>4. QED
    BY <1>1, <1>2, <1>3 DEF WatcherActs, WatcherStep

\* Streams get into the manager's table by being added.
LEMMA TableGrows ==
    ASSUME TypeOK, [Next]_vars, NEW s \in Streams, InTable(s)'
    PROVE  InTable(s) \/ (AddStream /\ s = added + 1)
<1>1. CASE AddStream
    BY <1>1 DEF AddStream, InTable
<1>2. CASE DropStream \/ ReleaseStream
    BY <1>2, RtspMountsAssumption DEF DropStream, ReleaseStream, InTable, None, Streams
<1>3. CASE \/ \E t \in Streams : OtherConsumer(t)
           \/ \E m \in Media : OpenValve(m) \/ CloseValve(m)
    BY <1>3, Consumers DEF InTable
<1>4. CASE \/ \E t \in Streams : PipelineDies(t)
           \/ \E k \in torn : Teardown(k)
           \/ \E m \in Media : Configure(m) \/ Unprepare(m)
           \/ UNCHANGED vars
    BY <1>4, NothingOfStreams DEF InTable
<1>5. CASE \E t \in Streams : WatcherActs(t)
    BY <1>5, OwnStream DEF InTable
<1>6. QED
    BY <1>1, <1>2, <1>3, <1>4, <1>5 DEF Next, WatcherActs

LEMMA FactoryOnce ==
    ASSUME TypeOK, Mounted, Owned, NEW s \in Streams, InsertFactory(s)
    PROVE  /\ factory = None /\ mounted = None /\ factory' = making[s].handle
           /\ factory' \in DOMAIN handle /\ handle[factory'].owner = s
           /\ at[s] = "insert" /\ at'[s] = "mount"
           /\ UNCHANGED <<making, kept, handle, mounted, media>>
           /\ kept[s] # None => factory' = kept[s]
<1>1. at[s] = "insert" /\ factory = None
    BY DEF InsertFactory, Mounted
<1>2. mounted = None
    BY <1>1 DEF Mounted
<1>3. /\ factory' = making[s].handle /\ at'[s] = "mount"
      /\ UNCHANGED <<making, kept, handle, mounted, media>>
    BY <1>1 DEF InsertFactory, TypeOK, Goto
<1>4. /\ making[s].handle \in DOMAIN handle /\ handle[making[s].handle].owner = s
      /\ kept[s] # None => making[s].handle = kept[s]
    BY <1>1 DEF Owned, Owns, Making
<1>5. QED
    BY <1>1, <1>2, <1>3, <1>4

\* A sink that failed after its factory was made takes that off the server.
LEMMA RestStops ==
    ASSUME TypeOK, Mounted, Owned, NEW s \in Streams, RestFails(s)
    PROVE  Stopped
<1>1. at[s] = "rest" /\ RemoveSink(making[s]) /\ making[s] = Sink(s, making[s].handle)
    BY DEF RestFails, Owned, Owns, Making
<1>2. making[s] # NoSink /\ ~making[s].stale /\ ~making[s].preserve
    BY <1>1, RtspMountsAssumption DEF Sink, NoSink, None, Streams
<1>3. StopPipeline
    BY <1>1, <1>2 DEF RemoveSink
<1>4. QED
    BY <1>3, Stopping

LEMMA StepFactored ==
    TypeOK /\ Added /\ Owned /\ Mounted /\ Factored /\ [Next]_vars => Factored'
<1> SUFFICES ASSUME TypeOK, Added, Owned, Mounted, Factored, [Next]_vars, factory' # None
             PROVE  Factored'
    BY DEF Factored
<1>1. CASE \E s \in Streams : InsertFactory(s)
    BY <1>1, FactoryOnce DEF Factored
<1>2. CASE ~(\E s \in Streams : InsertFactory(s)) /\ factory' = factory
    <2>0. factory \in DOMAIN handle
        BY <1>2, LenType DEF TypeOK, None
    <2>s. PICK s \in Streams : s = handle[factory].owner
        BY <2>0, HandleAt DEF HandleType
    <2>1. factory \in DOMAIN handle /\ s \in Streams /\ s <= added /\ added \in Nat
        BY <2>0, <2>s DEF Owned, TypeOK
    <2>2. handle'[factory'].owner = s
        <3>1. CASE \E t \in Streams : CreateSink(t)
            BY <2>s, <1>2, <2>1, <3>1, HandleMade
        <3>2. CASE \/ \E t \in Streams : SwapValve(t)
                   \/ \E m \in Media : \/ Configure(m) \/ OpenValve(m) \/ Unprepare(m)
                                       \/ CloseValve(m)
            BY <2>s, <1>2, <2>1, <3>2, HandleUsed
        <3>3. QED
            BY <2>s, <1>2, <3>1, <3>2, HandlesKept DEF Next, WatcherStep, QuietStep
    <2>3. SUFFICES ASSUME InTable(s)'
                   PROVE  IF kept'[s] # None THEN factory = kept'[s]
                          ELSE at'[s] \in {"mount", "rest"} /\ making'[s].handle = factory
        BY <1>2, <2>2 DEF Factored
    <2>4. InTable(s)
        <3>1. s # added + 1
            BY <2>1 DEF Streams
        <3>2. QED
            BY <2>1, <2>3, <3>1, TableGrows
    <2>5. IF kept[s] # None THEN factory = kept[s]
          ELSE at[s] \in {"mount", "rest"} /\ making[s].handle = factory
        BY <1>2, <2>s, <2>4 DEF Factored
    <2>6. CASE WatcherActs(s)
        <3>1. ~WatcherEnds(s)
            BY <2>4 DEF WatcherEnds
        <3>2. ~RestFails(s)
            BY <1>2, <2>1, RestStops DEF Stopped
        <3>3. CASE CreationSucceeds(s)
            <4>1. kept'[s] = IF kept[s] = None THEN making[s].handle ELSE kept[s]
                BY <2>1, <3>3 DEF CreationSucceeds, TypeOK
            <4>2. making[s].handle # None
                BY <2>1, <3>3, LenType DEF CreationSucceeds, Owned, Owns, Making, None
            <4>3. QED
                BY <2>5, <4>1, <4>2
        <3>4. CASE ~CreationSucceeds(s) /\ kept[s] # None
            BY <2>1, <2>5, <2>6, <3>1, <3>4, Proceeds
        <3>5. CASE ~CreationSucceeds(s) /\ kept[s] = None
            <4>1. Mount(s) /\ kept'[s] = None
                BY <2>1, <2>5, <2>6, <3>1, <3>2, <3>5, Proceeds
            <4>2. at'[s] = "rest" /\ making' = making
                BY <1>2, <2>1, <4>1 DEF Mount, Goto, TypeOK
            <4>3. QED
                BY <2>5, <3>5, <4>1, <4>2
        <3>6. QED
            BY <3>3, <3>4, <3>5
    <2>7. CASE ~WatcherActs(s)
        <3>1. kept'[s] = kept[s] /\ making'[s] = making[s]
              /\ (at'[s] = at[s] \/ at[s] = "new")
            <4>1. CASE \E t \in Streams : WatcherActs(t)
                BY <2>1, <2>7, <4>1, OwnStream
            <4>2. CASE ~\E t \in Streams : WatcherActs(t)
                <5>1. kept' = kept
                    <6>1. CASE AddStream \/ DropStream \/ ReleaseStream
                        BY <6>1 DEF AddStream, DropStream, ReleaseStream, watcher
                    <6>2. QED
                        BY <4>2, <6>1, Consumers, NothingOfStreams DEF Next, WatcherActs, watcher
                <5>2. QED
                    BY <2>1, <4>2, <5>1, OthersStay
            <4>3. QED
                BY <4>1, <4>2
        <3>2. QED
            BY <2>5, <3>1
    <2>8. QED
        BY <2>6, <2>7
<1>3. CASE ~(\E s \in Streams : InsertFactory(s)) /\ factory' # factory
    <2>1. ~(\E s \in Streams : Mount(s))
        BY <1>3 DEF Mount
    <2>2. ~(\E m \in Media : Configure(m) \/ OpenValve(m) \/ Unprepare(m) \/ CloseValve(m))
        BY <1>3, MediaMove
    <2>3. Stopped
        BY <1>3, <2>1, <2>2, StopsAtMost
        DEF Next, WatcherStep, QuietStep, HandleStep, ServerKept
    <2>4. QED
        BY <2>3 DEF Stopped
<1>4. QED
    BY <1>1, <1>2, <1>3
-----------------------------------------------------------------------------
(* Somebody answers for the factory *)

LEMMA OwnersStay ==
    ASSUME TypeOK, Owned, Mounted, [Next]_vars
    PROVE  OwnersKept
<1>1. CASE \E s \in Streams : CreateSink(s)
    BY <1>1, HandleMade DEF OwnersKept
<1>2. CASE \/ \E s \in Streams : SwapValve(s)
           \/ \E m \in Media : Configure(m) \/ OpenValve(m) \/ Unprepare(m) \/ CloseValve(m)
    BY <1>2, HandleUsed DEF OwnersKept
<1>3. CASE UNCHANGED handle
    BY <1>3 DEF OwnersKept
<1>4. QED
    BY <1>1, <1>2, <1>3, HandlesKept DEF Next, WatcherStep, QuietStep

\* Sinks stay in the hands of their threads, and a watcher that has ended has ended.
LEMMA StillStops ==
    ASSUME TypeOK, Added, Owned, Mounted, [Next]_vars, NEW k \in torn, Stops(k), ~Stopped
    PROVE  k \in torn' /\ Stops(k)'
<1>1. k \in Sinks /\ k.stream \in Streams /\ k # NoSink
    <2>1. k \in Sinks /\ k.stream \in Streams
        BY DEF TypeOK, Sinks
    <2>2. QED
        BY <2>1, RtspMountsAssumption DEF NoSink, None, Streams
<1>2. at'[k.stream] = "ended"
    <2>1. CASE \E s \in Streams : WatcherActs(s)
        BY <1>1, <2>1, OwnStream DEF Stops
    <2>2. CASE ~\E s \in Streams : WatcherActs(s)
        BY <1>1, <2>2, OthersStay DEF Stops
    <2>3. QED
        BY <2>1, <2>2
<1>3. k \in torn'
    <2>1. CASE Teardown(k)
        <3>1. StopPipeline
            BY <1>1, <2>1 DEF Teardown, RemoveSink, Stops
        <3>2. QED
            BY <3>1, Stopping
    <2>2. ASSUME NEW j \in torn, Teardown(j), j # k
          PROVE  k \in torn'
        BY <2>2 DEF Teardown
    <2>3. ASSUME NEW s \in Streams, SwapValve(s)
          PROVE  k \in torn'
        <3>1. at[s] = "swap" /\ s # k.stream /\ handle[making[s].handle].owner = s
            BY <2>3 DEF SwapValve, Stops, Owned, Owns, Making
        <3>2. k.handle # making[s].handle
            BY <3>1 DEF Stops
        <3>3. torn' = {IF j.handle = making[s].handle THEN [j EXCEPT !.stale = TRUE] ELSE j :
                       j \in torn}
            BY <2>3 DEF SwapValve
        <3>4. QED
            BY <3>2, <3>3
    <2>4. ASSUME NEW s \in Streams, QuietStep(s) \/ CreateSink(s)
          PROVE  torn \subseteq torn'
        BY <2>4 DEF QuietStep, CreateSink, Observe, GiveUpState, RunningHandler, ReportError,
                    DrainingHandler, Park, Link, CheckFactory, Unmount, InsertFactory, Mount,
                    CreationSucceeds, ReportReady, CreationFails, RestFails, WatcherEnds, Tear
    <2>5. CASE \/ AddStream \/ DropStream \/ ReleaseStream
               \/ \E s \in Streams : OtherConsumer(s) \/ PipelineDies(s)
               \/ \E m \in Media : Configure(m) \/ OpenValve(m) \/ Unprepare(m) \/ CloseValve(m)
               \/ UNCHANGED vars
        BY <2>5 DEF AddStream, DropStream, ReleaseStream, OtherConsumer, PipelineDies, Configure,
                    OpenValve, Unprepare, CloseValve, vars
    <2>6. QED
        BY <2>1, <2>2, <2>3, <2>4, <2>5 DEF Next, WatcherStep, QuietStep
<1>4. QED
    BY <1>2, <1>3, OwnersStay DEF Stops, OwnersKept

LEMMA StepAnswerable ==
    TypeOK /\ Added /\ Owned /\ Mounted /\ Answerable /\ [Next]_vars => Answerable'
<1> SUFFICES ASSUME TypeOK, Added, Owned, Mounted, Answerable, [Next]_vars, factory' # None
             PROVE  Answerable'
    BY DEF Answerable
<1>0. ~Stopped
    BY DEF Stopped
<1>1. CASE \E s \in Streams : InsertFactory(s)
    BY <1>1, FactoryOnce DEF Answerable
<1>2. CASE ~(\E s \in Streams : InsertFactory(s))
    <2>1. factory' = factory
        <3>1. CASE \E s \in Streams : Mount(s)
            BY <3>1 DEF Mount
        <3>2. CASE \E m \in Media : Configure(m) \/ OpenValve(m) \/ Unprepare(m) \/ CloseValve(m)
            BY <3>2, MediaMove
        <3>3. QED
            BY <1>0, <1>2, <3>1, <3>2, StopsAtMost
            DEF Next, WatcherStep, QuietStep, HandleStep, ServerKept
    <2>2. CASE table # None /\ ~dropping
        <3>1. ~DropStream /\ ~ReleaseStream /\ ~AddStream
            BY <1>0, <2>2, Stopping DEF DropStream, ReleaseStream, AddStream
        <3>2. UNCHANGED <<table, dropping>>
            BY <3>1, OwnStream, Consumers, NothingOfStreams DEF Next, WatcherActs
        <3>3. QED
            BY <2>2, <3>2 DEF Answerable
    <2>3. ASSUME NEW s \in Streams, at[s] \in {"mount", "rest"}
          PROVE  Answerable'
        <3>1. CASE Mount(s)
            <4>1. at'[s] = "rest"
                BY <2>1, <3>1 DEF Mount, Goto, TypeOK
            <4>2. QED
                BY <4>1 DEF Answerable
        <3>2. CASE RestFails(s)
            BY <1>0, <3>2, RestStops
        <3>3. CASE CreationSucceeds(s)
            BY <3>3, RtspMountsAssumption DEF CreationSucceeds, InTable, manager, Answerable,
                                              Streams, None
        <3>4. CASE WatcherEnds(s)
            <4>1. at[s] = "rest" /\ Tear(making[s]) /\ at'[s] = "ended" /\ handle' = handle
                BY <2>3, <3>4 DEF WatcherEnds, MidPoll, Goto, TypeOK
            <4>2. /\ making[s] = Sink(s, making[s].handle) /\ making[s].handle \in DOMAIN handle
                  /\ handle[making[s].handle].owner = s
                BY <4>1 DEF Owned, Owns, Making
            <4>3. /\ ~making[s].stale /\ ~making[s].preserve /\ making[s].stream = s
                  /\ making[s] # NoSink
                BY <4>2, RtspMountsAssumption DEF Sink, NoSink, Streams, None
            <4>4. making[s] \in torn'
                BY <4>1, <4>3 DEF Tear
            <4>5. PICK k : k = making[s]
                OBVIOUS
            <4>6. k \in torn' /\ Stops(k)'
                BY <4>1, <4>2, <4>3, <4>4, <4>5 DEF Stops
            <4>7. QED
                BY <4>6 DEF Answerable
        <3>5. CASE ~WatcherActs(s)
            <4>1. at'[s] = at[s]
                BY <2>3, <3>5, OwnStream, OthersStay
            <4>2. QED
                BY <2>3, <4>1 DEF Answerable
        <3>6. QED
            BY <2>3, <3>1, <3>2, <3>3, <3>4, <3>5, Proceeds
    <2>4. ASSUME NEW k \in torn, Stops(k)
          PROVE  Answerable'
        BY <1>0, <2>4, StillStops DEF Answerable
    <2>5. QED
        BY <2>1, <2>2, <2>3, <2>4 DEF Answerable
<1>3. QED
    BY <1>1, <1>2
-----------------------------------------------------------------------------
(* The medium that plays is fed *)

LEMMA StepFed == TypeOK /\ Added /\ Owned /\ Mounted /\ Fed /\ [Next]_vars => Fed'
<1> SUFFICES ASSUME TypeOK, Added, Owned, Mounted, Fed, [Next]_vars PROVE Fed'
    OBVIOUS
<1>1. ASSUME SameMedia,
             \A h \in DOMAIN handle : handle'[h].appsrc = handle[h].appsrc
      PROVE  Fed'
    <2>1. \A m \in Media : media'[m].at # "none" =>
            /\ media'[m].handle = media[m].handle /\ media'[m].mixed = media[m].mixed
            /\ media[m].handle \in DOMAIN handle /\ media[m].at = media'[m].at
        BY <1>1 DEF SameMedia, Mounted
    <2>2. QED
        BY <1>1, <2>1 DEF Fed
<1>2. ASSUME \/ UNCHANGED handle
             \/ \E s \in Streams : CreateSink(s) \/ SwapValve(s)
      PROVE  \A h \in DOMAIN handle : handle'[h].appsrc = handle[h].appsrc
    <2>1. ASSUME NEW s \in Streams, SwapValve(s)
          PROVE  \A h \in DOMAIN handle : handle'[h].appsrc = handle[h].appsrc
        <3>1. making[s].handle \in DOMAIN handle
            BY <2>1 DEF SwapValve, Owned, Owns, Making
        <3>2. handle' = [handle EXCEPT ![making[s].handle] =
                           [handle[making[s].handle] EXCEPT !.open = loaded[s]]]
            BY <2>1 DEF SwapValve
        <3>3. QED
            BY <3>1, <3>2, HandleAt DEF HandleType
    <2>2. QED
        BY <1>2, <2>1, HandleMade
<1>3. CASE ServerKept /\ (UNCHANGED handle \/ \E s \in Streams : CreateSink(s) \/ SwapValve(s))
    BY <1>1, <1>2, <1>3, SameMediaIfUnchanged DEF ServerKept
<1>4. CASE Stopped /\ (UNCHANGED handle \/ \E s \in Streams : CreateSink(s) \/ SwapValve(s))
    BY <1>1, <1>2, <1>4 DEF Stopped
<1>5. CASE \E s \in Streams : InsertFactory(s) \/ Mount(s)
    <2>1. SameMedia /\ UNCHANGED handle
        BY <1>5, OrphanedMedia, SameMediaIfUnchanged DEF InsertFactory, Mount
    <2>2. QED
        BY <1>1, <2>1
<1>6. ASSUME NEW m \in Media, Configure(m)
      PROVE  Fed'
    <2>1. mounted \in DOMAIN handle
        BY <1>6, LenType DEF Configure, None, TypeOK
    <2>2. handle' = [handle EXCEPT ![mounted] =
                       [handle[mounted] EXCEPT !.appsrc = m, !.clients = handle[mounted].clients + 1]]
        BY <1>6 DEF Configure
    <2>3. /\ handle'[mounted].appsrc = m
          /\ \A h \in DOMAIN handle : h # mounted => handle'[h] = handle[h]
        BY <2>1, <2>2, HandleAt DEF HandleType
    <2>4. media'[m].mixed = (\E o \in Media : Uses(o, mounted))
        BY <1>6 DEF Configure
    <2>5. /\ media[m].at = "none" /\ media'[m].at = "opening" /\ media'[m].handle = mounted
          /\ \A n \in Media : n # m =>
               /\ media'[n].at = media[n].at /\ media'[n].handle = media[n].handle
               /\ media'[n].mixed = (media[n].mixed \/ Uses(n, mounted))
        BY <1>6, MediaMove
    <2>6. ASSUME NEW n \in Media, n # m, media'[n].at \in {"opening", "playing"}, ~media'[n].mixed
          PROVE  handle'[media'[n].handle].appsrc = n
        <3>1. media[n].handle # mounted /\ media[n].handle \in DOMAIN handle /\ ~media[n].mixed
            BY <2>5, <2>6 DEF Uses, Mounted
        <3>2. QED
            BY <2>3, <2>5, <2>6, <3>1 DEF Fed
    <2>7. ASSUME NEW n \in Media, NEW o \in Media, n # o,
                 media'[n].at # "none", media'[o].at # "none", media'[n].handle = media'[o].handle
          PROVE  media'[n].mixed
        <3>1. CASE n = m
            BY <2>4, <2>5, <2>7, <3>1 DEF Uses
        <3>2. CASE o = m
            BY <2>5, <2>7, <3>2 DEF Uses
        <3>3. CASE n # m /\ o # m
            <4>1. /\ media[n].at # "none" /\ media[o].at # "none"
                  /\ media[n].handle = media[o].handle
                BY <2>5, <2>7, <3>3
            <4>2. media[n].mixed
                BY <2>7, <4>1 DEF Fed
            <4>3. QED
                BY <2>5, <3>3, <4>2
        <3>4. QED
            BY <3>1, <3>2, <3>3
    <2>8. QED
        BY <2>3, <2>5, <2>6, <2>7 DEF Fed
<1>7. ASSUME NEW m \in Media, OpenValve(m) \/ Unprepare(m) \/ CloseValve(m)
      PROVE  Fed'
    <2> DEFINE h == media[m].handle
    <2>1. h \in DOMAIN handle /\ media[m].at # "none" /\ ~Configure(m)
        BY <1>7 DEF OpenValve, Unprepare, CloseValve, Mounted, Configure
    <2>2. /\ media'[m].at # "none" =>
               /\ media'[m].handle = media[m].handle /\ media'[m].mixed = media[m].mixed
          /\ \A n \in Media : n # m =>
               /\ media'[n].at = media[n].at /\ media'[n].handle = media[n].handle
               /\ media'[n].mixed <=> media[n].mixed
        BY <1>7, <2>1, MediaMove
    <2>3. \A n, o \in Media : /\ n # o /\ media'[n].at # "none" /\ media'[o].at # "none"
                              /\ media'[n].handle = media'[o].handle
                              => media'[n].mixed
        BY <2>1, <2>2 DEF Fed
    <2>4. \A g \in DOMAIN handle : g # h \/ ~Unprepare(m) => handle'[g].appsrc = handle[g].appsrc
        <3>1. CASE Unprepare(m)
            BY <3>1 DEF Unprepare
        <3>2. CASE OpenValve(m)
            <4>1. handle' = [handle EXCEPT ![h] = [handle[h] EXCEPT !.open = handle[h].open \/ media[m].edge]]
                BY <3>2 DEF OpenValve
            <4>2. QED
                BY <2>1, <4>1, HandleAt DEF HandleType
        <3>3. CASE CloseValve(m)
            <4>1. handle' = [handle EXCEPT ![h] = [handle[h] EXCEPT !.open = handle[h].open /\ ~media[m].edge]]
                BY <3>3 DEF CloseValve
            <4>2. QED
                BY <2>1, <4>1, HandleAt DEF HandleType
        <3>4. QED
            BY <1>7, <3>1, <3>2, <3>3
    <2>5. ASSUME NEW n \in Media, media'[n].at \in {"opening", "playing"}, ~media'[n].mixed
          PROVE  handle'[media'[n].handle].appsrc = n
        <3>1. /\ media[n].at # "none" /\ media'[n].handle = media[n].handle /\ ~media[n].mixed
              /\ media[n].handle \in DOMAIN handle
            BY <2>1, <2>2, <2>5 DEF Mounted
        <3>2. media[n].at \in {"opening", "playing"}
            <4>1. CASE n = m
                BY <1>7, <2>5, <4>1 DEF OpenValve, Unprepare, CloseValve, TypeOK, NoMedia
            <4>2. CASE n # m
                BY <2>2, <2>5, <4>2
            <4>3. QED
                BY <4>1, <4>2
        <3>3. Unprepare(m) => n # m
            BY <2>5 DEF Unprepare, TypeOK
        <3>4. n # m => media[n].handle # h
            BY <2>1, <3>1 DEF Fed
        <3>5. handle'[media[n].handle].appsrc = handle[media[n].handle].appsrc
            BY <2>4, <3>1, <3>3, <3>4
        <3>6. QED
            BY <3>1, <3>2, <3>5 DEF Fed
    <2>6. QED
        BY <2>3, <2>5 DEF Fed
<1>8. QED
    BY <1>3, <1>4, <1>5, <1>6, <1>7, StopsAtMost, HandlesKept
    DEF Next, WatcherStep, QuietStep, HandleStep
-----------------------------------------------------------------------------
(* The valve follows the count *)

LEMMA BusyWith ==
    ASSUME NEW h
    PROVE  Busy(h) <=> (\E m \in Media : Moves(m, h)) \/ (\E s \in Streams : Swaps(s, h))
BY DEF Busy, Uses, Moves, Swaps

\* A handle that nothing happens to.
LEMMA ValvedStill ==
    ASSUME NEW h, ValvedAt(h), handle'[h] = handle[h], h \in raced => h \in raced',
           \A m \in Media : /\ Moves(m, h)' <=> Moves(m, h)
                            /\ Moves(m, h) => /\ media'[m].at = media[m].at
                                              /\ media'[m].edge = media[m].edge
                            /\ m \in Viewers(h)' <=> m \in Viewers(h),
           \A s \in Streams : /\ Swaps(s, h)' <=> Swaps(s, h)
                              /\ Swaps(s, h) => loaded'[s] = loaded[s]
    PROVE  ValvedAt(h)'
<1>1. Viewers(h)' = Viewers(h)
    BY DEF Viewers
<1>2. Busy(h)' <=> Busy(h)
    <2>1. Busy(h)' <=> (\E m \in Media : Moves(m, h)') \/ (\E s \in Streams : Swaps(s, h)')
        BY DEF Busy, Uses, Moves, Swaps
    <2>2. QED
        BY <2>1, BusyWith
<1>3. handle'[h].clients = Cardinality(Viewers(h)')
    BY <1>1 DEF ValvedAt
<1>4. CASE h \in raced'
    BY <1>3, <1>4 DEF ValvedAt
<1>5. CASE h \notin raced'
    BY <1>2, <1>3, <1>5 DEF ValvedAt
<1>6. QED
    BY <1>4, <1>5

\* Watchers that are not at update_valve, and media that go on.
LEMMA ValvedKept ==
    ASSUME TypeOK, Mounted, Valved, UNCHANGED <<handle, raced, loaded>>, SameMedia,
           \A s \in Streams : /\ at'[s] = "swap" <=> at[s] = "swap"
                              /\ at[s] = "swap" => making'[s] = making[s]
    PROVE  Valved'
<1>1. ASSUME NEW h \in DOMAIN handle
      PROVE  ValvedAt(h)'
    <2>1. \A m \in Media : /\ Moves(m, h)' <=> Moves(m, h)
                           /\ Moves(m, h) => /\ media'[m].at = media[m].at
                                             /\ media'[m].edge = media[m].edge
                           /\ m \in Viewers(h)' <=> m \in Viewers(h)
        BY DEF SameMedia, Moves, Viewers
    <2>2. \A s \in Streams : /\ Swaps(s, h)' <=> Swaps(s, h)
                             /\ Swaps(s, h) => loaded'[s] = loaded[s]
        BY DEF Swaps
    <2>3. ValvedAt(h)
        BY DEF Valved
    <2>4. QED
        BY <2>1, <2>2, <2>3, ValvedStill
<1>2. QED
    BY <1>1 DEF Valved

\* At the swap a watcher has one step.
LEMMA QuietIsNoSwap ==
    ASSUME TypeOK, NEW s \in Streams, QuietStep(s)
    PROVE  at[s] # "swap" /\ at'[s] # "swap" /\ loaded' = loaded
<1> USE DEF TypeOK, Goto
<1>1. CASE Observe(s)
    BY <1>1 DEF Observe, LifecycleStates, Phases
<1>2. CASE \/ GiveUpState(s) \/ RunningHandler(s) \/ ReportError(s) \/ DrainingHandler(s)
           \/ Park(s) \/ Link(s)
    BY <1>2 DEF GiveUpState, RunningHandler, ReportError, DrainingHandler, Park, Link
<1>3. CASE \/ CheckFactory(s) \/ Unmount(s) \/ InsertFactory(s) \/ Mount(s)
           \/ CreationSucceeds(s) \/ ReportReady(s) \/ CreationFails(s) \/ RestFails(s)
    BY <1>3 DEF CheckFactory, Unmount, InsertFactory, Mount, CreationSucceeds, ReportReady,
                CreationFails, RestFails
<1>4. CASE WatcherEnds(s)
    BY <1>4 DEF WatcherEnds, MidPoll
<1>5. QED
    BY <1>1, <1>2, <1>3, <1>4 DEF QuietStep

LEMMA CreateValved ==
    ASSUME TypeOK, Owned, Mounted, Valved, NEW s \in Streams, CreateSink(s)
    PROVE  Valved'
<1>1. /\ at[s] = "create" /\ media' = media
      /\ \A t \in Streams : t # s => /\ at'[t] = at[t] /\ making'[t] = making[t]
                                     /\ loaded'[t] = loaded[t]
    <2>1. at[s] = "create" /\ media' = media
        BY DEF CreateSink
    <2>2. WatcherActs(s)
        BY DEF WatcherActs, WatcherStep
    <2>3. QED
        BY <2>1, <2>2, OwnStream
<1>2. \A h : \A m \in Media : /\ Moves(m, h)' <=> Moves(m, h)
                              /\ m \in Viewers(h)' <=> m \in Viewers(h)
    BY <1>1 DEF Moves, Viewers
<1>3. \A h : ~Swaps(s, h) /\ \A t \in Streams : t # s =>
               (Swaps(t, h)' <=> Swaps(t, h)) /\ loaded'[t] = loaded[t]
    BY <1>1 DEF Swaps
<1>4. CASE kept[s] = None
    <2>1. at'[s] = "link" /\ raced' = raced /\ making'[s].handle \in DOMAIN handle'
        BY <1>4, HandleMade
    <2>2. \A h : ~Swaps(s, h)'
        BY <2>1 DEF Swaps
    <2>3. ASSUME NEW h \in DOMAIN handle PROVE ValvedAt(h)'
        <3>1. ValvedAt(h) /\ handle'[h] = handle[h]
            BY HandleMade DEF Valved
        <3>2. \A t \in Streams : /\ Swaps(t, h)' <=> Swaps(t, h)
                                 /\ Swaps(t, h) => loaded'[t] = loaded[t]
            BY <1>3, <2>2
        <3>3. QED
            BY <1>1, <1>2, <2>1, <3>1, <3>2, ValvedStill
    <2>4. ASSUME NEW h \in DOMAIN handle' \ DOMAIN handle PROVE ValvedAt(h)'
        <3>1. handle'[h] = NewHandle(s)
            BY HandleMade
        <3>2. \A m \in Media : ~Moves(m, h)' /\ m \notin Viewers(h)'
            BY <1>2 DEF Mounted, Moves, Viewers
        <3>3. \A t \in Streams : ~Swaps(t, h)'
            BY <1>3, <2>2 DEF Swaps, Owned, Owns, Making
        <3>4. Viewers(h)' = {} /\ Cardinality({}) = 0
            BY <3>2, FS_EmptySet DEF Viewers
        <3>5. handle'[h].clients = 0 /\ handle'[h].open = FALSE
            BY <3>1 DEF NewHandle
        <3>6. handle'[h].clients = Cardinality(Viewers(h)') /\ ~(handle'[h].clients > 0)
            BY <3>4, <3>5
        <3>7. handle'[h].open = (handle'[h].clients > 0)
            <4>1. (0 > 0) = FALSE
                OBVIOUS
            <4>2. QED
                BY <3>5, <4>1
        <3>8. QED
            BY <3>2, <3>3, <3>6, <3>7 DEF ValvedAt
    <2>5. QED
        BY <2>3, <2>4 DEF Valved
<1>5. CASE kept[s] # None
    <2>0. PICK k : k = kept[s]
        OBVIOUS
    <2>1. /\ making'[s].handle = k /\ handle' = handle /\ at'[s] = "swap"
          /\ loaded'[s] = (handle[k].clients > 0)
          /\ raced' = IF Busy(k) THEN raced \cup {k} ELSE raced
        BY <1>5, <2>0, HandleMade DEF Operates
    <2>2. \A h : Swaps(s, h)' <=> h = k
        BY <2>1 DEF Swaps
    <2>3. ASSUME NEW h \in DOMAIN handle, h # k PROVE ValvedAt(h)'
        <3>1. \A t \in Streams : /\ Swaps(t, h)' <=> Swaps(t, h)
                                 /\ Swaps(t, h) => loaded'[t] = loaded[t]
            BY <1>3, <2>2, <2>3
        <3>2. ValvedAt(h)
            BY DEF Valved
        <3>3. QED
            BY <1>1, <1>2, <2>1, <3>1, <3>2, ValvedStill
    <2>4. ASSUME k \in DOMAIN handle PROVE ValvedAt(k)'
        <3>1. ValvedAt(k)
            BY <2>4 DEF Valved
        <3>2. Viewers(k)' = Viewers(k)
            BY <1>1 DEF Viewers
        <3>3. handle'[k].clients = Cardinality(Viewers(k)')
            BY <2>1, <3>1, <3>2 DEF ValvedAt
        <3>4. CASE Busy(k)
            BY <2>1, <3>3, <3>4 DEF ValvedAt
        <3>5. CASE ~Busy(k)
            <4>1. \A m \in Media : ~Moves(m, k)'
                BY <1>2, <3>5, BusyWith
            <4>2. \A t \in Streams : Swaps(t, k)' <=> t = s
                BY <1>3, <2>2, <3>5, BusyWith
            <4>3. Busy(k)'
                BY <4>2 DEF Busy, Swaps
            <4>4. QED
                BY <2>1, <3>3, <4>1, <4>2, <4>3 DEF ValvedAt
        <3>6. QED
            BY <3>4, <3>5
    <2>5. QED
        BY <2>1, <2>3, <2>4 DEF Valved
<1>6. QED
    BY <1>4, <1>5

LEMMA SwapValved ==
    ASSUME TypeOK, Owned, Mounted, Valved, NEW s \in Streams, SwapValve(s)
    PROVE  Valved'
<1>0. PICK k : k = making[s].handle
    OBVIOUS
<1>1. /\ at[s] = "swap" /\ at'[s] = "link" /\ raced' = raced /\ media' = media
      /\ handle' = [handle EXCEPT ![k] = [handle[k] EXCEPT !.open = loaded[s]]]
    BY <1>0 DEF SwapValve, Goto, TypeOK
<1>2. \A t \in Streams : t # s => /\ at'[t] = at[t] /\ making'[t] = making[t]
                                  /\ loaded'[t] = loaded[t]
    BY OwnStream DEF WatcherActs, WatcherStep
<1>3. k \in DOMAIN handle /\ DOMAIN handle' = DOMAIN handle
    BY <1>0, <1>1 DEF Owned, Owns, Making
<1>4. /\ handle'[k].open = loaded[s] /\ handle'[k].clients = handle[k].clients
      /\ \A h \in DOMAIN handle : h # k => handle'[h] = handle[h]
    BY <1>1, <1>3, HandleAt DEF HandleType
<1>5. \A h : \A m \in Media : /\ Moves(m, h)' <=> Moves(m, h)
                              /\ m \in Viewers(h)' <=> m \in Viewers(h)
    BY <1>1 DEF Moves, Viewers
<1>6. \A h : /\ ~Swaps(s, h)' /\ (Swaps(s, h) <=> h = k)
             /\ \A t \in Streams : t # s => (Swaps(t, h)' <=> Swaps(t, h))
    BY <1>0, <1>1, <1>2 DEF Swaps
<1>7. ASSUME NEW h \in DOMAIN handle, h # k PROVE ValvedAt(h)'
    <2>1. \A t \in Streams : /\ Swaps(t, h)' <=> Swaps(t, h)
                             /\ Swaps(t, h) => loaded'[t] = loaded[t]
        BY <1>2, <1>6, <1>7
    <2>2. ValvedAt(h)
        BY DEF Valved
    <2>3. QED
        BY <1>1, <1>4, <1>5, <1>7, <2>1, <2>2, ValvedStill
<1>8. ValvedAt(k)'
    <2>1. ValvedAt(k)
        BY <1>3 DEF Valved
    <2>2. handle'[k].clients = Cardinality(Viewers(k)')
        BY <1>1, <1>4, <2>1 DEF ValvedAt, Viewers
    <2>3. CASE k \in raced
        BY <1>1, <2>2, <2>3 DEF ValvedAt
    <2>4. CASE k \notin raced
        <3>1. /\ \A t \in Streams : Swaps(t, k) => t = s
              /\ \A m \in Media : ~Moves(m, k)
              /\ loaded[s] = (handle[k].clients > 0)
            BY <1>6, <2>1, <2>4 DEF ValvedAt
        <3>2. (\A t \in Streams : ~Swaps(t, k)') /\ (\A m \in Media : ~Moves(m, k)')
            BY <1>5, <1>6, <3>1
        <3>3. handle'[k].open = (handle'[k].clients > 0)
            BY <1>4, <3>1
        <3>4. QED
            BY <2>2, <3>2, <3>3 DEF ValvedAt
    <2>5. QED
        BY <2>3, <2>4
<1>9. QED
    BY <1>3, <1>7, <1>8 DEF Valved

\* What the valve's history says is said of a handle that is not busy.
LEMMA ValvedAtRest ==
    ASSUME NEW h, handle'[h].clients = Cardinality(Viewers(h)'),
           h \notin raced' =>
             /\ \A s \in Streams : ~Swaps(s, h)'
             /\ \A m \in Media : ~Moves(m, h)'
             /\ handle'[h].open = (handle'[h].clients > 0)
    PROVE  ValvedAt(h)'
BY DEF ValvedAt

\* ... or of one with a single callback under way.
LEMMA ValvedMoving ==
    ASSUME NEW h, NEW m \in Media, handle'[h].clients = Cardinality(Viewers(h)'), Moves(m, h)',
           h \notin raced' =>
             /\ \A s \in Streams : ~Swaps(s, h)'
             /\ \A n \in Media : n # m => ~Moves(n, h)'
             /\ IF media'[m].at = "opening"
                  THEN handle'[h].clients > 0 /\ (media'[m].edge \/ handle'[h].open)
                  ELSE media'[m].edge = (handle'[h].clients = 0) /\ handle'[h].open
    PROVE  ValvedAt(h)'
<1>1. Busy(h)'
    BY DEF Busy, Uses, Moves
<1>2. QED
    BY <1>1 DEF ValvedAt

\* A callback is no watcher's step.
LEMMA Callback ==
    ASSUME NEW m \in Media, Configure(m) \/ OpenValve(m) \/ Unprepare(m) \/ CloseValve(m)
    PROVE  /\ UNCHANGED <<manager, watched, watcher, torn, server>>
           /\ UNCHANGED <<table, added, dropping, at, sink, making, kept, loaded>>
           /\ raced \subseteq raced'
<1> USE DEF manager, clients, watcher
<1>1. CASE Configure(m)
    BY <1>1 DEF Configure, Operates
<1>2. CASE OpenValve(m)
    BY <1>2 DEF OpenValve
<1>3. CASE Unprepare(m)
    BY <1>3 DEF Unprepare, Operates
<1>4. CASE CloseValve(m)
    BY <1>4 DEF CloseValve
<1>5. QED
    BY <1>1, <1>2, <1>3, <1>4

\* A callback is about one handle.
LEMMA ElsewhereValved ==
    ASSUME TypeOK, Mounted, Valved, NEW m \in Media, NEW k \in DOMAIN handle,
           Configure(m) \/ OpenValve(m) \/ Unprepare(m) \/ CloseValve(m),
           k = IF Configure(m) THEN mounted ELSE media[m].handle,
           DOMAIN handle' = DOMAIN handle, \A h \in DOMAIN handle : h # k => handle'[h] = handle[h],
           ValvedAt(k)'
    PROVE  Valved'
<1>1. UNCHANGED <<at, making, loaded>> /\ raced \subseteq raced'
    BY Callback
<1>2. raced \subseteq raced'
    BY <1>1
<1>3. /\ IF Configure(m) THEN media[m].at = "none" /\ media'[m].handle = k
         ELSE media[m].handle = k /\ (media'[m].at # "none" => media'[m].handle = k)
      /\ \A n \in Media : n # m => /\ media'[n].at = media[n].at
                                   /\ media'[n].handle = media[n].handle
                                   /\ media'[n].edge = media[n].edge
    BY MediaMove
<1>4. ASSUME NEW h \in DOMAIN handle, h # k
      PROVE  ValvedAt(h)'
    <2>1. ~Moves(m, h) /\ ~Moves(m, h)' /\ m \notin Viewers(h) /\ m \notin Viewers(h)'
        BY <1>3, <1>4 DEF Moves, Viewers
    <2>2. \A n \in Media : /\ Moves(n, h)' <=> Moves(n, h)
                           /\ Moves(n, h) => /\ media'[n].at = media[n].at
                                             /\ media'[n].edge = media[n].edge
                           /\ n \in Viewers(h)' <=> n \in Viewers(h)
        BY <1>3, <2>1 DEF Moves, Viewers
    <2>3. \A s \in Streams : /\ Swaps(s, h)' <=> Swaps(s, h)
                             /\ Swaps(s, h) => loaded'[s] = loaded[s]
        BY <1>1 DEF Swaps
    <2>4. ValvedAt(h)
        BY DEF Valved
    <2>5. QED
        BY <1>2, <1>4, <2>2, <2>3, <2>4, ValvedStill
<1>5. QED
    BY <1>4 DEF Valved

\* What is under way on the handle when a callback begins or ends.
LEMMA UnderWay ==
    ASSUME TypeOK, NEW m \in Media, NEW k,
           Configure(m) \/ OpenValve(m) \/ Unprepare(m) \/ CloseValve(m)
    PROVE  /\ \A n \in Media : n # m => (Moves(n, k)' <=> Moves(n, k))
           /\ \A s \in Streams : Swaps(s, k)' <=> Swaps(s, k)
<1>1. UNCHANGED <<at, making>>
    BY Callback
<1>2. QED
    BY <1>1, MediaMove DEF Moves, Swaps

LEMMA ConfigureValved ==
    ASSUME TypeOK, Mounted, Valved, NEW m \in Media, Configure(m)
    PROVE  Valved'
<1>0. PICK k : k = mounted
    OBVIOUS
<1>1. k \in DOMAIN handle
    BY <1>0, LenType DEF Configure, None, TypeOK
<1>2. handle' = [handle EXCEPT ![k] = [handle[k] EXCEPT !.appsrc = m,
                                                       !.clients = handle[k].clients + 1]]
    BY <1>0 DEF Configure
<1>3. /\ handle'[k].clients = handle[k].clients + 1 /\ handle'[k].open = handle[k].open
      /\ handle[k].clients \in Nat
      /\ DOMAIN handle' = DOMAIN handle
      /\ \A h \in DOMAIN handle : h # k => handle'[h] = handle[h]
    BY <1>1, <1>2, HandleAt DEF HandleType
<1>4. /\ media[m].at = "none" /\ media'[m].at = "opening" /\ media'[m].handle = k
      /\ media'[m].edge = (handle[k].clients = 0)
      /\ \A n \in Media : n # m => /\ media'[n].at = media[n].at
                                   /\ media'[n].handle = media[n].handle
      /\ raced' = IF Busy(k) THEN raced \cup {k} ELSE raced
    <2>1. PICK x : x = (\E o \in Media : Uses(o, mounted))
        OBVIOUS
    <2>2. PICK b : b = (handle[k].clients = 0)
        OBVIOUS
    <2>3. media'[m] = [at |-> "opening", handle |-> k, orphan |-> FALSE, edge |-> b, mixed |-> x]
        BY <1>0, <2>1, <2>2 DEF Configure
    <2>4. raced' = IF Busy(k) THEN raced \cup {k} ELSE raced
        BY <1>0 DEF Configure, Operates
    <2>5. QED
        BY <2>2, <2>3, <2>4, MediaMove
<1>5. ValvedAt(k)
    BY <1>1 DEF Valved
<1>6. handle'[k].clients = Cardinality(Viewers(k)')
    <2>1. Viewers(k)' = Viewers(k) \cup {m} /\ m \notin Viewers(k)
        BY <1>4 DEF Viewers
    <2>2. Cardinality(Viewers(k)') = Cardinality(Viewers(k)) + 1
        BY <2>1, ViewersFinite, FS_AddElement
    <2>3. QED
        BY <1>3, <1>5, <2>2 DEF ValvedAt
<1>7. Moves(m, k)'
    BY <1>4 DEF Moves
<1>8. ASSUME k \notin raced'
      PROVE  /\ \A s \in Streams : ~Swaps(s, k)'
             /\ \A n \in Media : n # m => ~Moves(n, k)'
             /\ handle'[k].clients > 0 /\ (media'[m].edge \/ handle'[k].open)
    <2>1. k \notin raced /\ ~Busy(k)
        BY <1>4, <1>8
    <2>2. (\A s \in Streams : ~Swaps(s, k)) /\ \A n \in Media : ~Moves(n, k)
        BY <2>1, BusyWith
    <2>3. (\A s \in Streams : ~Swaps(s, k)') /\ \A n \in Media : n # m => ~Moves(n, k)'
        BY <2>2, UnderWay
    <2>4. handle[k].open = (handle[k].clients > 0)
        BY <1>5, <2>1 DEF ValvedAt
    <2>5. handle'[k].clients > 0 /\ (handle[k].clients = 0 \/ handle[k].clients > 0)
        BY <1>3
    <2>6. media'[m].edge \/ handle'[k].open
        BY <1>3, <1>4, <2>4, <2>5, Zenon
    <2>7. QED
        BY <2>3, <2>5, <2>6
<1>9. ValvedAt(k)'
    BY <1>4, <1>6, <1>7, <1>8, ValvedMoving
<1>10. QED
    BY <1>0, <1>1, <1>3, <1>9, ElsewhereValved

LEMMA UnprepareValved ==
    ASSUME TypeOK, Mounted, Valved, NEW m \in Media, Unprepare(m)
    PROVE  Valved'
<1>0. PICK k : k = media[m].handle
    OBVIOUS
<1>1. k \in DOMAIN handle
    BY <1>0 DEF Unprepare, Mounted
<1>2. handle' = [handle EXCEPT ![k] = [handle[k] EXCEPT !.appsrc = None,
                                                       !.clients = handle[k].clients - 1]]
    BY <1>0 DEF Unprepare
<1>3. /\ handle'[k].clients = handle[k].clients - 1 /\ handle'[k].open = handle[k].open
      /\ handle[k].clients \in Nat
      /\ DOMAIN handle' = DOMAIN handle
      /\ \A h \in DOMAIN handle : h # k => handle'[h] = handle[h]
    BY <1>1, <1>2, HandleAt DEF HandleType
<1>4. /\ media[m].at = "playing" /\ media'[m].at = "closing" /\ media'[m].handle = k
      /\ media'[m].edge = (handle[k].clients = 1)
      /\ \A n \in Media : n # m => /\ media'[n].at = media[n].at
                                   /\ media'[n].handle = media[n].handle
      /\ raced' = IF Busy(k) THEN raced \cup {k} ELSE raced
    <2>1. PICK b : b = (handle[k].clients = 1)
        OBVIOUS
    <2>2. media' = [media EXCEPT ![m].at = "closing", ![m].edge = b] /\ media[m].at = "playing"
        BY <1>0, <2>1 DEF Unprepare
    <2>3. media \in [Media -> MediaType]
        BY Typed DEF TypesOfServer
    <2>4. /\ media'[m].at = "closing" /\ media'[m].handle = media[m].handle /\ media'[m].edge = b
          /\ \A n \in Media : n # m => media'[n] = media[n]
        BY <2>2, <2>3 DEF MediaType
    <2>5. raced' = IF Busy(k) THEN raced \cup {k} ELSE raced
        BY <1>0 DEF Unprepare, Operates
    <2>6. QED
        BY <1>0, <2>1, <2>2, <2>4, <2>5
<1>5. ValvedAt(k) /\ m \in Viewers(k)
    BY <1>0, <1>1, <1>4 DEF Valved, Viewers
<1>6. handle'[k].clients = Cardinality(Viewers(k)') /\ handle[k].clients > 0
    <2>1. Viewers(k)' = Viewers(k) \ {m}
        BY <1>4 DEF Viewers
    <2>2. Cardinality(Viewers(k)') = Cardinality(Viewers(k)) - 1
        BY <1>5, <2>1, ViewersFinite, FS_RemoveElement
    <2>3. QED
        BY <1>3, <1>5, <2>2, ViewerCounted DEF ValvedAt
<1>7. Moves(m, k)'
    BY <1>4 DEF Moves
<1>8. ASSUME k \notin raced'
      PROVE  /\ \A s \in Streams : ~Swaps(s, k)'
             /\ \A n \in Media : n # m => ~Moves(n, k)'
             /\ media'[m].edge = (handle'[k].clients = 0) /\ handle'[k].open
    <2>1. k \notin raced /\ ~Busy(k)
        BY <1>4, <1>8
    <2>2. (\A s \in Streams : ~Swaps(s, k)) /\ \A n \in Media : ~Moves(n, k)
        BY <2>1, BusyWith
    <2>3. (\A s \in Streams : ~Swaps(s, k)') /\ \A n \in Media : n # m => ~Moves(n, k)'
        BY <2>2, UnderWay
    <2>4. handle[k].open = (handle[k].clients > 0)
        BY <1>5, <2>1 DEF ValvedAt
    <2>5. (handle[k].clients = 1) <=> (handle'[k].clients = 0)
        BY <1>3
    <2>6. handle'[k].open
        BY <1>3, <1>6, <2>4
    <2>7. QED
        BY <1>4, <2>3, <2>5, <2>6
<1>9. ValvedAt(k)'
    BY <1>4, <1>6, <1>7, <1>8, ValvedMoving
<1>10. QED
    BY <1>0, <1>1, <1>3, <1>9, ElsewhereValved DEF Unprepare, Configure

\* The end of a callback sets the valve by the edge it saw.
LEMMA ValveSet ==
    ASSUME TypeOK, Mounted, NEW m \in Media, NEW k, NEW b, OpenValve(m) \/ CloseValve(m),
           k = media[m].handle,
           b = IF OpenValve(m) THEN handle[k].open \/ media[m].edge
                               ELSE handle[k].open /\ ~media[m].edge
    PROVE  /\ k \in DOMAIN handle /\ DOMAIN handle' = DOMAIN handle
           /\ handle'[k].open = b /\ handle'[k].clients = handle[k].clients
           /\ handle[k].clients \in Nat
           /\ \A h \in DOMAIN handle : h # k => handle'[h] = handle[h]
           /\ media[m].at = IF OpenValve(m) THEN "opening" ELSE "closing"
           /\ media'[m].at = IF OpenValve(m) THEN "playing" ELSE "none"
           /\ raced' = raced /\ ~Configure(m)
<1>1. k \in DOMAIN handle
    BY DEF OpenValve, CloseValve, Mounted
<1>2. ~(OpenValve(m) /\ CloseValve(m)) /\ ~Configure(m) /\ raced' = raced
    BY DEF OpenValve, CloseValve, Configure
<1>3. handle' = [handle EXCEPT ![k] = [handle[k] EXCEPT !.open = b]]
    BY <1>2 DEF OpenValve, CloseValve
<1>4. /\ DOMAIN handle' = DOMAIN handle
      /\ handle'[k].open = b /\ handle'[k].clients = handle[k].clients
      /\ handle[k].clients \in Nat
      /\ \A h \in DOMAIN handle : h # k => handle'[h] = handle[h]
    BY <1>1, <1>3, HandleAt DEF HandleType
<1>5. /\ media[m].at = IF OpenValve(m) THEN "opening" ELSE "closing"
      /\ media'[m].at = IF OpenValve(m) THEN "playing" ELSE "none"
    <2>1. media \in [Media -> MediaType]
        BY Typed DEF TypesOfServer
    <2>2. CASE OpenValve(m)
        BY <2>1, <2>2 DEF OpenValve, MediaType
    <2>3. CASE ~OpenValve(m)
        BY <2>1, <2>3 DEF CloseValve, NoMedia
    <2>4. QED
        BY <2>2, <2>3
<1>6. QED
    BY <1>1, <1>2, <1>4, <1>5

LEMMA ValveSetValved ==
    ASSUME TypeOK, Mounted, Valved, NEW m \in Media, OpenValve(m) \/ CloseValve(m)
    PROVE  Valved'
<1>0. PICK k : k = media[m].handle
    OBVIOUS
<1>1. PICK b : b = IF OpenValve(m) THEN handle[k].open \/ media[m].edge
                                   ELSE handle[k].open /\ ~media[m].edge
    OBVIOUS
<1>2. /\ k \in DOMAIN handle /\ DOMAIN handle' = DOMAIN handle
      /\ handle'[k].open = b /\ handle'[k].clients = handle[k].clients
      /\ handle[k].clients \in Nat
      /\ \A h \in DOMAIN handle : h # k => handle'[h] = handle[h]
      /\ media[m].at = IF OpenValve(m) THEN "opening" ELSE "closing"
      /\ media'[m].at = IF OpenValve(m) THEN "playing" ELSE "none"
      /\ raced' = raced /\ ~Configure(m)
    BY <1>0, <1>1, ValveSet
<1>3. ValvedAt(k) /\ Moves(m, k) /\ ~Moves(m, k)'
    BY <1>0, <1>2 DEF Valved, Moves
<1>4. handle'[k].clients = Cardinality(Viewers(k)')
    <2>1. Viewers(k)' = Viewers(k)
        <3>1. /\ media'[m].at # "none" => media'[m].handle = media[m].handle
              /\ \A n \in Media : n # m => /\ media'[n].at = media[n].at
                                           /\ media'[n].handle = media[n].handle
            BY <1>2, MediaMove
        <3>2. QED
            BY <1>0, <1>2, <3>1 DEF Viewers
    <2>2. QED
        BY <1>2, <1>3, <2>1 DEF ValvedAt
<1>5. ASSUME k \notin raced'
      PROVE  /\ \A s \in Streams : ~Swaps(s, k)'
             /\ \A n \in Media : ~Moves(n, k)'
             /\ handle'[k].open = (handle'[k].clients > 0)
    <2>1. /\ \A s \in Streams : ~Swaps(s, k)
          /\ \A n \in Media : Moves(n, k) => m = n
          /\ IF media[m].at = "opening"
               THEN handle[k].clients > 0 /\ (media[m].edge \/ handle[k].open)
               ELSE media[m].edge = (handle[k].clients = 0) /\ handle[k].open
        BY <1>2, <1>3, <1>5 DEF ValvedAt
    <2>2. (\A s \in Streams : ~Swaps(s, k)') /\ \A n \in Media : ~Moves(n, k)'
        BY <1>3, <2>1, UnderWay
    <2>3. b = (handle[k].clients > 0)
        <3>1. CASE OpenValve(m)
            <4>1. (handle[k].open \/ media[m].edge) /\ handle[k].clients > 0
                BY <1>2, <2>1, <3>1
            <4>2. b = TRUE /\ (handle[k].clients > 0) = TRUE
                BY <1>1, <3>1, <4>1
            <4>3. QED
                BY <4>2
        <3>2. CASE ~OpenValve(m)
            <4>1. handle[k].open /\ media[m].edge = (handle[k].clients = 0)
                BY <1>2, <2>1, <3>2
            <4>2. b = ~(handle[k].clients = 0)
                BY <1>1, <3>2, <4>1
            <4>3. ~(handle[k].clients = 0) <=> handle[k].clients > 0
                BY <1>2
            <4>4. QED
                BY <4>2, <4>3
        <3>3. QED
            BY <3>1, <3>2
    <2>4. QED
        BY <1>2, <2>2, <2>3
<1>6. ValvedAt(k)'
    BY <1>4, <1>5, ValvedAtRest
<1>7. QED
    BY <1>0, <1>2, <1>6, ElsewhereValved

LEMMA StepValved ==
    TypeOK /\ Added /\ Owned /\ Mounted /\ Valved /\ [Next]_vars => Valved'
<1> SUFFICES ASSUME TypeOK, Added, Owned, Mounted, Valved, [Next]_vars PROVE Valved'
    OBVIOUS
<1>1. ASSUME NEW s \in Streams, QuietStep(s)
      PROVE  Valved'
    <2>1. SameMedia
        <3>1. CASE InsertFactory(s) \/ Mount(s)
            BY <3>1, OrphanedMedia, SameMediaIfUnchanged DEF InsertFactory, Mount
        <3>2. CASE ~InsertFactory(s) /\ ~Mount(s)
            <4>1. ServerKept \/ Stopped
                BY <1>1, <3>2, StopsAtMost
            <4>2. QED
                BY <4>1, SameMediaIfUnchanged DEF ServerKept, Stopped
        <3>3. QED
            BY <3>1, <3>2
    <2>2. at[s] # "swap" /\ at'[s] # "swap" /\ loaded' = loaded
        BY <1>1, QuietIsNoSwap
    <2>3. \A t \in Streams : t # s => at'[t] = at[t] /\ making'[t] = making[t]
        BY <1>1, OwnStream DEF QuietStep, WatcherActs, WatcherStep
    <2>4. UNCHANGED <<handle, raced>>
        BY <1>1, HandlesKept
    <2>5. QED
        BY <2>1, <2>2, <2>3, <2>4, ValvedKept
<1>2. CASE \/ AddStream \/ DropStream \/ ReleaseStream
           \/ \E s \in Streams : OtherConsumer(s) \/ PipelineDies(s)
           \/ \E k \in torn : Teardown(k)
           \/ UNCHANGED vars
    <2>1. CASE \E s \in Streams : WatcherActs(s)
        BY <1>1, <2>1, CreateValved, SwapValved DEF WatcherActs, WatcherStep, QuietStep
    <2>2. CASE ~\E s \in Streams : WatcherActs(s)
        <3>1. \A s \in Streams : /\ at'[s] = "swap" <=> at[s] = "swap"
                                 /\ making'[s] = making[s]
            BY <2>2, OthersStay
        <3>2. SameMedia
            <4>1. ServerKept \/ Stopped
                BY <1>2, <2>2, StopsAtMost DEF WatcherActs, WatcherStep
            <4>2. QED
                BY <4>1, SameMediaIfUnchanged DEF ServerKept, Stopped
        <3>3. UNCHANGED <<handle, raced>>
            BY <1>2, HandlesKept
        <3>4. loaded' = loaded
            BY <1>2 DEF AddStream, DropStream, ReleaseStream, OtherConsumer, PipelineDies, Teardown,
                        vars, watcher
        <3>5. QED
            BY <3>1, <3>2, <3>3, <3>4, ValvedKept
    <2>3. QED
        BY <2>1, <2>2
<1>3. CASE \E m \in Media : Configure(m) \/ OpenValve(m) \/ Unprepare(m) \/ CloseValve(m)
    BY <1>3, ConfigureValved, UnprepareValved, ValveSetValved
<1>4. QED
    BY <1>1, <1>2, <1>3, CreateValved, SwapValved DEF Next, WatcherStep, QuietStep
-----------------------------------------------------------------------------
(* The consumers are counted *)

\* The media of a stream that its lifecycle has been told about.
Told(s) == {m \in Media : media[m].at \in {"playing", "closing"} /\ handle[media[m].handle].owner = s}

Counted(s) == life[s].consumers = Cardinality(Told(s)) + Cardinality(watched \cap {s})

\* The lifecycle shows its count, or has none.
LEMMA CountShown ==
    ASSUME NEW l \in LifecycleStates, CountFits(l)
    PROVE  l.consumers * (IF l.phase \in {"Idle", "Draining"} THEN 0 ELSE 1) = l.consumers
<1>1. l.consumers \in Nat
    BY LifecycleStateAssumption DEF LifecycleStates
<1>2. CASE l.phase \in {"Idle", "Draining"}
    BY <1>2 DEF CountFits
<1>3. CASE l.phase \notin {"Idle", "Draining"}
    BY <1>1, <1>3
<1>4. QED
    BY <1>2, <1>3

LEMMA ToldFinite ==
    ASSUME NEW s
    PROVE  /\ IsFiniteSet(Told(s)) /\ Cardinality(Told(s)) \in Nat
           /\ Cardinality(Told(s)) <= Cardinality(Media)
BY RtspMountsAssumption, FS_Subset, FS_CardinalityType DEF Told

LEMMA OtherCounted ==
    ASSUME NEW s
    PROVE  Cardinality(watched \cap {s}) = IF s \in watched THEN 1 ELSE 0
<1>1. CASE s \in watched
    <2>1. watched \cap {s} = {s}
        BY <1>1
    <2>2. QED
        BY <1>1, <2>1, FS_Singleton
<1>2. CASE s \notin watched
    <2>1. watched \cap {s} = {}
        BY <1>2
    <2>2. QED
        BY <1>2, <2>1, FS_EmptySet
<1>3. QED
    BY <1>1, <1>2

\* There are fewer clients than the counter can count.
LEMMA RoomForOne ==
    ASSUME TypeOK, NEW s \in Streams, Counted(s),
           s \notin watched \/ \E m \in Media : m \notin Told(s)
    PROVE  life[s].consumers # MaxU32
<1>1. /\ Cardinality(Media) \in Nat /\ Cardinality(Media) < MaxU32 /\ MaxU32 \in Nat
      /\ Cardinality(Told(s)) \in Nat /\ Cardinality(Told(s)) <= Cardinality(Media)
    BY RtspMountsAssumption, LifecycleStateAssumption, FS_CardinalityType, ToldFinite
<1>2. CASE s \notin watched
    BY <1>1, <1>2, OtherCounted DEF Counted
<1>3. ASSUME NEW m \in Media, m \notin Told(s)
      PROVE  life[s].consumers # MaxU32
    <2>1. Cardinality(Media \ {m}) = Cardinality(Media) - 1 /\ IsFiniteSet(Media \ {m})
        BY RtspMountsAssumption, FS_RemoveElement
    <2>2. Told(s) \subseteq Media \ {m}
        BY <1>3 DEF Told
    <2>3. Cardinality(Told(s)) <= Cardinality(Media) - 1
        BY <2>1, <2>2, FS_Subset
    <2>4. Cardinality(watched \cap {s}) <= 1 /\ Cardinality(watched \cap {s}) \in Nat
        BY OtherCounted
    <2>5. QED
        BY <1>1, <2>3, <2>4 DEF Counted
<1>4. QED
    BY <1>2, <1>3

\* Media that go on, with handles that go on to be owned, are told about as before.
LEMMA ToldKept ==
    ASSUME Mounted, OwnersKept, NEW s,
           \A m \in Media : /\ media'[m].at \in {"playing", "closing"}
                                 <=> media[m].at \in {"playing", "closing"}
                            /\ media[m].at \in {"playing", "closing"} =>
                                 media'[m].handle = media[m].handle
    PROVE  Told(s)' = Told(s)
<1>1. \A m \in Media : media[m].at \in {"playing", "closing"} =>
        handle'[media'[m].handle].owner = handle[media[m].handle].owner
    BY DEF Mounted, OwnersKept
<1>2. QED
    BY <1>1 DEF Told

LEMMA CountKept ==
    ASSUME NEW s, Told(s)' = Told(s), s \in watched' <=> s \in watched,
           life'[s].consumers = life[s].consumers, Counted(s)
    PROVE  Counted(s)'
<1>1. watched' \cap {s} = watched \cap {s}
    OBVIOUS
<1>2. QED
    BY <1>1 DEF Counted

\* An operation of one more, or one less.
LEMMA LifeCounts ==
    ASSUME TypeOK, Added, NEW s \in Streams
    PROVE  /\ life[s].consumers \in Nat
           /\ life[s].consumers # MaxU32 => AddConsumer(life[s]).consumers = life[s].consumers + 1
           /\ life[s].consumers > 0 => RemoveConsumer(life[s]).consumers = life[s].consumers - 1
<1>1. life[s] \in LifecycleStates /\ CountFits(life[s]) /\ life[s].mode = "Lazy"
    BY AddedLife
<1>2. Phantom(life[s].mode) = 0
    BY <1>1 DEF Phantom
<1>3. life[s].consumers \in Nat
    BY <1>1, LifecycleStateAssumption DEF LifecycleStates
<1>4. QED
    BY <1>1, <1>2, <1>3, ConsumerAdded, ConsumerRemoved

LEMMA WatcherCounts ==
    ASSUME TypeOK, Added, NEW s \in Streams, WatcherActs(s)
    PROVE  \A t \in Streams : life'[t].consumers = life[t].consumers
<1>1. \A t \in Streams : t # s => life'[t] = life[t]
    BY OwnStream
<1>2. life[s] \in LifecycleStates /\ CountFits(life[s]) /\ PipelineError(life[s]) \in LifecycleStates
    BY AddedLife, OperationsTyped
<1>3. CountFits(PipelineError(life[s])) /\ PipelineError(life[s]).consumers = life[s].consumers
    BY <1>2, ReportsCountNobody
<1>4. /\ ResetErrorBackoff(PipelineError(life[s])).consumers = life[s].consumers
      /\ PipelineReady(life[s]).consumers = life[s].consumers
      /\ DrainExpired(life[s]).consumers = life[s].consumers
    BY <1>2, <1>3, ReportsCountNobody
<1>5. QED
    BY <1>1, <1>4, OwnLife

\* Media in a step that is no callback.
LEMMA MediaStay ==
    ASSUME TypeOK, Mounted,
           \/ AddStream \/ DropStream \/ ReleaseStream
           \/ \E s \in Streams : WatcherActs(s) \/ OtherConsumer(s) \/ PipelineDies(s)
           \/ \E k \in torn : Teardown(k)
           \/ UNCHANGED vars
    PROVE  SameMedia
<1>1. CASE \E s \in Streams : InsertFactory(s) \/ Mount(s)
    BY <1>1, OrphanedMedia, SameMediaIfUnchanged DEF InsertFactory, Mount
<1>2. CASE ~\E s \in Streams : InsertFactory(s) \/ Mount(s)
    <2>1. ServerKept \/ Stopped
        BY <1>2, StopsAtMost DEF WatcherActs, WatcherStep, QuietStep, HandleStep
    <2>2. QED
        BY <2>1, SameMediaIfUnchanged DEF ServerKept, Stopped
<1>3. QED
    BY <1>1, <1>2

LEMMA AddStreamCounted ==
    ASSUME TypeOK, Added, Owned, Mounted, AddStream, NEW s \in Streams, InTable(s)'
    PROVE  Counted(s)'
<1>1. table = None /\ s = added + 1 /\ added \in Nat
    BY DEF AddStream, InTable, TypeOK
<1>2. life'[s] = RemoveConsumer(AddConsumer(Lazy))
    BY <1>1 DEF AddStream, Added, TypeOK
<1>3. life'[s].consumers = 0
    <2>1. Lazy.consumers = 0 /\ 0 # MaxU32
        BY LifecycleStateAssumption DEF Lazy
    <2>2. AddConsumer(Lazy) \in LifecycleStates /\ RemoveConsumer(AddConsumer(Lazy)) = life'[s]
        BY <1>2, LifecycleTyped
    <2>3. /\ CountFits(AddConsumer(Lazy)) /\ AddConsumer(Lazy).consumers = 0 + 1
          /\ AddConsumer(Lazy).mode = "Lazy"
        BY <2>1, LazyFits, ConsumerAdded
    <2>4. Phantom("Lazy") = 0
        BY DEF Phantom
    <2>5. RemoveConsumer(AddConsumer(Lazy)).consumers = AddConsumer(Lazy).consumers - 1
        BY <2>2, <2>3, <2>4, ConsumerRemoved
    <2>6. QED
        BY <2>2, <2>3, <2>5
<1>4. watched' \cap {s} = {}
    BY <1>1, RtspMountsAssumption DEF AddStream, Added, TypeOK, None, Streams
<1>5. Told(s)' = {}
    <2>1. \A h \in DOMAIN handle : handle[h].owner # s
        BY <1>1, HandleAt DEF Owned, HandleType, Streams
    <2>2. UNCHANGED <<media, handle>>
        BY DEF AddStream
    <2>3. QED
        BY <2>1, <2>2 DEF Told, Mounted
<1>6. QED
    BY <1>3, <1>4, <1>5, FS_EmptySet DEF Counted

LEMMA OtherConsumerCounted ==
    ASSUME TypeOK, Added, NEW t \in Streams, OtherConsumer(t), Counted(t)
    PROVE  Counted(t)'
<1>1. Told(t)' = Told(t)
    BY DEF OtherConsumer, Told
<1>2. PICK n : n = Cardinality(Told(t))
    OBVIOUS
<1>3. n \in Nat /\ Cardinality(Told(t)') = n
    BY <1>1, <1>2, ToldFinite
<1>4. CASE t \in watched
    <2>1. life'[t] = RemoveConsumer(life[t]) /\ watched' \cap {t} = {}
        BY <1>4 DEF OtherConsumer, TypeOK
    <2>2. life[t].consumers = n + 1
        BY <1>2, <1>4, OtherCounted DEF Counted
    <2>3. life'[t].consumers = n
        BY <1>3, <2>1, <2>2, LifeCounts
    <2>4. QED
        BY <1>3, <2>1, <2>3, FS_EmptySet DEF Counted
<1>5. CASE t \notin watched
    <2>1. life'[t] = AddConsumer(life[t]) /\ watched' \cap {t} = {t}
        BY <1>5 DEF OtherConsumer, TypeOK
    <2>2. life[t].consumers = n
        BY <1>2, <1>3, <1>5, OtherCounted DEF Counted
    <2>3. life'[t].consumers = n + 1
        BY <1>3, <1>5, <2>1, <2>2, LifeCounts, RoomForOne
    <2>4. QED
        BY <1>3, <2>1, <2>3, FS_Singleton DEF Counted
<1>6. QED
    BY <1>4, <1>5

\* The stream of the medium is told when a callback ends.
LEMMA TellCounted ==
    ASSUME TypeOK, Added, Owned, Mounted, NEW m \in Media, OpenValve(m) \/ CloseValve(m),
           NEW s \in Streams, InTable(s), Counted(s)
    PROVE  Counted(s)'
<1>1. PICK h : h = media[m].handle
    OBVIOUS
<1>2. /\ h \in DOMAIN handle
      /\ media[m].at = IF OpenValve(m) THEN "opening" ELSE "closing"
      /\ media'[m].at = IF OpenValve(m) THEN "playing" ELSE "none"
      /\ media'[m].at # "none" => media'[m].handle = h
      /\ \A n \in Media : n # m => /\ media'[n].at = media[n].at
                                   /\ media'[n].handle = media[n].handle
    <2>1. h \in DOMAIN handle
        BY <1>1 DEF OpenValve, CloseValve, Mounted
    <2>2. PICK b : b = IF OpenValve(m) THEN handle[h].open \/ media[m].edge
                                       ELSE handle[h].open /\ ~media[m].edge
        OBVIOUS
    <2>3. /\ media[m].at = IF OpenValve(m) THEN "opening" ELSE "closing"
          /\ media'[m].at = IF OpenValve(m) THEN "playing" ELSE "none"
          /\ ~Configure(m)
        BY <1>1, <2>2, ValveSet
    <2>4. QED
        BY <1>1, <2>1, <2>3, MediaMove
<1>3. OwnersKept /\ UNCHANGED <<watched, table, dropping>>
    BY HandleUsed, Callback DEF OwnersKept
<1>4. PICK o : o = handle[h].owner
    OBVIOUS
<1>5. /\ OpenValve(m) => life' = IF InTable(o) THEN [life EXCEPT ![o] = AddConsumer(life[o])] ELSE life
      /\ ~OpenValve(m) => life' = IF InTable(o) THEN [life EXCEPT ![o] = RemoveConsumer(life[o])]
                                                ELSE life
    BY <1>1, <1>4 DEF OpenValve, CloseValve, Inform, LifeOf
<1>6. \A n \in Media : n # m => (n \in Told(s)' <=> n \in Told(s))
    BY <1>2, <1>3 DEF Told, Mounted, OwnersKept
<1>7. m \in Told(s)' <=> OpenValve(m) /\ o = s
    BY <1>2, <1>3, <1>4 DEF Told, OwnersKept
<1>8. m \in Told(s) <=> ~OpenValve(m) /\ o = s
    BY <1>1, <1>2, <1>4 DEF Told
<1>9. CASE o # s
    <2>1. Told(s)' = Told(s)
        BY <1>6, <1>7, <1>8, <1>9 DEF Told
    <2>2. life'[s] = life[s]
        BY <1>5, <1>9 DEF TypeOK
    <2>3. QED
        BY <1>3, <2>1, <2>2, CountKept
<1>10. CASE o = s /\ OpenValve(m)
    <2>1. Told(s)' = Told(s) \cup {m} /\ m \notin Told(s)
        BY <1>6, <1>7, <1>8, <1>10 DEF Told
    <2>2. Cardinality(Told(s)') = Cardinality(Told(s)) + 1
        BY <2>1, ToldFinite, FS_AddElement
    <2>3. life'[s] = AddConsumer(life[s])
        BY <1>5, <1>10 DEF TypeOK
    <2>4. life'[s].consumers = life[s].consumers + 1
        BY <2>1, <2>3, LifeCounts, RoomForOne
    <2>5. Cardinality(watched' \cap {s}) = Cardinality(watched \cap {s})
          /\ Cardinality(watched \cap {s}) \in Nat
        BY <1>3, OtherCounted
    <2>6. QED
        BY <2>2, <2>4, <2>5, ToldFinite DEF Counted
<1>11. CASE o = s /\ ~OpenValve(m)
    <2>1. Told(s)' = Told(s) \ {m} /\ m \in Told(s)
        BY <1>6, <1>7, <1>8, <1>11 DEF Told
    <2>2. Cardinality(Told(s)') = Cardinality(Told(s)) - 1
        BY <2>1, ToldFinite, FS_RemoveElement
    <2>3. life'[s] = RemoveConsumer(life[s])
        BY <1>5, <1>11 DEF TypeOK
    <2>4. Cardinality(watched' \cap {s}) = Cardinality(watched \cap {s})
          /\ Cardinality(watched \cap {s}) \in Nat
        BY <1>3, OtherCounted
    <2>5. Cardinality(Told(s)) > 0 /\ Cardinality(Told(s)) \in Nat
        BY <2>1, ToldFinite, FS_EmptySet
    <2>6. life[s].consumers > 0
        BY <2>4, <2>5 DEF Counted
    <2>7. life'[s].consumers = life[s].consumers - 1
        BY <2>3, <2>6, LifeCounts
    <2>8. QED
        BY <2>2, <2>4, <2>5, <2>7 DEF Counted
<1>12. QED
    BY <1>9, <1>10, <1>11

LEMMA StepCounted ==
    ASSUME TypeOK, Added, Owned, Mounted, [Next]_vars,
           \A s \in Streams : InTable(s) => Counted(s)
    PROVE  \A s \in Streams : InTable(s)' => Counted(s)'
<1> SUFFICES ASSUME NEW s \in Streams, InTable(s)' PROVE Counted(s)'
    OBVIOUS
<1>1. CASE AddStream
    BY <1>1, AddStreamCounted
<1>2. CASE ~AddStream
    <2>1. InTable(s) /\ Counted(s)
        BY <1>2, TableGrows
    <2>2. ASSUME OwnersKept,
                 SameMedia \/ \E m \in Media : Configure(m) \/ Unprepare(m),
                 life'[s].consumers = life[s].consumers, s \in watched' <=> s \in watched
          PROVE  Counted(s)'
        <3>1. Told(s)' = Told(s)
            <4>1. CASE SameMedia
                BY <2>2, <4>1, ToldKept DEF SameMedia
            <4>2. ASSUME NEW m \in Media, Configure(m) \/ Unprepare(m)
                  PROVE  Told(s)' = Told(s)
                <5>1. /\ media[m].at = "none" /\ media'[m].at = "opening"
                      \/ /\ media[m].at = "playing" /\ media'[m].at = "closing"
                         /\ media'[m].handle = media[m].handle
                    <6>1. CASE Configure(m)
                        BY <6>1, MediaMove
                    <6>2. CASE ~Configure(m)
                        <7>1. media[m].at = "playing" /\ media'[m].at = "closing"
                            BY <4>2, <6>2 DEF Unprepare, TypeOK
                        <7>2. media'[m].at # "none" => media'[m].handle = media[m].handle
                            BY <4>2, <6>2, MediaMove
                        <7>3. QED
                            BY <7>1, <7>2
                    <6>3. QED
                        BY <6>1, <6>2
                <5>2. \A n \in Media : n # m => /\ media'[n].at = media[n].at
                                                /\ media'[n].handle = media[n].handle
                    BY <4>2, MediaMove
                <5>3. QED
                    BY <2>2, <5>1, <5>2, ToldKept
            <4>3. QED
                BY <2>2, <4>1, <4>2
        <3>2. QED
            BY <2>1, <2>2, <3>1, CountKept
    <2>3. OwnersKept
        BY OwnersStay
    <2>4. CASE \E t \in Streams : WatcherActs(t)
        <3>1. SameMedia
            BY <2>4, MediaStay
        <3>2. watched' = watched
            BY <2>4, OwnStream
        <3>3. QED
            BY <2>2, <2>3, <2>4, <3>1, <3>2, WatcherCounts
    <2>5. CASE DropStream \/ ReleaseStream
        BY <2>5, RtspMountsAssumption DEF DropStream, ReleaseStream, InTable, None, Streams
    <2>6. CASE \E t \in Streams : OtherConsumer(t)
        <3>1. PICK t \in Streams : OtherConsumer(t)
            BY <2>6
        <3>2. t = s
            BY <2>1, <3>1 DEF OtherConsumer, InTable
        <3>3. QED
            BY <2>1, <3>1, <3>2, OtherConsumerCounted
    <2>7. CASE \/ \E t \in Streams : PipelineDies(t)
               \/ \E k \in torn : Teardown(k)
               \/ UNCHANGED vars
        <3>1. UNCHANGED <<life, watched>>
            BY <2>7, NothingOfStreams
        <3>2. SameMedia
            BY <2>7, MediaStay
        <3>3. QED
            BY <2>2, <2>3, <3>1, <3>2
    <2>8. CASE \E m \in Media : Configure(m) \/ Unprepare(m)
        <3>1. UNCHANGED <<life, watched>>
            BY <2>8, NothingOfStreams
        <3>2. QED
            BY <2>2, <2>3, <2>8, <3>1
    <2>9. CASE \E m \in Media : OpenValve(m) \/ CloseValve(m)
        BY <2>1, <2>9, TellCounted
    <2>10. QED
        BY <1>2, <2>4, <2>5, <2>6, <2>7, <2>8, <2>9 DEF Next, WatcherActs
<1>3. QED
    BY <1>1, <1>2
-----------------------------------------------------------------------------
(* The path of the first stream stays mounted *)

\* A consumer that comes or goes leaves a lifecycle on its side: waiting for a pipeline, or
\* with one.
LEMMA SidesKept ==
    ASSUME NEW l \in LifecycleStates, NEW r \in {AddConsumer(l), RemoveConsumer(l)}
    PROVE  /\ l.phase = "Waking" => r.phase = "Waking"
           /\ l.phase \in {"Running", "Draining"} => r.phase \in {"Running", "Draining"}
           /\ r.phase \in {"Idle", "Waking"} => l.phase \in {"Idle", "Waking"}
<1>1. CASE r = AddConsumer(l)
    BY <1>1 DEF AddConsumer, LifecycleStates, Phases
<1>2. CASE r = RemoveConsumer(l)
    BY <1>2 DEF RemoveConsumer, LifecycleStates, Phases
<1>3. QED
    BY <1>1, <1>2

\* Before the second stream is added, the others' watchers do not run.
LEMMA FirstWatcher ==
    ASSUME TypeOK, Added, added \in {0, 1}, NEW s \in Streams, WatcherActs(s)
    PROVE  s = 1 /\ added = 1
<1>1. at[s] # "new"
    BY OwnStream
<1>2. ~(s > added)
    BY <1>1 DEF Added
<1>3. QED
    BY <1>2 DEF Streams

\* What is not the watcher's leaves its path as it is.
LEMMA FirstKept ==
    ASSUME TypeOK, FirstPath, 1 \in Streams,
           UNCHANGED <<at, sink, making, kept, factory, mounted>>, torn' \subseteq torn,
           life'[1] \in {life[1], AddConsumer(life[1]), RemoveConsumer(life[1])}
    PROVE  FirstPath'
<1>1. life[1] \in LifecycleStates
    BY DEF TypeOK
<1>2. /\ life[1].phase = "Waking" => life'[1].phase = "Waking"
      /\ life[1].phase \in {"Running", "Draining"} => life'[1].phase \in {"Running", "Draining"}
      /\ life'[1].phase \in {"Idle", "Waking"} => life[1].phase \in {"Idle", "Waking"}
    BY <1>1, SidesKept
<1>3. QED
    BY <1>2 DEF FirstPath

LEMMA FirstAdded ==
    ASSUME TypeOK, Added, Owned, Mounted, Alone, AddStream, added = 0
    PROVE  FirstPath'
<1>1. 1 \in Streams /\ 0 + 1 = 1
    BY RtspMountsAssumption DEF Streams
<1>2. factory = None /\ mounted = None
    <2>1. factory # None => handle[factory].owner \in Streams /\ handle[factory].owner <= 0
        <3>1. factory # None => factory \in DOMAIN handle
            BY LenType DEF TypeOK, None
        <3>2. \A h \in DOMAIN handle : handle[h].owner \in Streams
            BY HandleAt DEF HandleType
        <3>3. QED
            BY <3>1, <3>2 DEF Owned
    <2>2. QED
        BY <2>1 DEF Streams, Mounted
<1>3. at[1] = "new" /\ sink[1] = NoSink /\ kept[1] = None /\ life[1] = Lazy /\ torn = {}
    BY <1>1 DEF Added, Alone
<1>4. /\ at'[1] = "select" /\ life'[1] = RemoveConsumer(AddConsumer(Lazy))
      /\ UNCHANGED <<factory, mounted, sink, kept, torn>>
    BY <1>1, <1>3 DEF AddStream, Goto, TypeOK, server
<1>5. QED
    BY <1>2, <1>3, <1>4 DEF FirstPath, Making

\* What its watcher does before there is a sink to make.
LEMMA FirstWaits ==
    ASSUME TypeOK, FirstPath, 1 \in Streams, InTable(1),
           \/ Observe(1) \/ GiveUpState(1) \/ RunningHandler(1) \/ ReportError(1)
           \/ DrainingHandler(1) \/ Park(1) \/ ReportReady(1)
    PROVE  FirstPath'
<1>0. /\ life[1] \in LifecycleStates /\ life[1].phase \in Phases
      /\ UNCHANGED <<making, kept>> /\ at'[1] \notin Making
    <2>1. life[1] \in LifecycleStates /\ life[1].phase \in Phases
        BY DEF TypeOK, LifecycleStates
    <2>2. QED
        BY <2>1 DEF Observe, GiveUpState, RunningHandler, ReportError, DrainingHandler, Park,
                    ReportReady, Goto, TypeOK, Making, Phases
<1>1. CASE Observe(1)
    <2>1. at[1] = "select" /\ at'[1] = life[1].phase
          /\ UNCHANGED <<life, sink, torn, factory, mounted>>
        BY <1>1 DEF Observe, Goto, TypeOK, clients, server
    <2>2. QED
        BY <1>0, <2>1 DEF FirstPath, Phases, Making
<1>2. CASE GiveUpState(1)
    <2>1. /\ at[1] \in {"Idle", "Waking"} /\ sink'[1] = NoSink
          /\ at'[1] = IF at[1] = "Idle" THEN "select" ELSE "create"
          /\ UNCHANGED life
        BY <1>2 DEF GiveUpState, Goto, TypeOK, clients
    <2>2. sink[1] = NoSink \/ sink[1].preserve
        BY <2>1 DEF FirstPath
    <2>3. UNCHANGED <<factory, mounted>> /\ torn' \subseteq torn \cup ({sink[1]} \ {NoSink})
        BY <1>2, <2>2 DEF GiveUpState, Tear, RemoveSink, server
    <2>4. \A k \in torn' : k.preserve
        BY <2>2, <2>3 DEF FirstPath
    <2>5. QED
        BY <1>0, <2>1, <2>3, <2>4 DEF FirstPath
<1>3. CASE RunningHandler(1)
    <2>1. at[1] = "Running" /\ at'[1] = (IF alive[1] THEN "select" ELSE "error")
          /\ UNCHANGED <<life, torn, factory, mounted>>
        BY <1>3 DEF RunningHandler, Goto, TypeOK, clients, server
    <2>2. life[1].phase \in {"Running", "Draining"}
        BY <2>1 DEF FirstPath
    <2>3. ~alive[1] => sink'[1] = NoSink \/ sink'[1].preserve
        <3>1. sink[1] # NoSink => sink'[1].preserve = (sink[1].preserve \/ ~alive[1])
            BY <1>3, Preserved
        <3>2. sink[1] = NoSink => sink'[1] = NoSink
            BY <1>3, Preserved
        <3>3. QED
            BY <3>1, <3>2
    <2>4. QED
        BY <1>0, <2>1, <2>2, <2>3 DEF FirstPath
<1>4. CASE ReportError(1)
    <2>1. at[1] = "error" /\ at'[1] = "select"
          /\ life'[1] = ResetErrorBackoff(PipelineError(life[1]))
          /\ UNCHANGED <<sink, torn, factory, mounted>>
        BY <1>4 DEF ReportError, Goto, TypeOK, server
    <2>2. life'[1].phase = IF life[1].phase \in {"Idle", "Draining"} THEN "Idle" ELSE "Waking"
        <3>1. PipelineError(life[1]) \in LifecycleStates
            BY <1>0, OperationsTyped
        <3>2. /\ PipelineError(life[1]).phase =
                   IF life[1].phase \in {"Idle", "Draining"} THEN "Idle" ELSE "Waking"
              /\ ResetErrorBackoff(PipelineError(life[1])).phase = PipelineError(life[1]).phase
            BY <1>0, <3>1, ReportsMovePhase
        <3>3. QED
            BY <2>1, <3>2
    <2>3. QED
        BY <1>0, <2>1, <2>2 DEF FirstPath
<1>5. CASE DrainingHandler(1)
    <2>1. /\ at[1] = "Draining" /\ UNCHANGED <<sink, torn, factory, mounted>>
          /\ \/ at'[1] = "select" /\ life'[1] = life[1]
             \/ /\ life'[1] = DrainExpired(life[1])
                /\ at'[1] = IF DrainExpires(life[1]) THEN "park" ELSE "select"
        BY <1>5 DEF DrainingHandler, Goto, TypeOK, server
    <2>2. life[1].phase \in {"Running", "Draining"}
        BY <2>1 DEF FirstPath
    <2>3. DrainExpired(life[1]).phase = IF DrainExpires(life[1]) THEN "Idle" ELSE life[1].phase
        BY <1>0, ReportsMovePhase DEF DrainExpires
    <2>4. DrainExpires(life[1]) <=> life[1].phase = "Draining"
        BY DEF DrainExpires
    <2>5. QED
        BY <1>0, <2>1, <2>2, <2>3, <2>4 DEF FirstPath
<1>6. CASE Park(1)
    <2>1. at[1] = "park" /\ at'[1] = "select" /\ sink'[1] = NoSink
          /\ UNCHANGED <<life, factory, mounted>>
        BY <1>6 DEF Park, Goto, TypeOK, clients, server
    <2>2. \A k \in torn' : k.preserve
        <3>1. PICK k : k = IF sink[1] = NoSink THEN NoSink ELSE [sink[1] EXCEPT !.preserve = TRUE]
            OBVIOUS
        <3>2. torn' \subseteq torn \cup ({k} \ {NoSink})
            BY <1>6, <3>1 DEF Park, Tear
        <3>3. k # NoSink => k.preserve
            BY <3>1 DEF TypeOK, Sinks
        <3>4. QED
            BY <3>2, <3>3 DEF FirstPath
    <2>3. QED
        BY <1>0, <2>1, <2>2 DEF FirstPath
<1>7. CASE ReportReady(1)
    <2>1. at[1] = "ready" /\ at'[1] = "select" /\ life'[1] = PipelineReady(life[1])
          /\ UNCHANGED <<sink, torn, factory, mounted>>
        BY <1>7 DEF ReportReady, Goto, TypeOK, server
    <2>2. life'[1].phase \in {"Running", "Draining"}
        <3>1. life[1].phase = "Waking"
            BY <2>1 DEF FirstPath
        <3>2. QED
            BY <1>0, <2>1, <3>1, ReportsMovePhase
    <2>3. QED
        BY <1>0, <2>1, <2>2 DEF FirstPath
<1>8. QED
    BY <1>1, <1>2, <1>3, <1>4, <1>5, <1>6, <1>7

\* What is said of its path while a sink is made.
FirstMaking ==
    /\ \A k \in torn : k.preserve
    /\ life[1].phase = "Waking" /\ sink[1] = NoSink
    /\ at[1] # "mount" => mounted = factory
    /\ at[1] \in {"mount", "rest"} => factory = making[1].handle

LEMMA WhileMaking == at[1] \in Making \cup {"create"} /\ FirstPath => FirstMaking
BY DEF FirstPath, FirstMaking, Making

LEMMA StillMaking ==
    FirstMaking' /\ at'[1] \in Making \cup {"create", "error"} => FirstPath'
BY DEF FirstPath, FirstMaking, Making

\* The steps that make it.
LEMMA FirstMakes ==
    ASSUME TypeOK, Added, Owned, Mounted, Factored, FirstPath, 1 \in Streams, InTable(1), added = 1,
           \/ CreateSink(1) \/ SwapValve(1) \/ Link(1) \/ CreationFails(1) \/ CheckFactory(1)
           \/ Unmount(1) \/ InsertFactory(1) \/ Mount(1) \/ RestFails(1) \/ CreationSucceeds(1)
    PROVE  FirstPath'
<1>1. CASE CreateSink(1)
    <2>1. at[1] = "create" /\ UNCHANGED <<life, sink, torn, factory, mounted>>
        BY <1>1 DEF CreateSink, clients, server
    <2>2. at'[1] \in {"link", "swap"}
        BY <1>1, HandleMade
    <2>3. QED
        BY <2>1, <2>2, WhileMaking, StillMaking DEF FirstMaking, Making
<1>2. CASE SwapValve(1)
    <2>1. at[1] = "swap" /\ at'[1] = "link" /\ UNCHANGED <<life, sink, factory, mounted>>
        BY <1>2 DEF SwapValve, Goto, TypeOK, clients, server
    <2>2. \A k \in torn' : k.preserve
        <3>1. \A k \in torn : k.preserve /\ [k EXCEPT !.stale = TRUE].preserve
            BY DEF FirstPath, TypeOK, Sinks
        <3>2. \A k \in torn' : \E j \in torn : k = j \/ k = [j EXCEPT !.stale = TRUE]
            BY <1>2 DEF SwapValve
        <3>3. QED
            BY <3>1, <3>2
    <2>3. QED
        BY <2>1, <2>2, WhileMaking, StillMaking DEF FirstMaking, Making
<1>3. CASE Link(1)
    <2>1. at[1] = "link" /\ at'[1] = "check" /\ UNCHANGED <<life, sink, torn, factory, mounted>>
        BY <1>3 DEF Link, Goto, TypeOK, clients, server
    <2>2. QED
        BY <2>1, WhileMaking, StillMaking DEF FirstMaking, Making
<1>4. CASE CreationFails(1)
    <2>1. at[1] \in {"create", "link", "check"} /\ at'[1] = "error"
          /\ UNCHANGED <<life, sink, torn, factory, mounted>>
        BY <1>4 DEF CreationFails, Goto, TypeOK, clients, server
    <2>2. QED
        BY <2>1, WhileMaking, StillMaking DEF FirstMaking, Making
<1>5. CASE CheckFactory(1)
    <2>1. at[1] = "check" /\ at'[1] = (IF factory # None THEN "rest" ELSE "unmount")
          /\ UNCHANGED <<life, sink, torn, factory, mounted, making>>
        BY <1>5 DEF CheckFactory, Goto, TypeOK, clients, server
    <2>2. factory # None => factory = making[1].handle
        <3>1. SUFFICES ASSUME factory # None PROVE factory = making[1].handle
            OBVIOUS
        <3>2. PICK s : s = handle[factory].owner
            OBVIOUS
        <3>3. s = 1
            <4>1. factory \in DOMAIN handle
                BY <3>1, LenType DEF TypeOK, None
            <4>2. s \in Streams /\ s <= 1
                BY <3>2, <4>1, HandleAt DEF Owned, HandleType
            <4>3. QED
                BY <4>2 DEF Streams
        <3>4. kept[1] # None /\ factory = kept[1]
            BY <2>1, <3>1, <3>2, <3>3 DEF Factored
        <3>5. QED
            BY <2>1, <3>4 DEF Owned, Owns, Making
    <2>3. QED
        BY <2>1, <2>2, WhileMaking, StillMaking DEF FirstMaking, Making
<1>6. CASE Unmount(1)
    <2>1. at[1] = "unmount" /\ at'[1] = "insert" /\ UNCHANGED <<life, sink, torn>>
        BY <1>6 DEF Unmount, Goto, TypeOK, clients
    <2>2. factory' = None /\ mounted' = None
        BY <1>6, Stopping DEF Unmount, Stopped
    <2>3. QED
        BY <2>1, <2>2, WhileMaking, StillMaking DEF FirstMaking, Making
<1>7. CASE InsertFactory(1)
    <2>1. UNCHANGED <<life, sink, torn>>
        BY <1>7 DEF InsertFactory, clients
    <2>2. at[1] = "insert" /\ at'[1] = "mount" /\ factory' = making'[1].handle
        BY <1>7, FactoryOnce
    <2>3. QED
        BY <2>1, <2>2, WhileMaking, StillMaking DEF FirstMaking, Making
<1>8. CASE Mount(1)
    <2>1. at[1] = "mount" /\ factory = making[1].handle
        BY <1>8 DEF Mount, FirstPath
    <2>2. factory # None
        BY <2>1, LenType DEF Owned, Owns, Making, None
    <2>3. at'[1] = "rest" /\ mounted' = factory /\ UNCHANGED <<life, sink, torn, factory, making>>
        BY <1>8, <2>2 DEF Mount, Goto, TypeOK, clients
    <2>4. QED
        BY <2>1, <2>3, WhileMaking, StillMaking DEF FirstMaking, Making
<1>9. CASE RestFails(1)
    <2>1. at[1] = "rest" /\ at'[1] = "error" /\ UNCHANGED <<life, sink, torn>>
        BY <1>9 DEF RestFails, Goto, TypeOK, clients
    <2>2. factory' = None /\ mounted' = None
        BY <1>9, RestStops DEF Stopped
    <2>3. QED
        BY <2>1, <2>2, WhileMaking, StillMaking DEF FirstMaking, Making
<1>10. CASE CreationSucceeds(1)
    <2>1. /\ at[1] = "rest" /\ at'[1] = "ready" /\ UNCHANGED <<life, torn, factory, mounted>>
          /\ kept'[1] = IF kept[1] = None THEN making[1].handle ELSE kept[1]
        BY <1>10 DEF CreationSucceeds, Goto, TypeOK, clients, server
    <2>2. kept'[1] = making[1].handle
        BY <2>1 DEF Owned, Owns, Making
    <2>3. mounted = making[1].handle /\ FirstMaking
        BY <2>1, WhileMaking DEF FirstMaking, Making
    <2>4. QED
        BY <2>1, <2>2, <2>3 DEF FirstPath, FirstMaking, Making
<1>11. QED
    BY <1>1, <1>2, <1>3, <1>4, <1>5, <1>6, <1>7, <1>8, <1>9, <1>10

LEMMA StepAlone ==
    TypeOK /\ Added /\ Owned /\ Mounted /\ Factored /\ Alone /\ [Next]_vars => Alone'
<1> SUFFICES ASSUME TypeOK, Added, Owned, Mounted, Factored, Alone, [Next]_vars PROVE Alone'
    OBVIOUS
<1>0. added \in Nat /\ 1 \in Streams /\ 0 \notin Streams
    BY RtspMountsAssumption DEF TypeOK, Streams
<1>1. CASE AddStream
    <2>1. added' = added + 1 /\ torn' = torn
        BY <1>1 DEF AddStream
    <2>2. added' # 0 /\ (added' = 1 => added = 0)
        BY <1>0, <2>1
    <2>3. QED
        BY <1>1, <2>2, FirstAdded DEF Alone
<1>2. ASSUME added' = added, added = 0 => torn' = {},
             added = 1 /\ InTable(1) /\ InTable(1)' => FirstPath'
      PROVE  Alone'
    <2>1. InTable(1)' => InTable(1)
        BY <1>0, <1>2, TableGrows DEF AddStream
    <2>2. QED
        BY <1>2, <2>1 DEF Alone
<1>3. CASE DropStream \/ ReleaseStream
    <2>1. table # None
        BY <1>3 DEF DropStream, ReleaseStream, Added
    <2>2. added # 0 /\ added' = added
        BY <1>3, <2>1 DEF TypeOK, None, DropStream, ReleaseStream
    <2>3. ~InTable(1)'
        BY <1>0, <1>3 DEF DropStream, ReleaseStream, InTable, None
    <2>4. QED
        BY <2>2, <2>3 DEF Alone
<1>4. ASSUME NEW s \in Streams, WatcherActs(s)
      PROVE  Alone'
    <2>1. added' = added /\ (at'[s] = "ended" => ~InTable(s))
        BY <1>4, OwnStream
    <2>2. added \in {0, 1} => s = 1 /\ added = 1
        BY <1>4, FirstWatcher
    <2>3. ASSUME added = 1, InTable(1)
          PROVE  FirstPath'
        <3>1. s = 1 /\ FirstPath
            BY <2>2, <2>3 DEF Alone
        <3>2. ~WatcherEnds(1)
            BY <2>3 DEF WatcherEnds
        <3>3. QED
            BY <1>0, <1>4, <2>3, <3>1, <3>2, FirstWaits, FirstMakes DEF WatcherActs, WatcherStep
    <2>4. QED
        BY <1>2, <2>1, <2>2, <2>3
<1>5. ASSUME added' = added, UNCHANGED <<at, sink, making, kept>>,
             UNCHANGED <<factory, mounted>> \/ \E k \in torn : ~k.preserve,
             torn' \subseteq torn,
             \A s \in Streams : life'[s] \in {life[s], AddConsumer(life[s]), RemoveConsumer(life[s])}
      PROVE  Alone'
    <2>1. added = 0 => torn' = {}
        BY <1>5 DEF Alone
    <2>2. ASSUME added = 1, InTable(1)
          PROVE  FirstPath'
        <3>1. FirstPath
            BY <2>2 DEF Alone
        <3>2. UNCHANGED <<factory, mounted>>
            BY <1>5, <3>1 DEF FirstPath
        <3>3. QED
            BY <1>0, <1>5, <3>1, <3>2, FirstKept
    <2>3. QED
        BY <1>2, <1>5, <2>1, <2>2
<1>6. CASE \/ \E s \in Streams : OtherConsumer(s)
           \/ \E m \in Media : OpenValve(m) \/ CloseValve(m)
    <2>1. UNCHANGED <<added, at, sink, making, kept>>
        BY <1>6, Consumers DEF watcher
    <2>2. UNCHANGED <<torn, factory, mounted>>
        BY <1>6 DEF OtherConsumer, OpenValve, CloseValve, server
    <2>3. QED
        BY <1>5, <1>6, <2>1, <2>2, Consumers
<1>7. CASE \/ \E s \in Streams : PipelineDies(s)
           \/ \E k \in torn : Teardown(k)
           \/ \E m \in Media : Configure(m) \/ Unprepare(m)
           \/ UNCHANGED vars
    <2>1. UNCHANGED <<added, life, at, sink, making, kept>>
        BY <1>7, NothingOfStreams
    <2>2. torn' \subseteq torn
        BY <1>7 DEF PipelineDies, Teardown, Configure, Unprepare, vars
    <2>3. UNCHANGED <<factory, mounted>> \/ \E k \in torn : ~k.preserve
        BY <1>7 DEF PipelineDies, Teardown, RemoveSink, Configure, Unprepare, vars, server
    <2>4. QED
        BY <1>5, <2>1, <2>2, <2>3
<1>8. QED
    BY <1>1, <1>3, <1>4, <1>6, <1>7 DEF Next, WatcherActs
-----------------------------------------------------------------------------
(* The theorems *)

LEMMA InitIInv == Init => IInv
<1> SUFFICES ASSUME Init PROVE IInv
    OBVIOUS
<1> USE RtspMountsAssumption DEF None
<1>0. /\ table = 0 /\ added = 0 /\ dropping = FALSE /\ watched = {} /\ torn = {} /\ handle = <<>>
      /\ factory = 0 /\ mounted = 0 /\ raced = {} /\ 0 \notin Streams
      /\ \A s \in Streams : /\ life[s] = Lazy /\ at[s] = "new" /\ sink[s] = NoSink
                            /\ making[s] = NoSink /\ kept[s] = 0
      /\ \A m \in Media : media[m] = NoMedia
    BY DEF Init, Streams
<1>1. TypeOK
    <2>1. Len(handle) = 0 /\ handle \in Seq(HandleType) /\ DOMAIN handle = {}
        BY <1>0
    <2>2. TypesOfServer
        <3>1. NoMedia \in MediaType
            BY <2>1 DEF NoMedia, MediaType
        <3>2. kept \in [Streams -> 0..Len(handle)] /\ media \in [Media -> MediaType]
            BY <2>1, <3>1 DEF Init
        <3>3. QED
            BY <1>0, <2>1, <3>2 DEF TypesOfServer
    <2>3. TypesOfStreams
        <3>1. life \in [Streams -> LifecycleStates]
            BY LifecycleTyped DEF Init
        <3>2. at \in [Streams -> Labels]
            BY DEF Init, Labels
        <3>3. alive \in [Streams -> BOOLEAN] /\ loaded \in [Streams -> BOOLEAN]
            BY DEF Init
        <3>4. table \in 0..added /\ added \in 0..MaxStreams /\ dropping \in BOOLEAN
              /\ watched \subseteq Streams
            <4>1. 0 \in 0..0 /\ 0 \in 0..MaxStreams
                BY RtspMountsAssumption
            <4>2. table \in 0..added /\ added \in 0..MaxStreams
                BY <1>0, <4>1, Zenon
            <4>3. dropping \in BOOLEAN /\ watched \subseteq Streams
                BY <1>0
            <4>4. QED
                BY <4>2, <4>3
        <3>5. QED
            BY <3>1, <3>2, <3>3, <3>4 DEF TypesOfStreams
    <2>4. TypesOfSinks
        BY <1>0 DEF Init, TypesOfSinks, SinkType
    <2>5. QED
        BY <2>2, <2>3, <2>4, Typed
<1>2. Added
    BY <1>0, LazyFits DEF Added, InTable
<1>3. Owned
    BY <1>0 DEF Owned, Owns, Making
<1>4. Mounted /\ Factored /\ Answerable
    BY <1>0 DEF Mounted, Mounting, Factored, Answerable, NoMedia
<1>5. Fed
    BY <1>0 DEF Fed, NoMedia
<1>6. Valved
    BY <1>0 DEF Valved
<1>7. Alone
    BY <1>0 DEF Alone
<1>8. ConsumersCounted
    BY <1>0 DEF ConsumersCounted, InTable
<1>9. QED
    BY <1>1, <1>2, <1>3, <1>4, <1>5, <1>6, <1>7, <1>8 DEF IInv

\* What is said of a path holds for any number of streams, handles and media.
THEOREM InductiveInvariant == Spec => []IInv
<1>1. IInv /\ [Next]_vars => IInv'
    <2> SUFFICES ASSUME IInv, [Next]_vars PROVE IInv'
        OBVIOUS
    <2>1. /\ TypeOK /\ Added /\ Owned /\ Mounted /\ Factored /\ Answerable /\ Fed /\ Valved /\ Alone
          /\ ConsumersCounted
        BY DEF IInv
    <2>2. TypeOK' /\ Added' /\ Owned' /\ Mounted'
        BY <2>1, StepTyped, StepAdded, StepOwned, StepMounted
    <2>3. Factored' /\ Answerable' /\ Fed' /\ Valved' /\ Alone'
        BY <2>1, StepFactored, StepAnswerable, StepFed, StepValved, StepAlone
    <2>4. ConsumersCounted'
        <3>1. \A s \in Streams : InTable(s) => Counted(s)
            <4>1. \A s \in Streams : life[s] \in LifecycleStates /\ CountFits(life[s])
                BY <2>1, AddedLife
            <4>2. QED
                BY <2>1, <4>1, CountShown DEF ConsumersCounted, Counted, Told
        <3>2. \A s \in Streams : InTable(s)' => Counted(s)'
            BY <2>1, <3>1, StepCounted
        <3>3. \A s \in Streams : life'[s] \in LifecycleStates /\ CountFits(life'[s])
            BY <2>2 DEF TypeOK, Added
        <3>4. QED
            BY <3>2, <3>3, CountShown DEF ConsumersCounted, Counted, Told
    <2>5. QED
        BY <2>2, <2>3, <2>4 DEF IInv
<1>2. QED
    BY <1>1, InitIInv, PTL DEF Spec

\* Each RTSP client of a path is counted once, whatever handles, factories and pipelines it
\* came through; it is fed from the sink its stream has; a path without a stream is gone.
THEOREM MediaInvAlways == Spec => []MediaInv
<1>1. IInv => PathFreed
    BY DEF IInv, PathFreed, Answerable, Mounted
<1>2. IInv => MediumIsFed
    <2> SUFFICES ASSUME IInv, NEW m \in Media, media[m].at = "playing", ~media[m].mixed,
                        NEW h, h = media[m].handle, NEW s, s = handle[h].owner
                 PROVE  /\ handle[h].appsrc = m
                        /\ ~media[m].orphan /\ InTable(s) /\ sink[s] # NoSink => sink[s].handle = h
        BY DEF MediumIsFed
    <2>1. TypeOK /\ Added /\ Owned /\ Mounted /\ Factored /\ Fed
        BY DEF IInv
    <2>2. handle[h].appsrc = m
        BY <2>1 DEF Fed
    <2>3. ASSUME ~media[m].orphan, InTable(s), sink[s] # NoSink
          PROVE  sink[s].handle = h
        <3>1. h \in DOMAIN handle /\ h = mounted /\ h # None
            BY <2>1, <2>3, LenType DEF Mounted, None
        <3>2. h = factory /\ s \in Streams
            BY <2>1, <3>1, HandleAt DEF Mounted, HandleType
        <3>3. sink[s].handle = kept[s]
            BY <2>1, <2>3, <3>2 DEF Added, Owned, Owns
        <3>4. sink[s].handle # None
            BY <2>1, <2>3, <3>2, RtspMountsAssumption DEF TypeOK, Sinks, None
        <3>5. QED
            BY <2>1, <2>3, <3>1, <3>2, <3>3, <3>4 DEF Factored
    <2>4. QED
        BY <2>2, <2>3
<1>3. IInv => MediaInv
    BY <1>1, <1>2 DEF IInv, MediaInv
<1>4. QED
    BY <1>3, InductiveInvariant, PTL

\* A valve that nothing is being done to is open if and only if its handle has clients,
\* unless two operations on it have overlapped.
THEOREM ValveFollowsAlways == Spec => []ValveFollowsClients
<1>1. IInv => ValveFollowsClients
    BY DEF IInv, Valved, ValvedAt, ValveFollowsClients
<1>2. QED
    BY <1>1, InductiveInvariant, PTL

\* The path of the first stream that has it stays mounted, with the handle of the stream's
\* sinks, while the stream is idle, runs or drains.
THEOREM ReachableFirst == Spec => []ReachableWhenIdle
<1>1. IInv => ReachableWhenIdle
    <2> SUFFICES ASSUME IInv, added <= 1, NEW s \in Streams,
                        InTable(s), kept[s] # None, life[s].phase # "Waking"
                 PROVE  mounted = kept[s] /\ (sink[s] = NoSink \/ sink[s].handle = mounted)
        BY DEF ReachableWhenIdle
    <2>1. TypeOK /\ Added /\ Owned /\ Alone
        BY DEF IInv
    <2>2. s = 1 /\ added = 1
        BY <2>1 DEF TypeOK, InTable, Streams
    <2>3. mounted = kept[s]
        BY <2>1, <2>2 DEF Alone, FirstPath
    <2>4. sink[s] = NoSink \/ sink[s].handle = kept[s]
        BY <2>1 DEF Added, Owned, Owns
    <2>5. QED
        BY <2>3, <2>4
<1>2. QED
    BY <1>1, InductiveInvariant, PTL
==============================================================================
