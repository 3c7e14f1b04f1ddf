# A formal model of mavlink-camera-manager

mavlink-camera-manager turns video sources (V4L2 cameras, GStreamer test sources, ONVIF and
other RTSP cameras) into streams that RTSP, WebRTC, UDP and Zenoh clients can watch, and
announces them as MAVLink cameras. What is hard about it is not video, which GStreamer does, but
*who keeps a pipeline alive and who may take it away*: pipelines are started when somebody
watches and parked when nobody does, and clients, sinks, watcher tasks, REST requests and
the settings file all act on the same streams at the same time. This directory models that part
in TLA+, checks it with TLC and proves most of its safety properties with TLAPS.

Paths below are relative to `src/lib` of the repository.

## 1. Inventory

| Component | State | Operations | Talks to |
|---|---|---|---|
| **Lifecycle** `stream/lifecycle` | `LifecycleState` (mode, phase, consumers, error_count), a command channel of 64, a published snapshot | add/remove_consumer (with and without reply), pipeline_ready, pipeline_error, drain_expired, reset_error_backoff, shutdown | everybody who counts as a consumer; the watcher |
| **Stream and watcher** `stream/mod.rs` | the pipeline state, drain start, failure tracker, persistent RTSP sink, MAVLink camera | the watcher loop (one handler per phase), creation, teardown on a blocking thread, eviction | lifecycle, pipelines, stream manager |
| **Stream manager** `stream/manager.rs` | `MANAGER`: the table of streams behind one async RwLock | add, remove, block, restart; add_session, remove_session; thumbnails | settings, streams, lifecycles |
| **Settings** `settings/manager.rs` | the settings record behind a std RwLock, and its JSON file | set_streams, block/unblock, reset, save, load | file system |
| **WebRTC signalling** `stream/webrtc/signalling_server.rs` | per connection: sessions, an mpsc channel, a receiver and a sender task | StartSession, EndSession, negotiation, drain of orphans | stream manager, sinks |
| **WebRTC sink** `stream/sink/webrtc_sink.rs` | webrtcbin, a fail-safe thread | negotiation, terminate | the connection's channel |
| **RTSP server and sink** `stream/rtsp`, `stream/sink/rtsp_sink.rs` | mounted factories, valve, client count | mount, unmount, client (dis)connected, valve swap on recreation | lifecycle (without reply), GLib main loop |
| **Pipeline and runner** `stream/pipeline` | GStreamer pipeline, tee, sinks; runner task and bus watcher | start, watchdog on position, add_sink, remove_sink, teardown | watcher (`is_running`) |
| **UDP, image, Zenoh sinks** `stream/sink` | sockets, last frame | push samples, make thumbnail | lifecycle (permanent consumer) |
| **MAVLink** `mavlink` | connection behind a RwLock, component ids | receive and send loops with reconnection, heartbeat, camera protocol | watcher (camera per stream) |
| **ONVIF** `controls/onvif` | discovered devices, cameras, credentials | discovery, authentication, clean-up | video sources |
| **Video sources** `video` | none of its own; V4L2 probing | available sources, formats, controls, matching saved devices (`update_devices`) | start-up, manager |
| **REST** `server` | none | handlers | stream manager, settings, ONVIF |
| **CLI, logger, helpers, Zenoh session, custom environments** | process-wide values | start-up | all |

Hard behaviours, and what makes each component correct:

* *Lifecycle*: holders of several kinds add and remove in any order while the watcher reports
  errors, readiness and expired drains. Nobody's add may be used up by somebody else's remove; an
  RTSP callback cannot wait and may lose its command, after which the count may drift only in the
  direction of what was lost; an eager stream must never park.
* *Watcher*: acts on a snapshot that may be old, sleeps and awaits in the middle of a handler,
  and must neither cut a watched pipeline off nor keep an unwatched one. Grace period, backoff
  and eviction timeout are three clocks that are set and cleared in different phases.
* *Sessions*: three tasks of a connection, the client and the sink may end the same session; a
  task may be aborted at any await; the stream below may be replaced by another with the same id.
* *Manager and settings*: requests check under one lock and act under another; every change is
  saved to a file that is truncated first; the process may die anywhere.
* *RTSP mounts*: a factory outlives the pipelines of its stream and its callbacks run on the server's
  threads; watchers, teardown threads and clients meet in a mutex, a valve and an atomic count. A
  client that is connected must see frames, an idle stream must stay reachable, a removed one not.
* *Runner*: two tasks and a channel decide that a pipeline is over. It must be over when its position
  stands still or it says so on its bus, also before the start command came, and only then: a late tick, a
  clock that is lost for a moment or an error of one sink must not end it.
* *Thumbnails*: many requests share one consumer, one raw frame, one encoder and one cache, each with
  its own timeout, all with the manager's lock in their hands. The consumer is given back once, the picture is
  the one that was asked for, and a writer of the manager's table gets in.
* *MAVLink*: two threads and all cameras share a connection and a few component ids. An id belongs to one
  camera at a time although aborted tasks end late; a request is answered once; the manager's mutex, held
  while a camera waits for the connection, is released.
* *WebRTC sink*: callbacks of webrtcbin, streaming threads and a ten-second killer. Encoders are taken out
  behind a blocked pad before data goes through them; a peer that connected is not killed; one that never
  does, or is lost, is ended; messages are in order, and the tee gets its pad back.
* *ONVIF*: scans on every interface, handlers that take seconds, credentials that come and go and a reset,
  all overlapping. Devices that are gone are forgotten, the older context's tasks do not leak into the
  new one, and removed credentials leave no camera that uses them.
* *Local devices*: a saved stream knows its camera by name, encode and bus; the kernel numbers nodes
  anew at every boot. Every stream must find the device it was made for.

`PROJECT.json` lists every hazard at its line, with the properties that cover it or the reason
none does yet.

## 2. Modules

| Module | Models | |
|---|---|---|
| `LifecycleState` | `lifecycle/states.rs`: the record and its methods as functions of the record; `compute_backoff` | pure; used by the modules that EXTEND it |
| `Lifecycle` | the actor, its bounded channel, the handle methods and the holders | EXTENDS LifecycleState |
| `PipelineLease` | what the lifecycle promises: leases, and power cut only while nobody holds one | abstract; implemented by Lifecycle |
| `LifecycleStateProofs` | lemmas about the operators of LifecycleState: types, what each does to the count and the phase | EXTENDS LifecycleState; used by the proofs of every module that holds a lifecycle |
| `LifecycleProofs`, `RtspMountsProofs`, `ThumbnailsProofs`, `MavlinkProofs` | TLAPS theorems about the module they are named after (section 5) | EXTENDS that module |
| `PipelineProofs`, `WebRTCProofs`, `SourceProofs` | theorems about modules that belong together: StreamWatcher and PipelineRunner; WebRTCSessions and WebRTCPeer; StreamManager, LocalDevices and OnvifDevices | EXTENDS them; they share no names |
| `StreamWatcher` | one `Stream`: watcher loop, creation, teardown, eviction, clients | EXTENDS LifecycleState |
| `WebRTCSessions` | signalling connections, add_session, remove_session, over a stream that comes and goes | EXTENDS LifecycleState |
| `RtspMounts` | one RTSP path: factory and mount, flow handle, valve, clients, and the streams that use the path | EXTENDS LifecycleState |
| `StreamManager` | the table of streams, REST requests, settings in memory and on disk, crashes | |
| `ImageSink` | `make_jpeg_thumbnail_from_last_frame`: raw frame, encoder, cache, timeouts | open module; its actions take part in Thumbnails |
| `Thumbnails` | thumbnail requests, their cooldown, the manager's lock, over one stream | EXTENDS ImageSink, LifecycleState |
| `PipelineRunner` | the runner's task, its bus task, start and drop | |
| `MavlinkLink` | the receiver and sender threads and the reconnection under one RwLock | open module; its actions take part in Mavlink |
| `Mavlink` | MAVLink cameras: ids, heartbeats, requests and answers | EXTENDS MavlinkLink |
| `OfferSdp` | `customize_sent_sdp`, and what its result must be | pure |
| `WebRTCPeer` | one WebRTC sink from creation to removal | EXTENDS OfferSdp |
| `OnvifDevices` | discovery, handling, credentials, clean-up, reset | |
| `LocalDevices` | listing V4L nodes, `update_devices`, `try_identify_device`, start_default | |
| `MC...` | TLC instances | |

In every module a definition named `X_Y` is a plausible mistake `Y` in the code of `X`. No
specification uses it; it documents what the property next to it in `PROJECT.json` guards against.

### Lifecycle
`state` is the actor's `LifecycleState`; `queue` the mpsc channel; `waiting` the tasks suspended in
`request()`. `RequestAdd`, `RequestRemove`, `RequestPipelineOp` are `send().await` (they need
room) with the wait for the reply; `AddInBackground`, `RemoveInBackground` are `try_send`, whose
second disjunct is the full channel. `Handle` is one turn of `LifecycleActor::run`: mutate,
publish, reply. `HandleShutdown` drops the receiver and with it every reply channel. `wants`,
`counted` and `lost` are history: who has asked to be in, whose last handled command was an add,
and what kinds of commands were dropped or saturated away. Each method of `states.rs` is one
operator; `remove_consumer`'s Waking and Running cases share the floor of eager streams.

### StreamWatcher
The watcher waits for each reply of the actor and the actor handles commands one at a time, so a
request is an atomic step here. What is not atomic is the watcher: `Observe` reads the snapshot,
and each handler is a separate action (`IdleHandler`, `WakingHandler`, ...) that acts on it,
split where the code awaits something that others can see: teardown, creation, the permanent
consumer of UDP and Zenoh sinks, `pipeline_ready`, `reset_error_backoff`, parking, the backoff.
`pc` is that position. `pipeline` abstracts `Stream::state`: `Default` is a state without pipeline
(`try_default`), `Live` and `Dead` tell what `is_running` says. `Tick` advances all clocks. Two variables are
history: `sinceRun`, the time since the lifecycle was last Running, by whatever way it came there, and `overlooked`,
that a client made it Running out of Draining while the failure tracker kept an older failure.

### WebRTCSessions
`task[t]` says for the receiver, sender and main task of every connection where it is, which
session it works on and which stream's lifecycle it has cloned. An action ends where the code
awaits or gives up `MANAGER`. `current` is the instance of the stream that now has the producer id:
a stream may be removed and a new one added under the same id. `Abort` is `JoinHandle::abort`: a
task ends wherever it waits. The stream itself is reduced to what sessions see: `WatcherCreates`,
`WatcherFails`, `WatcherParks`. The poke of `try_new` (one consumer added and removed before the
stream is in the table) is left out here: no session can see the stream yet.

### RtspMounts
One path of the RTSP server. `factory` is the entry of `path_to_factory`, `mounted` that of the mount
points; both stand for the flow handle their callbacks hold. A handle is a record of `handle`: the stream
whose lifecycle it informs, `client_count`, whether its valve is open, and the medium the shared
appsrc is of. A medium of a factory is shared by its clients (`set_shared`), so a medium exists once per
mounted factory, and more of them when an unmounted factory's medium plays on (`orphan`). Its two
callbacks are two actions each, because the count and the valve are separate steps
(`Configure`/`OpenValve`, `Unprepare`/`CloseValve`), and so is update_valve (`CreateSink`/`SwapValve`).

`at[s]` is the watcher of stream `s`, one action per handler and one per call of add_sink that touches the
server (`CheckFactory`, `Unmount`, `InsertFactory`, `Mount`): the server's mutex is given up between
them. `sink[s]` is the RTSP sink of the stream's state, `kept[s]` what `persistent_rtsp` holds,
`torn` the states that threads are dropping. A sink whose valve has been swapped is `stale`: its unlink
fails and `remove_sink` ends before it reaches the server. `DropStream` aborts the watcher, which ends at
its next await (`WatcherEnds`); who is last to let go of the state drops it. One assumption is about
time: a watcher that was aborted in the middle of a poll reaches its next await before another stream's
pipeline plays (guard of `Link`; the steps of `MidPoll` take microseconds, and playing takes at least
one turn of the wait loop). `raced` and `mixed` are history, for the exceptions of two properties.

### StreamManager
`streams` are the configurations in the table, `settings` and `file` the settings in memory and on
disk (`Torn`: truncated, does not parse). Every request is a record in `task` with what it still has
to remove and to add; actions end where the handler awaits or gives up a lock, and `locked` marks
the write lock of `MANAGER` that add_stream and remove_stream keep until the settings are saved.
Streams are identified by `Id`, which leaves out the host and, for sources that cannot be shared,
the name. A save may fail at both of its steps: the file cannot be opened and stays as it is (`OpenFails`), or the
write fails after it was truncated (`Write`). The code logs that and its caller goes on (`Saved`). `Crash` loses
everything but the file. `orderly` is history: no two requests have overlapped in one of the ways the code does not
guard against, no crash has cut one in two, and none came after a failed save. `failed` says that the
save that ended last did.

### ImageSink and Thumbnails
`at[r]` is where the thread of request `r` is, `want[r]` the settings it asks for. In ImageSink, `rawLock` and
`encLock` are `raw_capture_mutex` and `encode_mutex`; `encoder` holds the frames that were pushed into the
encoder pipeline and have not come out, `inbox` the receiver that its holder subscribed, `cache` what
`CachedThumbnails::try_get` returns. A frame is the last one captured or an older one, no more is told apart.
Freshness (one second, of the raw frame and of each JPEG) ends at any time, and every wait with a timeout
may end that way. Thumbnails puts a request around it: `Enter` takes the manager's lock for reading,
`cooldown` is `thumbnail_cooldown`, whose first request adds the consumer and whose thread (`sleepers`) gives
it back. tokio's locks are fair, so `queue` is the order in which the manager's lock was asked for, and a writer
that waits keeps later readers out. `parking` is the watcher that waits for the stream's state. `tangled`
and `overlapped` are history, for the exceptions of the properties on pictures.

### PipelineRunner
`task` is the runner's task: waiting for the start command, `settling` in `wait_for_element_state_async`, or
`watching`, the `select!` between the finish channel and the interval. `bus` is the unbounded channel the sync
handler fills; `busTask` the task that reads it and that, on ClockLost, takes the pipeline to Paused and back.
`gst` and `target` are GStreamer's states. Time counts in frames: `FramePasses` makes a tick due, whatever the
tasks do; `due` are those not yet taken, and a late task takes several at once (`burst`). Of the position
only its distance to the one seen last matters: none, within the tolerance, beyond it.

### MavlinkLink and Mavlink
`pc[t]` is where a thread is with the lock of the connection, and the lock's state is read off it: `inside`
has it for reading, `failed` has left the loop without a guard, `asking` has called `write()`, which keeps new readers
out, and `connecting` has it for writing. `connection` tells a working connection from one that broke. `Exclusive` says that the address is one
that can be bound once. In Mavlink, `camera[c]` is the life of a camera, `ids` how often each id is in
the vector of ids in use (only membership and removal of one occurrence matter to the code), `mutex` who holds MANAGER's mutex in `get_sender`. `heart[c]` and `task[c]` are the two tasks; dropping the
camera aborts them, and they end where they wait next, which is not at once: a loop that is being polled goes on
to whatever is ready (`polling`, `handling`; `Park` and `Wake` are where it gives way). `caught` remembers the cameras
whose messages_loop the abort met like that, and `due` the heartbeats that a late heartbeat_loop sends in one poll. A request from the network is a record of what
decides its handling (`kind`, the component it is `to`, the control); `inbox[c]` is the camera's receiver, which
lags when it is slow (`Overflow`); `todo[c]` the messages that are still to be said about `hand[c]`, with the wait of
`reset_controls` among them. `ControlIdOf` reads the first eight of the sixteen bytes that an id is listed in.

### OfferSdp and WebRTCPeer
OfferSdp computes the edit of a media section step by step as the code does, by index on two lists, and
states the result without indices (`IsCleaned`, `IsPlayable`). That an fmtp is found by a prefix of its text is as in the
code; among the payload types webrtcbin gives, none is a prefix of another. In WebRTCPeer, `stage` is the sink, `tee` its pad,
`probe` the BLOCK probe, `queued` the buffers behind it, `encoders` what is excised; `busy` is the callback
that webrtcbin's thread runs, one at a time; `killer` and `told` are the FailSafeKiller and its channel. What the
peer does and how the connection fares are free choices. `said` keeps the first message of each kind. `Link` may have to do without the BLOCK probe, which the code only logs.

### OnvifDevices
A `Tick` is one scan of 20 s, and happens only when nothing can be done at once. Each reset makes a new
`context`; scans and jobs remember theirs, because tasks of the old one run on. `loop` is
`discover_loop`, `scans` one task per interface, `jobs` the devices that are being handled, with the place where
a job is between its locks (`at`) and whether it read credentials (`auth`). `cameras[context][d]` is the stored camera
with its age. Every SOAP request and every probe of a stream is one outcome of its job.

### LocalDevices
`bus` and `path` are the machine: where cameras are plugged in and how the kernel numbered their nodes. The
saved streams (`saved`) are records of what `try_identify_device` compares. `List` is cameras_available, `Update` one round
of update_devices, in any order because the streams come out of a hash map; `Filter` and `Start` the rest of
start_default. `undisturbed` is history: no camera has been unplugged yet.

## 3. Runs

| Run | Properties | Shows |
|---|---|---|
| `lifecycle` | LifecycleInv, EagerNeverParks, ExactCount, DriftFollowsLoss, ImplementsLease, EveryRequestReturns | The actor counts exactly until a command is lost, drifts only in the direction of the loss, implements the lease, and answers or fails every request |
| `watcher` | WatcherInv, EvictedOnlyAfterTimeout, FullGrace, Served, Released | Stale snapshots cut nobody off; consumers survive errors and recreations; the three clocks keep their meaning but for a recovery the failure tracker overlooks; clients are served, unwatched pipelines released |
| `sessions` | OneConsumerPerSession, NoOrphanSink, ClosedCleanly, EndedSessionsLeave | However a session ends, and however often, its consumer is given back once; a connection that is not cut in mid-operation leaves nothing; a session whose sink gives up is ended |
| `manager` | FileIsCurrent, SettledAsWanted, TableInv | The file follows the settings unless the last save failed; what runs is what was asked for, as long as requests do not overlap in the ways named by `Overlaps` |
| `rtsp_path` | ValveFollowsClients, ReachableWhenIdle, MediaInv | Over recreations, parking, failed creations and a second stream on the path the valve follows the clients, the first stream stays reachable while idle, clients are counted once, frames reach the medium that plays, and a removed stream leaves nothing |
| `thumbnails` | ConsumersInv, PicturesInv, WriterGetsIn | Whatever times out, the cooldown's consumer is given back once, a picture has the settings it was asked with, and a writer of the manager gets in |
| `runner` | RunnerInv, FatalEndsRunner, FrozenIsNoticed | A runner ends for a cause, and ends when there is one, whenever it was started and however late its ticks are |
| `mavlink` | ComponentsInv, OneAnswerer, AnswersFit, ManagerIsReleased | Ids are unique and a dropped camera falls silent although aborted tasks end late; a request to a component has one answerer, but for loops aborted in the middle of a poll; answers fit the request, also with ids that are not read in full; get_sender returns |
| `webrtc_peer` | PeerInv, OffersAreClean, KillerSparesConnected, NeverConnectedIsEnded, LostIsEnded | Offers are edited right, encoders go before data does, and the killer and the monitors end the sessions they should, and no others |
| `onvif` | DevicesInv, GoneIsForgotten, UnauthenticatedIsForgotten | Credentials of the command line are used from the first request on; a reset leaves nothing of before; what is gone or locked again is forgotten |
| `local_devices` | DevicesFound | While no camera moves, every saved stream finds its device after any number of boots, also beside a twin |
| `mavlink_rebind` | LinkRestored | violated: finding 1 |

A property named `...Inv` is the conjunction of a module's type invariant with its smaller invariants, each
of which is a definition of its own with a comment:

| | |
|---|---|
| `LifecycleInv` | TypeOK, CountMatchesPhase |
| `WatcherInv` | TypeOK, RunningHasPipeline, ConsumersAccountedFor, PinnedStaysUp |
| `TableInv` (StreamManager) | TypeOK, NoConflicts, BlockedUnlessOverlapped |
| `MediaInv` (RtspMounts) | TypeOK, ConsumersCounted, PathFreed, MediumIsFed |
| `ConsumersInv`, `PicturesInv` (Thumbnails) | TypeOK, CooldownOwned, ThumbnailConsumers; JpegAsAsked, CacheShowsLastFrame |
| `RunnerInv` | RunnerTypeOK, StuckMeansStill, OnlyFatalMessages |
| `ComponentsInv` (Mavlink) | TypeOK, IdsMatchCameras, DroppedFallsSilent |
| `PeerInv` | PeerTypeOK, NothingPassesUnshaped, MessagesInOrder, PadGivenBack |
| `DevicesInv` (OnvifDevices) | OnvifTypeOK, UrlCredentialSeen, ResetIsClean |
| `DevicesFound` (LocalDevices) | LocalTypeOK, FollowCameras, IdentifiedApart |

`TypeOK` of WebRTCSessions documents the types and is in no run.

Deadlock checking is on for `onvif`, where discovery never stops, and off elsewhere, because the
system may rightly stop there: the lifecycle after Shutdown, a stream or a sink that is dropped,
connections that have closed, a runner that has ended, or a model whose budget of requests, crashes, boots or
breaks is spent.

### Bounds
* `lifecycle`: counters saturate at 3 with three holders and a phantom (so saturation happens), a
  channel of 2 (so it is full with three senders), all commands of the watcher in any order.
  About 264,000 states.
* `watcher`: two clients (one may come as the other leaves), grace 2, eviction 3 and backoff 1-2
  ticks, so that every clock can expire before and after every other; at most 2 creations of a
  pinned stream, each of which adds a consumer. About 86,000 states.
* `sessions`: one connection with its three tasks, which may all end one of two sessions, two instances of the
  stream (removed and added again), one pipeline error per streak. Connections meet only in the stream's
  lifecycle and in MANAGER's lock, where two sessions of one connection meet as well.
* `manager`: two requests at a time beside the boot task, three configurations chosen so that
  there is a pair with one id, a pair with a common endpoint and one shareable source; one crash and one
  save that fails. The requests are interchangeable, hence SYMMETRY. About 3.6 million states.
* `rtsp_path`: two streams, two media, of which the second needs the first one's factory to be gone, and two
  handles, since a creation that fails before anything is kept makes a new one. Both media are followed with the first
  stream; with the second on the path the state constraint `OneMediumForTheSecond` keeps to one at a time, which
  may be one the first stream left behind. About 2.4 million states.
* `thumbnails`: two requests, the least that share anything, with one of two settings each; two frames in
  the encoder, so that one waits behind another; one failure of the pipeline. About 323,000 states.
* `runner`: the watchdog gives up after 2 ticks of 150 and the start after 2 polls of 50; the counters only
  count to their limits, so that 2 has all the cases: before, at and behind the limit. Two messages on the bus,
  two ticks behind. About 358,000 states.
* `mavlink`: three cameras, one of which cannot be announced, and one id, so that every id is used again; two
  requests, so that a loop can have one in hand and the next in its receiver when it is aborted: information for one
  component, a control that is set by an id of nine digits, and a reset of all; one break of the network; heartbeats in
  bursts of up to two; a broadcast of 1, so that it lags. The state constraint `OneAtATime` keeps apart what only shares
  the broadcast: once a request has come, the link holds and no heartbeat is under way (`Overflow` still loses
  requests at any time), and after a break heartbeats come one at a time from cameras that were not dropped.
  Captures, lists and reads are in the module and the proofs, not in this instance. About 1.0 million states.
* `webrtc_peer`: media sections are all ordered choices of four of seven attributes (a video format with its
  parameters, RED, FEC, recvonly, and an extension with the id of the playout delay); two encoders, so that one may be
  out and one not; one buffer in the queue, two offers, two losses. About 377,000 states.
* `onvif`: an open and a locked device, the second found over both interfaces; one reset, one call of a
  user, one change of the network, each at any time. About 454,000 states.
* `local_devices`: four nodes of three cameras, of which two have one name and one gives its encodes at two
  nodes; three ports, four paths, two streams, two boots and two plugs, one between them. Ports, paths
  and streams are interchangeable, hence SYMMETRY. About 168,000 states.

Bounds in guards: `MaxPins` (creations of a pinned stream), `MaxInstances` (streams added),
`MaxErrors` (pipeline errors: in a row in WebRTCSessions, altogether in Thumbnails), `MaxCrashes`, `MaxFailures` (saves that fail), `MaxStreams`
and `MaxHandles` (RtspMounts), `MaxPending` (frames in the encoder), `MaxDue` and `MaxBus` (PipelineRunner),
`MaxReceived`, `MaxBreaks` and `Burst` (Mavlink), `MaxQueued`, `MaxOffers` and `MaxLosses` (WebRTCPeer), `MaxResets`,
`MaxCalls` and `MaxChanges` (OnvifDevices), `MaxBoots` and `MaxPlugs` (LocalDevices). Session ids are used once each.

### Fairness
* `Lifecycle!FairSpec`: the actor is a tokio task and is polled while its channel is not empty.
* `StreamWatcher!FairSpec`: the watcher and the teardown threads are scheduled, time passes,
  try_new runs on, and the removal an eviction spawns takes place. One assumption is about the
  environment: a source that is tried again and again is not down for ever (strong fairness of
  `WakeSucceeds`). Nothing is assumed of clients, dying pipelines or a stream being dropped.
* `WebRTCSessions!FairSpec`: a task that can go on does. Clients, sockets, sinks and the stream may
  do what they like, or nothing.
* `Thumbnails!FairSpec`: threads and the watcher are scheduled; every wait of a request has a timeout; tokio's
  locks are fair; the cooldown ends; the writer takes and releases the lock when it can. Nobody has to ask.
* `PipelineRunner!FairRunnerSpec`: the tasks are polled, frames' time passes, GStreamer reaches the state that was
  asked for unless it fails, and the owner starts what it created unless it drops it. Strong fairness
  of `TakeFinish` alone: `select!` picks at random among what is ready, so a full channel is not passed over for
  ever by ticks that are always due.
* `Mavlink!FairSpec`: the threads of the link run, the network returns, get_sender goes on when its locks are
  free. Nothing is assumed of cameras being made or dropped.
* `WebRTCPeer`: the killer, webrtcbin's thread and the manager that links and starts the sink are scheduled.
  Nothing is assumed of the peer, the network or the websocket.
* `OnvifDevices`: something happens as long as something can (`Progress`): every request and every probe has a
  timeout. Devices, interfaces, users and resets are free.
* `StreamManager`, `RtspMounts` and `LocalDevices` have no liveness property: that a waiting client gets a
  pipeline is `Served` of StreamWatcher.

## 4. Findings

1. **A reconnection that binds never succeeds** (`mavlink_rebind`). A thread that finds the MAVLink connection
   broken calls `inner.connection.replace(Connection::connect(..))` (`mavlink/manager.rs:133`), which makes the
   new connection before the old one is dropped. With an address that binds a port, as the default does, the port
   is still taken; connect tries again every second for ever, with the write lock held. Neither thread reads or
   sends again, `get_sender` waits for that lock with the mutex of MANAGER held, and every stream whose
   camera starts or ends then waits for the mutex. In the run `mavlink`, where addresses do not exclude each other,
   the lock comes free.

### Known behaviours

The code does not keep these either, for the reason given. Where a property is named, it is stated in its module because
one would expect it, as named or without the condition said here, and no run lists that form as passing: add it to the cfg of
the module's run and TLC prints the trace. The control ids need no trace, `ControlIdOf` is how the code reads them.

* **An old failure evicts a healthy stream** (`RetriedForTheTimeout` of StreamWatcher). `cli/manager.rs:154` describes the
  timeout as "How long to keep retrying failed stream recreation before removing the stream." The failure tracker is reset
  only when `pipeline_ready` itself reaches Running (`stream/mod.rs:532`). If nobody watches at that moment the
  lifecycle drains, and a client that arrives makes it Running through add_consumer: the stream works and the tracker still
  holds the time of the old failure. The next failure, whenever it is, finds the timeout exceeded, and the stream is removed
  from the table and the settings at its first failed attempt. `EvictedOnlyAfterTimeout`, which the run `watcher` checks
  and `EvictionAlways` proves, says that this is the only way: with `overlooked` FALSE the timeout has passed since the
  stream was last Running.
* **A parked pipeline's teardown is not awaited** (`ReleasedBeforeRecreation` of StreamWatcher). The Waking handler awaits the
  teardown "so GStreamer resources are fully released before creating the new pipeline" (`stream/mod.rs:320`), but a
  pipeline parked by Draining or Idle is dropped on a thread whose handle nobody keeps; a client that connects right then
  gets its new pipeline created beside the old one.
* **A blocked source may run** (`BlockedSourcesDoNotRun` of StreamManager). The handler "Blocks a video source and removes all
  streams using it" (`server/pages.rs:371`). The blocked list is consulted at the start of add_stream_and_start only
  (`stream/manager.rs:502`); a block that comes between that and the insertion misses the stream.
* **A connected client behind a closed valve** (`ConnectedClientsFlow` of RtspMounts). update_valve "Sets the new valve's
  `drop` property to match the current client state" (`stream/sink/rtsp_sink.rs:80`): it reads the count and swaps the valve
  afterwards; the first client that connects in between opens the old valve. The new one stays closed until every
  client has left.
* **A connection that closes during StartSession leaks its consumer** (`ClosedHoldsNothing` of WebRTCSessions). The
  receiver task is aborted while add_session waits for the pipeline, after it has added the consumer
  and before anything records the session. The stream never drains again.
* **A removed stream takes its successor's path along** (`ReachableWhenIdle` of RtspMounts without its `added <= 1`).
  Stream::drop stops the path, but the state may be dropped seconds later by the watcher's abort, and its sink stops the
  path again (`stream/pipeline/mod.rs:327`), by then perhaps that of a new stream with the same endpoint. An idle
  stream without its path cannot be woken by an RTSP client.
* **Two cameras may answer one request** (`OneAnswerer` of Mavlink without `caught`). An abort reaches messages_loop where
  it waits; `recv().await` does not wait while the channel has a message. A camera that is dropped while its loop handles
  a request goes on to the next one with the id it has given back (`mavlink_camera.rs:191` and 847), when the
  new owner of the id has received that one, too. Likewise a late heartbeat_loop sends a few heartbeats in one poll.
* **A control id of more than eight digits is read as another** (`ControlIdOf` of Mavlink). The list gives ids of up to sixteen
  digits, and a request that repeats one is read up to the eighth (`mavlink/utils.rs:113`): it sets or reads the control
  that the first eight digits name, if there is one, and is refused otherwise. `AnswersFit` says exactly this.
* **A failed save is forgotten** (`FileIsCurrent` of StreamManager without `failed`). `settings/manager.rs:161-163` and 173-179
  log it and go on ("TODO: deal com save problems here"). Until the next save succeeds, the file is behind the settings or
  truncated, and a restart of the process comes up with the older streams or with the defaults.

More that a reader of the code should know, seen while it was modelled:

* *ONVIF.* The age of a camera is that of its last update. If probing one device is slow, the clean-up at the end
  of the same cycle removes cameras that this cycle stored (`KeptWhileSeen` of OnvifDevices is false with a
  device in `Silent` and `Slowest` of 4). A cycle without a suitable interface skips the clean-up;
  `discovered_devices` is never cleaned; a reset aborts `discover_loop` but not the tasks it spawned.
* *Device matching.* The third rule of `try_identify_device` does not compare the port: the stream of a camera that
  is absent takes the device of its twin, and the twin's stream is then invalid and forgotten. A stream that is
  ambiguous keeps its old path. Streams that are not valid at boot are lost from the settings
  (`FollowCameras` therefore speaks of cameras that stay where they are).
* *Formats.* A maximal frame rate that is no multiple of five is not offered; widths and heights are sorted
  apart and then zipped.
* *MAVLink.* A camera's reset is acknowledged as accepted and may be denied afterwards; a receiver that lags
  subscribes again and loses what was in between; reset_controls works on a list of controls that it read before.
* *WebRTC.* The answer to a renegotiation is skipped (remote-description is an answer already); Disconnected,
  from which ICE may recover, ends the session at once; the comment at `webrtc_sink.rs:1093` has the excision
  run in the BLOCK probe, while the code runs it on webrtcbin's thread; a pad of the tee whose link fails is not
  released (`sink/mod.rs:176`), which `PadGivenBack` excepts.
* *Runner.* A position that stays at zero is never counted as standing still, pipelines with
  `allow_block` have no watchdog, and a task that fell behind takes its ticks in a burst, in which
  the position cannot move (`StuckMeansStill` excepts `burst`).
* *Thumbnails.* The JPEG of a request that gave up reaches the next one's receiver (`tangled`); a JPEG
  of the frame before enters the cache after it has been cleared (`overlapped`).

### Exceptions in properties

`NoConflicts`, `SettledAsWanted` and `BlockedUnlessOverlapped` carry the condition `orderly` for
the same reason: checks and changes of overlapping requests are not atomic in the code, and a crash
inside `start_default`, inside a save or after a failed one loses streams. The condition names exactly which overlaps
are meant (`Overlaps`): two requests of which neither is a removal by id, or anything beside a restart. So these three say
that the code is right but for those races; what a race does is told above.
`FileIsCurrent` excepts the time after a failed save until one succeeds (`failed`), and `EvictedOnlyAfterTimeout` the
recovery that the tracker does not notice (`overlooked`).
`OneConsumerPerSession` excepts the release that a session of an old instance sends to a new stream
with the same id (`strayed`). `ValveFollowsClients` excepts handles on which two of the two-step operations
have overlapped (`raced`); the closed valve above is what happens on them. `MediumIsFed` excepts media whose
handle has had another medium at the same time (`mixed`): the one that ends clears the appsrc of both.
`ReachableWhenIdle` speaks of the first stream of a path (`added <= 1`) and is false of the second, as above.
`OneAnswerer` excepts cameras that were aborted in the middle of a poll (`caught`), and `DroppedFallsSilent` the heartbeats
of one poll (`Burst`). `NothingPassesUnshaped` excepts sinks that were linked without their probe.
`JpegAsAsked` and `CacheShowsLastFrame` except what `tangled` and `overlapped` name.

## 5. Proofs

Every theorem holds for all values of the constants that the modules' assumptions allow: any finite sets of
holders, clients, connections, sessions, requests, cameras and configurations, any capacity, timeout and bound.
TLC checked each inductive invariant on an instance of the module before it was proved, and evaluates the
assumptions in every run. In every proof the inductive step has one case per action, mostly a lemma of its own
(`...Keeps`), and under it one step per conjunct that the action can disturb.

### Assumptions on the constants

| Assumption | Says | Why the code justifies it |
|---|---|---|
| `LifecycleStateAssumption`, `LifecycleAssumption` | counters have a width, the channel a capacity | they are u32 and 64; LifecycleProofs covers every width, saturation included |
| `StreamWatcherAssumption`, `WebRTCSessionsAssumption`, `ThumbnailsAssumption` | clients and pins, sessions, or requests are fewer than the counter can hold | each is a task or a thread with a socket; a u32 is never filled. What saturation does is in Lifecycle |
| `ConfigsAssumption` (StreamManager) | a source is either shareable or not; exclusive sources have one host; default streams do not conflict | `post` resolves a source string to the first available source that has it; only local devices are exclusive, and a path has no host; the default streams are one per camera, numbered |
| `TornAssumption` | a file that does not parse is no settings | serde returns an error |
| `MavlinkAssumption` | requests name controls by at most sixteen digits; component ids are 1 to 255 | a parameter's name has sixteen bytes, and the id of a component one. Controls may have any id |
| `RtspMountsAssumption` | media are fewer than the counter can hold; at least one stream and one handle | a medium is a session of the server, with sockets; there is nothing to say of no stream |
| `LocalDevicesAssumption` | nodes of one camera have one name and share no encode; `None` is no port, path or node | V4L2's card name is the camera's, and a driver makes another node for another encode, as in the example of `video_source_local_linux.rs:184`. Two nodes with one encode are the same to `try_identify_device`: which of them a stream gets is then open |
| `OnvifAssumption` | open, silent and command-line devices are devices; a scan takes some time; bounds are numbers | they describe the network; `Slowest` counts scans of 20 s |
| `PipelineRunnerAssumption`, `ImageSinkAssumption`, `LinkAssumption`, `PeerAssumption` | limits and capacities are positive, other bounds natural numbers | they are constants above zero in the code |

### Lifecycle (`LifecycleProofs`)

* `LifecycleInvAlways`, from `TypeCorrect` and `CountMatchesPhaseAlways`. The first is inductive as it stands; the
  lemmas `OperationsTyped` and `ApplyTyped` carry the arithmetic. The second, and `EagerNeverParksAlways`, are
  inductive relative to it. Only `Handle` moves `state`, so each has one case per operation of the actor.
* `LifecycleImplementsLease`: with both of them as invariants, every step is a step of `PipelineLease`
  or a stutter under the mapping *users = consumers, powered = not Idle, reserved = phantom*.
  CountMatchesPhase is what makes parking a PowerOff: it happens in Draining, where the count is zero.
* `CountIsExact`: `Spec => []ExactCount`. ExactCount says nothing of the commands in the queue and is not
  inductive: a remove in the queue could come from a holder that was never counted. The invariant
  `ExactInv` adds that the queue *explains* how the holders that are counted become those that want to
  be: there is a sequence of sets of holders, one between any two commands, along which every add
  brings in somebody who was out and every remove takes out somebody who was in. Sending a command
  appends one set (`ExplainedAppend`), handling one drops the first (`ExplainedTail`), and a command
  that is enabled in the first set moves the counter as it moves the set (`HandleCounts`).
* `DriftFollowsLossAlways`: the same explanation once commands have been lost. What the counter and the holders
  may then differ by is bounded on one side as long as only adds were lost, and on the other as long as only removes
  were; either bound is kept by every command that is handled and by every one that is dropped.

### Watcher (`PipelineProofs`)

* `WatcherInvAlways`. The watcher acts on a snapshot that may be old, so the invariant says what an old
  snapshot is still good for (`SnapshotHolds`): between a look and its handler others only add and remove
  consumers, which moves Idle to Waking and Running to Draining or back, but never from one pair into the other. With
  it a pipeline is there whenever the lifecycle says Running or Draining. `ConsumersAccountedFor` needs the width
  of the counter, and `PinsBounded` says that the bound on creations stops nothing that is under way.
* `EvictionAlways`: inductive with `TrackerInv`: unless a recovery was overlooked, the time since Running is at least the
  age of the failure that the tracker holds. Every way to Running is counted: pipeline_ready, which resets the
  tracker when the watcher has its reply, and add_consumer out of Draining, which does not and sets `overlooked` if the
  tracker holds a failure.
* `FullGraceAlways`, an action property: `DrainInv` says whose drain a `drain_start` belongs to at every place
  of the watcher, unless a client came unseen.

### WebRTC sessions (`WebRTCProofs`)

* `OneConsumerAlways`, `NoOrphanSinkAlways`, `ClosedCleanlyAlways` follow from one invariant. Its heart is `OneHand`: the
  consumer of a session is in one hand, that of the task that adds it, that of the stream's record, or that of the
  one task that gives it back; the write lock under which the record is taken is what moves it. `Counts` then
  follows the hands. `FirstCounted` says when a release cannot stray: under the first instance of an id.
  `Held` and `Listed` say that what is counted is in a hand or recorded, and what is recorded is found by
  its connection, or the connection was cut; `Closing` that main moves on only from an idle connection or
  cuts it. Every action moves one task, so the parts are kept by lemmas about one moving task (`MoveOwn`,
  `MoveHeld`, ...), whose hypotheses each action discharges.

### Stream manager and settings (`SourceProofs`)

* `FileIsCurrentAlways`: needs only the shape of every request (`Shapes`: which labels it passes and what it has
  yet to do there), since a request that changed the settings has its save ahead of it. Saves may be between truncation
  and write at the same time; each writes the settings as they are by then. A save that fails leaves `failed`
  behind until one succeeds, in any order.
* `SettledAlways` and `TableInvAlways`: `orderly` histories are those in which the checks and changes of two requests
  do not overlap. The invariant says which requests may then be under way together (`Alone`), that table and
  settings agree with what was asked for unless a restart is under way (`Agreed`), how far a restart has got
  (`Restored`), that what an addition has checked still holds when it inserts (`Checked`), and that a block
  knows the streams it has yet to remove (`Blocking`).

### Local devices (`SourceProofs`)

* `DevicesFoundAlways`. Ports and paths belong to one camera and one node each (`DevicesApart`), and every stream is in
  one place of start_default, which the step it has come to tells (`Accounted`). `IdentifiedApart` then follows since an
  identified stream has taken its candidate off the list (`FoundApart`). `FollowCameras` needs more (`Followed`): as
  long as no camera is unplugged, every stream names the port, name and encode of the node it was made for, whatever
  path it still has, and the node of a stream that is yet to be identified is still a candidate. The lemma
  `OwnCandidate` says that `try_identify_device` then finds that node and no other: of the candidates with the stream's name
  and encode exactly one is at its port.

### ONVIF (`SourceProofs`)

* `DevicesInvAlways`. `Contextual` says that the manager's context is the last one made, that only its loop runs, and
  that scans, jobs and cameras of a context were born in it. So the tasks a reset leaves running write to maps nobody
  reads any more, which is `ResetIsClean`. For `UrlCredentialSeen`, `Credited` follows a credential of the command
  line: it is with the address, or moved to the device, or a user has taken it back; and the job of a device has moved
  it before its first request.

### RTSP paths (`RtspMountsProofs`)

* `MediaInvAlways` and `ValveFollowsAlways` hold for any number of streams on the path, also those that fight
  over it as in section 4. The invariant goes along the life of a sink. `Added` says which streams exist. `Owned`: a
  handle is of the stream that made it, and a stream that has kept one uses no other. `Mounted`: only one
  watcher is between the server's calls, and media that are not orphans are of what is mounted. `Factored`: whose
  factory it is. `Answerable` names who will take the path off the server: the stream's destructor, a watcher
  whose new sink is torn down, or the teardown of a sink (`PathFreed`). `Fed`: the appsrc a medium plays from is that of its handle. `Valved` has one case per number of
  operations under way on a handle: none, and the valve is as the clients say; one, and it is as they were before it.
  `ConsumersCounted` counts the media that have told the owner of their handle.
* `ReachableFirst`: `ReachableWhenIdle` for the first stream of a path (`added <= 1`), by `FirstPath` and
  `Alone`: factory and mount are of the handle the stream keeps, but between two calls of its own watcher. The property
  carries the bound because with a second stream it fails (section 4).

### WebRTC sink (`WebRTCProofs`)

* `PeerInvAlways`: the BLOCK probe, where `link` could set it, goes when no encoder is left in the path (`Blocked`), encoders come with the first offer and connections after an answer (`Negotiated`). `Spoken` says of
  `said` that it names no kind twice, that the session's start is first, and that an offer is in it once one was made.
  Since a list without repetition of four kinds has at most four entries (`AtMostFour`), it also bounds the history.
* `KillerSparesAlways`, an action property: `Informed`, a session that is connected has a message waiting for its
  killer until the killer has ended. The callback sends it before anything else can be said of the connection.

### Thumbnails (`ThumbnailsProofs`)

* `ConsumersInvAlways`: `StreamCounts` says that the stream counts exactly the requests that were first and the
  threads that sleep. A request is first from the step that adds its consumer until the one that gives it back or
  leaves it to a cooldown thread (`Working`), whichever of its waits times out in between.
* `PicturesInvAlways`: while frames are pushed one at a time (`~tangled`), the frame in the encoder and the JPEG in the
  receiver are those of the mutex's holder (`EncoderHeld`, `EncodesAsAsked`), and of the last frame unless
  one was captured meanwhile (`EncodesLastFrame`).

### Pipeline runner (`PipelineProofs`)

* `RunnerInvAlways`. That a stuck pipeline has stood still is a matter of two rates: ticks and frames take turns as long
  as no tick is made up for, and then the watchdog has counted at most one tick more than frames went by (`Paced`).
  `Told` traces an end by a message to a message that was posted.

### MAVLink (`MavlinkProofs`)

* `ComponentsInvAlways`: ids and cameras correspond (`IdsMatchCameras`), and an aborted heartbeat_loop sends no more than
  was due in the poll it was in (`Silent`).
* `OneAnswererAlways`: the cameras that have answered a request, are about to or may still see it, have one id and were
  not caught in a poll, are one (`Addressed`). A camera whose loop waited when it was aborted takes nothing more
  (`Stopped`); one that starts later under the same id has not received the request (`Beginning`, `Numbered`), which is
  what makes the reuse of ids harmless.
* `AnswersFitAlways`: what is said and what is still to be said is together an answer to the request in hand (`Fitting`);
  `ControlIsRead` says what `ControlIdOf` makes of an id, with up to eight digits and with more.

### Only model-checked

* Liveness, which TLAPS cannot prove (fairness, ENABLED): `EveryRequestReturns`, `Served`, `Released`,
  `EndedSessionsLeave`, `WriterGetsIn`, `FatalEndsRunner`, `FrozenIsNoticed`, `ManagerIsReleased`, `NeverConnectedIsEnded`,
  `LostIsEnded`, `GoneIsForgotten`, `UnauthenticatedIsForgotten`.
* `OffersAreClean`: `OfferSdp`'s edit of a section against `IsCleaned` and `IsPlayable` is a fold over lists of any
  length, and what it computes needs an induction over them.

## 6. Abstractions, and what is not modelled

* Time is in ticks, and only where something is compared with it. `--stream-recreation-failure-timeout
  none` is not an instance of `EvictAfter`; without eviction the watcher's other properties are those
  of runs in which it never happens.
* A source that is not valid, a device that is missing and a GStreamer element that cannot be
  made are one nondeterministic failure of creation. Formats, encoders and caps do not appear.
* The lifecycle's `watch` channel only wakes the watcher, which also looks every 100 ms: `Observe` may
  happen at any time.
* After a lost Shutdown the actor ends when its last handle is dropped; handles are not counted.
* `start_default` also drops saved streams whose source is not valid or whose device is missing, and the
  settings then forget them; all sources are available in `StreamManager`.
* `reset_settings` resets ONVIF afterwards: that is `ResetOnvif` of OnvifDevices, not composed with StreamManager.
* `RtspMounts` has one path, and the lifecycle's error count in it stays at zero since backoffs have no
  length there. The callbacks' commands reach the lifecycle at once; that they may be lost or queued is
  `Lifecycle`. A client that connects is one that makes the server prepare a medium; later clients of
  the same medium do not call back.
* In `ImageSink` one frame stands for the few that may pass before the probe of a capture closes the valve again: later
  ones replace the first before anybody reads it.
* `Thumbnails` leaves out the one-second cache of answers in front of the requests, which only takes
  requests away.
* `PipelineRunner` leaves out bus messages that only log. A pipeline that plays answers position queries.
* `Mavlink` leaves out `sys_info` and what the information messages contain. A ground station sends a
  request once; MAVLink's transport is the link's break and nothing else.
* `WebRTCPeer` leaves out `on_answer_created`, since the sink only offers, the sanitising of the answer
  and key-unit events.
* `OnvifDevices`: a user may give credentials for any uuid, also of a device nobody has discovered. It gives a device one address, one URL and one stream. The answers of a device are one outcome.
* `LocalDevices`: reading and writing V4L2 controls, and listing sizes and intervals, only talk to the driver.
* Not modelled: GStreamer itself and the descriptions of pipelines, ICE, SOAP, V4L2 ioctls, HTTP and its
  serialisation, command line parsing, start-up and logging, the UDP and Zenoh sinks beyond their permanent
  consumer, the frontend, bindings. They hold no protocol between actors of this program, or belong to others.

## 7. Plan

Done, in this order: LifecycleState and Lifecycle with PipelineLease, their proofs; StreamWatcher;
WebRTCSessions; StreamManager; RtspMounts; Thumbnails over ImageSink; PipelineRunner; Mavlink over MavlinkLink;
WebRTCPeer with OfferSdp; OnvifDevices; LocalDevices; the proofs of StreamWatcher, Mavlink, PipelineRunner,
Thumbnails, StreamManager, WebRTCSessions, RtspMounts, WebRTCPeer, LocalDevices and OnvifDevices. Every safety property
the runs check but `OffersAreClean` is now a theorem.

Models to come: the settings' header and directory handling; add_sink and remove_sink of a pipeline with several
sinks; an abstract runner (`Live` until it ends for a cause) that StreamWatcher and Thumbnails use and PipelineRunner
implements.
