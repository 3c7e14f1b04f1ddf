--------------------------- MODULE PipelineRunner ---------------------------
(***************************************************************************)
(* One GStreamer pipeline with its PipelineRunner                          *)
(* (src/lib/stream/pipeline/runner.rs): a task that starts the pipeline    *)
(* and then watches its position, a second task that reads its bus, and    *)
(* the channel over which the second ends the first.  is_running tells the *)
(* stream's watcher whether the first task has ended (module               *)
(* StreamWatcher: Live and Dead).                                          *)
(*                                                                         *)
(* Time is counted in frames, the period of the position watchdog.  Of the *)
(* position only its distance from the one seen last is kept: 1 stands for *)
(* at most a millisecond, 2 for more.  Messages that only log are left     *)
(* out, and a pipeline that plays answers position queries unless its      *)
(* position is still zero.                                                 *)
(***************************************************************************)
EXTENDS Naturals, Sequences

CONSTANTS
  MaxLost,    \* max_lost_ticks, 150 in the code
  MaxTrials,  \* polls of wait_for_element_state_async, 50 in the code
  MaxDue,     \* bound: ticks of the interval that have not been taken
  MaxBus      \* bound: messages posted, since the bus's channel has no limit

ASSUME PipelineRunnerAssumption ==
  MaxLost \in Nat \ {0} /\ MaxTrials \in Nat \ {0} /\ MaxDue \in Nat \ {0} /\ MaxBus \in Nat

VARIABLES
  allowBlock,  \* allow_block: no watchdog, for the pipelines of sinks
  owner,       \* the PipelineRunner: "created", "started" or "dropped"
  task,        \* the runner's task
  trials,      \* polls left for Playing
  reason,      \* why the task ended
  gst,         \* the pipeline's current_state
  target,      \* the state it is going to
  frozen,      \* it delivers nothing any more, and does not say so
  bus,         \* messages in the channel of the sync handler
  posted,      \* messages posted so far
  busTask,     \* bus_watcher_task: "reading", "clock" in between two states, "ended"
  broken,      \* history: a fatal message was posted
  finish,      \* the channel from it to the runner: "empty" or "full"
  due,         \* ticks of the interval
  known,       \* previous_position is Some
  ahead,       \* how far the position is from it
  atZero,      \* the position is zero
  lost,        \* lost_ticks
  still,       \* history: whole frames since the position last moved on
  moved,       \* history: it has in this frame
  burst        \* history: ticks were missed and made up for

ownerVars == <<allowBlock, owner>>
taskVars  == <<task, trials, reason>>
gstVars   == <<gst, target, frozen>>
busVars   == <<bus, posted, broken, busTask, finish>>
watchVars == <<due, known, ahead, lost, burst>>
moveVars  == <<atZero, still, moved>>
runnerVars == <<ownerVars, taskVars, gstVars, busVars, watchVars, moveVars>>

Fatal    == {"eos", "error"}
\* An EOS or an error of a child, or an error of webrtcbin or of an unused stream of
\* rtspsrc: none of them may end the pipeline.
Harmless == {"childEos", "childError"}
Clock    == {"clock"}
Messages == Fatal \union Harmless \union Clock

Running == task \in {"waiting", "settling", "watching"}

End(why) == task' = "ended" /\ reason' = why /\ UNCHANGED trials

-----------------------------------------------------------------------------
(* The owner *)

Start ==
  /\ owner = "created"
  /\ owner' = "started"
  /\ UNCHANGED <<allowBlock, taskVars, gstVars, busVars, watchVars, moveVars>>

\* Dropping the runner aborts its task; the pipeline is stopped.
Drop ==
  /\ owner # "dropped"
  /\ owner' = "dropped"
  /\ task' = IF Running THEN "aborted" ELSE task
  /\ target' = "Null"
  /\ UNCHANGED <<allowBlock, trials, reason, gst, frozen, busVars, watchVars, moveVars>>

-----------------------------------------------------------------------------
(* The runner's task *)

\* The start command arrives: the pipeline is set to Playing, which may fail at once.
\* Only now does anything that was reported before matter.
TakeStart ==
  /\ task = "waiting" /\ owner = "started"
  /\ \/ /\ task' = "settling" /\ trials' = MaxTrials /\ target' = "Playing"
        /\ UNCHANGED reason
     \/ /\ gst # "Playing" /\ End("cannot_play")
        /\ UNCHANGED target
  /\ UNCHANGED <<ownerVars, gst, frozen, busVars, watchVars, moveVars>>

\* wait_for_element_state_async: the first poll is immediate, and so is the first
\* tick of the watchdog's interval.
PollState ==
  /\ task = "settling"
  /\ IF gst = "Playing"
       THEN /\ task' = "watching" /\ due' = 1
            /\ UNCHANGED <<trials, reason>>
       ELSE /\ trials' = trials - 1
            /\ task' = IF trials = 1 THEN "ended" ELSE "settling"
            /\ reason' = IF trials = 1 THEN "cannot_play" ELSE reason
            /\ UNCHANGED due
  /\ UNCHANGED <<ownerVars, gstVars, busVars, known, ahead, lost, burst, moveVars>>

TakeFinish ==
  /\ task = "watching" /\ finish = "full"
  /\ finish' = "empty"
  /\ End("message")
  /\ UNCHANGED <<ownerVars, gstVars, bus, posted, broken, busTask, watchVars, moveVars>>

TickWhileNotPlaying_KeepsCount ==
  /\ task = "watching" /\ due > 0 /\ gst # "Playing" /\ ~allowBlock
  /\ due' = due - 1 /\ ahead' = 0
  /\ UNCHANGED <<ownerVars, taskVars, gstVars, busVars, known, lost, burst, moveVars>>

\* A tick of the watchdog: a pipeline that does not play starts afresh.
TickWhileNotPlaying ==
  /\ task = "watching" /\ due > 0 /\ gst # "Playing" /\ ~allowBlock
  /\ due' = due - 1
  /\ known' = FALSE /\ ahead' = 0 /\ lost' = 0
  /\ UNCHANGED <<ownerVars, taskVars, gstVars, busVars, burst, moveVars>>

TickUnwatched ==
  /\ task = "watching" /\ due > 0
  /\ allowBlock \/ (gst = "Playing" /\ atZero)
  /\ due' = due - 1
  /\ UNCHANGED <<ownerVars, taskVars, gstVars, busVars, known, ahead, lost, burst, moveVars>>

Equal == known /\ ahead = 0 /\ ~atZero

TickSeesPosition_ReportsOnly ==
  /\ task = "watching" /\ due > 0 /\ gst = "Playing" /\ ~allowBlock
  /\ due' = due - 1
  /\ known' = TRUE /\ ahead' = 0
  /\ lost' = IF Equal /\ lost < MaxLost THEN lost + 1 ELSE 0
  /\ UNCHANGED <<ownerVars, taskVars, gstVars, busVars, burst, moveVars>>

\* The same position once more: one tick lost, and one too many ends the task.
\* An advance of more than a millisecond makes up for all that were lost.
TickSeesPosition ==
  /\ task = "watching" /\ due > 0 /\ gst = "Playing" /\ ~allowBlock
  /\ due' = due - 1
  /\ known' = TRUE /\ ahead' = 0
  /\ lost' = IF Equal THEN lost + 1 ELSE IF known /\ ahead = 2 THEN 0 ELSE lost
  /\ IF Equal /\ lost + 1 > MaxLost THEN End("stuck") ELSE UNCHANGED taskVars
  /\ UNCHANGED <<ownerVars, gstVars, busVars, burst, moveVars>>

-----------------------------------------------------------------------------
(* bus_watcher_task *)

ReadBus_ForgetsToTell ==
  /\ busTask = "reading" /\ bus # <<>>
  /\ bus' = Tail(bus)
  /\ LET message == Head(bus)
     IN  IF message \in Fatal
           THEN busTask' = "ended" /\ UNCHANGED <<target, finish>>
           ELSE IF message \in Clock
             THEN busTask' = "clock" /\ target' = "Paused" /\ UNCHANGED finish
             ELSE UNCHANGED <<busTask, target, finish>>
  /\ UNCHANGED <<ownerVars, taskVars, gst, frozen, posted, broken, watchVars, moveVars>>

\* The first fatal message is passed on and ends the bus task; a lost clock sends the
\* pipeline through Paused; whoever else posts an EOS or an error is ignored.
ReadBus ==
  /\ busTask = "reading" /\ bus # <<>>
  /\ bus' = Tail(bus)
  /\ LET message == Head(bus)
     IN  CASE message \in Fatal    -> busTask' = "ended" /\ finish' = "full" /\ UNCHANGED target
           [] message \in Clock    -> busTask' = "clock" /\ target' = "Paused" /\ UNCHANGED finish
           [] message \in Harmless -> UNCHANGED <<busTask, finish, target>>
  /\ UNCHANGED <<ownerVars, taskVars, gst, frozen, posted, broken, watchVars, moveVars>>

\* ... and back to Playing, without asking whether that was wanted.
ClockDone ==
  /\ busTask = "clock"
  /\ busTask' = "reading" /\ target' = "Playing"
  /\ UNCHANGED <<ownerVars, taskVars, gst, frozen, bus, posted, broken, finish, watchVars, moveVars>>

-----------------------------------------------------------------------------
(* GStreamer *)

\* Messages come from a pipeline that has not been stopped: stopping flushes its bus.
\* What happens after the task has ended is followed no further.
Post ==
  /\ owner # "dropped" /\ posted < MaxBus
  /\ \E message \in Messages :
       bus' = Append(bus, message) /\ broken' = (broken \/ message \in Fatal)
  /\ posted' = posted + 1
  /\ UNCHANGED <<ownerVars, taskVars, gstVars, busTask, finish, watchVars, moveVars>>

ReachState ==
  /\ gst # target
  /\ gst' = target
  /\ UNCHANGED <<ownerVars, taskVars, target, frozen, busVars, watchVars, moveVars>>

Freeze ==
  /\ ~frozen /\ gst = "Playing" /\ Running
  /\ frozen' = TRUE
  /\ UNCHANGED <<ownerVars, taskVars, gst, target, busVars, watchVars, moveVars>>

Capped(distance) == IF distance > 2 THEN 2 ELSE distance

Advance ==
  /\ gst = "Playing" /\ ~frozen /\ Running
  /\ \E step \in 1..2 :
       /\ ahead' = Capped(ahead + step)
       /\ moved' = (moved \/ step = 2)
       /\ still' = IF step = 2 THEN 0 ELSE still
  /\ atZero' = FALSE
  /\ UNCHANGED <<ownerVars, taskVars, gstVars, busVars, due, known, lost, burst>>

\* The time of one frame passes.
FramePasses ==
  /\ task = "watching" /\ due < MaxDue
  /\ due' = due + 1
  /\ burst' = (burst \/ due > 0)
  /\ still' = IF moved \/ still > MaxLost THEN still ELSE still + 1
  /\ moved' = FALSE
  /\ UNCHANGED <<ownerVars, taskVars, gstVars, busVars, known, ahead, atZero, lost>>

-----------------------------------------------------------------------------
RunnerInit ==
  /\ allowBlock \in BOOLEAN /\ owner = "created"
  /\ task = "waiting" /\ trials = 0 /\ reason = "none"
  /\ gst = "Null" /\ target \in {"Null", "Playing"} /\ frozen = FALSE
  /\ bus = <<>> /\ posted = 0 /\ broken = FALSE /\ busTask = "reading" /\ finish = "empty"
  /\ due = 0 /\ known = FALSE /\ ahead = 0 /\ lost = 0
  /\ atZero = TRUE /\ still = 0 /\ moved = FALSE /\ burst = FALSE

TaskStep ==
  TakeStart \/ PollState \/ TakeFinish \/ TickWhileNotPlaying \/ TickUnwatched \/ TickSeesPosition

BusStep == ReadBus \/ ClockDone

RunnerNext ==
  Start \/ Drop \/ TaskStep \/ BusStep \/ Post \/ ReachState \/ Freeze \/ Advance \/ FramePasses

RunnerSpec == RunnerInit /\ [][RunnerNext]_runnerVars

\* Whoever creates a runner starts it or drops it.  select! picks a branch at random when both
\* are ready: each is taken in the end.
Fairness ==
  /\ WF_runnerVars(Start) /\ WF_runnerVars(BusStep) /\ WF_runnerVars(ReachState)
  /\ WF_runnerVars(FramePasses)
  /\ WF_runnerVars(TakeStart) /\ WF_runnerVars(PollState) /\ SF_runnerVars(TakeFinish)
  /\ WF_runnerVars(TickWhileNotPlaying \/ TickUnwatched \/ TickSeesPosition)

FairRunnerSpec == RunnerSpec /\ Fairness

-----------------------------------------------------------------------------
(* Properties *)

RunnerTypeOK ==
  /\ allowBlock \in BOOLEAN /\ owner \in {"created", "started", "dropped"}
  /\ task \in {"waiting", "settling", "watching", "ended", "aborted"}
  /\ trials \in 0..MaxTrials /\ reason \in {"none", "cannot_play", "message", "stuck"}
  /\ gst \in {"Null", "Paused", "Playing"} /\ target \in {"Null", "Paused", "Playing"}
  /\ frozen \in BOOLEAN
  /\ bus \in Seq(Messages) /\ posted \in 0..MaxBus /\ broken \in BOOLEAN
  /\ busTask \in {"reading", "clock", "ended"} /\ finish \in {"empty", "full"}
  /\ due \in 0..MaxDue /\ known \in BOOLEAN /\ ahead \in 0..2 /\ atZero \in BOOLEAN
  /\ lost \in 0..(MaxLost + 1) /\ still \in 0..(MaxLost + 1)
  /\ moved \in BOOLEAN /\ burst \in BOOLEAN

\* The watchdog ends a pipeline only when its position has not moved on for as many
\* frames as it counts, however short breaks of the clock and tiny steps fall between
\* the ticks; unless the task itself fell behind, and made up for missed ticks at once.
StuckMeansStill == reason = "stuck" /\ ~burst => still >= MaxLost

\* Nobody but the pipeline itself, the watchdog or a failed start ends the runner:
\* an EOS or an error of one client's sink does not.
OnlyFatalMessages == reason = "message" => broken

\* A pipeline-level EOS or error ends the runner, also one that was posted before the
\* start command, so that the stream's watcher recreates the pipeline.
FatalEndsRunner ==
  (\E i \in DOMAIN bus : bus[i] \in Fatal) ~> ~Running

\* A camera that stops delivering without any message is noticed, once it has
\* delivered a frame.
FrozenIsNoticed == (frozen /\ ~atZero /\ ~allowBlock) ~> ~Running

\* Once the runner is gone its bus task ends, and with it the last reference to the
\* pipeline.
DroppedIsReleased == owner = "dropped" ~> busTask = "ended"

\* A runner ends for a cause: a pipeline that stood still, or that said so itself.
RunnerInv == RunnerTypeOK /\ StuckMeansStill /\ OnlyFatalMessages
=============================================================================
