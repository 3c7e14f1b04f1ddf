--------------------------- MODULE WebRTCSessions ---------------------------
(***************************************************************************)
(* WebRTC sessions: the signalling connections that open and end them      *)
(* (src/lib/stream/webrtc/signalling_server.rs), Manager::add_session and  *)
(* Manager::remove_session (src/lib/stream/manager.rs), and the lifecycle  *)
(* consumer each session holds, over the life of one stream id: the stream *)
(* may be removed, and another instance added under the same id.           *)
(*                                                                         *)
(* Every connection runs three tasks.  "recv" handles the client's         *)
(* messages, "send" the EndSession questions of the session's sinks, and   *)
(* "main" waits for either to finish, aborts the other and removes the     *)
(* sessions left over.  A step below is a stretch of one task between two  *)
(* awaits; an aborted task ends at an await.                               *)
(*                                                                         *)
(* The watcher is summarised (module StreamWatcher has it whole): it makes *)
(* the pipeline live, loses it, or parks it.                               *)
(***************************************************************************)
EXTENDS LifecycleState, Integers, FiniteSets

CONSTANTS
  Connections,   \* WebSocket connections
  Sessions,      \* bound: session ids that may be used
  MaxInstances,  \* bound: streams added, one after the other, under the id
  MaxErrors,     \* bound: pipeline errors in a row
  NoOne          \* the owner of an unused session id

\* A stream counts its consumers in 32 bits: never are as many sessions opened.
ASSUME WebRTCSessionsAssumption ==
  /\ IsFiniteSet(Connections) /\ IsFiniteSet(Sessions)
  /\ Cardinality(Sessions) < MaxU32
  /\ NoOne \notin Connections \union Sessions
  /\ MaxInstances \in Nat \ {0} /\ MaxErrors \in Nat

VARIABLES
  current,   \* the instance MANAGER.streams has, 0 when there is none
  added,     \* instances added so far
  live,      \* the current instance has a pipeline
  attached,  \* sessions with a sink in that pipeline
  tracked,   \* Stream::active_webrtc_sessions of the current instance
  life,      \* lifecycle of the current instance
  task,      \* where every task is, the session it works on, and the instance
             \*   whose lifecycle it has cloned
  active,    \* active_sessions of every connection
  orphans,   \* what main has drained and not yet removed
  mailbox,   \* sessions with an EndSession in the connection's channel
  owner,     \* the connection a session id was made for
  cut,       \* history: connections that closed with a task in mid-operation
  counted,   \* history: sessions the current instance counts a consumer for
  strayed    \* history: a consumer was released that was not counted

stream  == <<current, added>>
sinks   == <<live, attached>>
lists   == <<active, orphans>>
account == <<life, counted, strayed>>
vars == <<stream, sinks, tracked, account, task, lists, mailbox, owner, cut>>

Tasks   == Connections \X {"recv", "send", "main"}
Recv(c) == <<c, "recv">>
Send(c) == <<c, "send">>
Main(c) == <<c, "main">>

Labels == {"ready", "waiting", "attach", "undo", "track", "push", "remove", "release",
           "select", "drain", "done"}

Idle(label) == [at |-> label, session |-> NoOne, target |-> 0]

At(t)  == task[t].at
Doing(t) == task[t].session

Goto(t, label)     == task' = [task EXCEPT ![t].at = label]
Take(t, s, label)  == task' = [task EXCEPT ![t].at = label, ![t].session = s]
Clone(t, label)    == task' = [task EXCEPT ![t].at = label, ![t].target = current]
Leave(t, label)    == task' = [task EXCEPT ![t] = Idle(label)]

Exists == current # 0

-----------------------------------------------------------------------------
(* Manager::add_session, run by the receiver task *)

\* StartSession: the consumer is added first, whatever state the pipeline is in.
\* Any error of add_session ends the receiver task.
StartSession(c, s) ==
  /\ At(Recv(c)) = "ready" /\ At(Main(c)) = "select"
  /\ owner[s] = NoOne
  /\ owner' = [owner EXCEPT ![s] = c]
  /\ IF Exists
       THEN /\ life' = AddConsumer(life)
            /\ counted' = counted \union {s}
            /\ Take(Recv(c), s, "waiting")
       ELSE Leave(Recv(c), "done") /\ UNCHANGED <<life, counted>>
  /\ UNCHANGED <<stream, sinks, tracked, strayed, lists, mailbox, cut>>

\* The wait for a playing pipeline, polled every 100 ms for at most 30 s.  A
\* stream that is gone at a poll ends it without further ado.
Wait(c) ==
  /\ At(Recv(c)) = "waiting"
  /\ \/ ~Exists /\ Leave(Recv(c), "done")
     \/ Exists /\ live /\ Goto(Recv(c), "attach")
     \/ Exists /\ Goto(Recv(c), "undo")
  /\ UNCHANGED <<stream, sinks, tracked, account, lists, mailbox, owner, cut>>

\* The sink is made and linked under the manager's write lock, or some step of
\* that fails.
Attach(c) ==
  /\ At(Recv(c)) = "attach"
  /\ \/ /\ Exists /\ live
        /\ attached' = attached \union {Doing(Recv(c))}
        /\ Goto(Recv(c), "track")
     \/ Goto(Recv(c), "undo") /\ UNCHANGED attached
  /\ UNCHANGED <<stream, live, tracked, account, lists, mailbox, owner, cut>>

\* After the deadline or a failure: the lifecycle of the stream that now has
\* the id is cloned, to take the consumer back.
Undo(c) ==
  /\ At(Recv(c)) = "undo"
  /\ IF Exists THEN Clone(Recv(c), "release") ELSE Leave(Recv(c), "done")
  /\ UNCHANGED <<stream, sinks, tracked, account, lists, mailbox, owner, cut>>

\* The manager is locked again to record the session with the stream ...
Track(c) ==
  /\ At(Recv(c)) = "track"
  /\ tracked' = IF Exists THEN tracked \union {Doing(Recv(c))} ELSE tracked
  /\ Goto(Recv(c), "push")
  /\ UNCHANGED <<stream, sinks, account, lists, mailbox, owner, cut>>

\* ... and, without another await, with the connection.
Push(c) ==
  /\ At(Recv(c)) = "push"
  /\ active' = [active EXCEPT ![c] = @ \union {Doing(Recv(c))}]
  /\ Leave(Recv(c), "ready")
  /\ UNCHANGED <<stream, sinks, tracked, account, orphans, mailbox, owner, cut>>

-----------------------------------------------------------------------------
(* Manager::remove_session, run by any of the three tasks *)

\* What the caller does next.  The receiver returns an error after the client's
\* EndSession, so the connection closes; the sender goes on.
Caller(t) ==
  CASE t[2] = "recv" -> "done" [] t[2] = "send" -> "ready" [] t[2] = "main" -> "drain"

\* Sender and receiver then forget the session; main has drained it already.
Return(t) ==
  /\ active' = IF t[2] = "main" THEN active
                                ELSE [active EXCEPT ![t[1]] = @ \ {Doing(t)}]
  /\ Leave(t, Caller(t))

RemoveSession_Unchecked(t) ==
  /\ At(t) = "remove"
  /\ IF Exists
       THEN /\ tracked' = tracked \ {Doing(t)}
            /\ attached' = attached \ {Doing(t)}
            /\ Clone(t, "release")
            /\ UNCHANGED active
       ELSE Return(t) /\ UNCHANGED <<tracked, attached>>
  /\ UNCHANGED <<stream, live, account, orphans, mailbox, owner, cut>>

RemoveSession_KeepsSink(t) ==
  /\ At(t) = "remove"
  /\ IF Exists /\ Doing(t) \in tracked
       THEN /\ tracked' = tracked \ {Doing(t)}
            /\ Clone(t, "release")
            /\ UNCHANGED <<attached, active>>
       ELSE Return(t) /\ UNCHANGED <<tracked, attached>>
  /\ UNCHANGED <<stream, live, account, orphans, mailbox, owner, cut>>

\* Under the manager's write lock: only a tracked session goes on to release a
\* consumer, and its sink is taken out of the pipeline if it is still there.
RemoveSession(t) ==
  /\ At(t) = "remove"
  /\ IF Exists /\ Doing(t) \in tracked
       THEN /\ tracked' = tracked \ {Doing(t)}
            /\ attached' = attached \ {Doing(t)}
            /\ Clone(t, "release")
            /\ UNCHANGED active
       ELSE Return(t) /\ UNCHANGED <<tracked, attached>>
  /\ UNCHANGED <<stream, live, account, orphans, mailbox, owner, cut>>

\* The lock is gone; the consumer is released on the lifecycle cloned before,
\* which no longer answers if that instance has been dropped since.
Release(t) ==
  /\ At(t) = "release"
  /\ IF task[t].target = current
       THEN /\ life' = RemoveConsumer(life)
            /\ counted' = counted \ {Doing(t)}
            /\ strayed' = (strayed \/ Doing(t) \notin counted)
       ELSE UNCHANGED account
  /\ Return(t)
  /\ UNCHANGED <<stream, sinks, tracked, orphans, mailbox, owner, cut>>

-----------------------------------------------------------------------------
(* The rest of a connection *)

ClientEndsSession(c, s) ==
  /\ At(Recv(c)) = "ready" /\ At(Main(c)) = "select"
  /\ owner[s] = c
  /\ Take(Recv(c), s, "remove")
  /\ UNCHANGED <<stream, sinks, tracked, account, lists, mailbox, owner, cut>>

\* WebRTCSinkWeakProxy::terminate: negotiation timed out, or ICE or DTLS failed.
\* Nothing is queued once the sender task is gone.
SinkEndsSession(s) ==
  /\ s \in attached /\ At(Send(owner[s])) # "done"
  /\ mailbox' = [mailbox EXCEPT ![owner[s]] = @ \union {s}]
  /\ UNCHANGED <<stream, sinks, tracked, account, task, lists, owner, cut>>

\* The sender task owns the receiving end of the channel: what it has not read
\* is lost when it ends.
Undelivered(t) == IF t[2] = "send" THEN [mailbox EXCEPT ![t[1]] = {}] ELSE mailbox

SenderEndsSession_OnlyNotifies(c) ==
  /\ At(Send(c)) = "ready" /\ At(Main(c)) = "select"
  /\ \E s \in mailbox[c] : mailbox' = [mailbox EXCEPT ![c] = @ \ {s}]
  /\ UNCHANGED <<stream, sinks, tracked, account, task, lists, owner, cut>>

\* The client is notified first; if that fails the sender task ends.
SenderEndsSession(c) ==
  /\ At(Send(c)) = "ready" /\ At(Main(c)) = "select"
  /\ \E s \in mailbox[c] :
       \/ /\ mailbox' = [mailbox EXCEPT ![c] = @ \ {s}]
          /\ Take(Send(c), s, "remove")
       \/ /\ mailbox' = Undelivered(Send(c))
          /\ Leave(Send(c), "done")
  /\ UNCHANGED <<stream, sinks, tracked, account, lists, owner, cut>>

\* The client closes, or the socket fails: the receiver sees it when it reads,
\* the sender at its next ping.
TaskEnds(t) ==
  /\ t[2] # "main" /\ At(t) = "ready"
  /\ Leave(t, "done")
  /\ mailbox' = Undelivered(t)
  /\ UNCHANGED <<stream, sinks, tracked, account, lists, owner, cut>>

Between(c) == {At(Recv(c)), At(Send(c))} \subseteq {"ready", "done"}

Select_ForgetsOrphans(c) ==
  /\ At(Main(c)) = "select" /\ "done" \in {At(Recv(c)), At(Send(c))}
  /\ Goto(Main(c), "drain")
  /\ orphans' = orphans
  /\ active' = [active EXCEPT ![c] = {}]
  /\ cut' = IF Between(c) THEN cut ELSE cut \union {c}
  /\ UNCHANGED <<stream, sinks, tracked, account, mailbox, owner>>

\* One task has finished: the other is told to abort, and what the connection
\* still lists is drained, both without waiting for the aborted task.
Select(c) ==
  /\ At(Main(c)) = "select" /\ "done" \in {At(Recv(c)), At(Send(c))}
  /\ Goto(Main(c), "drain")
  /\ orphans' = [orphans EXCEPT ![c] = active[c]]
  /\ active' = [active EXCEPT ![c] = {}]
  /\ cut' = IF Between(c) THEN cut ELSE cut \union {c}
  /\ UNCHANGED <<stream, sinks, tracked, account, mailbox, owner>>

DrainOrphan(c) ==
  /\ At(Main(c)) = "drain"
  /\ IF orphans[c] = {}
       THEN Leave(Main(c), "done") /\ UNCHANGED orphans
       ELSE \E s \in orphans[c] :
              /\ orphans' = [orphans EXCEPT ![c] = @ \ {s}]
              /\ Take(Main(c), s, "remove")
  /\ UNCHANGED <<stream, sinks, tracked, account, active, mailbox, owner, cut>>

\* An aborted task ends where it waits; between Track and Push it does not wait.
\* In remove_session it may wait for the pipeline's lock after the session has
\* been untracked.
Abort(t) ==
  /\ t[2] # "main" /\ At(Main(t[1])) # "select"
  /\ At(t) \notin {"push", "done"}
  /\ Leave(t, "done")
  /\ \/ UNCHANGED tracked
     \/ At(t) = "remove" /\ Exists /\ tracked' = tracked \ {Doing(t)}
  /\ mailbox' = Undelivered(t)
  /\ UNCHANGED <<stream, sinks, account, lists, owner, cut>>

-----------------------------------------------------------------------------
(* The stream *)

\* The pipeline goes, and its sinks with it.  One that notices on the way out
\* and ends its session has done so just before (SinkEndsSession).
DropPipeline ==
  /\ live' = FALSE
  /\ attached' = {}
  /\ UNCHANGED mailbox

WatcherCreates ==
  /\ Exists /\ life.phase = "Waking"
  /\ life' = IF ReachesRunning(life) THEN ResetErrorBackoff(PipelineReady(life))
                                     ELSE PipelineReady(life)
  /\ live' = TRUE
  /\ UNCHANGED <<stream, attached, tracked, counted, strayed, task, lists, mailbox, owner, cut>>

WatcherFails ==
  /\ Exists /\ life.phase \in {"Waking", "Running"}
  /\ life.error_count < MaxErrors
  /\ life' = PipelineError(life)
  /\ DropPipeline
  /\ UNCHANGED <<stream, tracked, counted, strayed, task, lists, owner, cut>>

WatcherParks ==
  /\ Exists /\ DrainExpires(life)
  /\ life' = DrainExpired(life)
  /\ DropPipeline
  /\ UNCHANGED <<stream, tracked, counted, strayed, task, lists, owner, cut>>

StreamRemoved ==
  /\ Exists
  /\ current' = 0
  /\ tracked' = {} /\ counted' = {}
  /\ life' = InitialState(life.mode)
  /\ DropPipeline
  /\ UNCHANGED <<added, strayed, task, lists, owner, cut>>

StreamAdded ==
  /\ ~Exists /\ added < MaxInstances
  /\ added' = added + 1 /\ current' = added + 1
  /\ UNCHANGED <<sinks, tracked, account, task, lists, mailbox, owner, cut>>

-----------------------------------------------------------------------------
Init ==
  /\ current = 0 /\ added = 0
  /\ \E mode \in Modes : life = InitialState(mode)
  /\ live = FALSE /\ attached = {} /\ tracked = {}
  /\ task = [t \in Tasks |-> Idle(IF t[2] = "main" THEN "select" ELSE "ready")]
  /\ active = [c \in Connections |-> {}] /\ orphans = active /\ mailbox = active
  /\ owner = [s \in Sessions |-> NoOne]
  /\ cut = {} /\ counted = {} /\ strayed = FALSE

AddSession(c) == Wait(c) \/ Attach(c) \/ Undo(c) \/ Track(c) \/ Push(c)
TaskStep(t)   == RemoveSession(t) \/ Release(t) \/ Abort(t)

Next ==
  \/ \E c \in Connections, s \in Sessions : StartSession(c, s) \/ ClientEndsSession(c, s)
  \/ \E c \in Connections :
       AddSession(c) \/ SenderEndsSession(c) \/ Select(c) \/ DrainOrphan(c)
  \/ \E t \in Tasks : TaskStep(t) \/ TaskEnds(t)
  \/ \E s \in Sessions : SinkEndsSession(s)
  \/ WatcherCreates \/ WatcherFails \/ WatcherParks \/ StreamRemoved \/ StreamAdded

Spec == Init /\ [][Next]_vars

\* Tokio runs every task that can go on.  Nothing is assumed of clients, of
\* sockets, of sinks or of the stream.
FairSpec ==
  /\ Spec
  /\ \A c \in Connections : /\ WF_vars(AddSession(c))
                            /\ WF_vars(SenderEndsSession(c))
                            /\ WF_vars(Select(c)) /\ WF_vars(DrainOrphan(c))
  /\ \A t \in Tasks : WF_vars(TaskStep(t))

-----------------------------------------------------------------------------
(* Properties *)

TypeOK ==
  /\ current \in 0..MaxInstances /\ added \in 0..MaxInstances
  /\ live \in BOOLEAN
  /\ attached \subseteq Sessions /\ tracked \subseteq Sessions
  /\ life \in LifecycleStates
  /\ task \in [Tasks -> [at : Labels, session : Sessions \union {NoOne},
                         target : 0..MaxInstances]]
  /\ \A l \in {active, orphans, mailbox} : l \in [Connections -> SUBSET Sessions]
  /\ owner \in [Sessions -> Connections \union {NoOne}]
  /\ cut \subseteq Connections
  /\ counted \subseteq Sessions
  /\ strayed \in BOOLEAN

\* The lifecycle of the stream counts one consumer for every session that has
\* taken one and not given it back: whichever of the three tasks, the client and
\* the sink end a session, in whatever order and however often, it is given
\* back once.  Only under a stream replaced meanwhile may a release that was
\* meant for the old instance hit the new one.
OneConsumerPerSession ==
  /\ strayed => added > 1
  /\ Exists /\ ~strayed => life.consumers = Phantom(life.mode) + Cardinality(counted)

\* A sink in the pipeline belongs to a session that some remove_session can
\* still find, unless its connection was cut in mid-operation.
NoOrphanSink ==
  \A s \in attached :
    \/ s \in tracked
    \/ At(Recv(owner[s])) = "track" /\ Doing(Recv(owner[s])) = s
    \/ owner[s] \in cut

Holds(c) == \E s \in counted \union attached : owner[s] = c

\* Once handle_connection returns, none of its sessions has a sink or keeps the
\* stream awake, if no task was cut in mid-operation.
ClosedCleanly ==
  \A c \in Connections : At(Main(c)) = "done" /\ c \notin cut => ~Holds(c)

\* The same without that condition, once the aborted tasks have ended as well:
\* what "Clean up any sessions that weren't explicitly ended" promises.
ClosedHoldsNothing ==
  \A c \in Connections :
    (\A t \in {Recv(c), Send(c), Main(c)} : At(t) = "done") => ~Holds(c)

\* A session whose sink gives up is ended by the sender task, or by the drain of
\* the connection, unless the connection was cut in mid-operation.
EndedSessionsLeave ==
  \A s \in Sessions, c \in Connections :
    (s \in tracked /\ s \in mailbox[c]) ~> (s \notin tracked \/ c \in cut)
=============================================================================
