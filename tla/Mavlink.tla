-------------------------------- MODULE Mavlink --------------------------------
(***************************************************************************)
(* src/lib/mavlink: the MAVLink cameras of the streams.  A camera takes a  *)
(* component id, asks the manager for the channel to the network and runs  *)
(* two tasks, one for heartbeats and one for requests; dropping it aborts  *)
(* both and gives the id back.  MavlinkLink is the network's side.         *)
(*                                                                         *)
(* The manager's mutex is held by get_sender while it waits for the lock   *)
(* of the connection, and new_component_id and drop_id need that mutex.    *)
(***************************************************************************)
EXTENDS MavlinkLink, FiniteSets, Sequences, SequencesExt, FiniteSetsExt

CONSTANTS
    Cameras,        \* one per stream that was made, numbered in the order
                    \* in which they first take an id
    Ids,            \* mavlink_camera_component_id_range
    Unfit,          \* cameras whose endpoint no MAVLink camera can announce
    Requests,       \* messages of ground stations, [kind, to, control]
    Controls,       \* V4L2 ids of the controls of the cameras; those of the
                    \* control classes have eight digits at most, those of
                    \* private controls of old drivers nine
    Recorder,       \* an external recorder answers for captures
    Burst,          \* most heartbeats of one poll of heartbeat_loop; with 0, the
                    \* heartbeats are left out
    MaxReceived     \* how many requests arrive

\* the ids that a name of sixteen bytes has room for, ...
Writable == {n \in Nat : n \div 100000000 <= 99999999}

\* ... and the ones that control_id_from_param_id reads in full
Readable == {n \in Nat : n <= 99999999}

ASSUME MavlinkAssumption ==
    /\ Ids \subseteq 1..255
    /\ Cameras \subseteq Nat /\ IsFiniteSet(Cameras)
    /\ Unfit \subseteq Cameras
    /\ Controls \subseteq Nat
    /\ Requests \subseteq [kind : STRING, to : 0..255, control : Writable]
    /\ Recorder \in BOOLEAN
    /\ Burst \in Nat
    /\ MaxReceived \in Nat

VARIABLES
    camera,         \* life of each camera
    id,             \* its component id, 0 before it has one
    ids,            \* Manager.ids: how often each id is in the vector
    mutex,          \* the cameras in get_sender: they have MANAGER's mutex
    heart,          \* heartbeat_loop of each camera
    due,            \* the heartbeats it still sends in the poll it is in
    task,           \* messages_loop of each camera
    inbox,          \* the requests the channel keeps for messages_loop
    hand,           \* the request that it handles, or handled last
    todo,           \* what is still to be said about that one
    said,           \* what was said about it
    received,       \* all requests in their order; the ones above are numbers
    answerers,      \* the cameras that said something about each
    staleBeats,     \* heartbeats since the id was given back, counted up to
                    \* one more than Burst
    caught          \* cameras whose messages_loop ran when it was aborted

beating == <<heart, due, staleBeats>>

handling == <<task, inbox, hand, todo, said, received, answerers>>

vars == <<linkVars, camera, id, ids, mutex, beating, handling, caught>>

\* what a camera says, or waits for in between
Messages == [what : {"ack", "value", "information", "await"},
             result : {"", "accepted", "denied", "unsupported", "failed"},
             control : Nat]

TaskStates == {"off", "starting", "waiting", "polling", "handling", "resting"}

TypeOK ==
    /\ LinkTypeOK
    /\ camera \in [Cameras -> {"none", "asking", "alive", "dropping", "gone"}]
    /\ id \in [Cameras -> Ids \cup {0}]
    /\ ids \in [Ids -> Nat]
    /\ mutex \subseteq Cameras /\ Cardinality(mutex) <= 1
    /\ heart \in [Cameras -> {"off", "waiting", "sending"}]
    /\ due \in [Cameras -> 0..Burst]
    /\ task \in [Cameras -> TaskStates]
    /\ inbox \in [Cameras -> SeqOf(1..MaxReceived, Capacity)]
    /\ todo \in [Cameras -> Seq(Messages)] /\ said \in [Cameras -> Seq(Messages)]
    /\ hand \in [Cameras -> 0..MaxReceived]
    /\ received \in SeqOf(Requests, MaxReceived)
    /\ answerers \in [1..MaxReceived -> SUBSET Cameras]
    /\ staleBeats \in [Cameras -> 0..(Burst + 1)]
    /\ caught \subseteq Cameras

Init ==
    /\ LinkInit
    /\ camera = [c \in Cameras |-> "none"]
    /\ id = [c \in Cameras |-> 0]
    /\ ids = [i \in Ids |-> 0]
    /\ mutex = {}
    /\ heart = [c \in Cameras |-> "off"]
    /\ due = [c \in Cameras |-> 0]
    /\ task = [c \in Cameras |-> "off"]
    /\ inbox = [c \in Cameras |-> <<>>]
    /\ todo = [c \in Cameras |-> <<>>]
    /\ said = [c \in Cameras |-> <<>>]
    /\ hand = [c \in Cameras |-> 0]
    /\ received = <<>>
    /\ answerers = [n \in 1..MaxReceived |-> {}]
    /\ staleBeats = [c \in Cameras |-> 0]
    /\ caught = {}

------------------------------------------------------------------------------
(* Making and dropping a camera *)

\* new_component_id: the first id of the range that is not in use
IsFree(i) == ids[i] = 0 /\ \A j \in Ids : j < i => ids[j] # 0

\* the order the cameras are numbered in
ItsTurn(c) == \A d \in Cameras \ Unfit : d < c => camera[d] # "none"

\* try_new takes the id first and fails afterwards
TakeId_BeforeChecks(c) ==
    /\ camera[c] = "none" /\ ItsTurn(c)
    /\ mutex = {}
    /\ \E i \in Ids :
        /\ IsFree(i)
        /\ ids' = [ids EXCEPT ![i] = @ + 1]
        /\ id' = IF c \in Unfit THEN id ELSE [id EXCEPT ![c] = i]
    /\ camera' = IF c \in Unfit THEN camera ELSE [camera EXCEPT ![c] = "asking"]
    /\ UNCHANGED <<linkVars, mutex, beating, handling, caught>>

\* MavlinkCameraInner::try_new: an endpoint that cannot be announced is
\* refused before an id is taken; without a free id the camera is not made,
\* and the stream tries again when it wakes the next time
TakeId(c) ==
    /\ camera[c] = "none" /\ ItsTurn(c)
    /\ c \notin Unfit
    /\ mutex = {}
    /\ \E i \in Ids :
        /\ IsFree(i)
        /\ ids' = [ids EXCEPT ![i] = @ + 1]
        /\ id' = [id EXCEPT ![c] = i]
    /\ camera' = [camera EXCEPT ![c] = "asking"]
    /\ UNCHANGED <<linkVars, mutex, beating, handling, caught>>

\* get_sender: the mutex, and with it ...
LockManager(c) ==
    /\ camera[c] = "asking"
    /\ mutex = {}
    /\ mutex' = {c}
    /\ UNCHANGED <<linkVars, camera, id, ids, beating, handling, caught>>

\* ... the read lock of the connection; then the two tasks are spawned
GetSender(c) ==
    /\ c \in mutex
    /\ CanRead
    /\ mutex' = {}
    /\ camera' = [camera EXCEPT ![c] = "alive"]
    /\ heart' = [heart EXCEPT ![c] = "waiting"]
    /\ task' = [task EXCEPT ![c] = "starting"]
    /\ UNCHANGED <<linkVars, id, ids, due, staleBeats, inbox, hand, todo, said,
                   received, answerers, caught>>

\* Drop aborts the tasks, each of which ends when it next waits for something
\* that is not there yet, ...
StartDrop(c) ==
    /\ camera[c] = "alive"
    /\ camera' = [camera EXCEPT ![c] = "dropping"]
    /\ caught' = IF task[c] \in {"polling", "handling"} THEN caught \cup {c} ELSE caught
    /\ UNCHANGED <<linkVars, id, ids, mutex, beating, handling>>

\* ... and then gives the id back, once; an id that is not there is logged
DropId(c) ==
    /\ camera[c] = "dropping"
    /\ mutex = {}
    /\ ids' = [ids EXCEPT ![id[c]] = IF @ = 0 THEN 0 ELSE @ - 1]
    /\ camera' = [camera EXCEPT ![c] = "gone"]
    /\ UNCHANGED <<linkVars, id, mutex, beating, handling, caught>>

\* Drop that only lets go of the tasks' handles
Aborted_Detached(c) == FALSE

Aborted(c) == camera[c] \in {"dropping", "gone"}

------------------------------------------------------------------------------
(* The channel *)

\* a full channel loses its oldest message
ToNetwork == unsent' = IF unsent = Capacity THEN unsent ELSE unsent + 1

Listening == {c \in Cameras : task[c] \notin {"off", "starting"}}

\* receiver_loop passes a request on to every camera that listens; one that
\* has not kept up loses all it has not read, for it subscribes again
Receive(r) ==
    /\ pc["receiver"] = "inside"
    /\ connection = "fine"
    /\ Len(received) < MaxReceived
    /\ received' = Append(received, r)
    /\ inbox' = [c \in Cameras |->
                    IF c \notin Listening THEN <<>>
                    ELSE IF Len(inbox[c]) = Capacity THEN <<>>
                    ELSE Append(inbox[c], Len(received) + 1)]
    /\ Goto("receiver", "idle")
    /\ UNCHANGED <<network, breaks, connection, unsent, camera, id, ids, mutex,
                   beating, task, hand, todo, said, answerers, caught>>

\* the messages that leave fill the same channel
Overflow(c) ==
    /\ c \in Listening
    /\ inbox[c] # <<>>
    /\ inbox' = [inbox EXCEPT ![c] = <<>>]
    /\ UNCHANGED <<linkVars, camera, id, ids, mutex, beating, task, hand, todo,
                   said, received, answerers, caught>>

------------------------------------------------------------------------------
(* heartbeat_loop *)

\* period.tick: ticks that are overdue are ready at once, so that a task that
\* was kept waiting sends several heartbeats before it can be aborted
Tick(c) ==
    /\ heart[c] = "waiting"
    /\ IF Aborted(c)
       THEN heart' = [heart EXCEPT ![c] = "off"] /\ due' = due
       ELSE /\ heart' = [heart EXCEPT ![c] = "sending"]
            /\ \E n \in 1..Burst : due' = [due EXCEPT ![c] = n]
    /\ UNCHANGED <<linkVars, camera, id, ids, mutex, staleBeats, handling, caught>>

Beat(c) ==
    /\ heart[c] = "sending"
    /\ due' = [due EXCEPT ![c] = @ - 1]
    /\ heart' = [heart EXCEPT ![c] = IF due[c] = 1 THEN "waiting" ELSE "sending"]
    /\ ToNetwork
    /\ staleBeats' = [staleBeats EXCEPT ![c] =
                        IF camera[c] = "gone" /\ @ <= Burst THEN @ + 1 ELSE @]
    /\ UNCHANGED <<network, breaks, connection, pc, camera, id, ids, mutex,
                   handling, caught>>

------------------------------------------------------------------------------
(* What a camera says about a request *)

\* target_component 0 is MAV_COMP_ID_ALL
IsAddressedTo(r, i) == r.to \in {0, i}

Ack(result)       == [what |-> "ack", result |-> result, control |-> 0]
ParamAck(result, k) == [what |-> "ack", result |-> result, control |-> k]
Value(k)          == [what |-> "value", result |-> "", control |-> k]
Information       == [what |-> "information", result |-> "", control |-> 0]
Await             == [what |-> "await", result |-> "", control |-> 0]

\* the numbers that n begins with, short of eight digits at most
Beginnings(n) ==
    {n, n \div 10, n \div 100, n \div 1000, n \div 10000, n \div 100000,
     n \div 1000000, n \div 10000000, n \div 100000000}

\* the first seven bytes
ControlIdOf_Seven(n) == Max(Beginnings(n) \cap 0..9999999)

\* control_id_from_param_id reads the first eight of the sixteen bytes in
\* which a station writes a control's id in decimal, as it is listed to it
ControlIdOf(n) == Max(Beginnings(n) \cap Readable)

\* COMMAND_LONG; resetting the controls acknowledges twice, with the reset
\* in between
CommandReplies(r) ==
    CASE r.kind = "information"     -> {<<Ack("accepted"), Information>>}
      [] r.kind = "unknown_stream"  -> {<<Ack("unsupported")>>}
      [] r.kind = "unknown"         -> {<<Ack("unsupported")>>}
      [] r.kind = "reset"           ->
            {<<Ack("accepted"), Await, Ack(result)>> :
                result \in {"accepted", "denied"}}
      [] OTHER                      -> {}

\* the same information asked for with MAV_CMD_REQUEST_MESSAGE
MessageReplies(r) ==
    CASE r.kind = "information"                           ->
            {<<Ack("accepted"), Information>>}
      [] r.kind \in {"unknown_stream", "unknown_message"} -> {<<Ack("denied")>>}
      [] OTHER                                            -> {}

\* the ones an external recorder answers instead
CaptureReplies(r) ==
    IF Recorder THEN {<<>>}
    ELSE IF r.kind = "capture_status" THEN {<<Ack("accepted"), Information>>}
    ELSE {<<Ack("unsupported")>>}

\* PARAM_EXT_SET, with a control the camera has or not, and a value that can
\* be read or not
SetReplies(r) ==
    LET k == ControlIdOf(r.control) IN
    {<<ParamAck("unsupported", k)>>, <<ParamAck("failed", k)>>} \cup
        (IF k \in Controls THEN {<<ParamAck("accepted", k)>>} ELSE {})

\* PARAM_EXT_REQUEST_READ is silent about what it cannot read
ReadReplies(r) ==
    LET k == ControlIdOf(r.control) IN
    {<<>>} \cup (IF k \in Controls THEN {<<Value(k)>>} ELSE {})

\* the same with an index into the list of controls
ReadAtReplies(r) ==
    {<<>>} \cup {<<Value(k)>> : k \in {k \in Controls :
                    Cardinality({l \in Controls : l < k}) = r.control}}

\* PARAM_EXT_REQUEST_LIST skips what it cannot read
ListReplies ==
    {s \in SeqOf({Value(k) : k \in Controls}, Cardinality(Controls)) :
        \A i, j \in DOMAIN s : i < j => s[i].control < s[j].control}

Replies(r) ==
    CASE r.kind = "set"  -> SetReplies(r)
      [] r.kind = "read" -> ReadReplies(r)
      [] r.kind = "read_at" -> ReadAtReplies(r)
      [] r.kind = "list" -> ListReplies
      [] r.kind \in {"capture", "capture_status"} -> CaptureReplies(r)
      [] OTHER           -> CommandReplies(r) \cup MessageReplies(r)

------------------------------------------------------------------------------
(* messages_loop *)

Subscribe(c) ==
    /\ task[c] = "starting"
    /\ task' = [task EXCEPT ![c] = IF Aborted(c) THEN "off" ELSE "polling"]
    /\ UNCHANGED <<linkVars, camera, id, ids, mutex, beating, inbox, hand, todo,
                   said, received, answerers, caught>>

\* the task gives way: recv or reset_controls has nothing for it yet, or it
\* has had its share of the thread
Park(c) ==
    /\ \/ /\ task[c] = "polling"
          /\ task' = [task EXCEPT ![c] = "waiting"]
       \/ /\ task[c] = "handling"
          /\ todo[c] # <<>> /\ Head(todo[c]) = Await
          /\ task' = [task EXCEPT ![c] = "resting"]
    /\ UNCHANGED <<linkVars, camera, id, ids, mutex, beating, inbox, hand, todo,
                   said, received, answerers, caught>>

\* it is polled again, which is when it would have heard of the abort
Wake(c) ==
    /\ ~Aborted(c)
    /\ \/ task[c] = "waiting" /\ task' = [task EXCEPT ![c] = "polling"]
       \/ task[c] = "resting" /\ task' = [task EXCEPT ![c] = "handling"]
    /\ UNCHANGED <<linkVars, camera, id, ids, mutex, beating, inbox, hand, todo,
                   said, received, answerers, caught>>

\* recv has a message, aborted or not, and handle_message takes it; a request
\* for another component is dropped
Handle(c) ==
    /\ task[c] = "polling"
    /\ inbox[c] # <<>>
    /\ hand' = [hand EXCEPT ![c] = Head(inbox[c])]
    /\ inbox' = [inbox EXCEPT ![c] = Tail(@)]
    /\ task' = [task EXCEPT ![c] = "handling"]
    /\ LET r == received[Head(inbox[c])] IN
       \E replies \in IF IsAddressedTo(r, id[c]) THEN Replies(r) ELSE {<<>>} :
            todo' = [todo EXCEPT ![c] = replies]
    /\ said' = [said EXCEPT ![c] = <<>>]
    /\ UNCHANGED <<linkVars, camera, id, ids, mutex, beating, received, answerers,
                   caught>>

\* one message more goes to the network
Say(c) ==
    /\ task[c] = "handling"
    /\ todo[c] # <<>>
    /\ Head(todo[c]) # Await
    /\ said' = [said EXCEPT ![c] = Append(@, Head(todo[c]))]
    /\ todo' = [todo EXCEPT ![c] = Tail(@)]
    /\ answerers' = [answerers EXCEPT ![hand[c]] = @ \cup {c}]
    /\ ToNetwork
    /\ UNCHANGED <<network, breaks, connection, pc, camera, id, ids, mutex,
                   beating, task, inbox, hand, received, caught>>

\* reset_controls is done
Resume(c) ==
    /\ task[c] = "handling"
    /\ todo[c] # <<>>
    /\ Head(todo[c]) = Await
    /\ todo' = [todo EXCEPT ![c] = Tail(@)]
    /\ UNCHANGED <<linkVars, camera, id, ids, mutex, beating, task, inbox, hand,
                   said, received, answerers, caught>>

Handled(c) ==
    /\ task[c] = "handling"
    /\ todo[c] = <<>>
    /\ task' = [task EXCEPT ![c] = "polling"]
    /\ UNCHANGED <<linkVars, camera, id, ids, mutex, beating, inbox, hand, todo,
                   said, received, answerers, caught>>

\* the abort reaches the task where it waits
EndTask(c) ==
    /\ Aborted(c)
    /\ task[c] \in {"waiting", "resting"}
    /\ task' = [task EXCEPT ![c] = "off"]
    /\ inbox' = [inbox EXCEPT ![c] = <<>>]
    /\ hand' = [hand EXCEPT ![c] = 0]
    /\ todo' = [todo EXCEPT ![c] = <<>>]
    /\ said' = [said EXCEPT ![c] = <<>>]
    /\ UNCHANGED <<linkVars, camera, id, ids, mutex, beating, received, answerers,
                   caught>>

------------------------------------------------------------------------------
others == <<camera, id, ids, mutex, beating, handling, caught>>

CameraNext ==
    \E c \in Cameras :
        \/ TakeId(c) \/ LockManager(c) \/ GetSender(c)
        \/ StartDrop(c) \/ DropId(c)
        \/ Tick(c) \/ Beat(c)
        \/ Overflow(c) \/ Subscribe(c) \/ Park(c) \/ Wake(c)
        \/ Handle(c) \/ Say(c) \/ Resume(c) \/ Handled(c) \/ EndTask(c)

Next ==
    \/ LinkNext /\ UNCHANGED others
    \/ \E r \in Requests : Receive(r)
    \/ CameraNext

Spec == Init /\ [][Next]_vars

\* The threads of MavlinkLink run, and get_sender returns once its locks
\* are free.
FairSpec ==
    /\ Spec
    /\ LinkFairness
    /\ \A c \in Cameras : WF_vars(GetSender(c))

------------------------------------------------------------------------------
(* Properties *)

HasId(c) == camera[c] \in {"asking", "alive", "dropping"}

\* The ids in use are those of the cameras that are being made, alive or
\* being dropped, each used once: no camera that failed to start keeps one,
\* and none is given out twice.
IdsMatchCameras ==
    /\ \A i \in Ids : ids[i] = IF \E c \in Cameras : HasId(c) /\ id[c] = i THEN 1 ELSE 0
    /\ \A c, d \in Cameras : HasId(c) /\ HasId(d) /\ id[c] = id[d] => c = d

\* A request that names a component is answered by one camera at most, also
\* when the component's id passes from a camera that is dropped to another
\* while the first one's tasks still run.  Excepted are cameras whose
\* messages_loop was running at the moment it was aborted: until it has to wait
\* it goes on to whatever arrives, under the id that is no longer its own.
OneAnswerer ==
    \A n \in 1..Len(received) :
        received[n].to # 0 => Cardinality(answerers[n] \ caught) <= 1

\* A camera that gave its id back sends what was due in the poll that the abort
\* met, and no heartbeat after it that would speak for the next with the id.
DroppedFallsSilent == \A c \in Cameras : staleBeats[c] + due[c] <= Burst \/ camera[c] # "gone"

\* k is the control that the first eight digits of n name.
Names(n, k) ==
    IF n \in Readable THEN k = n
    ELSE k \in Beginnings(n) /\ k >= 10000000 /\ k <= 99999999

\* When a request has been handled, the information it was promised has
\* followed, and what was set or read is the control that it named -- by its
\* first eight digits, so that an id with more of them is never reached.
AnswersFit ==
    \A c \in Cameras : hand[c] # 0 =>
        LET r == received[hand[c]] IN
        /\ (r.kind = "information" /\ said[c] # <<>> /\ task[c] \in {"polling", "waiting"})
                => said[c] = <<Ack("accepted"), Information>>
        /\ r.kind \in {"set", "read"} =>
            \A i \in DOMAIN said[c] : Names(r.control, said[c][i].control)

\* When a thread found the connection missing or broken and asked for the lock,
\* there is a time when neither thread keeps the others from it.
LinkRestored ==
    (\E t \in Threads : pc[t] \in {"asking", "connecting"}) ~> CanRead

\* A stream that makes its camera does not keep the manager's mutex, which
\* every other camera needs to start and to end.
ManagerIsReleased == mutex # {} ~> mutex = {}

\* A component id belongs to one camera: it is handed out once, and who gave it back
\* falls silent.
ComponentsInv == TypeOK /\ IdsMatchCameras /\ DroppedFallsSilent
================================================================================
