---------------------------- MODULE SourceProofs -----------------------------
(***************************************************************************)
(* TLAPS proofs about the streams and their sources: the stream manager,   *)
(* for any configurations and requests, the local devices that cameras are *)
(* found again on, and the cameras that ONVIF finds.                       *)
(***************************************************************************)
EXTENDS StreamManager, LocalDevices, OnvifDevices, FiniteSetTheorems, TLAPS

Free(S) == \A c, d \in S : c # d => ~Conflicts(c, d)

-----------------------------------------------------------------------------
(* The inductive invariant *)

\* Which labels each request passes, and what it still has to do there.
Shape(t) ==
  /\ t.at = "idle" <=> t = Quiet
  /\ t.op = "None" => t.at = "idle"
  /\ t.op = "Post" => t.at \in {"idle", "add", "conflicts", "insert", "save", "write"} /\ t.removing = {}
  /\ t.op = "Delete" => t.at \in {"idle", "remove", "save", "write"} /\ t.adding = {}
  /\ t.op = "Block" => t.at \in {"idle", "save", "write", "collect", "remove"} /\ t.adding = {}
  /\ t.op = "Unblock" => t.at \in {"idle", "save", "write"} /\ ~t.locked /\ t.adding = {} /\ t.removing = {}
  /\ t.at \in {"save", "write"} /\ ~t.locked => t.op \in {"Block", "Unblock", "Restart"}
  /\ t.at \in {"conflicts", "insert"} => \E c \in Configs : t.item = {c} /\ c \notin t.adding
  /\ t.at \in {"add", "conflicts", "insert"} => t.removing = {}
  /\ t.at = "add" => t.item = {}
  /\ t.op = "Restart" /\ t.at \in {"save", "write"} => t.removing = {}
  /\ t.op = "Restart" => t.at # "collect"

Shapes == \A r \in Tasks : Shape(task[r])

\* The requests of an orderly run: one restart and nothing else, or removals by
\* id and at most one request of another kind.
Alone ==
  orderly => \A q, r \in Tasks :
    q # r /\ ~Idle(q) /\ ~Idle(r) =>
      "Restart" \notin {task[q].op, task[r].op} /\ "Delete" \in {task[q].op, task[r].op}

Restarts(r) == task[r].op = "Restart"

\* But for a restart, the table, the settings and what was asked for agree.
Agreed == orderly /\ (\A r \in Tasks : ~Restarts(r)) => streams = wanted /\ settings.streams = wanted

\* Streams that run together do not conflict, nor those asked for.
WantedFree == orderly => Free(wanted)
TableFree  == orderly => Free(streams)

\* What the checks of an addition have found still holds when it is made.
CheckedFor(r) ==
  /\ At(r) \in {"conflicts", "insert"} => \A c \in task[r].item : Source(c) \notin settings.blocked
  /\ At(r) = "insert" => \A c \in task[r].item, d \in streams : ~Conflicts(d, c)

Checked == orderly => \A r \in Tasks : CheckedFor(r)

\* A block knows the streams it has yet to remove.
Removes(r, c) ==
  /\ task[r].op = "Block"
  /\ IF At(r) = "collect" \/ (At(r) \in {"save", "write"} /\ ~task[r].locked)
       THEN c \in task[r].item
       ELSE Id(c) \in task[r].removing

BlockKnows ==
  \A c \in streams : Source(c) \in settings.blocked => \E r \in Tasks : Removes(r, c)

Blocking == orderly /\ (\A r \in Tasks : ~Restarts(r)) => BlockKnows

\* A restart has what was asked for in the settings, then in its plan, and at the
\* end in the table again.
Restarting(r) ==
  LET t == task[r]
  IN  /\ \A c \in wanted : Source(c) \notin settings.blocked
      /\ t.at \in {"save", "write"} /\ ~t.locked => settings.streams = wanted
      /\ t.at \in {"plan", "keys", "remove"} => settings.streams = wanted
      /\ t.at \in {"keys", "remove"} => t.adding = wanted
      /\ t.at = "remove" => \A c \in streams : Id(c) \in t.removing
      /\ t.at \in {"add", "conflicts", "insert"} =>
           /\ t.adding \subseteq wanted /\ t.item \subseteq wanted
           /\ streams = wanted \ (t.adding \union t.item)
      /\ t.at \in {"save", "write"} /\ t.locked =>
           /\ t.adding \subseteq wanted
           /\ streams = wanted \ t.adding
           /\ settings.streams = streams

Restored == orderly => \A r \in Tasks : Restarts(r) => Restarting(r)

OrderInv ==
  Alone /\ Agreed /\ WantedFree /\ TableFree /\ Checked /\ Blocking /\ Restored

Base == TypeOK /\ Shapes /\ FileIsCurrent

IInv == Base /\ OrderInv

-----------------------------------------------------------------------------
(* Conflicts and ids *)

\* Whom a stream conflicts with conflicts with it.
LEMMA ConflictsBothWays ==
    ASSUME NEW c \in Configs, NEW d \in Configs, Conflicts(c, d)
    PROVE  Conflicts(d, c)
<1>1. c.endpoints \intersect d.endpoints = d.endpoints \intersect c.endpoints
    OBVIOUS
<1>2. Source(c) = Source(d) => c.shareable = d.shareable
    BY ConfigsAssumption
<1>3. QED
    BY <1>1, <1>2 DEF Conflicts

\* Streams with one id conflict: the id holds the name, or it is that of a device,
\* which is not shared.
LEMMA OneIdConflicts ==
    ASSUME NEW c \in Configs, NEW d \in Configs, Id(c) = Id(d)
    PROVE  Conflicts(c, d)
<1>1. <<c.name, c.path>> # <<d.path>> /\ <<d.name, d.path>> # <<c.path>>
    OBVIOUS
<1>2. c.shareable <=> d.shareable
    BY <1>1 DEF Id
<1>3. CASE c.shareable
    <2>1. <<c.name, c.path>> = <<d.name, d.path>>
        BY <1>2, <1>3 DEF Id
    <2>2. QED
        BY <2>1 DEF Conflicts
<1>4. CASE ~c.shareable
    <2>1. <<c.path>> = <<d.path>>
        BY <1>2, <1>4 DEF Id
    <2>2. c.host = d.host
        BY <1>2, <1>4, ConfigsAssumption
    <2>3. QED
        BY <1>4, <2>1, <2>2 DEF Conflicts, Source
<1>5. QED
    BY <1>3, <1>4

-----------------------------------------------------------------------------
(* The requests *)

ConfigIds == {Id(c) : c \in Configs}

TaskRecords == [op : Ops, at : Labels, removing : SUBSET ConfigIds, adding : SUBSET Configs,
                item : SUBSET Configs, locked : BOOLEAN]

LEMMA QuietIs ==
    /\ Quiet \in TaskRecords /\ Booting \in TaskRecords
    /\ Shape(Quiet) /\ Shape(Booting)
    /\ Quiet.op = "None" /\ Quiet.at = "idle" /\ Booting.op = "Restart" /\ Booting.at = "save"
    /\ ~Booting.locked
BY DEF Quiet, Booting, TaskRecords, Ops, Labels, Shape

\* What a request turns to after a removal or an addition.
LEMMA ResumedIs ==
    ASSUME NEW t \in TaskRecords
    PROVE  /\ Resumed(t) \in TaskRecords
           /\ t.removing # {} =>
                /\ Resumed(t).at = "remove" /\ Resumed(t).op = t.op /\ Resumed(t).item = {}
                /\ Resumed(t).removing = t.removing /\ Resumed(t).adding = t.adding
                /\ ~Resumed(t).locked
           /\ t.removing = {} /\ t.adding # {} =>
                /\ Resumed(t).at = "add" /\ Resumed(t).op = t.op /\ Resumed(t).item = {}
                /\ Resumed(t).removing = t.removing /\ Resumed(t).adding = t.adding
                /\ ~Resumed(t).locked
           /\ t.removing = {} /\ t.adding = {} => Resumed(t) = Quiet
BY QuietIs DEF Resumed, TaskRecords, Ops, Labels

LEMMA ResumedShape ==
    ASSUME NEW t \in TaskRecords, t.op # "None",
           t.op \in {"Delete", "Block", "Unblock"} => t.adding = {},
           t.op \in {"Post", "Unblock"} => t.removing = {}
    PROVE  Shape(Resumed(t)) /\ (Resumed(t).op = t.op \/ Resumed(t) = Quiet)
<1>1. CASE t.removing # {}
    BY <1>1, ResumedIs, QuietIs DEF Shape, Quiet, TaskRecords, Ops
<1>2. CASE t.removing = {} /\ t.adding # {}
    BY <1>2, ResumedIs, QuietIs DEF Shape, Quiet, TaskRecords, Ops
<1>3. CASE t.removing = {} /\ t.adding = {}
    BY <1>3, ResumedIs, QuietIs
<1>4. QED
    BY <1>1, <1>2, <1>3

\* A step of a request changes what that request is doing, and it keeps its kind
\* until it is over.
Proceeds(r) ==
  /\ ~Idle(r)
  /\ \E t \in TaskRecords :
       /\ Shape(t) /\ (t.op = task[r].op \/ t = Quiet)
       /\ task' = [task EXCEPT ![r] = t]
  /\ UNCHANGED <<orderly, crashes>>

LEMMA TypedTask ==
    ASSUME TypeOK, Shapes, NEW r \in Tasks
    PROVE  /\ task[r] \in TaskRecords /\ Shape(task[r])
           /\ Idle(r) <=> task[r] = Quiet
           /\ ~Idle(r) => task[r].op # "None"
BY QuietIs DEF TypeOK, Shapes, Shape, TaskRecords, ConfigIds, Idle, At

\* Resuming is such a step.
LEMMA ResumeProceeds ==
    ASSUME TypeOK, Shapes, NEW r \in Tasks, ~Idle(r), UNCHANGED <<orderly, crashes>>,
           NEW t \in TaskRecords, t.op = task[r].op,
           t.op \in {"Delete", "Block", "Unblock"} => t.adding = {},
           t.op \in {"Post", "Unblock"} => t.removing = {},
           Resume(r, t)
    PROVE  Proceeds(r)
<1>1. t.op # "None"
    BY TypedTask
<1>2. Shape(Resumed(t)) /\ (Resumed(t).op = task[r].op \/ Resumed(t) = Quiet)
    BY <1>1, ResumedShape
<1>3. Resumed(t) \in TaskRecords
    BY ResumedIs
<1>4. QED
    BY <1>2, <1>3 DEF Proceeds, Resume

\* A save that has ended, well or not.
SaveEnds(r) ==
  /\ At(r) \in {"save", "write"} /\ Saved(r)
  /\ UNCHANGED <<streams, settings, crashes, wanted, orderly>>

LEMMA SavesEnd == \A r \in Tasks : OpenFails(r) \/ Write(r) => SaveEnds(r)
BY DEF OpenFails, Write, SaveEnds

LEMMA StepProceeds ==
    ASSUME TypeOK, Shapes, NEW r \in Tasks, Step(r)
    PROVE  Proceeds(r)
<1> DEFINE t == task[r]
<1>0. t \in TaskRecords /\ Shape(t) /\ (~Idle(r) => t.op # "None")
    BY TypedTask
<1> HIDE DEF t
<1>0a. t = task[r]
    BY DEF t
<1>1. CASE Truncate(r)
    <2> DEFINE u == [t EXCEPT !.at = "write"]
    <2>1. u \in TaskRecords /\ Shape(u) /\ u.op = t.op
        BY <1>0, <1>0a, <1>1 DEF Truncate, At, TaskRecords, Labels, Shape, Quiet
    <2>2. task' = [task EXCEPT ![r] = u]
        BY <1>0a, <1>1 DEF Truncate, Goto
    <2> HIDE DEF u
    <2>3. QED
        BY <1>0a, <1>1, <2>1, <2>2 DEF Truncate, Proceeds, Idle, At
<1>2. CASE OpenFails(r) \/ Write(r)
    <2>0. SaveEnds(r)
        BY <1>2, SavesEnd
    <2>1. ~Idle(r) /\ UNCHANGED <<orderly, crashes>> /\ t.at \in {"save", "write"}
        BY <1>0a, <2>0 DEF SaveEnds, Idle, At
    <2>2. CASE t.locked \/ t.op = "Unblock"
        <3>1. ~(~t.locked /\ t.op = "Block") /\ ~(~t.locked /\ t.op = "Restart")
            BY <2>2
        <3>2. Resume(r, t)
            BY <1>0a, <2>0, <2>2, <3>1 DEF SaveEnds, Saved
        <3>3. /\ t.op \in {"Delete", "Block", "Unblock"} => t.adding = {}
              /\ t.op \in {"Post", "Unblock"} => t.removing = {}
            BY <1>0 DEF Shape
        <3>4. QED
            BY <1>0, <1>0a, <2>1, <3>2, <3>3, ResumeProceeds
    <2>3. CASE ~t.locked /\ t.op = "Block"
        <3> DEFINE u == [t EXCEPT !.at = "collect"]
        <3>1. u \in TaskRecords /\ Shape(u) /\ u.op = t.op
            BY <1>0, <2>3 DEF TaskRecords, Labels, Shape, Quiet
        <3>2. task' = [task EXCEPT ![r] = u]
            BY <1>0a, <2>0, <2>3 DEF SaveEnds, Saved, Goto
        <3> HIDE DEF u
        <3>3. QED
            BY <1>0a, <2>1, <3>1, <3>2 DEF Proceeds
    <2>4. CASE ~t.locked /\ t.op = "Restart"
        <3> DEFINE u == [t EXCEPT !.at = "plan"]
        <3>1. u \in TaskRecords /\ Shape(u) /\ u.op = t.op
            BY <1>0, <2>4 DEF TaskRecords, Labels, Shape, Quiet
        <3>2. task' = [task EXCEPT ![r] = u]
            BY <1>0a, <2>0, <2>4 DEF SaveEnds, Saved, Goto
        <3> HIDE DEF u
        <3>3. QED
            BY <1>0a, <2>1, <3>1, <3>2 DEF Proceeds
    <2>5. QED
        BY <1>0, <2>1, <2>2, <2>3, <2>4 DEF Shape, TaskRecords
<1>3. CASE CheckBlocked(r)
    <2>1. ~Idle(r) /\ UNCHANGED <<orderly, crashes>> /\ t.at = "add"
        BY <1>0a, <1>3 DEF CheckBlocked, Idle, At
    <2>2. PICK c \in t.adding :
            LET u == [t EXCEPT !.adding = @ \ {c}, !.item = {c}]
            IN  IF Source(c) \in settings.blocked
                  THEN Resume(r, u)
                  ELSE task' = [task EXCEPT ![r] = [u EXCEPT !.at = "conflicts"]]
        BY <1>0a, <1>3 DEF CheckBlocked
    <2> DEFINE u == [t EXCEPT !.adding = @ \ {c}, !.item = {c}]
               v == [u EXCEPT !.at = "conflicts"]
    <2>3. /\ c \in Configs /\ u \in TaskRecords /\ u.op = t.op /\ u.op \in {"Post", "Restart"}
          /\ u.removing = {} /\ u.item = {c} /\ u.adding = t.adding \ {c}
        BY <1>0, <2>1, <2>2 DEF TaskRecords, Shape, Ops
    <2>4. /\ v \in TaskRecords /\ v.op = t.op /\ v.at = "conflicts" /\ v.item = {c}
          /\ v.adding = t.adding \ {c} /\ v.removing = {}
        BY <2>3 DEF TaskRecords, Labels
    <2>5. IF Source(c) \in settings.blocked THEN Resume(r, u) ELSE task' = [task EXCEPT ![r] = v]
        BY <2>2
    <2> HIDE DEF u, v
    <2>6. Shape(v)
        BY <2>3, <2>4 DEF Shape, Quiet, TaskRecords
    <2>7. CASE Source(c) \in settings.blocked
        BY <1>0a, <2>1, <2>3, <2>5, <2>7, ResumeProceeds
    <2>8. CASE Source(c) \notin settings.blocked
        BY <1>0a, <2>1, <2>4, <2>5, <2>6, <2>8 DEF Proceeds
    <2>9. QED
        BY <2>7, <2>8
<1>4. CASE CheckConflicts(r)
    <2>1. ~Idle(r) /\ UNCHANGED <<orderly, crashes>> /\ t.at = "conflicts"
        BY <1>0a, <1>4 DEF CheckConflicts, Idle, At
    <2>2. t.removing = {} /\ t.op \in {"Post", "Restart"}
        BY <1>0, <2>1 DEF Shape, TaskRecords, Ops
    <2> DEFINE u == [t EXCEPT !.at = "insert"]
    <2>3. u \in TaskRecords /\ Shape(u) /\ u.op = t.op
        BY <1>0, <2>1 DEF TaskRecords, Labels, Shape, Quiet
    <2>4. Resume(r, t) \/ task' = [task EXCEPT ![r] = u]
        BY <1>0a, <1>4 DEF CheckConflicts, Goto
    <2> HIDE DEF u
    <2>5. QED
        BY <1>0, <1>0a, <2>1, <2>2, <2>3, <2>4, ResumeProceeds DEF Proceeds
<1>5. CASE Insert(r)
    <2>1. ~Idle(r) /\ UNCHANGED <<orderly, crashes>> /\ t.at = "insert"
        BY <1>0a, <1>5 DEF Insert, Idle, At
    <2>2. t.removing = {} /\ t.op \in {"Post", "Restart"}
        BY <1>0, <2>1 DEF Shape, TaskRecords, Ops
    <2> DEFINE u == [t EXCEPT !.at = "save", !.locked = TRUE]
    <2>3. u \in TaskRecords /\ Shape(u) /\ u.op = t.op
        BY <1>0, <2>1, <2>2 DEF TaskRecords, Labels, Shape, Quiet
    <2>4. Resume(r, t) \/ task' = [task EXCEPT ![r] = u]
        BY <1>0a, <1>5 DEF Insert, Save
    <2> HIDE DEF u
    <2>5. QED
        BY <1>0, <1>0a, <2>1, <2>2, <2>3, <2>4, ResumeProceeds DEF Proceeds
<1>6. CASE Remove(r)
    <2>1. ~Idle(r) /\ UNCHANGED <<orderly, crashes>> /\ t.at = "remove"
        BY <1>0a, <1>6 DEF Remove, Idle, At
    <2>2. PICK id \in t.removing :
            LET u == [t EXCEPT !.removing = @ \ {id}]
            IN  IF u.op = "Restart" \/ WithId(id) = {} THEN Resume(r, u) ELSE Save(r, u)
        BY <1>0a, <1>6 DEF Remove
    <2> DEFINE u == [t EXCEPT !.removing = @ \ {id}]
               v == [u EXCEPT !.at = "save", !.locked = TRUE]
    <2>3. /\ u \in TaskRecords /\ u.op = t.op /\ u.adding = t.adding /\ u.at = "remove"
          /\ u.op \in {"Delete", "Block", "Restart"}
          /\ u.op \in {"Delete", "Block"} => u.adding = {}
        BY <1>0, <2>1, <2>2 DEF TaskRecords, Shape, Ops
    <2>4. /\ v \in TaskRecords /\ v.op = t.op /\ v.at = "save" /\ v.locked
          /\ v.adding = t.adding
        BY <2>3 DEF TaskRecords, Labels
    <2>5. IF u.op = "Restart" \/ WithId(id) = {} THEN Resume(r, u) ELSE task' = [task EXCEPT ![r] = v]
        BY <2>2 DEF Save
    <2> HIDE DEF u, v
    <2>6. t.op # "Restart" => Shape(v)
        BY <2>3, <2>4 DEF Shape, Quiet, TaskRecords
    <2>7. CASE u.op = "Restart" \/ WithId(id) = {}
        BY <1>0a, <2>1, <2>3, <2>5, <2>7, ResumeProceeds
    <2>8. CASE ~(u.op = "Restart" \/ WithId(id) = {})
        BY <1>0a, <2>1, <2>3, <2>4, <2>5, <2>6, <2>8 DEF Proceeds
    <2>9. QED
        BY <2>7, <2>8
<1>7. CASE Collect(r)
    <2>1. ~Idle(r) /\ UNCHANGED <<orderly, crashes>> /\ t.at = "collect"
        BY <1>0a, <1>7 DEF Collect, Idle, At
    <2> DEFINE ids == {Id(c) : c \in streams \intersect t.item}
               u == [t EXCEPT !.removing = ids]
    <2>2. ids \subseteq ConfigIds
        BY DEF TypeOK, ConfigIds
    <2>3. Resume(r, u)
        BY <1>0a, <1>7 DEF Collect
    <2> HIDE DEF ids
    <2>4. u \in TaskRecords /\ u.op = t.op /\ u.op \in {"Block", "Restart"} /\ u.adding = t.adding
        BY <1>0, <2>1, <2>2 DEF TaskRecords, Shape, Ops
    <2> HIDE DEF u
    <2>5. u.op = "Block" => u.adding = {}
        BY <1>0, <2>4 DEF Shape
    <2>6. QED
        BY <1>0a, <2>1, <2>3, <2>4, <2>5, ResumeProceeds
<1>8. CASE Plan(r)
    <2>1. ~Idle(r) /\ UNCHANGED <<orderly, crashes>> /\ t.at = "plan"
        BY <1>0a, <1>8 DEF Plan, Idle, At
    <2> DEFINE u == [t EXCEPT !.adding = settings.streams, !.at = "keys"]
    <2>2. task' = [task EXCEPT ![r] = u]
        BY <1>0a, <1>8 DEF Plan
    <2>3. u \in TaskRecords /\ Shape(u) /\ u.op = t.op
        BY <1>0, <2>1 DEF TypeOK, SettingsRecords, TaskRecords, Labels, Shape, Ops, Quiet
    <2> HIDE DEF u
    <2>4. QED
        BY <1>0a, <2>1, <2>2, <2>3 DEF Proceeds
<1>9. CASE Keys(r)
    <2>1. ~Idle(r) /\ UNCHANGED <<orderly, crashes>> /\ t.at = "keys"
        BY <1>0a, <1>9 DEF Keys, Idle, At
    <2> DEFINE ids == {Id(c) : c \in streams}
               u == [t EXCEPT !.removing = ids]
    <2>2. ids \subseteq ConfigIds
        BY DEF TypeOK, ConfigIds
    <2>3. Resume(r, u)
        BY <1>0a, <1>9 DEF Keys
    <2> HIDE DEF ids
    <2>4. u \in TaskRecords /\ u.op = t.op /\ u.op = "Restart"
        BY <1>0, <2>1, <2>2 DEF TaskRecords, Shape, Ops
    <2> HIDE DEF u
    <2>5. QED
        BY <1>0a, <2>1, <2>3, <2>4, ResumeProceeds
<1>10. QED
    BY <1>1, <1>2, <1>3, <1>4, <1>5, <1>6, <1>7, <1>8, <1>9 DEF Step

-----------------------------------------------------------------------------
(* Types, labels and the file *)

\* A request that is taken, as what it starts with.
Accepts(r, t) ==
  /\ r \in Requests /\ Idle(r) /\ Idle(Boot)
  /\ t \in TaskRecords /\ Shape(t) /\ t.op # "None"
  /\ task' = [task EXCEPT ![r] = t]
  /\ orderly' = (orderly /\ ~Overlaps(r, t.op))
  /\ UNCHANGED crashes

LEMMA PostAccepts ==
    ASSUME TypeOK, NEW r, NEW c \in Configs, Post(r, c)
    PROVE  /\ \E t : /\ Accepts(r, t) /\ t.op = "Post" /\ t.at = "add" /\ t.adding = {c}
           /\ UNCHANGED <<streams, settings, file, failures, failed, wanted>>
<1> DEFINE t == [Quiet EXCEPT !.op = "Post", !.at = "add", !.adding = {c}]
<1>1. /\ t \in TaskRecords /\ t.op = "Post" /\ t.at = "add" /\ t.adding = {c}
      /\ t.removing = {} /\ t.item = {}
    BY DEF Quiet, TaskRecords, Ops, Labels
<1>2. Accept(r, t) /\ UNCHANGED <<streams, settings, file, failures, failed, wanted, crashes>>
    BY DEF Post
<1> HIDE DEF t
<1>3. Shape(t)
    BY <1>1 DEF Shape, Quiet
<1>4. Accepts(r, t)
    BY <1>1, <1>2, <1>3 DEF Accepts, Accept
<1>5. QED
    BY <1>1, <1>2, <1>4

LEMMA DeleteAccepts ==
    ASSUME TypeOK, NEW r, NEW c \in Configs, Delete(r, c)
    PROVE  /\ \E t : Accepts(r, t) /\ t.op = "Delete" /\ t.at = "remove"
           /\ UNCHANGED <<streams, settings, file, failures, failed, wanted>>
<1> DEFINE ids == {Id(c)}
           t == [Quiet EXCEPT !.op = "Delete", !.at = "remove", !.removing = ids]
<1>0. ids \subseteq ConfigIds
    BY DEF ConfigIds
<1>1. Accept(r, t) /\ UNCHANGED <<streams, settings, file, failures, failed, wanted, crashes>>
    BY DEF Delete
<1> HIDE DEF ids
<1>2. /\ t \in TaskRecords /\ t.op = "Delete" /\ t.at = "remove" /\ t.adding = {}
      /\ t.removing = ids
    BY <1>0 DEF Quiet, TaskRecords, Ops, Labels
<1> HIDE DEF t
<1>3. Shape(t)
    BY <1>2 DEF Shape, Quiet
<1>4. Accepts(r, t)
    BY <1>0, <1>1, <1>2, <1>3 DEF Accepts, Accept
<1>5. QED
    BY <1>1, <1>2, <1>4

LEMMA BlockAccepts ==
    ASSUME TypeOK, NEW r, NEW s \in Sources, Block(r, s)
    PROVE  /\ \E t : /\ Accepts(r, t) /\ t.op = "Block" /\ t.at = "save" /\ ~t.locked
                     /\ t.item = {c \in Configs : Source(c) = s}
           /\ SettingsFree /\ settings' = [settings EXCEPT !.blocked = @ \union {s}]
           /\ UNCHANGED <<streams, file, failures, failed, wanted>>
<1> DEFINE users == {c \in Configs : Source(c) = s}
           t == [Quiet EXCEPT !.op = "Block", !.at = "save", !.item = users]
<1>1. /\ Accept(r, t) /\ UNCHANGED <<streams, file, failures, failed, wanted, crashes>>
      /\ SettingsFree /\ settings' = [settings EXCEPT !.blocked = @ \union {s}]
    BY DEF Block
<1>2. users \subseteq Configs
    OBVIOUS
<1>3. users = {c \in Configs : Source(c) = s}
    OBVIOUS
<1> HIDE DEF users
<1>4. /\ t \in TaskRecords /\ t.op = "Block" /\ t.at = "save" /\ t.adding = {}
      /\ t.removing = {} /\ ~t.locked /\ t.item = users
    BY <1>2 DEF Quiet, TaskRecords, Ops, Labels
<1> HIDE DEF t
<1>5. Shape(t)
    BY <1>4 DEF Shape, Quiet
<1>6. Accepts(r, t)
    BY <1>1, <1>4, <1>5 DEF Accepts, Accept
<1>7. QED
    BY <1>1, <1>3, <1>4, <1>6

LEMMA UnblockAccepts ==
    ASSUME TypeOK, NEW r, NEW s \in Sources, Unblock(r, s)
    PROVE  /\ \E t : Accepts(r, t) /\ t.op = "Unblock" /\ t.at = "save"
           /\ SettingsFree /\ settings' = [settings EXCEPT !.blocked = @ \ {s}]
           /\ UNCHANGED <<streams, file, failures, failed, wanted>>
<1> DEFINE t == [Quiet EXCEPT !.op = "Unblock", !.at = "save"]
<1>1. /\ Accept(r, t) /\ UNCHANGED <<streams, file, failures, failed, wanted, crashes>>
      /\ SettingsFree /\ settings' = [settings EXCEPT !.blocked = @ \ {s}]
    BY DEF Unblock
<1>2. /\ t \in TaskRecords /\ t.op = "Unblock" /\ t.at = "save" /\ t.adding = {}
      /\ t.removing = {} /\ ~t.locked
    BY DEF Quiet, TaskRecords, Ops, Labels
<1> HIDE DEF t
<1>3. Shape(t)
    BY <1>2 DEF Shape, Quiet
<1>4. Accepts(r, t)
    BY <1>1, <1>2, <1>3 DEF Accepts, Accept
<1>5. QED
    BY <1>1, <1>2, <1>4

LEMMA RestartAccepts ==
    ASSUME TypeOK, NEW r, Restart(r)
    PROVE  /\ \E t : Accepts(r, t) /\ t.op = "Restart" /\ t.at = "plan"
           /\ UNCHANGED <<streams, settings, file, failures, failed, wanted>>
<1> DEFINE t == [Quiet EXCEPT !.op = "Restart", !.at = "plan"]
<1>1. Accept(r, t) /\ UNCHANGED <<streams, settings, file, failures, failed, wanted, crashes>>
    BY DEF Restart
<1>2. t \in TaskRecords /\ t.op = "Restart" /\ t.at = "plan" /\ t.removing = {}
    BY DEF Quiet, TaskRecords, Ops, Labels
<1> HIDE DEF t
<1>3. Shape(t)
    BY <1>2 DEF Shape, Quiet
<1>4. Accepts(r, t)
    BY <1>1, <1>2, <1>3 DEF Accepts, Accept
<1>5. QED
    BY <1>1, <1>2, <1>4

LEMMA ResetAccepts ==
    ASSUME TypeOK, NEW r, Reset(r)
    PROVE  /\ \E t : Accepts(r, t) /\ t.op = "Restart" /\ t.at = "save" /\ ~t.locked
           /\ SettingsFree /\ settings' = [streams |-> Defaults, blocked |-> {}]
           /\ wanted' = Defaults /\ UNCHANGED <<streams, file, failures, failed>>
<1> DEFINE t == [Quiet EXCEPT !.op = "Restart", !.at = "save"]
<1>1. /\ Accept(r, t) /\ UNCHANGED <<streams, file, failures, failed, crashes>>
      /\ SettingsFree /\ settings' = [streams |-> Defaults, blocked |-> {}]
      /\ wanted' = Defaults
    BY DEF Reset
<1>2. t \in TaskRecords /\ t.op = "Restart" /\ t.at = "save" /\ t.removing = {} /\ ~t.locked
    BY DEF Quiet, TaskRecords, Ops, Labels
<1> HIDE DEF t
<1>3. Shape(t)
    BY <1>2 DEF Shape, Quiet
<1>4. Accepts(r, t)
    BY <1>1, <1>2, <1>3 DEF Accepts, Accept
<1>5. QED
    BY <1>1, <1>2, <1>4

LEMMA TypedParts ==
    TypeOK <=> /\ streams \subseteq Configs /\ wanted \subseteq Configs
               /\ settings.streams \subseteq Configs /\ settings.blocked \subseteq Sources
               /\ settings \in SettingsRecords /\ file \in SettingsRecords \union {Torn}
               /\ task \in [Tasks -> TaskRecords]
               /\ crashes \in 0..MaxCrashes /\ orderly \in BOOLEAN
               /\ failures \in 0..MaxFailures /\ failed \in BOOLEAN
BY DEF TypeOK, SettingsRecords, TaskRecords, ConfigIds

\* Types and labels after the step of a request, or after one is taken.
LEMMA TaskTyped ==
    ASSUME TypeOK, Shapes, NEW r \in Tasks, NEW t \in TaskRecords, Shape(t),
           task' = [task EXCEPT ![r] = t],
           orderly' \in BOOLEAN, UNCHANGED crashes,
           streams' \subseteq Configs, wanted' \subseteq Configs,
           settings' \in SettingsRecords, file' \in SettingsRecords \union {Torn},
           failures' \in 0..MaxFailures, failed' \in BOOLEAN
    PROVE  TypeOK' /\ Shapes' /\ task'[r] = t /\ \A q \in Tasks \ {r} : task'[q] = task[q]
<1>1. task \in [Tasks -> TaskRecords] /\ crashes \in 0..MaxCrashes
    BY TypedParts
<1>2. /\ task' \in [Tasks -> TaskRecords] /\ task'[r] = t
      /\ \A q \in Tasks \ {r} : task'[q] = task[q]
    BY <1>1
<1>3. Shapes'
    BY <1>2 DEF Shapes
<1>4. TypeOK'
    BY <1>1, <1>2 DEF TypeOK, TaskRecords, ConfigIds
<1>5. QED
    BY <1>2, <1>3, <1>4

\* What the steps leave in the table, the settings and the file.
LEMMA StepData ==
    ASSUME TypeOK, NEW r \in Tasks, Step(r)
    PROVE  /\ streams' \subseteq Configs /\ wanted' \subseteq Configs
           /\ settings' \in SettingsRecords /\ file' \in SettingsRecords \union {Torn}
           /\ settings'.blocked = settings.blocked
           /\ failures' \in 0..MaxFailures /\ failed' \in BOOLEAN
<1>0. /\ streams \subseteq Configs /\ wanted \subseteq Configs
      /\ settings \in SettingsRecords /\ file \in SettingsRecords \union {Torn}
      /\ task[r].item \subseteq Configs
      /\ failures \in 0..MaxFailures /\ failed \in BOOLEAN
    BY TypedParts DEF TaskRecords
<1>1. CASE Truncate(r) \/ OpenFails(r) \/ Write(r)
    <2>1. SaveFails => failures' \in 0..MaxFailures /\ failed'
        BY <1>0, StreamManagerAssumption DEF SaveFails
    <2>2. QED
        BY <1>0, <1>1, <2>1 DEF Truncate, OpenFails, Write
<1>2. CASE CheckBlocked(r) \/ CheckConflicts(r) \/ Collect(r) \/ Plan(r) \/ Keys(r)
    BY <1>0, <1>2 DEF CheckBlocked, CheckConflicts, Collect, Plan, Keys
<1>3. CASE Insert(r)
    <2>1. PICK c \in task[r].item :
            /\ streams' = (streams \ WithId(Id(c))) \union {c}
            /\ \/ UNCHANGED <<settings, wanted>>
               \/ settings' = [settings EXCEPT !.streams = streams'] /\ wanted' = wanted \union {c}
        BY <1>3 DEF Insert
    <2>2. streams' \subseteq Configs /\ wanted' \subseteq Configs
        BY <1>0, <2>1
    <2>3. settings' \in SettingsRecords /\ settings'.blocked = settings.blocked
        BY <1>0, <2>1, <2>2 DEF SettingsRecords
    <2>4. QED
        BY <1>0, <1>3, <2>2, <2>3 DEF Insert
<1>4. CASE Remove(r)
    <2>1. PICK id \in task[r].removing :
            /\ streams' = streams \ WithId(id)
            /\ \/ UNCHANGED <<settings, wanted>>
               \/ settings' = [settings EXCEPT !.streams = streams'] /\ wanted' = wanted \ WithId(id)
        BY <1>4 DEF Remove
    <2>2. streams' \subseteq Configs /\ wanted' \subseteq Configs
        BY <1>0, <2>1
    <2>3. settings' \in SettingsRecords /\ settings'.blocked = settings.blocked
        BY <1>0, <2>1, <2>2 DEF SettingsRecords
    <2>4. QED
        BY <1>0, <1>4, <2>2, <2>3 DEF Remove
<1>5. QED
    BY <1>1, <1>2, <1>3, <1>4 DEF Step

\* A request that changes the settings goes on to save them.
LEMMA StepSaves ==
    ASSUME TypeOK, NEW r \in Tasks, Step(r), At(r)' \notin {"save", "write"}
    PROVE  \/ failed' \/ file' = settings'
           \/ At(r) \notin {"save", "write"} /\ UNCHANGED <<settings, file, failed>>
<1>0. task \in [Tasks -> TaskRecords]
    BY TypedParts
<1>1. CASE Truncate(r)
    BY <1>0, <1>1 DEF Truncate, Goto, At, TaskRecords
<1>2. CASE OpenFails(r) \/ Write(r)
    BY <1>2 DEF OpenFails, Write, SaveFails
<1>3. CASE CheckBlocked(r) \/ CheckConflicts(r) \/ Collect(r) \/ Plan(r) \/ Keys(r)
    BY <1>3 DEF CheckBlocked, CheckConflicts, Collect, Plan, Keys, At
<1>4. CASE Insert(r)
    <2>1. At(r) = "insert" /\ UNCHANGED <<file, failed>>
        BY <1>4 DEF Insert
    <2>2. UNCHANGED settings \/ Save(r, task[r])
        BY <1>4 DEF Insert
    <2>3. ~Save(r, task[r])
        BY <1>0 DEF Save, At, TaskRecords
    <2>4. QED
        BY <2>1, <2>2, <2>3
<1>5. CASE Remove(r)
    <2>1. At(r) = "remove" /\ UNCHANGED <<file, failed>>
        BY <1>5 DEF Remove
    <2>2. UNCHANGED settings \/ \E id \in task[r].removing : Save(r, [task[r] EXCEPT !.removing = @ \ {id}])
        BY <1>5 DEF Remove
    <2>3. ASSUME NEW id \in task[r].removing, Save(r, [task[r] EXCEPT !.removing = @ \ {id}]) PROVE FALSE
        BY <1>0, <2>3 DEF Save, At, TaskRecords
    <2>4. QED
        BY <2>1, <2>2, <2>3
<1>6. QED
    BY <1>1, <1>2, <1>3, <1>4, <1>5 DEF Step

LEMMA StepBase ==
    ASSUME Base, NEW r \in Tasks, Step(r)
    PROVE  /\ Base'
           /\ task'[r] \in TaskRecords /\ (task'[r].op = task[r].op \/ task'[r] = Quiet)
           /\ \A q \in Tasks \ {r} : task'[q] = task[q]
           /\ ~Idle(r) /\ orderly' = orderly
<1>0. TypeOK /\ Shapes /\ FileIsCurrent /\ orderly \in BOOLEAN
    BY DEF Base, TypeOK
<1>1. ~Idle(r) /\ UNCHANGED <<orderly, crashes>>
    BY <1>0, StepProceeds DEF Proceeds
<1>2. PICK t \in TaskRecords :
        Shape(t) /\ (t.op = task[r].op \/ t = Quiet) /\ task' = [task EXCEPT ![r] = t]
    BY <1>0, StepProceeds DEF Proceeds
<1>3. /\ streams' \subseteq Configs /\ wanted' \subseteq Configs
      /\ settings' \in SettingsRecords /\ file' \in SettingsRecords \union {Torn}
      /\ failures' \in 0..MaxFailures /\ failed' \in BOOLEAN
    BY <1>0, StepData
<1>4. TypeOK' /\ Shapes' /\ task'[r] = t /\ \A q \in Tasks \ {r} : task'[q] = task[q]
    BY <1>0, <1>1, <1>2, <1>3, TaskTyped
<1>5. FileIsCurrent'
    <2>1. SUFFICES ASSUME ~failed', \A q \in Tasks : At(q)' \notin {"save", "write"}
                   PROVE  file' = settings'
        BY DEF FileIsCurrent, At
    <2>2. CASE At(r) \notin {"save", "write"} /\ UNCHANGED <<settings, file, failed>>
        <3>1. \A q \in Tasks : At(q) \notin {"save", "write"}
            BY <1>4, <2>1, <2>2 DEF At
        <3>2. QED
            BY <1>0, <2>1, <2>2, <3>1 DEF FileIsCurrent
    <2>3. QED
        BY <1>0, <2>1, <2>2, StepSaves
<1>6. QED
    BY <1>1, <1>2, <1>4, <1>5 DEF Base

\* A request that is taken and changes the settings starts with saving them.
LEMMA AcceptBase ==
    ASSUME Base, NEW r, NEW t, Accepts(r, t),
           streams' \subseteq Configs, wanted' \subseteq Configs,
           settings' \in SettingsRecords, UNCHANGED <<file, failures, failed>>,
           UNCHANGED settings \/ t.at = "save"
    PROVE  /\ Base' /\ r \in Tasks /\ task'[r] = t
           /\ \A q \in Tasks \ {r} : task'[q] = task[q]
<1>0. /\ TypeOK /\ Shapes /\ FileIsCurrent /\ orderly \in BOOLEAN
      /\ file \in SettingsRecords \union {Torn}
      /\ failures' \in 0..MaxFailures /\ failed' \in BOOLEAN /\ failed' = failed
    BY DEF Base, TypeOK
<1>1. r \in Tasks /\ t \in TaskRecords /\ Shape(t) /\ task' = [task EXCEPT ![r] = t] /\ Idle(r)
    BY DEF Accepts, Tasks
<1>2. orderly' \in BOOLEAN /\ UNCHANGED crashes
    BY DEF Accepts
<1>3. TypeOK' /\ Shapes' /\ task'[r] = t /\ \A q \in Tasks \ {r} : task'[q] = task[q]
    BY <1>0, <1>1, <1>2, TaskTyped
<1>4. FileIsCurrent'
    <2>1. SUFFICES ASSUME ~failed', \A q \in Tasks : At(q)' \notin {"save", "write"}
                   PROVE  file' = settings'
        BY DEF FileIsCurrent, At
    <2>2. t.at # "save"
        BY <1>1, <1>3, <2>1 DEF At
    <2>3. \A q \in Tasks : At(q) \notin {"save", "write"}
        BY <1>1, <1>3, <2>1 DEF At, Idle
    <2>4. QED
        BY <1>0, <2>1, <2>2, <2>3 DEF FileIsCurrent
<1>5. QED
    BY <1>1, <1>3, <1>4 DEF Base

-----------------------------------------------------------------------------
(* Requests that do not overlap *)

LEMMA ResumeAt ==
    ASSUME TypeOK, NEW r \in Tasks, NEW t \in TaskRecords, Resume(r, t)
    PROVE  task'[r] = Resumed(t)
<1>1. task \in [Tasks -> TaskRecords]
    BY TypedParts
<1>2. QED
    BY <1>1 DEF Resume

\* A restart and the state it works on.
LEMMA RestartStep ==
    ASSUME Base, orderly, WantedFree, NEW r \in Tasks, Step(r), Restarts(r), Restarting(r)
    PROVE  /\ wanted' = wanted /\ settings'.blocked = settings.blocked
           /\ streams' \subseteq streams \/ streams' \subseteq wanted
           /\ task'[r] = Quiet => streams' = wanted /\ settings'.streams = wanted
           /\ task'[r] # Quiet => Restarting(r)'
           /\ At(r)' \in {"conflicts", "insert"} => task'[r].item \subseteq wanted
           /\ At(r)' = "insert" => \A c \in task'[r].item, d \in streams' : ~Conflicts(d, c)
<1> DEFINE t == task[r]
<1>0. /\ TypeOK /\ t \in TaskRecords /\ Shape(t) /\ ~Idle(r) /\ t.op = "Restart"
      /\ task \in [Tasks -> TaskRecords] /\ settings \in SettingsRecords
      /\ streams \subseteq Configs /\ wanted \subseteq Configs
      /\ settings'.blocked = settings.blocked
    BY TypedTask, TypedParts, StepBase, StepData DEF Base, Restarts
<1>0a. \A c, d \in wanted : c # d => ~Conflicts(c, d)
    BY DEF WantedFree, Free
<1>0b. \A c \in wanted : Source(c) \notin settings.blocked
    BY DEF Restarting
<1>1. CASE Truncate(r)
    <2>1. /\ t.at = "save" /\ task'[r] = [t EXCEPT !.at = "write"]
          /\ UNCHANGED <<streams, settings, wanted>>
        BY <1>0, <1>1 DEF Truncate, Goto, At
    <2>2. /\ task'[r].at = "write" /\ task'[r].locked = t.locked /\ task'[r].adding = t.adding
        BY <1>0, <2>1 DEF TaskRecords
    <2>3. Restarting(r)'
        BY <1>0b, <2>1, <2>2 DEF Restarting
    <2>4. QED
        BY <1>0, <2>1, <2>2, <2>3, QuietIs DEF At
<1>2. CASE OpenFails(r) \/ Write(r)
    <2>0. SaveEnds(r)
        BY <1>2, SavesEnd
    <2>1. t.at \in {"save", "write"} /\ UNCHANGED <<streams, settings, wanted>>
        BY <2>0 DEF SaveEnds, At
    <2>2. CASE t.locked
        <3>1. task'[r] = Resumed(t)
            <4>1. ~(~t.locked /\ t.op = "Block") /\ ~(~t.locked /\ t.op = "Restart")
                BY <2>2
            <4>2. Resume(r, t)
                BY <2>0, <2>2, <4>1 DEF SaveEnds, Saved
            <4>3. QED
                BY <1>0, <4>2, ResumeAt
        <3>2. t.adding \subseteq wanted /\ streams = wanted \ t.adding /\ settings.streams = streams
            BY <2>1, <2>2 DEF Restarting
        <3>3. t.removing = {}
            BY <1>0, <2>1 DEF Shape
        <3>4. CASE t.adding = {}
            BY <1>0, <2>1, <3>1, <3>2, <3>3, <3>4, ResumedIs, QuietIs DEF At
        <3>5. CASE t.adding # {}
            <4>1. /\ task'[r].at = "add" /\ task'[r].item = {} /\ task'[r].adding = t.adding
                BY <1>0, <3>1, <3>3, <3>5, ResumedIs
            <4>2. Restarting(r)'
                BY <1>0b, <2>1, <3>2, <4>1 DEF Restarting
            <4>3. QED
                BY <1>0, <2>1, <4>1, <4>2, QuietIs DEF At
        <3>6. QED
            BY <3>4, <3>5
    <2>3. CASE ~t.locked
        <3>1. task'[r] = [t EXCEPT !.at = "plan"]
            BY <1>0, <2>0, <2>3 DEF SaveEnds, Saved, Goto
        <3>2. task'[r].at = "plan"
            BY <1>0, <3>1 DEF TaskRecords
        <3>3. Restarting(r)'
            BY <1>0b, <2>1, <2>3, <3>2 DEF Restarting
        <3>4. QED
            BY <1>0, <2>1, <3>2, <3>3, QuietIs DEF At
    <2>4. QED
        BY <2>2, <2>3
<1>3. CASE CheckBlocked(r)
    <2>1. t.at = "add" /\ UNCHANGED <<streams, settings, wanted>>
        BY <1>3 DEF CheckBlocked, At
    <2>2. t.adding \subseteq wanted /\ t.item = {} /\ streams = wanted \ (t.adding \union t.item)
        BY <1>0, <2>1 DEF Restarting, Shape
    <2>3. PICK c \in t.adding :
            task' = [task EXCEPT ![r] = [[t EXCEPT !.adding = @ \ {c}, !.item = {c}] EXCEPT !.at = "conflicts"]]
        BY <1>0b, <1>3, <2>2 DEF CheckBlocked
    <2>4. /\ task'[r].at = "conflicts" /\ task'[r].adding = t.adding \ {c} /\ task'[r].item = {c}
        BY <1>0, <2>3 DEF TaskRecords
    <2>5. Restarting(r)'
        BY <1>0b, <2>1, <2>2, <2>4 DEF Restarting
    <2>6. QED
        BY <1>0, <2>1, <2>2, <2>4, <2>5, QuietIs DEF At
<1>4. CASE CheckConflicts(r)
    <2>1. t.at = "conflicts" /\ UNCHANGED <<streams, settings, wanted>>
        BY <1>4 DEF CheckConflicts, At
    <2>2. /\ t.adding \subseteq wanted /\ t.item \subseteq wanted
          /\ streams = wanted \ (t.adding \union t.item)
        BY <1>0, <2>1 DEF Restarting
    <2>3. \A d \in streams, c \in t.item : ~Conflicts(d, c)
        BY <1>0a, <2>2
    <2>4. task' = [task EXCEPT ![r] = [t EXCEPT !.at = "insert"]]
        BY <1>4, <2>3 DEF CheckConflicts, Goto
    <2>5. task'[r].at = "insert" /\ task'[r].adding = t.adding /\ task'[r].item = t.item
        BY <1>0, <2>4 DEF TaskRecords
    <2>6. Restarting(r)'
        BY <1>0b, <2>1, <2>2, <2>5 DEF Restarting
    <2>7. QED
        BY <1>0, <2>1, <2>2, <2>3, <2>5, <2>6, QuietIs DEF At
<1>5. CASE Insert(r)
    <2>1. t.at = "insert"
        BY <1>5 DEF Insert, At
    <2>2. /\ t.adding \subseteq wanted /\ t.item \subseteq wanted
          /\ streams = wanted \ (t.adding \union t.item)
        BY <1>0, <2>1 DEF Restarting
    <2>3. PICK c \in Configs : t.item = {c} /\ c \notin t.adding
        BY <1>0, <2>1 DEF Shape
    <2>4. WithId(Id(c)) = {}
        BY <1>0, <1>0a, <2>2, <2>3, OneIdConflicts DEF WithId
    <2>5. /\ streams' = streams \union {c} /\ wanted' = wanted \union {c}
          /\ settings' = [settings EXCEPT !.streams = streams']
          /\ Save(r, t)
        BY <1>5, <2>3, <2>4 DEF Insert
    <2>6. /\ streams' = wanted \ t.adding /\ wanted' = wanted /\ settings'.streams = streams'
          /\ settings'.blocked = settings.blocked
        BY <1>0, <2>2, <2>3, <2>5 DEF SettingsRecords
    <2>7. task'[r].at = "save" /\ task'[r].locked = TRUE /\ task'[r].adding = t.adding
        BY <1>0, <2>5 DEF Save, TaskRecords
    <2>8. Restarting(r)'
        BY <1>0b, <2>2, <2>6, <2>7 DEF Restarting
    <2>9. QED
        BY <1>0, <2>6, <2>7, <2>8, QuietIs DEF At
<1>6. CASE Remove(r)
    <2>1. t.at = "remove" /\ settings.streams = wanted /\ t.adding = wanted
        BY <1>6 DEF Remove, At, Restarting
    <2>2. PICK id \in t.removing :
            /\ streams' = streams \ WithId(id)
            /\ Resume(r, [t EXCEPT !.removing = @ \ {id}])
            /\ UNCHANGED <<settings, wanted>>
        BY <1>0, <1>6 DEF Remove, TaskRecords
    <2> DEFINE x == [t EXCEPT !.removing = @ \ {id}]
    <2>3. x \in TaskRecords /\ x.removing = t.removing \ {id} /\ x.adding = wanted
        BY <1>0, <2>1 DEF TaskRecords
    <2>4. Resume(r, x)
        BY <2>2
    <2> HIDE DEF x
    <2>5. task'[r] = Resumed(x)
        BY <1>0, <2>3, <2>4, ResumeAt
    <2>6. \A c \in streams' : Id(c) \in x.removing
        BY <2>1, <2>2, <2>3 DEF Restarting, WithId
    <2>7. CASE x.removing # {}
        <3>1. task'[r].at = "remove" /\ task'[r].removing = x.removing /\ task'[r].adding = wanted
            BY <2>3, <2>5, <2>7, ResumedIs
        <3>2. Restarting(r)'
            BY <1>0b, <2>1, <2>2, <2>6, <3>1 DEF Restarting
        <3>3. QED
            BY <1>0, <2>2, <3>1, <3>2, QuietIs DEF At
    <2>8. CASE x.removing = {} /\ x.adding # {}
        <3>1. task'[r].at = "add" /\ task'[r].item = {} /\ task'[r].adding = wanted
            BY <2>3, <2>5, <2>8, ResumedIs
        <3>2. streams' = {}
            BY <2>6, <2>8
        <3>3. Restarting(r)'
            BY <1>0b, <2>2, <3>1, <3>2 DEF Restarting
        <3>4. QED
            BY <1>0, <2>2, <3>1, <3>3, QuietIs DEF At
    <2>9. CASE x.removing = {} /\ x.adding = {}
        BY <1>0, <2>1, <2>2, <2>3, <2>5, <2>6, <2>9, ResumedIs, QuietIs DEF At
    <2>10. QED
        BY <2>7, <2>8, <2>9
<1>7. CASE Collect(r)
    BY <1>0, <1>7 DEF Collect, At, Shape
<1>8. CASE Plan(r)
    <2>1. t.at = "plan" /\ UNCHANGED <<streams, settings, wanted>> /\ settings.streams = wanted
        BY <1>8 DEF Plan, At, Restarting
    <2>2. task'[r].at = "keys" /\ task'[r].adding = wanted
        BY <1>0, <1>8, <2>1 DEF Plan, TaskRecords
    <2>3. Restarting(r)'
        BY <1>0b, <2>1, <2>2 DEF Restarting
    <2>4. QED
        BY <1>0, <2>1, <2>2, <2>3, QuietIs DEF At
<1>9. CASE Keys(r)
    <2> DEFINE ids == {Id(c) : c \in streams}
               x == [t EXCEPT !.removing = ids]
    <2>1. /\ t.at = "keys" /\ UNCHANGED <<streams, settings, wanted>> /\ settings.streams = wanted
          /\ t.adding = wanted /\ Resume(r, x)
        BY <1>9 DEF Keys, At, Restarting
    <2>2. ids \subseteq ConfigIds /\ (\A c \in streams : Id(c) \in ids) /\ (ids = {} => streams = {})
        BY <1>0 DEF ConfigIds
    <2> HIDE DEF ids
    <2>3. x \in TaskRecords /\ x.removing = ids /\ x.adding = wanted
        BY <1>0, <2>1, <2>2 DEF TaskRecords
    <2> HIDE DEF x
    <2>4. task'[r] = Resumed(x)
        BY <1>0, <2>1, <2>3, ResumeAt
    <2>5. CASE x.removing # {}
        <3>1. task'[r].at = "remove" /\ task'[r].removing = ids /\ task'[r].adding = wanted
            BY <2>3, <2>4, <2>5, ResumedIs
        <3>2. Restarting(r)'
            BY <1>0b, <2>1, <2>2, <3>1 DEF Restarting
        <3>3. QED
            BY <1>0, <2>1, <3>1, <3>2, QuietIs DEF At
    <2>6. CASE x.removing = {} /\ x.adding # {}
        <3>1. task'[r].at = "add" /\ task'[r].item = {} /\ task'[r].adding = wanted
            BY <2>3, <2>4, <2>6, ResumedIs
        <3>2. streams' = {}
            BY <2>1, <2>2, <2>3, <2>6
        <3>3. Restarting(r)'
            BY <1>0b, <2>1, <3>1, <3>2 DEF Restarting
        <3>4. QED
            BY <1>0, <2>1, <3>1, <3>3, QuietIs DEF At
    <2>7. CASE x.removing = {} /\ x.adding = {}
        BY <1>0, <2>1, <2>2, <2>3, <2>4, <2>7, ResumedIs, QuietIs DEF At
    <2>8. QED
        BY <2>5, <2>6, <2>7
<1>10. QED
    BY <1>1, <1>2, <1>3, <1>4, <1>5, <1>6, <1>7, <1>8, <1>9 DEF Step

\* A request but a restart moves the table, the settings and what was asked for
\* together, and a block loses none of the streams it has to remove.
LEMMA OtherStep ==
    ASSUME Base, Free(wanted), streams = wanted, settings.streams = wanted, BlockKnows,
           NEW r \in Tasks, Step(r), ~Restarts(r), CheckedFor(r)
    PROVE  /\ Free(wanted') /\ streams' = wanted' /\ settings'.streams = wanted'
           /\ settings'.blocked = settings.blocked
           /\ streams' \subseteq streams \/ At(r) = "insert"
           /\ CheckedFor(r)' /\ BlockKnows'
<1> DEFINE t == task[r]
<1>0. /\ TypeOK /\ t \in TaskRecords /\ Shape(t) /\ ~Idle(r)
      /\ t.op \in {"Post", "Delete", "Block", "Unblock"}
      /\ task \in [Tasks -> TaskRecords] /\ settings \in SettingsRecords
      /\ streams \subseteq Configs
      /\ settings'.blocked = settings.blocked
      /\ \A q \in Tasks \ {r} : task'[q] = task[q]
    BY TypedTask, TypedParts, StepBase, StepData DEF Base, Restarts, TaskRecords, Ops
\* Streams that another request is to remove stay with it.
<1>0a. \A q \in Tasks \ {r} : \A c : Removes(q, c) => Removes(q, c)'
    BY <1>0 DEF Removes, At
<1>1. ASSUME UNCHANGED <<streams, settings, wanted>>, At(r)' \notin {"conflicts", "insert"},
             \A c \in streams : Removes(r, c) => Removes(r, c)'
      PROVE  /\ Free(wanted') /\ streams' = wanted' /\ settings'.streams = wanted'
             /\ streams' \subseteq streams /\ CheckedFor(r)' /\ BlockKnows'
    <2>1. CheckedFor(r)'
        BY <1>1 DEF CheckedFor, At
    <2>2. BlockKnows'
        <3>1. SUFFICES ASSUME NEW c \in streams, Source(c) \in settings.blocked
                       PROVE  \E q \in Tasks : Removes(q, c)'
            BY <1>1 DEF BlockKnows, Removes, At
        <3>2. PICK q \in Tasks : Removes(q, c)
            BY <3>1 DEF BlockKnows
        <3>3. QED
            BY <1>0a, <1>1, <3>2
    <2>3. QED
        BY <1>1, <2>1, <2>2 DEF Free
<1>2. CASE Truncate(r)
    <2>1. /\ t.at = "save" /\ task'[r] = [t EXCEPT !.at = "write"]
          /\ UNCHANGED <<streams, settings, wanted>>
        BY <1>0, <1>2 DEF Truncate, Goto, At
    <2>2. /\ task'[r].at = "write" /\ task'[r].locked = t.locked /\ task'[r].op = t.op
          /\ task'[r].item = t.item /\ task'[r].removing = t.removing
        BY <1>0, <2>1 DEF TaskRecords
    <2>3. \A c \in streams : Removes(r, c) => Removes(r, c)'
        BY <2>1, <2>2 DEF Removes, At
    <2>4. QED
        BY <1>0, <1>1, <2>1, <2>2, <2>3 DEF At
<1>3. CASE OpenFails(r) \/ Write(r)
    <2>0. SaveEnds(r)
        BY <1>3, SavesEnd
    <2>1. t.at \in {"save", "write"} /\ UNCHANGED <<streams, settings, wanted>>
        BY <2>0 DEF SaveEnds, At
    <2>2. CASE t.locked \/ t.op # "Block"
        <3>1. t.locked \/ t.op = "Unblock"
            BY <1>0, <2>1, <2>2 DEF Shape
        <3>2. ~(~t.locked /\ t.op = "Block") /\ ~(~t.locked /\ t.op = "Restart")
            BY <3>1
        <3>3. Resume(r, t)
            BY <2>0, <3>1, <3>2 DEF SaveEnds, Saved
        <3>4. task'[r] = Resumed(t)
            BY <1>0, <3>3, ResumeAt
        <3>5. At(r)' \notin {"conflicts", "insert"}
            BY <1>0, <3>4, ResumedIs, QuietIs DEF At
        <3>6. ASSUME NEW c \in streams, Removes(r, c) PROVE Removes(r, c)'
            <4>1. t.op = "Block" /\ t.locked /\ Id(c) \in t.removing
                BY <2>1, <3>1, <3>6 DEF Removes, At
            <4>2. /\ task'[r].at = "remove" /\ task'[r].op = "Block"
                  /\ task'[r].removing = t.removing
                BY <1>0, <3>4, <4>1, ResumedIs
            <4>3. QED
                BY <4>1, <4>2 DEF Removes, At
        <3>7. QED
            BY <1>0, <1>1, <2>1, <3>5, <3>6
    <2>3. CASE ~t.locked /\ t.op = "Block"
        <3>1. task'[r] = [t EXCEPT !.at = "collect"]
            BY <1>0, <2>0, <2>3 DEF SaveEnds, Saved, Goto
        <3>2. task'[r].at = "collect" /\ task'[r].op = t.op /\ task'[r].item = t.item
            BY <1>0, <3>1 DEF TaskRecords
        <3>3. \A c \in streams : Removes(r, c) => Removes(r, c)'
            BY <2>1, <2>3, <3>2 DEF Removes, At
        <3>4. QED
            BY <1>0, <1>1, <2>1, <3>2, <3>3 DEF At
    <2>4. QED
        BY <2>2, <2>3
<1>4. CASE CheckBlocked(r)
    <2>1. t.at = "add" /\ UNCHANGED <<streams, settings, wanted>> /\ t.op = "Post"
        BY <1>0, <1>4 DEF CheckBlocked, At, Shape
    <2>2. \A c \in streams : ~Removes(r, c)
        BY <2>1 DEF Removes
    <2>3. PICK c \in t.adding :
            LET u == [t EXCEPT !.adding = @ \ {c}, !.item = {c}]
            IN  IF Source(c) \in settings.blocked
                  THEN Resume(r, u)
                  ELSE task' = [task EXCEPT ![r] = [u EXCEPT !.at = "conflicts"]]
        BY <1>4 DEF CheckBlocked
    <2> DEFINE u == [t EXCEPT !.adding = @ \ {c}, !.item = {c}]
    <2>4. u \in TaskRecords /\ u.item = {c}
        BY <1>0, <2>3 DEF TaskRecords
    <2>5. IF Source(c) \in settings.blocked
            THEN Resume(r, u)
            ELSE task' = [task EXCEPT ![r] = [u EXCEPT !.at = "conflicts"]]
        BY <2>3
    <2> HIDE DEF u
    <2>6. CASE Source(c) \in settings.blocked
        <3>1. task'[r] = Resumed(u)
            BY <1>0, <2>4, <2>5, <2>6, ResumeAt
        <3>2. At(r)' \notin {"conflicts", "insert"}
            BY <2>4, <3>1, ResumedIs, QuietIs DEF At
        <3>3. QED
            BY <1>0, <1>1, <2>1, <2>2, <3>2
    <2>7. CASE Source(c) \notin settings.blocked
        <3>1. task'[r].at = "conflicts" /\ task'[r].item = {c}
            BY <1>0, <2>4, <2>5, <2>7 DEF TaskRecords
        <3>2. CheckedFor(r)'
            BY <2>1, <2>7, <3>1 DEF CheckedFor, At
        <3>3. BlockKnows'
            <4>1. ASSUME NEW d \in streams, Source(d) \in settings.blocked
                  PROVE  \E q \in Tasks : Removes(q, d)'
                BY <1>0a, <2>2, <4>1 DEF BlockKnows
            <4>2. QED
                BY <2>1, <4>1 DEF BlockKnows, Removes, At
        <3>4. QED
            BY <1>0, <2>1, <3>2, <3>3 DEF Free
    <2>8. QED
        BY <2>6, <2>7
<1>5. CASE CheckConflicts(r)
    <2>1. t.at = "conflicts" /\ UNCHANGED <<streams, settings, wanted>> /\ t.op = "Post"
        BY <1>0, <1>5 DEF CheckConflicts, At, Shape
    <2>2. \A c \in streams : ~Removes(r, c)
        BY <2>1 DEF Removes
    <2>3. CASE \E c \in streams, new \in t.item : Conflicts(c, new)
        <3>1. Resume(r, t)
            BY <1>5, <2>3 DEF CheckConflicts
        <3>2. At(r)' \notin {"conflicts", "insert"}
            BY <1>0, <3>1, ResumeAt, ResumedIs, QuietIs DEF At
        <3>3. QED
            BY <1>0, <1>1, <2>1, <2>2, <3>2
    <2>4. CASE \A c \in streams, new \in t.item : ~Conflicts(c, new)
        <3>1. task'[r].at = "insert" /\ task'[r].item = t.item
            BY <1>0, <1>5, <2>4 DEF CheckConflicts, Goto, TaskRecords
        <3>2. CheckedFor(r)'
            BY <2>1, <2>4, <3>1 DEF CheckedFor, At
        <3>3. BlockKnows'
            <4>1. ASSUME NEW d \in streams, Source(d) \in settings.blocked
                  PROVE  \E q \in Tasks : Removes(q, d)'
                BY <1>0a, <2>2, <4>1 DEF BlockKnows
            <4>2. QED
                BY <2>1, <4>1 DEF BlockKnows, Removes, At
        <3>4. QED
            BY <1>0, <2>1, <3>2, <3>3 DEF Free
    <2>5. QED
        BY <2>3, <2>4
<1>6. CASE Insert(r)
    <2>1. t.at = "insert" /\ t.op = "Post"
        BY <1>0, <1>6 DEF Insert, At, Shape
    <2>2. PICK c \in Configs : t.item = {c}
        BY <1>0, <2>1 DEF Shape
    <2>3. (\A d \in streams : ~Conflicts(d, c)) /\ Source(c) \notin settings.blocked
        BY <2>1, <2>2 DEF CheckedFor, At
    <2>4. WithId(Id(c)) = {}
        BY <1>0, <2>2, <2>3, OneIdConflicts DEF WithId
    <2>5. /\ streams' = streams \union {c} /\ wanted' = wanted \union {c}
          /\ settings' = [settings EXCEPT !.streams = streams']
          /\ Save(r, t)
        BY <1>6, <2>2, <2>4 DEF Insert
    <2>6. settings'.streams = streams'
        BY <1>0, <2>5 DEF SettingsRecords
    <2>7. Free(wanted')
        BY <1>0, <2>2, <2>3, <2>5, ConflictsBothWays DEF Free
    <2>8. CheckedFor(r)'
        <3>1. task'[r].at = "save"
            BY <1>0, <2>5 DEF Save, TaskRecords
        <3>2. QED
            BY <3>1 DEF CheckedFor, At
    <2>9. BlockKnows'
        <3>1. \A d \in streams : ~Removes(r, d)
            BY <2>1 DEF Removes
        <3>2. ASSUME NEW d \in streams', Source(d) \in settings.blocked
              PROVE  \E q \in Tasks : Removes(q, d)'
            <4>1. d \in streams
                BY <2>3, <2>5, <3>2
            <4>2. QED
                BY <1>0a, <3>1, <3>2, <4>1 DEF BlockKnows
        <3>3. QED
            BY <1>0, <3>2 DEF BlockKnows, Removes, At
    <2>10. QED
        BY <1>0, <2>1, <2>5, <2>6, <2>7, <2>8, <2>9 DEF At
<1>7. CASE Remove(r)
    <2>1. t.at = "remove" /\ t.op \in {"Delete", "Block"}
        BY <1>0, <1>7 DEF Remove, At, Shape
    <2>2. PICK id \in t.removing :
            LET u == [t EXCEPT !.removing = @ \ {id}]
            IN  /\ streams' = streams \ WithId(id)
                /\ IF u.op = "Restart" \/ WithId(id) = {}
                     THEN Resume(r, u) /\ UNCHANGED <<settings, wanted>>
                     ELSE /\ settings' = [settings EXCEPT !.streams = streams']
                          /\ wanted' = wanted \ WithId(id)
                          /\ Save(r, u)
        BY <1>7 DEF Remove
    <2> DEFINE u == [t EXCEPT !.removing = @ \ {id}]
    <2>3. u \in TaskRecords /\ u.removing = t.removing \ {id} /\ u.op = t.op
        BY <1>0, <2>2 DEF TaskRecords
    <2>4. /\ streams' = streams \ WithId(id)
          /\ IF u.op = "Restart" \/ WithId(id) = {}
               THEN Resume(r, u) /\ UNCHANGED <<settings, wanted>>
               ELSE /\ settings' = [settings EXCEPT !.streams = streams']
                    /\ wanted' = wanted \ WithId(id)
                    /\ Save(r, u)
        BY <2>2
    <2> HIDE DEF u
    <2>5. streams' = wanted' /\ settings'.streams = wanted' /\ streams' \subseteq streams
        BY <1>0, <2>1, <2>3, <2>4 DEF SettingsRecords
    <2>6. Free(wanted')
        BY <2>5 DEF Free
    <2>7. /\ task'[r].op = t.op \/ u.removing = {}
          /\ u.removing # {} => task'[r].removing = u.removing
          /\ \/ u.removing = {} /\ task'[r].at \notin {"conflicts", "insert"}
             \/ task'[r].at = "remove"
             \/ task'[r].at = "save" /\ task'[r].locked = TRUE
        <3>1. CASE WithId(id) = {}
            <4>1. task'[r] = Resumed(u)
                BY <1>0, <2>3, <2>4, <3>1, ResumeAt
            <4>2. QED
                BY <2>3, <4>1, ResumedIs, QuietIs
        <3>2. CASE WithId(id) # {}
            <4>1. task'[r] = [u EXCEPT !.at = "save", !.locked = TRUE]
                BY <1>0, <2>1, <2>3, <2>4, <3>2 DEF Save
            <4>2. QED
                BY <2>3, <4>1 DEF TaskRecords
        <3>3. QED
            BY <3>1, <3>2
    <2>8. CheckedFor(r)'
        BY <2>7 DEF CheckedFor, At
    <2>9. BlockKnows'
        <3>1. SUFFICES ASSUME NEW c \in streams', Source(c) \in settings.blocked
                       PROVE  \E q \in Tasks : Removes(q, c)'
            BY <1>0 DEF BlockKnows, Removes, At
        <3>2. c \in streams /\ Id(c) # id
            BY <2>4, <3>1 DEF WithId
        <3>3. PICK q \in Tasks : Removes(q, c)
            BY <3>1, <3>2 DEF BlockKnows
        <3>4. CASE q = r
            <4>1. t.op = "Block" /\ Id(c) \in u.removing
                BY <2>1, <2>3, <3>2, <3>3, <3>4 DEF Removes, At
            <4>2. Removes(r, c)'
                BY <2>7, <4>1 DEF Removes, At
            <4>3. QED
                BY <4>2
        <3>5. QED
            BY <1>0a, <3>3, <3>4
    <2>10. QED
        BY <1>0, <2>5, <2>6, <2>8, <2>9
<1>8. CASE Collect(r)
    <2> DEFINE ids == {Id(c) : c \in streams \intersect t.item}
               u == [t EXCEPT !.removing = ids]
    <2>1. /\ t.at = "collect" /\ t.op = "Block" /\ UNCHANGED <<streams, settings, wanted>>
          /\ Resume(r, u)
        BY <1>0, <1>8 DEF Collect, At, Shape
    <2>2. ids \subseteq ConfigIds /\ \A c \in streams \intersect t.item : Id(c) \in ids
        BY <1>0 DEF ConfigIds
    <2> HIDE DEF ids
    <2>3. u \in TaskRecords /\ u.removing = ids /\ u.op = t.op
        BY <1>0, <2>2 DEF TaskRecords
    <2> HIDE DEF u
    <2>4. task'[r] = Resumed(u)
        BY <1>0, <2>1, <2>3, ResumeAt
    <2>5. At(r)' \notin {"conflicts", "insert"}
        BY <2>3, <2>4, ResumedIs, QuietIs DEF At
    <2>6. ASSUME NEW c \in streams, Removes(r, c) PROVE Removes(r, c)'
        <3>1. Id(c) \in u.removing
            BY <2>1, <2>2, <2>3, <2>6 DEF Removes, At
        <3>2. /\ task'[r].at = "remove" /\ task'[r].op = "Block"
              /\ task'[r].removing = u.removing
            BY <2>1, <2>3, <2>4, <3>1, ResumedIs
        <3>3. QED
            BY <3>1, <3>2 DEF Removes, At
    <2>7. QED
        BY <1>0, <1>1, <2>1, <2>5, <2>6
<1>9. CASE Plan(r) \/ Keys(r)
    BY <1>0, <1>9 DEF Plan, Keys, At, Shape
<1>10. QED
    BY <1>2, <1>3, <1>4, <1>5, <1>6, <1>7, <1>8, <1>9 DEF Step

\* So do all steps of requests.
LEMMA StepOrder ==
    ASSUME Base, OrderInv, NEW r \in Tasks, Step(r)
    PROVE  OrderInv'
<1>0. /\ TypeOK /\ Shapes /\ ~Idle(r) /\ orderly' = orderly
      /\ \A q \in Tasks \ {r} : task'[q] = task[q]
      /\ task'[r].op = task[r].op \/ task'[r] = Quiet
      /\ \A q \in Tasks : Shape(task[q]) /\ (Idle(q) => task[q] = Quiet)
    BY StepBase, TypedTask DEF Base
<1>1. CASE ~orderly
    BY <1>0, <1>1 DEF OrderInv, Alone, Agreed, WantedFree, TableFree, Checked, Blocking, Restored
<1>2. CASE orderly
    <2>0. /\ WantedFree /\ Free(wanted) /\ Free(streams)
          /\ \A q \in Tasks : CheckedFor(q)
          /\ \A q \in Tasks : Restarts(q) => Restarting(q)
        BY <1>2 DEF OrderInv, WantedFree, TableFree, Checked, Restored
    <2>0a. \A p, q \in Tasks : p # q /\ ~Idle(p) /\ ~Idle(q) =>
             "Restart" \notin {task[p].op, task[q].op} /\ "Delete" \in {task[p].op, task[q].op}
        BY <1>2 DEF OrderInv, Alone
    <2>1. Alone'
        <3>1. \A q \in Tasks : ~Idle(q)' => ~Idle(q) /\ task'[q].op = task[q].op
            BY <1>0, QuietIs DEF Idle, At
        <3>2. QED
            BY <2>0a, <3>1 DEF Alone
    <2>2. CASE Restarts(r)
        <3>1. \A q \in Tasks \ {r} : task'[q] = Quiet
            BY <1>0, <2>0a, <2>2 DEF Restarts
        <3>2. /\ wanted' = wanted /\ settings'.blocked = settings.blocked
              /\ streams' \subseteq streams \/ streams' \subseteq wanted
              /\ task'[r] = Quiet => streams' = wanted /\ settings'.streams = wanted
              /\ task'[r] # Quiet => Restarting(r)'
              /\ At(r)' \in {"conflicts", "insert"} => task'[r].item \subseteq wanted
              /\ At(r)' = "insert" => \A c \in task'[r].item, d \in streams' : ~Conflicts(d, c)
            BY <1>2, <2>0, <2>2, RestartStep
        <3>3. \A c \in wanted : Source(c) \notin settings.blocked
            BY <2>0, <2>2 DEF Restarting
        <3>4. (\A q \in Tasks : ~Restarts(q)') => task'[r] = Quiet
            BY <1>0, <2>2 DEF Restarts
        <3>5. Agreed' /\ WantedFree' /\ TableFree'
            BY <2>0, <3>2, <3>4 DEF Agreed, WantedFree, TableFree, Free
        <3>6. Blocking'
            BY <3>2, <3>3, <3>4 DEF Blocking, BlockKnows
        <3>7. Checked'
            <4>1. CheckedFor(r)'
                BY <3>2, <3>3 DEF CheckedFor, At
            <4>2. \A q \in Tasks \ {r} : CheckedFor(q)'
                BY <3>1, QuietIs DEF CheckedFor, At
            <4>3. QED
                BY <4>1, <4>2 DEF Checked
        <3>8. Restored'
            BY <3>1, <3>2, QuietIs DEF Restored, Restarts
        <3>9. QED
            BY <2>1, <3>5, <3>6, <3>7, <3>8 DEF OrderInv
    <2>3. CASE ~Restarts(r)
        <3>1. \A q \in Tasks : ~Restarts(q)
            BY <1>0, <2>0a, <2>3, QuietIs DEF Restarts
        <3>2. \A q \in Tasks : ~Restarts(q)'
            BY <1>0, <3>1, QuietIs DEF Restarts
        <3>3. streams = wanted /\ settings.streams = wanted /\ BlockKnows
            BY <1>2, <3>1 DEF OrderInv, Agreed, Blocking
        <3>4. /\ Free(wanted') /\ streams' = wanted' /\ settings'.streams = wanted'
              /\ settings'.blocked = settings.blocked
              /\ streams' \subseteq streams \/ At(r) = "insert"
              /\ CheckedFor(r)' /\ BlockKnows'
            BY <2>0, <2>3, <3>3, OtherStep
        <3>5. \A q \in Tasks \ {r} : CheckedFor(q)'
            <4>1. SUFFICES ASSUME NEW q \in Tasks \ {r} PROVE CheckedFor(q)'
                OBVIOUS
            <4>2. At(q)' = At(q) /\ task'[q].item = task[q].item /\ CheckedFor(q)
                BY <1>0, <2>0 DEF At
            <4>3. CASE streams' \subseteq streams
                BY <3>4, <4>2, <4>3 DEF CheckedFor
            <4>4. CASE At(r) = "insert"
                <5>1. task[r].op \notin {"Restart", "Delete"}
                    BY <1>0, <2>3, <4>4 DEF Shape, At, Restarts
                <5>2. Idle(q) \/ task[q].op = "Delete"
                    BY <1>0, <2>0a, <5>1
                <5>3. At(q) \notin {"conflicts", "insert"}
                    BY <1>0, <5>2 DEF Shape, At, Idle
                <5>4. QED
                    BY <4>2, <5>3 DEF CheckedFor
            <4>5. QED
                BY <3>4, <4>3, <4>4
        <3>6. QED
            BY <2>1, <3>2, <3>4, <3>5
               DEF OrderInv, Agreed, WantedFree, TableFree, Checked, Blocking, Restored
    <2>4. QED
        BY <2>2, <2>3
<1>3. QED
    BY <1>0, <1>1, <1>2 DEF Base, TypeOK

\* Which requests an orderly run takes, and what it knows when it does.
LEMMA AcceptAlone ==
    ASSUME TypeOK, Shapes, OrderInv, NEW r \in Tasks, NEW t, Accepts(r, t), orderly',
           task'[r] = t, \A q \in Tasks \ {r} : task'[q] = task[q]
    PROVE  /\ orderly /\ Alone'
           /\ streams = wanted /\ settings.streams = wanted
           /\ Free(wanted) /\ BlockKnows /\ \A q \in Tasks : CheckedFor(q)
           /\ \A q \in Tasks : ~Restarts(q)
           /\ \A c : ~Removes(r, c)
           /\ t.op = "Restart" => \A q \in Tasks : task[q] = Quiet
           /\ t.op = "Block" => \A q \in Tasks \ {r} : At(q) \notin {"conflicts", "insert"}
<1>0. /\ orderly /\ ~Overlaps(r, t.op) /\ Idle(r)
    BY DEF Accepts
<1>1. \A q \in Tasks : Shape(task[q]) /\ (Idle(q) <=> task[q] = Quiet)
    BY TypedTask
<1>2. \A q \in Tasks \ {r} :
        ~Idle(q) => "Restart" \notin {t.op, task[q].op} /\ "Delete" \in {t.op, task[q].op}
    BY <1>0 DEF Overlaps
<1>3. \A p, q \in Tasks : p # q /\ ~Idle(p) /\ ~Idle(q) =>
        "Restart" \notin {task[p].op, task[q].op} /\ "Delete" \in {task[p].op, task[q].op}
    BY <1>0 DEF OrderInv, Alone
<1>4. Alone'
    <2>1. SUFFICES ASSUME NEW p \in Tasks, NEW q \in Tasks, p # q, ~Idle(p)', ~Idle(q)'
                   PROVE  "Restart" \notin {task'[p].op, task'[q].op} /\ "Delete" \in {task'[p].op, task'[q].op}
        BY DEF Alone
    <2>2. \A x \in Tasks \ {r} : task'[x].op = task[x].op /\ (Idle(x)' <=> Idle(x))
        BY DEF Idle, At
    <2>3. CASE p = r
        BY <1>2, <2>1, <2>2, <2>3
    <2>4. CASE q = r
        BY <1>2, <2>1, <2>2, <2>4
    <2>5. CASE p # r /\ q # r
        BY <1>3, <2>1, <2>2, <2>5
    <2>6. QED
        BY <2>3, <2>4, <2>5
<1>5. \A q \in Tasks : ~Restarts(q)
    BY <1>0, <1>1, <1>2, QuietIs DEF Restarts
<1>6. t.op = "Restart" => \A q \in Tasks : task[q] = Quiet
    BY <1>0, <1>1, <1>2
<1>7. t.op = "Block" => \A q \in Tasks \ {r} : At(q) \notin {"conflicts", "insert"}
    BY <1>1, <1>2, QuietIs DEF Shape, At
<1>8. \A c : ~Removes(r, c)
    BY <1>0, <1>1, QuietIs DEF Removes
<1>9. QED
    BY <1>0, <1>4, <1>5, <1>6, <1>7, <1>8
       DEF OrderInv, Agreed, WantedFree, Checked, Blocking

\* Taking a request that is no restart.
LEMMA OtherAccept ==
    ASSUME Base, OrderInv, NEW r \in Tasks, NEW t, Accepts(r, t),
           task'[r] = t, \A q \in Tasks \ {r} : task'[q] = task[q],
           t.op # "Restart", t.at \notin {"conflicts", "insert"}, UNCHANGED <<streams, wanted>>,
           settings'.streams = settings.streams,
           \/ settings'.blocked \subseteq settings.blocked
           \/ \E s : /\ settings'.blocked = settings.blocked \union {s} /\ t.op = "Block"
                     /\ t.at = "save" /\ ~t.locked /\ t.item = {c \in Configs : Source(c) = s}
    PROVE  OrderInv'
<1>1. SUFFICES ASSUME orderly' PROVE OrderInv'
    BY DEF OrderInv, Alone, Agreed, WantedFree, TableFree, Checked, Blocking, Restored
<1>2. /\ Alone' /\ streams = wanted /\ settings.streams = wanted
      /\ Free(wanted) /\ BlockKnows /\ (\A q \in Tasks : CheckedFor(q))
      /\ (\A q \in Tasks : ~Restarts(q)) /\ (\A c : ~Removes(r, c))
      /\ t.op = "Block" => \A q \in Tasks \ {r} : At(q) \notin {"conflicts", "insert"}
    BY <1>1, AcceptAlone DEF Base
<1>3. \A q \in Tasks : ~Restarts(q)'
    BY <1>2 DEF Restarts
<1>4. Agreed' /\ WantedFree' /\ TableFree' /\ Restored'
    BY <1>2, <1>3 DEF Agreed, WantedFree, TableFree, Restored, Free
<1>5. Checked'
    <2>1. CheckedFor(r)'
        BY DEF CheckedFor, At
    <2>2. ASSUME NEW q \in Tasks \ {r} PROVE CheckedFor(q)'
        <3>1. At(q)' = At(q) /\ task'[q].item = task[q].item /\ CheckedFor(q)
            BY <1>2 DEF At
        <3>2. QED
            BY <1>2, <3>1 DEF CheckedFor
    <2>3. QED
        BY <2>1, <2>2 DEF Checked
<1>6. Blocking'
    <2>1. SUFFICES ASSUME NEW c \in streams, Source(c) \in settings'.blocked
                   PROVE  \E q \in Tasks : Removes(q, c)'
        BY DEF Blocking, BlockKnows, Removes, At
    <2>2. CASE Source(c) \in settings.blocked
        <3>1. PICK q \in Tasks \ {r} : Removes(q, c)
            BY <1>2, <2>2 DEF BlockKnows
        <3>2. Removes(q, c)'
            BY <3>1 DEF Removes, At
        <3>3. QED
            BY <3>2
    <2>3. CASE Source(c) \notin settings.blocked
        <3>1. t.op = "Block" /\ t.at = "save" /\ ~t.locked /\ t.item = {d \in Configs : Source(d) = Source(c)}
            BY <2>1, <2>3
        <3>2. c \in t.item
            BY <3>1 DEF Base, TypeOK
        <3>3. Removes(r, c)'
            BY <3>1, <3>2 DEF Removes, At
        <3>4. QED
            BY <3>3
    <2>4. QED
        BY <2>2, <2>3
<1>7. QED
    BY <1>2, <1>4, <1>5, <1>6 DEF OrderInv

\* Taking a restart, or a reset.
LEMMA RestartAccept ==
    ASSUME Base, OrderInv, NEW r \in Tasks, NEW t, Accepts(r, t),
           task'[r] = t, \A q \in Tasks \ {r} : task'[q] = task[q],
           t.op = "Restart", UNCHANGED streams,
           \/ t.at = "plan" /\ UNCHANGED <<wanted, settings>>
           \/ /\ t.at = "save" /\ ~t.locked
              /\ wanted' = Defaults /\ settings' = [streams |-> Defaults, blocked |-> {}]
    PROVE  OrderInv'
<1>1. SUFFICES ASSUME orderly' PROVE OrderInv'
    BY DEF OrderInv, Alone, Agreed, WantedFree, TableFree, Checked, Blocking, Restored
<1>2. /\ Alone' /\ streams = wanted /\ settings.streams = wanted /\ Free(wanted) /\ BlockKnows
      /\ \A q \in Tasks : task[q] = Quiet
    BY <1>1, AcceptAlone DEF Base
<1>3. \A q \in Tasks \ {r} : task'[q] = Quiet
    BY <1>2
<1>4. Restarts(r)'
    BY DEF Restarts
<1>5. Agreed' /\ Blocking'
    BY <1>4 DEF Agreed, Blocking
<1>6. TableFree' /\ WantedFree'
    BY <1>2, ConfigsAssumption DEF TableFree, WantedFree, Free
<1>7. Checked'
    BY <1>3, QuietIs DEF Checked, CheckedFor, At
<1>8. \A c \in wanted : Source(c) \notin settings.blocked
    BY <1>2, QuietIs DEF BlockKnows, Removes
<1>9. Restarting(r)'
    BY <1>2, <1>8 DEF Restarting
<1>10. Restored'
    BY <1>3, <1>9, QuietIs DEF Restored, Restarts
<1>11. QED
    BY <1>2, <1>5, <1>6, <1>7, <1>10 DEF OrderInv

\* A process that boots.
LEMMA BootOrder ==
    ASSUME task' = [r \in Tasks |-> IF r = Boot THEN Booting ELSE Quiet], streams' = {},
           orderly' => /\ settings'.streams = wanted' /\ Free(wanted')
                       /\ \A c \in wanted' : Source(c) \notin settings'.blocked
    PROVE  OrderInv'
<1>1. Boot \in Tasks /\ task'[Boot] = Booting /\ \A r \in Tasks \ {Boot} : task'[r] = Quiet
    BY DEF Tasks
<1>2. Alone' /\ Agreed' /\ Blocking' /\ Checked'
    BY <1>1, QuietIs DEF Alone, Agreed, Blocking, Checked, CheckedFor, Restarts, Idle, At
<1>3. WantedFree' /\ TableFree'
    BY DEF WantedFree, TableFree, Free
<1>4. orderly' => Restarting(Boot)'
    BY <1>1, QuietIs DEF Restarting
<1>5. Restored'
    BY <1>1, <1>4, QuietIs DEF Restored, Restarts
<1>6. QED
    BY <1>2, <1>3, <1>5 DEF OrderInv

LEMMA BootBase ==
    ASSUME task' = [r \in Tasks |-> IF r = Boot THEN Booting ELSE Quiet], streams' = {},
           settings' \in SettingsRecords, file' \in SettingsRecords \union {Torn},
           wanted' \subseteq Configs, crashes' \in 0..MaxCrashes, orderly' \in BOOLEAN,
           failures' \in 0..MaxFailures, failed' \in BOOLEAN
    PROVE  Base'
<1>1. Boot \in Tasks /\ task'[Boot] = Booting
    BY DEF Tasks
<1>2. task' \in [Tasks -> TaskRecords] /\ Shapes'
    BY QuietIs DEF Shapes
<1>3. FileIsCurrent'
    BY <1>1, QuietIs DEF FileIsCurrent, At
<1>4. TypeOK'
    BY <1>2 DEF TypeOK, TaskRecords, ConfigIds
<1>5. QED
    BY <1>2, <1>3, <1>4 DEF Base

LEMMA DefaultsTyped == [streams |-> Defaults, blocked |-> {}] \in SettingsRecords
BY StreamManagerAssumption DEF SettingsRecords

LEMMA Begins == Init => IInv
<1> SUFFICES ASSUME Init PROVE IInv
    OBVIOUS
<1>1. /\ Boot \in Tasks /\ task[Boot] = Booting /\ \A r \in Tasks \ {Boot} : task[r] = Quiet
      /\ task \in [Tasks -> TaskRecords]
    BY QuietIs DEF Init, Tasks
<1>2. TypeOK
    <2>1. 0 \in 0..MaxCrashes /\ 0 \in 0..MaxFailures
        BY StreamManagerAssumption
    <2>2. QED
        BY <1>1, <2>1, DefaultsTyped, StreamManagerAssumption
        DEF Init, TypeOK, TaskRecords, ConfigIds
<1>3. Shapes /\ FileIsCurrent
    BY <1>1, QuietIs DEF Shapes, FileIsCurrent, At
<1>4. Alone /\ Agreed /\ Blocking /\ Checked
    BY <1>1, QuietIs DEF Alone, Agreed, Blocking, Checked, CheckedFor, Restarts, Idle, At
<1>5. WantedFree /\ TableFree
    BY ConfigsAssumption DEF Init, WantedFree, TableFree, Free
<1>6. Restarting(Boot)
    BY <1>1, QuietIs DEF Init, Restarting
<1>7. Restored
    BY <1>1, <1>6, QuietIs DEF Restored, Restarts
<1>8. QED
    BY <1>2, <1>3, <1>4, <1>5, <1>7 DEF IInv, Base, OrderInv

LEMMA CrashKeeps ==
    ASSUME IInv, Crash
    PROVE  IInv'
<1>0. Base /\ OrderInv /\ TypeOK /\ Shapes /\ FileIsCurrent
    BY DEF IInv, Base
<1>1. /\ streams' = {} /\ settings' = Load(file) /\ UNCHANGED <<file, wanted, failures, failed>>
      /\ task' = [r \in Tasks |-> IF r = Boot THEN Booting ELSE Quiet]
      /\ orderly' = (orderly /\ ~failed /\ \A r \in Tasks : Idle(r))
      /\ crashes' = crashes + 1 /\ crashes < MaxCrashes
    BY DEF Crash
<1>2. /\ settings \in SettingsRecords /\ file \in SettingsRecords \union {Torn}
      /\ crashes \in 0..MaxCrashes /\ orderly \in BOOLEAN /\ wanted \subseteq Configs
      /\ failures \in 0..MaxFailures /\ failed \in BOOLEAN
    BY <1>0, TypedParts
<1>3. settings' \in SettingsRecords
    BY <1>1, <1>2, DefaultsTyped DEF Load
<1>4. crashes' \in 0..MaxCrashes
    BY <1>1, <1>2, StreamManagerAssumption
<1>5. Base'
    BY <1>1, <1>2, <1>3, <1>4, BootBase
<1>6. ASSUME orderly'
      PROVE  /\ settings'.streams = wanted' /\ Free(wanted')
             /\ \A c \in wanted' : Source(c) \notin settings'.blocked
    <2>1. orderly /\ ~failed /\ \A r \in Tasks : task[r] = Quiet
        BY <1>0, <1>1, <1>6, TypedTask
    <2>2. file = settings
        BY <1>0, <2>1, QuietIs DEF FileIsCurrent, At
    <2>3. settings' = settings
        BY <1>1, <1>2, <2>2, TornAssumption DEF Load
    <2>4. streams = wanted /\ settings.streams = wanted /\ Free(wanted) /\ BlockKnows
        BY <1>0, <2>1, QuietIs DEF OrderInv, Agreed, WantedFree, Blocking, Restarts
    <2>5. \A c \in streams : Source(c) \notin settings.blocked
        BY <2>1, <2>4, QuietIs DEF BlockKnows, Removes
    <2>6. QED
        BY <1>1, <2>3, <2>4, <2>5 DEF Free
<1>7. OrderInv'
    BY <1>1, <1>6, BootOrder
<1>8. QED
    BY <1>5, <1>7 DEF IInv

LEMMA Keeps == IInv /\ [Next]_vars => IInv'
<1> SUFFICES ASSUME IInv, [Next]_vars PROVE IInv'
    OBVIOUS
<1>0. Base /\ OrderInv /\ TypeOK /\ Shapes
    BY DEF IInv, Base
<1>0a. /\ settings \in SettingsRecords /\ streams \subseteq Configs /\ wanted \subseteq Configs
       /\ settings.blocked \subseteq Sources
    BY <1>0, TypedParts
<1>1. ASSUME NEW r \in Tasks, Step(r) PROVE IInv'
    BY <1>0, <1>1, StepBase, StepOrder DEF IInv
<1>2. ASSUME NEW r \in Tasks, Restart(r) PROVE IInv'
    <2>1. /\ UNCHANGED <<streams, settings, file, failures, failed, wanted>>
          /\ \E t : Accepts(r, t) /\ t.op = "Restart" /\ t.at = "plan"
        BY <1>0, <1>2, RestartAccepts
    <2>2. PICK t : Accepts(r, t) /\ t.op = "Restart" /\ t.at = "plan"
        BY <2>1
    <2>3. Base' /\ task'[r] = t /\ \A q \in Tasks \ {r} : task'[q] = task[q]
        BY <1>0, <1>0a, <2>1, <2>2, AcceptBase
    <2>4. OrderInv'
        BY <1>0, <2>1, <2>2, <2>3, RestartAccept
    <2>5. QED
        BY <2>3, <2>4 DEF IInv
<1>3. ASSUME NEW r \in Tasks, Reset(r) PROVE IInv'
    <2>1. /\ settings' = [streams |-> Defaults, blocked |-> {}] /\ wanted' = Defaults
          /\ UNCHANGED <<streams, file, failures, failed>>
          /\ \E t : Accepts(r, t) /\ t.op = "Restart" /\ t.at = "save" /\ ~t.locked
        BY <1>0, <1>3, ResetAccepts
    <2>2. PICK t : Accepts(r, t) /\ t.op = "Restart" /\ t.at = "save" /\ ~t.locked
        BY <2>1
    <2>3. settings' \in SettingsRecords /\ wanted' \subseteq Configs
        BY <2>1, DefaultsTyped, StreamManagerAssumption
    <2>4. Base' /\ task'[r] = t /\ \A q \in Tasks \ {r} : task'[q] = task[q]
        BY <1>0, <1>0a, <2>1, <2>2, <2>3, AcceptBase
    <2>5. OrderInv'
        BY <1>0, <2>1, <2>2, <2>4, RestartAccept
    <2>6. QED
        BY <2>4, <2>5 DEF IInv
<1>4. ASSUME NEW r \in Requests, NEW c \in Configs, Post(r, c) PROVE IInv'
    <2>1. /\ UNCHANGED <<streams, settings, file, failures, failed, wanted>>
          /\ \E t : Accepts(r, t) /\ t.op = "Post" /\ t.at = "add"
        BY <1>0, <1>4, PostAccepts
    <2>2. PICK t : Accepts(r, t) /\ t.op = "Post" /\ t.at = "add"
        BY <2>1
    <2>3. Base' /\ r \in Tasks /\ task'[r] = t /\ \A q \in Tasks \ {r} : task'[q] = task[q]
        BY <1>0, <1>0a, <2>1, <2>2, AcceptBase
    <2>4. OrderInv'
        BY <1>0, <2>1, <2>2, <2>3, OtherAccept
    <2>5. QED
        BY <2>3, <2>4 DEF IInv
<1>5. ASSUME NEW r \in Requests, NEW c \in Configs, Delete(r, c) PROVE IInv'
    <2>1. /\ UNCHANGED <<streams, settings, file, failures, failed, wanted>>
          /\ \E t : Accepts(r, t) /\ t.op = "Delete" /\ t.at = "remove"
        BY <1>0, <1>5, DeleteAccepts
    <2>2. PICK t : Accepts(r, t) /\ t.op = "Delete" /\ t.at = "remove"
        BY <2>1
    <2>3. Base' /\ r \in Tasks /\ task'[r] = t /\ \A q \in Tasks \ {r} : task'[q] = task[q]
        BY <1>0, <1>0a, <2>1, <2>2, AcceptBase
    <2>4. OrderInv'
        BY <1>0, <2>1, <2>2, <2>3, OtherAccept
    <2>5. QED
        BY <2>3, <2>4 DEF IInv
<1>6. ASSUME NEW r \in Requests, NEW s \in Sources, Block(r, s) PROVE IInv'
    <2>1. /\ settings' = [settings EXCEPT !.blocked = @ \union {s}]
          /\ UNCHANGED <<streams, file, failures, failed, wanted>>
          /\ \E t : /\ Accepts(r, t) /\ t.op = "Block" /\ t.at = "save" /\ ~t.locked
                    /\ t.item = {c \in Configs : Source(c) = s}
        BY <1>0, <1>6, BlockAccepts
    <2>2. PICK t : /\ Accepts(r, t) /\ t.op = "Block" /\ t.at = "save" /\ ~t.locked
                   /\ t.item = {c \in Configs : Source(c) = s}
        BY <2>1
    <2>3. /\ settings' \in SettingsRecords /\ settings'.streams = settings.streams
          /\ settings'.blocked = settings.blocked \union {s}
        BY <1>0a, <2>1 DEF SettingsRecords
    <2>4. Base' /\ r \in Tasks /\ task'[r] = t /\ \A q \in Tasks \ {r} : task'[q] = task[q]
        BY <1>0, <1>0a, <2>1, <2>2, <2>3, AcceptBase
    <2>5. OrderInv'
        BY <1>0, <2>1, <2>2, <2>3, <2>4, OtherAccept
    <2>6. QED
        BY <2>4, <2>5 DEF IInv
<1>7. ASSUME NEW r \in Requests, NEW s \in Sources, Unblock(r, s) PROVE IInv'
    <2>1. /\ settings' = [settings EXCEPT !.blocked = @ \ {s}] /\ UNCHANGED <<streams, file, failures, failed, wanted>>
          /\ \E t : Accepts(r, t) /\ t.op = "Unblock" /\ t.at = "save"
        BY <1>0, <1>7, UnblockAccepts
    <2>2. PICK t : Accepts(r, t) /\ t.op = "Unblock" /\ t.at = "save"
        BY <2>1
    <2>3. /\ settings' \in SettingsRecords /\ settings'.streams = settings.streams
          /\ settings'.blocked \subseteq settings.blocked
        BY <1>0a, <2>1 DEF SettingsRecords
    <2>4. Base' /\ r \in Tasks /\ task'[r] = t /\ \A q \in Tasks \ {r} : task'[q] = task[q]
        BY <1>0, <1>0a, <2>1, <2>2, <2>3, AcceptBase
    <2>5. OrderInv'
        BY <1>0, <2>1, <2>2, <2>3, <2>4, OtherAccept
    <2>6. QED
        BY <2>4, <2>5 DEF IInv
<1>8. CASE Crash
    BY <1>8, CrashKeeps
<1>9. CASE UNCHANGED vars
    <2>1. Base'
        BY <1>0, <1>9 DEF vars, Base, TypeOK, Shapes, FileIsCurrent, At
    <2>2. OrderInv'
        BY <1>0, <1>9 DEF vars, OrderInv, Alone, Agreed, WantedFree, TableFree, Free, Checked, CheckedFor,
           Blocking, BlockKnows, Removes, Restored, Restarting, Restarts, Idle, At
    <2>3. QED
        BY <2>1, <2>2 DEF IInv
<1>10. QED
    BY <1>1, <1>2, <1>3, <1>4, <1>5, <1>6, <1>7, <1>8, <1>9 DEF Next

\* The inductive invariant: the settings file is current and, while requests do not overlap,
\* what each request has still to do leads from the table to the one wanted.
THEOREM InductiveInvariant == Spec => []IInv
<1>1. Init => IInv
    BY Begins
<1>2. IInv /\ [Next]_vars => IInv'
    BY Keeps
<1>3. QED
    BY <1>1, <1>2, PTL DEF Spec

\* Whatever requests, evictions and crashes do, and wherever a save fails: while no
\* save is due or under way and the one that ended last did not fail, the settings
\* file holds the settings in memory.
THEOREM FileIsCurrentAlways == Spec => []FileIsCurrent
<1>1. IInv => FileIsCurrent
    BY DEF IInv, Base
<1>2. QED
    BY <1>1, InductiveInvariant, PTL

\* Requests that do not overlap leave the table of streams and its settings as
\* they were asked to, across restarts, resets, failed saves, and crashes between
\* requests that come after no failed save.
THEOREM SettledAlways == Spec => []SettledAsWanted
<1>1. ASSUME IInv, orderly, \A r \in Tasks : Idle(r)
      PROVE  streams = wanted /\ settings.streams = wanted
    <2>1. \A r \in Tasks : task[r] = Quiet
        BY <1>1, TypedTask DEF IInv, Base
    <2>2. QED
        BY <1>1, <2>1, QuietIs DEF IInv, OrderInv, Agreed, Restarts
<1>2. IInv => SettledAsWanted
    BY <1>1 DEF SettledAsWanted
<1>3. QED
    BY <1>2, InductiveInvariant, PTL

\* ... no two streams that run share a name, an exclusive source or an endpoint,
\* and when all is quiet none of them uses a blocked source.
THEOREM TableInvAlways == Spec => []TableInv
<1>1. IInv => NoConflicts
    BY DEF IInv, OrderInv, TableFree, Free, NoConflicts, Conflicts
<1>2. ASSUME IInv, orderly, \A r \in Tasks : Idle(r), NEW c \in streams
      PROVE  Source(c) \notin settings.blocked
    <2>1. \A r \in Tasks : task[r] = Quiet
        BY <1>2, TypedTask DEF IInv, Base
    <2>2. BlockKnows
        BY <1>2, <2>1, QuietIs DEF IInv, OrderInv, Blocking, Restarts
    <2>3. QED
        BY <2>1, <2>2, QuietIs DEF BlockKnows, Removes
<1>3. IInv => TableInv
    BY <1>1, <1>2 DEF TableInv, BlockedUnlessOverlapped, IInv, Base
<1>4. QED
    BY <1>3, InductiveInvariant, PTL

-----------------------------------------------------------------------------
(* Local devices *)

Records == saved \cup running \cup todo \cup updated

OneEach(S) == \A s, t \in S : s.id = t.id => s = t

\* A node that is plugged in has a path of its own, a camera a port of its own; the candidates
\* have a path each.
DevicesApart ==
    /\ \A n \in Nodes : path[n] = None <=> bus[n.camera] = None
    /\ \A m, n \in Nodes : path[m] = path[n] /\ m # n => path[m] = None
    /\ \A c, d \in Cameras : bus[c] = bus[d] /\ c # d => bus[c] = None
    /\ \A c, d \in candidates : c.path = d.path => c = d

\* A stream is once in each place, and where start_default has got to says which.
Accounted ==
    /\ \A s \in Records : made[s.id] # None
    /\ OneEach(saved) /\ OneEach(running) /\ OneEach(todo \cup updated)
    /\ at = "idle" => todo = {}
    /\ at = "list" => updated = {}
    /\ at \in {"list", "identify"} => running = {} /\ todo \cap updated = {}
    /\ at = "start" => todo \cup running \subseteq updated /\ todo \cap running = {}
    /\ at \in {"start", "idle"} => saved = running \/ running = {}

\* The streams identified have paths of their own, that no candidate has; those that run are
\* as they were identified.
FoundApart ==
    /\ \A i \in found : \E s \in updated : s.id = i
    /\ at = "identify" =>
         \A s \in updated : s.id \in found => \A c \in candidates : c.path # s.path
    /\ \A s, t \in updated : s.id # t.id /\ {s.id, t.id} \subseteq found => s.path # t.path
    /\ \A s \in running : s.id \in found => s \in updated

Listed(n) == [name |-> n.name, path |-> path[n], typ |-> bus[n.camera]]

Covered(S) == \A i \in Ids : made[i] # None => \E s \in S : s.id = i

\* While no camera is unplugged a stream keeps its node to itself and names it rightly, but
\* for the path, until the node is found among the candidates.
Followed ==
    undisturbed =>
      /\ \A i \in Ids : made[i] # None => Plugged(made[i])
      /\ \A i, j \in Ids : made[i] # None /\ made[i] = made[j] => i = j
      /\ \A s \in Records : /\ s.name = made[s.id].name /\ s.encode \in made[s.id].encodes
                            /\ s.typ = bus[made[s.id].camera]
      /\ at = "list" => Covered(todo)
      /\ at = "identify" =>
           /\ Covered(todo \cup updated)
           /\ \A c \in candidates : \E n \in Nodes : Plugged(n) /\ c = Listed(n)
           /\ \A s \in todo : Listed(made[s.id]) \in candidates
           /\ \A s \in updated : s.path = path[made[s.id]]
      /\ at \in {"start", "idle"} =>
           /\ Covered(todo \cup running)
           /\ \A s \in todo \cup running : s.path = path[made[s.id]]

LocalIInv == LocalTypeOK /\ DevicesApart /\ Accounted /\ FoundApart /\ Followed
-----------------------------------------------------------------------------
(* Types *)

Names == {n.name : n \in Nodes}
Encodes == UNION {n.encodes : n \in Nodes}
CandidateType == [name : Names, path : Paths, typ : Buses]

LEMMA Invalidated ==
    ASSUME NEW s \in StreamRecords, NEW r, r = [s EXCEPT !.path = None]
    PROVE  r \in StreamRecords /\ r.id = s.id /\ r.path = None
BY DEF StreamRecords

\* What a round of update_devices does to the three sets it works on.
LEMMA Round ==
    ASSUME LocalTypeOK, NEW s \in todo, Update(s)
    PROVE  \/ \E c \in Identify(s, candidates), r \in StreamRecords :
                /\ Cardinality(Identify(s, candidates)) = 1
                /\ r = [s EXCEPT !.path = c.path, !.typ = c.typ] /\ r.id = s.id
                /\ r.path = c.path /\ c \in candidates
                /\ updated' = updated \cup {r} /\ candidates' = candidates \ {c}
                /\ found' = found \cup {s.id}
           \/ \E r \in StreamRecords :
                /\ Cardinality(Identify(s, candidates)) # 1
                /\ r.id = s.id
                /\ updated' = updated \cup {r} /\ UNCHANGED <<candidates, found>>
<1> DEFINE left == Identify(s, candidates)
<1>1. s \in StreamRecords /\ candidates \subseteq CandidateType
    BY DEF LocalTypeOK, CandidateType, Names
<1>2. left \subseteq candidates
    BY DEF Identify, SameBus, SameEncode, SameName
<1>3. CASE Cardinality(left) = 1
    <2>1. PICK c \in left : /\ updated' = updated \cup {[s EXCEPT !.path = c.path, !.typ = c.typ]}
                            /\ candidates' = candidates \ {c} /\ found' = found \cup {s.id}
        BY <1>3 DEF Update, Taken
    <2>2. c.path \in Paths /\ c.typ \in Buses /\ c \in candidates
        BY <1>1, <1>2 DEF CandidateType
    <2>3. PICK r : r = [s EXCEPT !.path = c.path, !.typ = c.typ]
        OBVIOUS
    <2>4. r \in StreamRecords /\ r.id = s.id /\ r.path = c.path
        BY <1>1, <2>2, <2>3 DEF StreamRecords
    <2>5. QED
        BY <1>3, <2>1, <2>2, <2>3, <2>4
<1>4. CASE Cardinality(left) # 1
    <2>1. updated' = updated \cup {IF left = {} THEN [s EXCEPT !.path = None] ELSE s}
          /\ UNCHANGED <<candidates, found>>
        BY <1>4 DEF Update
    <2>2. QED
        BY <1>1, <1>4, <2>1, Invalidated
<1>5. QED
    BY <1>3, <1>4

\* A stream that a user makes has the device's name, path and port.
LEMMA Posted ==
    ASSUME LocalTypeOK, DevicesApart, NEW id \in Ids, NEW n \in Nodes, NEW e \in n.encodes,
           PostStream(id, n, e)
    PROVE  \E s \in StreamRecords :
             /\ s.id = id /\ s.name = n.name /\ s.path = path[n] /\ s.typ = bus[n.camera]
             /\ s.encode = e /\ ~PathTaken(s)
             /\ running' = running \cup {s} /\ saved' = running'
<1> DEFINE s == [id |-> id, name |-> n.name, path |-> path[n], typ |-> bus[n.camera],
                 encode |-> e]
<1>1. n.camera \in Cameras /\ bus[n.camera] # None /\ n.name \in Names /\ e \in Encodes
    BY DEF Cameras, PostStream, Plugged, Names, Encodes
<1>2. bus[n.camera] \in Buses /\ path[n] \in Paths \cup {None}
    BY <1>1 DEF LocalTypeOK
<1>3. s \in StreamRecords
    BY <1>1, <1>2 DEF StreamRecords, Names, Encodes
<1>4. ~PathTaken(s) /\ running' = running \cup {s} /\ saved' = running'
    BY DEF PostStream
<1>5. QED
    BY <1>3, <1>4

\* The nodes of a plugged camera are listed as they are.
LEMMA CamerasListed ==
    ASSUME LocalTypeOK, DevicesApart
    PROVE  /\ CamerasAvailable \subseteq CandidateType
           /\ \A c \in CamerasAvailable : \E n \in Nodes : Plugged(n) /\ c = Listed(n)
           /\ \A n \in Nodes : Plugged(n) => Listed(n) \in CamerasAvailable
<1>1. ASSUME NEW n \in Nodes, Plugged(n)
      PROVE  Listed(n) \in CandidateType
    <2>1. n.camera \in Cameras /\ bus[n.camera] # None /\ path[n] # None /\ n.name \in Names
        BY <1>1 DEF Cameras, Plugged, DevicesApart, Names
    <2>2. bus[n.camera] \in Buses /\ path[n] \in Paths
        BY <2>1 DEF LocalTypeOK
    <2>3. QED
        BY <2>1, <2>2 DEF CandidateType, Listed
<1>2. QED
    BY <1>1 DEF CamerasAvailable, Listed

LEMMA LocalStepTyped == LocalTypeOK /\ DevicesApart /\ [LocalNext]_localVars => LocalTypeOK'
<1> SUFFICES ASSUME LocalTypeOK, DevicesApart, [LocalNext]_localVars PROVE LocalTypeOK'
    OBVIOUS
<1>1. ASSUME NEW c \in Cameras, NEW b \in Buses, Plug(c, b) PROVE LocalTypeOK'
    BY <1>1 DEF LocalTypeOK, Plug, Numberings, start
<1>2. ASSUME NEW c \in Cameras, Unplug(c) PROVE LocalTypeOK'
    BY <1>2 DEF LocalTypeOK, Unplug, Numberings, start
<1>3. CASE Reboot
    BY <1>3 DEF LocalTypeOK, Reboot, Numberings
<1>4. CASE List
    BY <1>4, CamerasListed DEF LocalTypeOK, List, devices, CandidateType, Names
<1>5. CASE Filter
    BY <1>5 DEF LocalTypeOK, Filter, devices
<1>6. CASE Started
    BY <1>6 DEF LocalTypeOK, Started, devices
<1>7. ASSUME NEW s \in todo, Update(s) PROVE LocalTypeOK'
    <2>1. updated' \subseteq StreamRecords /\ candidates' \subseteq candidates
        BY <1>7, Round DEF LocalTypeOK
    <2>2. s.id \in Ids /\ found' \subseteq found \cup {s.id}
        BY <1>7, Round DEF LocalTypeOK, StreamRecords
    <2>3. found' \subseteq Ids
        BY <2>2 DEF LocalTypeOK
    <2>4. QED
        BY <1>7, <2>1, <2>3 DEF LocalTypeOK, Update, devices
<1>8. ASSUME NEW s \in todo, Start(s) PROVE LocalTypeOK'
    BY <1>8 DEF LocalTypeOK, Start, devices
<1>9. ASSUME NEW id \in Ids, NEW n \in Nodes, NEW e \in n.encodes, PostStream(id, n, e) PROVE LocalTypeOK'
    <2>1. running' \subseteq StreamRecords /\ saved' \subseteq StreamRecords
        BY <1>9, Posted DEF LocalTypeOK
    <2>2. made' \in [Ids -> Nodes \cup {None}]
        BY <1>9 DEF PostStream, LocalTypeOK
    <2>3. UNCHANGED <<bus, path, at, todo, updated, candidates, found>>
        BY <1>9 DEF PostStream, devices, start
    <2>4. QED
        BY <2>1, <2>2, <2>3 DEF LocalTypeOK
<1>10. CASE UNCHANGED localVars
    BY <1>10 DEF LocalTypeOK, localVars, devices, start
<1>11. QED
    BY <1>1, <1>2, <1>3, <1>4, <1>5, <1>6, <1>7, <1>8, <1>9, <1>10 DEF LocalNext
-----------------------------------------------------------------------------
(* Devices *)

\* Plugging a camera in or out leaves the others where they are.
LEMMA Replugged ==
    ASSUME LocalTypeOK, DevicesApart, NEW c \in Cameras,
           \/ \E b \in Buses : Plug(c, b)
           \/ Unplug(c)
    PROVE  /\ \A n \in Nodes : n.camera # c => path'[n] = path[n]
           /\ \A d \in Cameras : d # c => bus'[d] = bus[d]
<1>1. ASSUME NEW n \in Nodes, n.camera # c PROVE path'[n] = path[n]
    BY <1>1 DEF Plug, Unplug, Numberings, NodesOf
<1>2. QED
    BY <1>1 DEF Plug, Unplug, LocalTypeOK

LEMMA StepApart == LocalTypeOK /\ DevicesApart /\ [LocalNext]_localVars => DevicesApart'
<1> SUFFICES ASSUME LocalTypeOK, DevicesApart, [LocalNext]_localVars PROVE DevicesApart'
    OBVIOUS
<1>1. ASSUME NEW c \in Cameras, NEW b \in Buses, Plug(c, b) PROVE DevicesApart'
    <2>1. path' \in Numberings(NodesOf(c)) /\ candidates' = candidates
          /\ bus' = [bus EXCEPT ![c] = b] /\ \A d \in Cameras : bus[d] # b
        BY <1>1 DEF Plug, start
    <2>2. \A d, e \in Cameras : bus'[d] = bus'[e] /\ d # e => bus'[d] = None
        BY <2>1 DEF LocalTypeOK, DevicesApart
    <2>3. QED
        BY <2>1, <2>2 DEF DevicesApart, Numberings
<1>2. ASSUME NEW c \in Cameras, Unplug(c) PROVE DevicesApart'
    <2>1. path' \in Numberings(NodesOf(c)) /\ candidates' = candidates
          /\ bus' = [bus EXCEPT ![c] = None]
        BY <1>2 DEF Unplug, start
    <2>2. \A d, e \in Cameras : bus'[d] = bus'[e] /\ d # e => bus'[d] = None
        BY <2>1 DEF LocalTypeOK, DevicesApart
    <2>3. QED
        BY <2>1, <2>2 DEF DevicesApart, Numberings
<1>3. CASE Reboot
    BY <1>3 DEF DevicesApart, Reboot, Numberings
<1>4. CASE List
    <2>1. \A d, e \in CamerasAvailable : d.path = e.path => d = e
        BY CamerasListed DEF Listed, DevicesApart, Plugged
    <2>2. QED
        BY <1>4, <2>1 DEF DevicesApart, List, devices
<1>5. CASE Filter \/ Started
    BY <1>5 DEF DevicesApart, Filter, Started, devices
<1>6. ASSUME NEW s \in todo, Update(s) PROVE DevicesApart'
    <2>1. candidates' \subseteq candidates
        BY <1>6, Round
    <2>2. UNCHANGED <<bus, path>>
        BY <1>6 DEF Update, devices
    <2>3. QED
        BY <2>1, <2>2 DEF DevicesApart
<1>7. ASSUME NEW s \in todo, Start(s) PROVE DevicesApart'
    BY <1>7 DEF DevicesApart, Start, devices
<1>8. ASSUME NEW id \in Ids, NEW n \in Nodes, NEW e \in n.encodes, PostStream(id, n, e)
      PROVE  DevicesApart'
    BY <1>8 DEF DevicesApart, PostStream, devices, start
<1>9. CASE UNCHANGED localVars
    BY <1>9 DEF DevicesApart, localVars, devices, start
<1>10. QED
    BY <1>1, <1>2, <1>3, <1>4, <1>5, <1>6, <1>7, <1>8, <1>9 DEF LocalNext
-----------------------------------------------------------------------------
(* One record for a stream in each place *)

\* Streams, and where they are, are as they were when cameras are plugged in or out.
LEMMA DevicesMove ==
    ASSUME \/ \E c \in Cameras : (\E b \in Buses : Plug(c, b)) \/ Unplug(c)
           \/ UNCHANGED localVars
    PROVE  UNCHANGED <<saved, running, start, made>>
BY DEF Plug, Unplug, localVars

LEMMA StepAccounted == LocalTypeOK /\ DevicesApart /\ Accounted /\ [LocalNext]_localVars => Accounted'
<1> SUFFICES ASSUME LocalTypeOK, DevicesApart, Accounted, [LocalNext]_localVars PROVE Accounted'
    OBVIOUS
<1>1. CASE \/ \E c \in Cameras : (\E b \in Buses : Plug(c, b)) \/ Unplug(c)
           \/ UNCHANGED localVars
    BY <1>1, DevicesMove DEF Accounted, Records, OneEach, start
<1>2. CASE Reboot
    BY <1>2 DEF Accounted, Records, OneEach, Reboot
<1>3. CASE List
    BY <1>3 DEF Accounted, Records, OneEach, List
<1>4. CASE Filter
    BY <1>4 DEF Accounted, Records, OneEach, Filter
<1>5. CASE Started
    BY <1>5 DEF Accounted, Records, OneEach, Started
<1>6. ASSUME NEW s \in todo, Update(s) PROVE Accounted'
    <2>1. PICK r \in StreamRecords : r.id = s.id /\ updated' = updated \cup {r}
        BY <1>6, Round
    <2>2. /\ at = "identify" /\ todo' = todo \ {s}
          /\ UNCHANGED <<saved, running, at, made>>
        BY <1>6 DEF Update
    <2>3. \A t \in updated \cup todo : t.id = s.id => t = s
        BY DEF Accounted, OneEach
    <2>4. OneEach(todo' \cup updated') /\ todo' \cap updated' = {}
        BY <2>1, <2>2, <2>3 DEF Accounted, OneEach
    <2>5. \A t \in Records' : made'[t.id] # None
        BY <2>1, <2>2 DEF Accounted, Records
    <2>6. QED
        BY <2>2, <2>4, <2>5 DEF Accounted, OneEach
<1>7. ASSUME NEW s \in todo, Start(s) PROVE Accounted'
    <2>1. /\ at = "start" /\ todo' = todo \ {s} /\ UNCHANGED <<at, updated, made>>
          /\ \/ UNCHANGED <<running, saved>>
             \/ running' = running \cup {s} /\ saved' = running'
        BY <1>7 DEF Start
    <2>2. todo \cup running \subseteq updated /\ todo \cap running = {} /\ OneEach(updated)
        BY <2>1 DEF Accounted, OneEach
    <2>3. OneEach(saved') /\ OneEach(running') /\ OneEach(todo' \cup updated')
        BY <2>1, <2>2 DEF Accounted, OneEach
    <2>4. QED
        BY <2>1, <2>2, <2>3 DEF Accounted, Records
<1>8. ASSUME NEW id \in Ids, NEW n \in Nodes, NEW e \in n.encodes, PostStream(id, n, e)
      PROVE  Accounted'
    <2>1. PICK s \in StreamRecords : /\ s.id = id /\ running' = running \cup {s}
                                     /\ saved' = running'
        BY <1>8, Posted
    <2>2. /\ at = "idle" /\ made[id] = None /\ made' = [made EXCEPT ![id] = n]
          /\ UNCHANGED <<at, todo, updated>>
        BY <1>8 DEF PostStream, start
    <2>3. n # None /\ made'[id] = n /\ \A i \in Ids : i # id => made'[i] = made[i]
        BY <2>2, LocalDevicesAssumption DEF LocalTypeOK
    <2>4. \A t \in running \cup todo \cup updated : t.id # id /\ t.id \in Ids
        BY <2>2 DEF Accounted, Records, LocalTypeOK, StreamRecords
    <2>5. OneEach(running')
        BY <2>1, <2>4 DEF Accounted, OneEach
    <2>6. \A t \in Records' : made'[t.id] # None
        BY <2>1, <2>2, <2>3, <2>4 DEF Accounted, Records
    <2>7. QED
        BY <2>1, <2>2, <2>5, <2>6 DEF Accounted, OneEach
<1>9. QED
    BY <1>1, <1>2, <1>3, <1>4, <1>5, <1>6, <1>7, <1>8 DEF LocalNext
-----------------------------------------------------------------------------
(* Two streams are never identified as one device *)

LEMMA StepFoundApart ==
    LocalTypeOK /\ DevicesApart /\ Accounted /\ FoundApart /\ [LocalNext]_localVars => FoundApart'
<1> SUFFICES ASSUME LocalTypeOK, DevicesApart, Accounted, FoundApart, [LocalNext]_localVars
             PROVE  FoundApart'
    OBVIOUS
<1>1. CASE \/ \E c \in Cameras : (\E b \in Buses : Plug(c, b)) \/ Unplug(c)
           \/ UNCHANGED localVars
    BY <1>1, DevicesMove DEF FoundApart, start
<1>2. CASE Reboot
    BY <1>2 DEF FoundApart, Reboot
<1>3. CASE List
    BY <1>3 DEF FoundApart, Accounted, List
<1>4. CASE Filter
    BY <1>4 DEF FoundApart, Filter
<1>5. CASE Started
    BY <1>5 DEF FoundApart, Started
<1>6. ASSUME NEW s \in todo, Update(s) PROVE FoundApart'
    <2>1. /\ at = "identify" /\ UNCHANGED <<running, at>> /\ running = {}
        BY <1>6 DEF Update, Accounted
    <2>2. \A t \in updated : t.id # s.id
        BY <2>1 DEF Accounted, OneEach
    <2>3. s.id \notin found
        BY <2>2 DEF FoundApart
    <2>4. CASE \E c \in candidates, r \in StreamRecords :
                 /\ r.id = s.id /\ r.path = c.path /\ updated' = updated \cup {r}
                 /\ candidates' = candidates \ {c} /\ found' = found \cup {s.id}
        <3>1. PICK c \in candidates, r \in StreamRecords :
                /\ r.id = s.id /\ r.path = c.path /\ updated' = updated \cup {r}
                /\ candidates' = candidates \ {c} /\ found' = found \cup {s.id}
            BY <2>4
        <3>2. \A d \in candidates' : d.path # r.path
            BY <3>1 DEF DevicesApart
        <3>3. \A t \in updated : t.id \in found' => t.id \in found /\ t.path # r.path
            BY <2>1, <2>2, <3>1 DEF FoundApart
        <3>4. \A i \in found' : \E t \in updated' : t.id = i
            BY <3>1 DEF FoundApart
        <3>5. \A t \in updated' : t.id \in found' => \A d \in candidates' : d.path # t.path
            BY <2>1, <3>1, <3>2, <3>3 DEF FoundApart
        <3>6. \A t, u \in updated' : t.id # u.id /\ {t.id, u.id} \subseteq found'
                                       => t.path # u.path
            BY <3>1, <3>3 DEF FoundApart
        <3>7. QED
            BY <2>1, <3>4, <3>5, <3>6 DEF FoundApart
    <2>5. CASE \E r \in StreamRecords : /\ r.id = s.id /\ updated' = updated \cup {r}
                                        /\ UNCHANGED <<candidates, found>>
        BY <2>1, <2>3, <2>5 DEF FoundApart
    <2>6. QED
        BY <1>6, <2>4, <2>5, Round
<1>7. ASSUME NEW s \in todo, Start(s) PROVE FoundApart'
    BY <1>7 DEF FoundApart, Accounted, Start
<1>8. ASSUME NEW id \in Ids, NEW n \in Nodes, NEW e \in n.encodes, PostStream(id, n, e)
      PROVE  FoundApart'
    <2>1. PICK s \in StreamRecords : s.id = id /\ running' = running \cup {s}
        BY <1>8, Posted
    <2>2. made[id] = None /\ UNCHANGED <<at, updated, candidates, found>>
        BY <1>8 DEF PostStream, start
    <2>3. id \notin found
        BY <2>2 DEF FoundApart, Accounted, Records
    <2>4. QED
        BY <2>1, <2>2, <2>3 DEF FoundApart
<1>9. QED
    BY <1>1, <1>2, <1>3, <1>4, <1>5, <1>6, <1>7, <1>8 DEF LocalNext
-----------------------------------------------------------------------------
(* Streams follow their cameras *)

\* The rules leave a stream its own node alone: the candidates of its port are of one camera,
\* which gives each encode at one node.
LEMMA OwnCandidate ==
    ASSUME LocalTypeOK, DevicesApart, NEW s \in StreamRecords, NEW n \in Nodes, Plugged(n),
           Listed(n) \in candidates,
           \A c \in candidates : \E m \in Nodes : Plugged(m) /\ c = Listed(m),
           s.name = n.name, s.encode \in n.encodes, s.typ = bus[n.camera]
    PROVE  /\ Identify(s, candidates) = {Listed(n)}
           /\ Cardinality(Identify(s, candidates)) = 1
<1> DEFINE alike == SameEncode(SameName(candidates, s), s)
           here  == SameBus(alike, s)
<1>1. ASSUME NEW m \in Nodes, Plugged(m)
      PROVE  EncodesAt(path[m]) = m.encodes
    <2>1. \A k \in Nodes : Plugged(k) /\ path[k] = path[m] <=> k = m
        BY <1>1 DEF DevicesApart, Plugged
    <2>2. {k \in Nodes : Plugged(k) /\ path[k] = path[m]} = {m}
        BY <2>1
    <2>3. {k.encodes : k \in {k \in Nodes : Plugged(k) /\ path[k] = path[m]}} = {m.encodes}
        BY <2>2
    <2>4. QED
        BY <2>3 DEF EncodesAt
<1>2. Listed(n) \in here
    BY <1>1 DEF SameBus, SameEncode, SameName, Listed
<1>3. ASSUME NEW c \in here PROVE c = Listed(n)
    <2>1. c \in candidates /\ s.encode \in EncodesAt(c.path) /\ c.typ = s.typ
        BY DEF SameBus, SameEncode, SameName
    <2>2. PICK m \in Nodes : Plugged(m) /\ c = Listed(m)
        BY <2>1
    <2>3. s.encode \in m.encodes /\ bus[m.camera] = bus[n.camera]
        BY <1>1, <2>1, <2>2 DEF Listed
    <2>4. m.camera = n.camera
        BY <2>2, <2>3 DEF DevicesApart, Plugged, Cameras
    <2>5. m = n
        BY <2>3, <2>4, LocalDevicesAssumption
    <2>6. QED
        BY <2>2, <2>5
<1>4. here = {Listed(n)}
    BY <1>2, <1>3
<1>5. Cardinality(here) = 1
    BY <1>4, FS_Singleton
<1>6. Identify(s, candidates) = here
    BY <1>5 DEF Identify
<1>7. QED
    BY <1>4, <1>5, <1>6

LEMMA StepFollowed ==
    LocalTypeOK /\ DevicesApart /\ Accounted /\ Followed /\ [LocalNext]_localVars => Followed'
<1> SUFFICES ASSUME LocalTypeOK, DevicesApart, Accounted, Followed, [LocalNext]_localVars, undisturbed'
             PROVE  Followed'
    BY DEF Followed
<1>1. ASSUME NEW c \in Cameras, NEW b \in Buses, Plug(c, b) PROVE Followed'
    <2>1. /\ undisturbed /\ bus[c] = None
          /\ UNCHANGED <<saved, running, at, todo, updated, candidates, found, made>>
        BY <1>1 DEF Plug, start
    <2>2. \A n \in Nodes : Plugged(n) => /\ Plugged(n)' /\ path'[n] = path[n]
                                         /\ bus'[n.camera] = bus[n.camera]
        BY <1>1, <2>1, Replugged DEF Plugged, Cameras
    <2>3. \A n \in Nodes : Plugged(n) => Listed(n)' = Listed(n)
        BY <2>2 DEF Listed
    <2>4. \A s \in Records : s.id \in Ids /\ made[s.id] \in Nodes /\ Plugged(made[s.id])
        BY <2>1 DEF Accounted, Followed, Records, LocalTypeOK, StreamRecords
    <2>5. \A i \in Ids : made[i] # None => made[i] \in Nodes
        BY DEF LocalTypeOK
    <2>6. todo \subseteq Records /\ updated \subseteq Records /\ running \subseteq Records
        BY DEF Records
    <2>7. Records' = Records
        BY <2>1 DEF Records
    <2>8. QED
        BY <2>1, <2>2, <2>3, <2>4, <2>5, <2>6, <2>7 DEF Followed, Covered
<1>2. ASSUME NEW c \in Cameras, Unplug(c) PROVE Followed'
    BY <1>2 DEF Unplug
<1>3. CASE Reboot
    <2>1. /\ undisturbed /\ at = "idle" /\ at' = "list" /\ running' = {} /\ todo' = saved
          /\ updated' = {} /\ UNCHANGED <<bus, saved, made>>
        BY <1>3 DEF Reboot
    <2>2. Covered(saved)
        BY <2>1 DEF Followed, Accounted, Covered
    <2>3. Records' \subseteq Records
        BY <2>1 DEF Records
    <2>4. QED
        BY <2>1, <2>2, <2>3 DEF Followed, Covered, Plugged
<1>4. CASE List
    <2>1. /\ undisturbed /\ at = "list" /\ at' = "identify" /\ candidates' = CamerasAvailable
          /\ UNCHANGED <<bus, path, saved, running, todo, updated, made>> /\ updated = {}
        BY <1>4 DEF List, devices, Accounted
    <2>2. \A s \in todo : s.id \in Ids /\ made[s.id] \in Nodes /\ Plugged(made[s.id])
        BY <2>1 DEF Accounted, Followed, Records, LocalTypeOK, StreamRecords
    <2>3. \A s \in todo : Listed(made[s.id]) \in CamerasAvailable
        BY <2>2, CamerasListed
    <2>4. QED
        BY <2>1, <2>3, CamerasListed DEF Followed, Covered, Plugged, Listed, Records
<1>5. CASE Filter
    <2>1. /\ undisturbed /\ at = "identify" /\ todo = {} /\ at' = "start" /\ running = {}
          /\ todo' = {s \in updated : s.path # None}
          /\ UNCHANGED <<bus, path, saved, running, updated, made>>
        BY <1>5 DEF Filter, devices, Accounted
    <2>2. \A s \in updated : /\ s.id \in Ids /\ made[s.id] \in Nodes /\ Plugged(made[s.id])
                             /\ s.path = path[made[s.id]]
        BY <2>1 DEF Accounted, Followed, Records, LocalTypeOK, StreamRecords
    <2>3. todo' = updated
        BY <2>1, <2>2 DEF DevicesApart, Plugged
    <2>4. Records' \subseteq Records
        BY <2>1 DEF Records
    <2>5. QED
        BY <2>1, <2>2, <2>3, <2>4 DEF Followed, Covered, Plugged
<1>6. CASE Started
    BY <1>6 DEF Followed, Covered, Plugged, Records, Started, devices
<1>7. ASSUME NEW s \in todo, Update(s) PROVE Followed'
    <2> DEFINE n == made[s.id]
    <2>1. /\ undisturbed /\ at = "identify" /\ todo' = todo \ {s}
          /\ UNCHANGED <<bus, path, saved, running, at, made>>
        BY <1>7 DEF Update, devices
    <2>2. s \in StreamRecords /\ s.id \in Ids /\ n \in Nodes /\ Plugged(n)
        BY <2>1 DEF Accounted, Followed, Records, LocalTypeOK, StreamRecords
    <2>3. s.name = n.name /\ s.encode \in n.encodes /\ s.typ = bus[n.camera]
        BY <2>1 DEF Followed, Records
    <2>4. /\ Listed(n) \in candidates
          /\ \A c \in candidates : \E m \in Nodes : Plugged(m) /\ c = Listed(m)
        BY <2>1 DEF Followed
    <2>5. /\ Identify(s, candidates) = {Listed(n)}
          /\ Cardinality(Identify(s, candidates)) = 1
        BY <2>2, <2>3, <2>4, OwnCandidate
    <2>6. PICK r : r = [s EXCEPT !.path = Listed(n).path, !.typ = Listed(n).typ]
        OBVIOUS
    <2>7. updated' = updated \cup {r} /\ candidates' = candidates \ {Listed(n)}
        BY <1>7, <2>5, <2>6, Round
    <2>8. Listed(n).path \in Paths /\ Listed(n).typ \in Buses
        BY <2>4 DEF LocalTypeOK
    <2>9. /\ r.id = s.id /\ r.name = s.name /\ r.encode = s.encode /\ r.path = path[n]
          /\ r.typ = bus[n.camera]
        BY <2>2, <2>6, <2>8 DEF Listed, StreamRecords
    <2>10. ASSUME NEW t \in todo' PROVE Listed(made[t.id])' \in candidates'
        <3>1. t \in todo /\ t # s /\ t.id # s.id
            BY <2>1 DEF Accounted, OneEach
        <3>2. t.id \in Ids /\ made[t.id] \in Nodes /\ Plugged(made[t.id])
            BY <2>1, <3>1 DEF Accounted, Followed, Records, LocalTypeOK, StreamRecords
        <3>3. made[t.id] # n
            BY <2>1, <2>2, <3>1, <3>2 DEF Followed, Accounted, Records
        <3>4. path[made[t.id]] # path[n]
            BY <2>2, <3>2, <3>3 DEF DevicesApart, Plugged
        <3>5. Listed(made[t.id]) \in candidates /\ Listed(made[t.id]) # Listed(n)
            BY <2>1, <3>1, <3>4 DEF Followed, Listed
        <3>6. QED
            BY <2>1, <2>7, <3>5 DEF Listed
    <2>11. \A c \in candidates' : \E m \in Nodes : Plugged(m)' /\ c = Listed(m)'
        BY <2>1, <2>4, <2>7 DEF Listed, Plugged
    <2>12. \A t \in Records' : /\ t.name = made'[t.id].name /\ t.encode \in made'[t.id].encodes
                               /\ t.typ = bus'[made'[t.id].camera]
        BY <2>1, <2>3, <2>7, <2>9 DEF Followed, Records
    <2>13. \A t \in updated' : t.path = path'[made'[t.id]]
        BY <2>1, <2>7, <2>9 DEF Followed
    <2>14. Covered(todo \cup updated)' 
        BY <2>1, <2>7, <2>9 DEF Followed, Covered
    <2>15. QED
        BY <2>1, <2>10, <2>11, <2>12, <2>13, <2>14 DEF Followed, Plugged
<1>8. ASSUME NEW s \in todo, Start(s) PROVE Followed'
    <2>1. /\ undisturbed /\ at = "start" /\ todo' = todo \ {s}
          /\ UNCHANGED <<bus, path, at, updated, made>>
        BY <1>8 DEF Start, devices
    <2>2. ASSUME NEW r \in running PROVE r.path # s.path
        <3>1. r \in updated /\ s \in updated /\ r # s /\ r.id # s.id
            BY <2>1 DEF Accounted, OneEach
        <3>2. /\ s.id \in Ids /\ made[s.id] \in Nodes /\ Plugged(made[s.id])
              /\ r.id \in Ids /\ made[r.id] \in Nodes /\ Plugged(made[r.id])
            BY <2>1, <3>1 DEF Accounted, Followed, Records, LocalTypeOK, StreamRecords
        <3>3. made[r.id] # made[s.id]
            BY <2>1, <3>1, <3>2 DEF Followed, Accounted, Records
        <3>4. path[made[r.id]] # path[made[s.id]]
            BY <3>2, <3>3 DEF DevicesApart, Plugged
        <3>5. QED
            BY <2>1, <3>4 DEF Followed
    <2>3. running' = running \cup {s} /\ saved' = running'
        BY <1>8, <2>2 DEF Start, PathTaken
    <2>4. QED
        BY <2>1, <2>3 DEF Followed, Covered, Plugged, Records
<1>9. ASSUME NEW id \in Ids, NEW n \in Nodes, NEW e \in n.encodes, PostStream(id, n, e)
      PROVE  Followed'
    <2>1. PICK s \in StreamRecords :
             /\ s.id = id /\ s.name = n.name /\ s.path = path[n] /\ s.typ = bus[n.camera]
             /\ s.encode = e /\ ~PathTaken(s)
             /\ running' = running \cup {s} /\ saved' = running'
        BY <1>9, Posted
    <2>2. /\ undisturbed /\ at = "idle" /\ made[id] = None /\ made' = [made EXCEPT ![id] = n]
          /\ Plugged(n) /\ UNCHANGED <<bus, path, at, todo, updated, candidates>>
        BY <1>9 DEF PostStream, start, devices
    <2>3. made'[id] = n /\ \A i \in Ids : i # id => made'[i] = made[i]
        BY <2>2 DEF LocalTypeOK
    <2>4. ASSUME NEW i \in Ids, made[i] # None PROVE made[i] # n
        BY <2>1, <2>2, <2>4 DEF Followed, Covered, PathTaken, Accounted
    <2>5. \A t \in running \cup todo \cup updated : t.id # id /\ t.id \in Ids
        BY <2>2 DEF Accounted, Records, LocalTypeOK, StreamRecords
    <2>6. \A i, j \in Ids : made'[i] # None /\ made'[i] = made'[j] => i = j
        BY <2>2, <2>3, <2>4 DEF Followed
    <2>7. \A t \in Records' : /\ t.name = made'[t.id].name /\ t.encode \in made'[t.id].encodes
                              /\ t.typ = bus'[made'[t.id].camera]
        BY <2>1, <2>2, <2>3, <2>5 DEF Followed, Records
    <2>8. \A i \in Ids : made'[i] # None => bus'[made'[i].camera] # None
        BY <2>2, <2>3 DEF Followed, Plugged
    <2>9. Covered(todo \cup running)'
        BY <2>1, <2>2, <2>3 DEF Followed, Covered
    <2>10. \A t \in (todo \cup running)' : t.path = path'[made'[t.id]]
        BY <2>1, <2>2, <2>3, <2>5 DEF Followed
    <2>11. QED
        BY <2>2, <2>6, <2>7, <2>8, <2>9, <2>10 DEF Followed, Plugged
<1>10. CASE UNCHANGED localVars
    BY <1>10 DEF Followed, Covered, Plugged, Listed, Records, localVars, devices, start
<1>11. QED
    BY <1>1, <1>2, <1>3, <1>4, <1>5, <1>6, <1>7, <1>8, <1>9, <1>10 DEF LocalNext
-----------------------------------------------------------------------------
(* The inductive invariant *)

LEMMA LocalInitIInv == LocalInit => LocalIInv
<1> SUFFICES ASSUME LocalInit PROVE LocalIInv
    OBVIOUS
<1>1. LocalTypeOK
    BY DEF LocalInit, LocalTypeOK
<1>2. DevicesApart
    BY DEF LocalInit, DevicesApart
<1>3. Accounted
    BY DEF LocalInit, Accounted, Records, OneEach
<1>4. FoundApart
    BY DEF LocalInit, FoundApart
<1>5. Followed
    BY DEF LocalInit, Followed, Records, Covered
<1>6. QED
    BY <1>1, <1>2, <1>3, <1>4, <1>5 DEF LocalIInv

\* Every state of every run has its streams identified apart and, until a camera is
\* unplugged, named as their cameras are.
THEOREM LocalInductiveInvariant == LocalSpec => []LocalIInv
<1>1. LocalIInv /\ [LocalNext]_localVars => LocalIInv'
    BY LocalStepTyped, StepApart, StepAccounted, StepFoundApart, StepFollowed DEF LocalIInv
<1>2. QED
    BY LocalInitIInv, <1>1, PTL DEF LocalSpec

\* However many cameras, streams and boots there are: in every order of the saved streams and
\* every numbering of the nodes, each stream is started on the device it was made for while no
\* camera is unplugged, and two streams are never identified as one device
\* (try_identify_device, update_devices and start_default).
THEOREM DevicesFoundAlways == LocalSpec => []DevicesFound
<1>1. LocalIInv => FollowCameras
    <2> SUFFICES ASSUME LocalIInv, undisturbed, at = "idle", NEW i \in Ids, made[i] # None
                 PROVE  \E s \in running : /\ s.id = i /\ s.path = path[made[i]]
                                           /\ s.typ = bus[made[i].camera]
        BY DEF FollowCameras
    <2>1. todo = {} /\ Covered(todo \cup running)
        BY DEF LocalIInv, Accounted, Followed
    <2>2. PICK s \in running : s.id = i
        BY <2>1 DEF Covered
    <2>3. s.path = path[made[i]] /\ s.typ = bus[made[i].camera]
        BY <2>2 DEF LocalIInv, Followed, Records
    <2>4. QED
        BY <2>2, <2>3
<1>2. LocalIInv => IdentifiedApart
    BY DEF LocalIInv, FoundApart, IdentifiedApart
<1>3. LocalIInv => DevicesFound
    BY <1>1, <1>2 DEF LocalIInv, DevicesFound
<1>4. QED
    BY LocalInductiveInvariant, <1>3, PTL

-----------------------------------------------------------------------------
(* ONVIF devices *)

\* The manager's context is the number of resets, only its loop runs, and what belongs to a
\* context was found by one of that context's scans.
Contextual ==
    /\ context = resets
    /\ \A c \in Contexts : loop[c] # "off" => c = context
    /\ \A s \in scans : s.born = s.context
    /\ \A j \in jobs : j.born = j.context
    /\ \A c \in Contexts, d \in Devices : cameras[c][d] # NoCamera => cameras[c][d].born = c

\* The credentials of the command line are with the address, with the device, or taken
\* back; a device whose handling has begun has them no more with its address.
Credited ==
    /\ \A c \in Contexts : UrlAuth \subseteq urls[c] \cup credentials[c] \cup removed[c]
    /\ \A j \in jobs : j.at # "found" => j.device \notin urls[j.context]

OnvifIInv == OnvifTypeOK /\ Contextual /\ Credited /\ UrlCredentialSeen
-----------------------------------------------------------------------------
JobType == [context : Contexts, device : Devices, iface : DOMAIN Reach, born : Contexts,
            at : {"found", "known", "asking"}, auth : BOOLEAN, ticks : 0..Slowest]

CameraType == [age : 0..MaxAge, auth : BOOLEAN, born : Contexts] \cup {NoCamera}

\* A job that moves on is one of its type.
LEMMA JobKnown ==
    ASSUME NEW j \in JobType, NEW k, k = [j EXCEPT !.at = "known"]
    PROVE  /\ k \in JobType /\ k.context = j.context /\ k.device = j.device /\ k.born = j.born
           /\ k.at = "known"
BY DEF JobType

LEMMA JobAsks ==
    ASSUME NEW j \in JobType, NEW k,
           k = [j EXCEPT !.at = "asking", !.auth = j.device \in credentials[j.context]]
    PROVE  /\ k \in JobType /\ k.context = j.context /\ k.device = j.device /\ k.born = j.born
           /\ k.at = "asking" /\ k.auth = (j.device \in credentials[j.context])
<1>1. (j.device \in credentials[j.context]) \in BOOLEAN
    OBVIOUS
<1>2. QED
    BY <1>1 DEF JobType

\* The jobs after a tick: older ones of silent devices, and those the scans found.
LEMMA JobsOfTick ==
    ASSUME OnvifTypeOK, Tick, NEW k \in jobs'
    PROVE  \/ \E j \in jobs : /\ k = [j EXCEPT !.ticks = @ + 1] /\ j.at = "asking"
                              /\ j.ticks < Slowest
           \/ \E s \in scans, i \in DOMAIN Reach : \E d \in online \cap Reach[i] :
                k = Job(s.context, d, i, s.born, "found", FALSE, 0)
<1>1. \A j \in jobs : j.at = "asking" /\ j.ticks < Slowest
    BY DEF Tick, NothingDue
<1> DEFINE Older == {[j EXCEPT !.ticks = @ + 1] : j \in jobs}
           Finds(i) == {Job(s.context, d, i, s.born, "found", FALSE, 0) :
                          s \in scans, d \in online \cap Reach[i]}
<1>2. jobs' = Older \cup UNION {Finds(i) : i \in DOMAIN Reach}
    BY DEF Tick
<1>3. CASE k \in Older
    BY <1>1, <1>3
<1>4. ASSUME NEW i \in DOMAIN Reach, k \in Finds(i)
      PROVE  \E s \in scans : \E d \in online \cap Reach[i] :
               k = Job(s.context, d, i, s.born, "found", FALSE, 0)
    BY <1>4 DEF Job
<1> HIDE DEF Older, Finds
<1>5. k \in Older \/ \E i \in DOMAIN Reach : k \in Finds(i)
    BY <1>2
<1>6. QED
    BY <1>3, <1>4, <1>5

LEMMA OlderJob ==
    ASSUME NEW j \in JobType, j.ticks < Slowest
    PROVE  /\ [j EXCEPT !.ticks = @ + 1] \in JobType
           /\ [j EXCEPT !.ticks = @ + 1].context = j.context
           /\ [j EXCEPT !.ticks = @ + 1].device = j.device
           /\ [j EXCEPT !.ticks = @ + 1].born = j.born
           /\ [j EXCEPT !.ticks = @ + 1].at = j.at
           /\ [j EXCEPT !.ticks = @ + 1].auth = j.auth
           /\ [j EXCEPT !.ticks = @ + 1].ticks = j.ticks + 1
BY OnvifAssumption DEF JobType

\* A tick makes cameras older and nothing else.
LEMMA CamerasOfTick ==
    ASSUME OnvifTypeOK, Tick, NEW c \in Contexts, NEW d \in Devices
    PROVE  /\ cameras'[c][d] \in CameraType
           /\ cameras[c][d] = NoCamera => cameras'[c][d] = NoCamera
           /\ cameras[c][d] # NoCamera =>
                /\ cameras'[c][d] # NoCamera /\ cameras'[c][d].born = cameras[c][d].born
                /\ cameras'[c][d].age <= cameras[c][d].age + 1
<1> DEFINE k == cameras[c][d]
<1>1. /\ k \in CameraType
      /\ cameras'[c][d] = IF k = NoCamera \/ k.age = MaxAge THEN k ELSE [k EXCEPT !.age = @ + 1]
    BY DEF OnvifTypeOK, CameraType, Tick
<1>2. NoCamera.born = MaxResets + 1 /\ MaxResets + 1 \notin Contexts /\ MaxAge = 4
    BY OnvifAssumption DEF NoCamera, Contexts, MaxAge, Threshold
<1>3. CASE k = NoCamera \/ k.age = MaxAge
    BY <1>1, <1>2, <1>3 DEF CameraType
<1>4. CASE ~(k = NoCamera \/ k.age = MaxAge)
    <2>1. k \in [age : 0..4, auth : BOOLEAN, born : Contexts] /\ k.age # 4
        BY <1>1, <1>2, <1>4 DEF CameraType
    <2>2. /\ [k EXCEPT !.age = @ + 1] \in [age : 0..4, auth : BOOLEAN, born : Contexts]
          /\ [k EXCEPT !.age = @ + 1].born = k.born
          /\ [k EXCEPT !.age = @ + 1].age = k.age + 1
        BY <2>1
    <2>3. k.born # MaxResets + 1
        BY <1>2, <2>1
    <2>4. QED
        BY <1>1, <1>2, <1>4, <2>1, <2>2, <2>3 DEF CameraType
<1>5. QED
    BY <1>3, <1>4
-----------------------------------------------------------------------------
(* Types *)

LEMMA OnvifTyped ==
    OnvifTypeOK <=>
      /\ online \subseteq Devices /\ up \in BOOLEAN /\ changes \in 0..MaxChanges
      /\ resets \in 0..MaxResets /\ context \in Contexts /\ calls \in 0..MaxCalls
      /\ loop \in [Contexts -> {"off", "sleep", "scan", "handle"}]
      /\ scans \subseteq [context : Contexts, born : Contexts]
      /\ jobs \subseteq JobType
      /\ cameras \in [Contexts -> [Devices -> CameraType]]
      /\ discovered \in [Contexts -> SUBSET Devices]
      /\ credentials \in [Contexts -> SUBSET Devices]
      /\ urls \in [Contexts -> SUBSET Devices] /\ removed \in [Contexts -> SUBSET Devices]
      /\ fresh \subseteq Devices
<1>1. (\A f \in {discovered, credentials, urls, removed} : f \in [Contexts -> SUBSET Devices])
        <=> /\ discovered \in [Contexts -> SUBSET Devices]
            /\ credentials \in [Contexts -> SUBSET Devices]
            /\ urls \in [Contexts -> SUBSET Devices] /\ removed \in [Contexts -> SUBSET Devices]
    OBVIOUS
<1>2. QED
    BY <1>1 DEF OnvifTypeOK, JobType, CameraType

LEMMA OnvifStepTyped == OnvifTypeOK /\ Contextual /\ [OnvifNext]_onvifVars => OnvifTypeOK'
<1> SUFFICES ASSUME OnvifTypeOK, Contextual, [OnvifNext]_onvifVars PROVE OnvifTypeOK'
    OBVIOUS
<1> DEFINE Plain ==
      /\ online \subseteq Devices /\ up \in BOOLEAN /\ changes \in 0..MaxChanges
      /\ resets \in 0..MaxResets /\ context \in Contexts /\ calls \in 0..MaxCalls
      /\ loop \in [Contexts -> {"off", "sleep", "scan", "handle"}]
      /\ discovered \in [Contexts -> SUBSET Devices]
      /\ credentials \in [Contexts -> SUBSET Devices]
      /\ urls \in [Contexts -> SUBSET Devices] /\ removed \in [Contexts -> SUBSET Devices]
      /\ fresh \subseteq Devices
           Found ==
      /\ scans \subseteq [context : Contexts, born : Contexts]
      /\ jobs \subseteq JobType
      /\ cameras \in [Contexts -> [Devices -> CameraType]]
<1>1. Plain /\ Found
    BY OnvifTyped
<1>2. SUFFICES Plain' /\ Found'
    <2>1. Plain' => \A f \in {discovered', credentials', urls', removed'} : f \in [Contexts -> SUBSET Devices]
        OBVIOUS
    <2>2. QED
        BY <2>1 DEF OnvifTypeOK, JobType, CameraType
<1>3. resets \in Contexts /\ MaxChanges \in Nat /\ MaxCalls \in Nat /\ MaxResets \in Nat
    BY <1>1, OnvifAssumption DEF Contexts
<1> USE <1>1, <1>3 DEF world, auths
<1>4. ASSUME NEW c \in Contexts, StartScan(c) PROVE Plain' /\ Found'
    BY <1>4 DEF StartScan
<1>5. ASSUME NEW c \in Contexts, Cleanup(c) PROVE Plain' /\ Found'
    <2>1. NoCamera \in CameraType
        BY DEF CameraType
    <2>2. [d \in Devices |-> IF cameras[c][d].age > Threshold THEN NoCamera ELSE cameras[c][d]]
            \in [Devices -> CameraType]
        BY <2>1
    <2>3. QED
        BY <1>5, <2>2 DEF Cleanup
<1>6. ASSUME NEW j \in jobs, Transfer(j) PROVE Plain' /\ Found'
    <2>1. [j EXCEPT !.at = "known"] \in JobType /\ j \in JobType
        BY JobKnown
    <2>2. Found'
        BY <1>6, <2>1 DEF Transfer, Replace
    <2>3. j.context \in Contexts /\ j.device \in Devices
        BY <2>1 DEF JobType
    <2>4. Plain'
        BY <1>6, <2>3 DEF Transfer
    <2>5. QED
        BY <2>2, <2>4
<1>7. ASSUME NEW j \in jobs, Lookup(j) PROVE Plain' /\ Found'
    <2>1. j \in JobType /\ j.context \in Contexts /\ j.device \in Devices
        BY DEF JobType
    <2>2. [j EXCEPT !.at = "asking", !.auth = j.device \in credentials[j.context]] \in JobType
        BY <2>1, JobAsks
    <2>3. Found'
        BY <1>7, <2>2 DEF Lookup, Replace
    <2>4. Plain'
        BY <1>7, <2>1 DEF Lookup
    <2>5. QED
        BY <2>3, <2>4
<1>8. ASSUME NEW j \in jobs, Store(j) PROVE Plain' /\ Found'
    <2>1. /\ j.context \in Contexts /\ j.device \in Devices /\ j.auth \in BOOLEAN
          /\ j.born \in Contexts /\ 0 \in 0..MaxAge
        BY DEF JobType, MaxAge, Threshold
    <2>2. [age |-> 0, auth |-> j.auth, born |-> j.born] \in CameraType
        BY <2>1 DEF CameraType
    <2>3. Found'
        BY <1>8, <2>1, <2>2 DEF Store, Replace
    <2>4. Plain'
        BY <1>8, <2>1 DEF Store
    <2>5. QED
        BY <2>3, <2>4
<1>9. ASSUME NEW j \in jobs, GiveUp(j) PROVE Plain' /\ Found'
    BY <1>9 DEF GiveUp, Replace
<1>10. CASE Tick
    <2>1. jobs' \subseteq JobType
        <3>1. SUFFICES ASSUME NEW k \in jobs' PROVE k \in JobType
            OBVIOUS
        <3>2. CASE \E j \in jobs : /\ k = [j EXCEPT !.ticks = @ + 1] /\ j.at = "asking"
                                   /\ j.ticks < Slowest
            BY <3>2, OlderJob
        <3>3. CASE \E s \in scans, i \in DOMAIN Reach : \E d \in online \cap Reach[i] :
                     k = Job(s.context, d, i, s.born, "found", FALSE, 0)
            BY <3>3, OnvifAssumption DEF Job, JobType
        <3>4. QED
            BY <1>10, <3>2, <3>3, JobsOfTick
    <2>2. cameras' \in [Contexts -> [Devices -> CameraType]]
        <3>1. /\ DOMAIN cameras' = Contexts
              /\ cameras' = [c \in Contexts |-> [d \in Devices |-> cameras'[c][d]]]
            BY <1>10 DEF Tick
        <3>2. \A c \in Contexts, d \in Devices : cameras'[c][d] \in CameraType
            BY <1>10, CamerasOfTick
        <3>3. QED
            BY <3>1, <3>2
    <2>3. Plain' /\ scans' = {}
        BY <1>10 DEF Tick
    <2>4. QED
        BY <2>1, <2>2, <2>3
<1>11. ASSUME NEW d \in Devices, Authenticate(d) PROVE Plain' /\ Found'
    BY <1>11 DEF Authenticate
<1>12. ASSUME NEW d \in Devices, Unauthenticate(d) PROVE Plain' /\ Found'
    BY <1>12 DEF Unauthenticate
<1>13. ASSUME NEW d \in Devices, DeviceChanges(d) PROVE Plain' /\ Found'
    BY <1>13 DEF DeviceChanges
<1>14. CASE ResetOnvif
    <2>1. context = resets /\ resets + 1 \in Contexts
        BY <1>14 DEF ResetOnvif, Contextual, Contexts
    <2>2. loop' \in [Contexts -> {"off", "sleep", "scan", "handle"}]
        BY <1>14, <2>1 DEF ResetOnvif
    <2>3. QED
        BY <1>14, <2>1, <2>2 DEF ResetOnvif, Contexts
<1>15. CASE InterfacesChange
    BY <1>15 DEF InterfacesChange
<1>16. CASE UNCHANGED onvifVars
    BY <1>16 DEF onvifVars
<1>17. QED
    BY <1>4, <1>5, <1>6, <1>7, <1>8, <1>9, <1>10, <1>11, <1>12, <1>13, <1>14, <1>15, <1>16
    DEF OnvifNext, Progress, Handle
-----------------------------------------------------------------------------
(* Contexts *)

\* A step that leaves the found as they are, in the same context.
LEMMA SameContext ==
    ASSUME Contextual, UNCHANGED <<context, resets, scans, cameras>>,
           \A c \in Contexts : loop'[c] # "off" => loop[c] # "off",
           \A k \in jobs' : \E j \in jobs : k.born = j.born /\ k.context = j.context
    PROVE  Contextual'
BY DEF Contextual

LEMMA StepContextual == OnvifTypeOK /\ Contextual /\ [OnvifNext]_onvifVars => Contextual'
<1> SUFFICES ASSUME OnvifTypeOK, Contextual, [OnvifNext]_onvifVars PROVE Contextual'
    OBVIOUS
<1>1. /\ loop \in [Contexts -> {"off", "sleep", "scan", "handle"}]
      /\ scans \subseteq [context : Contexts, born : Contexts]
      /\ jobs \subseteq JobType /\ cameras \in [Contexts -> [Devices -> CameraType]]
      /\ context \in Contexts
    BY OnvifTyped
<1>2. NoCamera.born = MaxResets + 1 /\ MaxResets + 1 \notin Contexts
    BY OnvifAssumption DEF NoCamera, Contexts
<1> USE <1>1 DEF world, auths
<1>3. ASSUME NEW c \in Contexts, StartScan(c) PROVE Contextual'
    BY <1>3 DEF StartScan, Contextual
<1>4. ASSUME NEW c \in Contexts, Cleanup(c) PROVE Contextual'
    <2>1. \A b \in Contexts, d \in Devices :
            cameras'[b][d] = cameras[b][d] \/ cameras'[b][d] = NoCamera
        BY <1>4 DEF Cleanup
    <2>2. \A b \in Contexts : loop'[b] # "off" => loop[b] # "off"
        BY <1>4 DEF Cleanup, CanClean
    <2>3. UNCHANGED <<context, resets, scans, jobs>>
        BY <1>4 DEF Cleanup
    <2>4. QED
        BY <2>1, <2>2, <2>3 DEF Contextual
<1>5. ASSUME NEW j \in jobs, Transfer(j) PROVE Contextual'
    <2>1. /\ UNCHANGED <<context, resets, scans, cameras, loop>>
          /\ jobs' = (jobs \ {j}) \cup {[j EXCEPT !.at = "known"]}
        BY <1>5 DEF Transfer, Replace
    <2>2. /\ [j EXCEPT !.at = "known"].born = j.born
          /\ [j EXCEPT !.at = "known"].context = j.context
        BY JobKnown
    <2>3. QED
        BY <2>1, <2>2, SameContext
<1>6. ASSUME NEW j \in jobs, Lookup(j) PROVE Contextual'
    <2> DEFINE k == [j EXCEPT !.at = "asking", !.auth = j.device \in credentials[j.context]]
    <2>1. /\ UNCHANGED <<context, resets, scans, cameras, loop>>
          /\ jobs' = (jobs \ {j}) \cup {k}
        BY <1>6 DEF Lookup, Replace
    <2>2. k.born = j.born /\ k.context = j.context
        BY JobAsks
    <2>3. QED
        BY <2>1, <2>2, SameContext
<1>7. ASSUME NEW j \in jobs, Store(j) PROVE Contextual'
    <2>1. /\ UNCHANGED <<context, resets, scans, loop>> /\ jobs' \subseteq jobs
          /\ cameras' = [cameras EXCEPT ![j.context][j.device] =
                           [age |-> 0, auth |-> j.auth, born |-> j.born]]
        BY <1>7 DEF Store, Replace
    <2>2. j.context \in Contexts /\ j.device \in Devices /\ j.born = j.context
        BY DEF JobType, Contextual
    <2>3. \A c \in Contexts, d \in Devices :
            cameras'[c][d] = cameras[c][d] \/ cameras'[c][d].born = c
        BY <2>1, <2>2
    <2>4. QED
        BY <2>1, <2>3 DEF Contextual
<1>8. ASSUME NEW j \in jobs, GiveUp(j) PROVE Contextual'
    BY <1>8, SameContext DEF GiveUp, Replace
<1>9. CASE Tick
    <2>1. UNCHANGED <<context, resets>> /\ scans' = {}
        BY <1>9 DEF Tick
    <2>2. \A c \in Contexts : loop'[c] # "off" => loop[c] # "off"
        BY <1>9 DEF Tick
    <2>3. ASSUME NEW k \in jobs' PROVE k.born = k.context
        <3>1. CASE \E j \in jobs : /\ k = [j EXCEPT !.ticks = @ + 1] /\ j.at = "asking"
                                   /\ j.ticks < Slowest
            BY <3>1, OlderJob DEF Contextual
        <3>2. CASE \E s \in scans, i \in DOMAIN Reach : \E d \in online \cap Reach[i] :
                     k = Job(s.context, d, i, s.born, "found", FALSE, 0)
            BY <3>2 DEF Job, Contextual
        <3>3. QED
            BY <1>9, <3>1, <3>2, JobsOfTick
    <2>4. \A c \in Contexts, d \in Devices :
            cameras'[c][d] # NoCamera => cameras[c][d] # NoCamera /\ cameras'[c][d].born = cameras[c][d].born
        BY <1>9, CamerasOfTick
    <2>5. QED
        BY <2>1, <2>2, <2>3, <2>4 DEF Contextual
<1>10. ASSUME NEW d \in Devices, Authenticate(d) \/ Unauthenticate(d) \/ DeviceChanges(d)
       PROVE  Contextual'
    BY <1>10, SameContext DEF Authenticate, Unauthenticate, DeviceChanges
<1>11. CASE ResetOnvif
    BY <1>11 DEF ResetOnvif, Contextual
<1>12. CASE InterfacesChange
    BY <1>12, SameContext DEF InterfacesChange
<1>13. CASE UNCHANGED onvifVars
    BY <1>13, SameContext DEF onvifVars
<1>14. QED
    BY <1>3, <1>4, <1>5, <1>6, <1>7, <1>8, <1>9, <1>10, <1>11, <1>12, <1>13
    DEF OnvifNext, Progress, Handle

-----------------------------------------------------------------------------
(* Credentials *)

\* A step that takes no credential from where it is, and moves no job on.
LEMMA SameCredits ==
    ASSUME OnvifTypeOK, Credited, UrlCredentialSeen, UNCHANGED urls,
           \A c \in Contexts : /\ credentials[c] \cup removed[c] \subseteq credentials'[c] \cup removed'[c]
                               /\ removed[c] \subseteq removed'[c],
           \A k \in jobs' : \/ k.at = "found"
                            \/ \E j \in jobs : /\ k.at = j.at /\ k.device = j.device
                                               /\ k.context = j.context /\ k.auth = j.auth
    PROVE  Credited' /\ UrlCredentialSeen'
<1>1. Credited'
    BY DEF Credited
<1>2. \A j \in jobs : j.context \in Contexts
    BY OnvifTyped DEF JobType
<1>3. UrlCredentialSeen'
    BY <1>2 DEF UrlCredentialSeen
<1>4. QED
    BY <1>1, <1>3

LEMMA StepCredited ==
    OnvifTypeOK /\ Credited /\ UrlCredentialSeen /\ [OnvifNext]_onvifVars => Credited' /\ UrlCredentialSeen'
<1> SUFFICES ASSUME OnvifTypeOK, Credited, UrlCredentialSeen, [OnvifNext]_onvifVars
             PROVE  Credited' /\ UrlCredentialSeen'
    OBVIOUS
<1>1. /\ jobs \subseteq JobType
      /\ credentials \in [Contexts -> SUBSET Devices] /\ context \in Contexts
      /\ urls \in [Contexts -> SUBSET Devices] /\ removed \in [Contexts -> SUBSET Devices]
    BY OnvifTyped
<1> USE <1>1 DEF world, auths
<1>2. ASSUME NEW c \in Contexts, StartScan(c) \/ Cleanup(c) PROVE Credited' /\ UrlCredentialSeen'
    <2>1. UNCHANGED <<jobs, urls, credentials, removed>>
        BY <1>2 DEF StartScan, Cleanup
    <2>2. QED
        BY <2>1, SameCredits
<1>3. ASSUME NEW j \in jobs, Transfer(j) PROVE Credited' /\ UrlCredentialSeen'
    <2> DEFINE k == [j EXCEPT !.at = "known"]
    <2>1. /\ k.at = "known" /\ k.device = j.device /\ k.context = j.context
          /\ j.context \in Contexts /\ j.device \in Devices
        BY JobKnown DEF JobType
    <2>2. /\ urls' = [urls EXCEPT ![j.context] = @ \ {j.device}]
          /\ credentials' = IF j.device \in urls[j.context]
                            THEN [credentials EXCEPT ![j.context] = @ \cup {j.device}]
                            ELSE credentials
          /\ jobs' = (jobs \ {j}) \cup {k} /\ removed' = removed
        BY <1>3 DEF Transfer, Replace
    <2> HIDE DEF k
    <2>3. \A c \in Contexts : urls[c] \cup credentials[c] \subseteq urls'[c] \cup credentials'[c]
        BY <2>1, <2>2
    <2>4. \A c \in Contexts : urls'[c] \subseteq urls[c]
        BY <2>1, <2>2
    <2>5. j.device \notin urls'[j.context]
        BY <2>1, <2>2
    <2>6. \A i \in jobs' : i.at # "found" => i.device \notin urls'[i.context]
        <3>1. SUFFICES ASSUME NEW i \in jobs', i.at # "found" PROVE i.device \notin urls'[i.context]
            OBVIOUS
        <3>2. CASE i = k
            BY <2>1, <2>5, <3>2
        <3>3. CASE i \in jobs
            <4>1. i.context \in Contexts /\ i.device \notin urls[i.context]
                BY <3>1, <3>3 DEF JobType, Credited
            <4>2. QED
                BY <2>4, <4>1
        <3>4. QED
            BY <2>2, <3>2, <3>3
    <2>7. Credited'
        BY <2>2, <2>3, <2>6 DEF Credited
    <2>8. UrlCredentialSeen'
        BY <2>1, <2>2 DEF UrlCredentialSeen
    <2>9. QED
        BY <2>7, <2>8
<1>4. ASSUME NEW j \in jobs, Lookup(j) PROVE Credited' /\ UrlCredentialSeen'
    <2> DEFINE a == j.device \in credentials[j.context]
               k == [j EXCEPT !.at = "asking", !.auth = a]
    <2>1. /\ k.at = "asking" /\ k.device = j.device /\ k.context = j.context /\ k.auth = a
          /\ j.context \in Contexts /\ j.device \in Devices
        BY JobAsks DEF JobType
    <2>2. /\ UNCHANGED <<urls, credentials, removed>> /\ jobs' = (jobs \ {j}) \cup {k}
          /\ j.at = "known"
        BY <1>4 DEF Lookup, Replace
    <2>3. j.device \notin urls[j.context]
        BY <2>2 DEF Credited
    <2> HIDE DEF k
    <2>4. Credited'
        BY <2>1, <2>2, <2>3 DEF Credited
    <2>5. k.device \in UrlAuth => k.auth \/ k.device \in removed[k.context]
        BY <2>1, <2>3 DEF Credited
    <2>6. UrlCredentialSeen'
        BY <2>2, <2>5 DEF UrlCredentialSeen
    <2>7. QED
        BY <2>4, <2>6
<1>5. ASSUME NEW j \in jobs, Store(j) \/ GiveUp(j) PROVE Credited' /\ UrlCredentialSeen'
    <2>1. UNCHANGED <<urls, credentials, removed>> /\ jobs' \subseteq jobs
        BY <1>5 DEF Store, GiveUp, Replace
    <2>2. QED
        BY <2>1, SameCredits
<1>6. CASE Tick
    <2>1. UNCHANGED <<urls, credentials, removed>>
        BY <1>6 DEF Tick
    <2>2. ASSUME NEW k \in jobs'
          PROVE  \/ k.at = "found"
                 \/ \E j \in jobs : /\ k.at = j.at /\ k.device = j.device
                                    /\ k.context = j.context /\ k.auth = j.auth
        <3>1. CASE \E j \in jobs : /\ k = [j EXCEPT !.ticks = @ + 1] /\ j.at = "asking"
                                   /\ j.ticks < Slowest
            BY <3>1, OlderJob
        <3>2. CASE \E s \in scans, i \in DOMAIN Reach : \E d \in online \cap Reach[i] :
                     k = Job(s.context, d, i, s.born, "found", FALSE, 0)
            BY <3>2 DEF Job
        <3>3. QED
            BY <1>6, <3>1, <3>2, JobsOfTick
    <2>3. QED
        BY <2>1, <2>2, SameCredits
<1>7. ASSUME NEW d \in Devices, Authenticate(d) PROVE Credited' /\ UrlCredentialSeen'
    <2>1. /\ UNCHANGED <<jobs, urls, removed>>
          /\ \A c \in Contexts : credentials[c] \subseteq credentials'[c]
        BY <1>7 DEF Authenticate
    <2>2. QED
        BY <2>1, SameCredits
<1>8. ASSUME NEW d \in Devices, Unauthenticate(d) PROVE Credited' /\ UrlCredentialSeen'
    <2>1. /\ UNCHANGED <<jobs, urls>>
          /\ credentials' = [credentials EXCEPT ![context] = @ \ {d}]
          /\ removed' = [removed EXCEPT ![context] = @ \cup {d}]
        BY <1>8 DEF Unauthenticate
    <2>2. \A c \in Contexts :
            /\ credentials[c] \cup removed[c] \subseteq credentials'[c] \cup removed'[c]
            /\ removed[c] \subseteq removed'[c]
        BY <2>1
    <2>3. QED
        BY <2>1, <2>2, SameCredits
<1>9. ASSUME NEW d \in Devices, DeviceChanges(d) PROVE Credited' /\ UrlCredentialSeen'
    BY <1>9, SameCredits DEF DeviceChanges
<1>10. CASE ResetOnvif
    BY <1>10, SameCredits DEF ResetOnvif
<1>11. CASE InterfacesChange
    BY <1>11, SameCredits DEF InterfacesChange
<1>12. CASE UNCHANGED onvifVars
    BY <1>12, SameCredits DEF onvifVars
<1>13. QED
    BY <1>2, <1>3, <1>4, <1>5, <1>6, <1>7, <1>8, <1>9, <1>10, <1>11, <1>12
    DEF OnvifNext, Progress, Handle

-----------------------------------------------------------------------------
LEMMA OnvifInitIInv == OnvifInit => OnvifIInv
<1> SUFFICES ASSUME OnvifInit PROVE OnvifIInv
    OBVIOUS
<1>1. 0 \in Contexts /\ resets \in 0..MaxResets /\ changes \in 0..MaxChanges /\ calls \in 0..MaxCalls
    BY OnvifAssumption DEF OnvifInit, Contexts
<1>2. NoCamera \in CameraType
    BY DEF CameraType
<1>3. OnvifTypeOK
    <2>1. cameras \in [Contexts -> [Devices -> CameraType]]
        BY <1>2 DEF OnvifInit
    <2>2. QED
        BY <1>1, <2>1, OnvifTyped, OnvifAssumption DEF OnvifInit
<1>4. Contextual
    BY DEF OnvifInit, Contextual
<1>5. Credited /\ UrlCredentialSeen
    BY DEF OnvifInit, Credited, UrlCredentialSeen
<1>6. QED
    BY <1>3, <1>4, <1>5 DEF OnvifIInv

\* The inductive invariant: what belongs to a context was found by a scan of that context, and
\* no job of a device with credentials goes without them.
THEOREM OnvifInductiveInvariant == OnvifSpec => []OnvifIInv
<1>1. OnvifIInv /\ [OnvifNext]_onvifVars => OnvifIInv'
    BY OnvifStepTyped, StepContextual, StepCredited DEF OnvifIInv
<1>2. QED
    BY OnvifInitIInv, <1>1, PTL DEF OnvifSpec

\* In every reachable state, a device with credentials on the command line is asked with
\* credentials unless they were taken back, and the cameras listed were all found since the
\* last reset.
THEOREM DevicesInvAlways == OnvifSpec => []DevicesInv
<1>1. OnvifIInv => DevicesInv
    <2> SUFFICES ASSUME OnvifIInv PROVE DevicesInv
        OBVIOUS
    <2>1. context \in Contexts
        BY DEF OnvifIInv, OnvifTypeOK
    <2>2. ResetIsClean
        BY <2>1 DEF OnvifIInv, Contextual, ResetIsClean
    <2>3. QED
        BY <2>2 DEF OnvifIInv, DevicesInv
<1>2. QED
    BY OnvifInductiveInvariant, <1>1, PTL
==============================================================================
