---------------------------- MODULE StreamManager ----------------------------
(***************************************************************************)
(* The table of streams (src/lib/stream/manager.rs) and the settings that  *)
(* persist it (src/lib/settings/manager.rs): requests that add, remove,    *)
(* block, reset and restart, removals by stream watchers, and a process    *)
(* that may crash anywhere and boots from what the settings file holds.    *)
(*                                                                         *)
(* Requests run concurrently.  A step ends where a request awaits or gives *)
(* up a lock; "locked" is the stream manager's write lock, which add_stream*)
(* and remove_stream keep until the settings are saved.                    *)
(***************************************************************************)
EXTENDS Naturals, FiniteSets

CONSTANTS
  Configs,      \* configurations: [name, shareable, host, path, endpoints]
  Defaults,     \* what create_default_streams makes
  Requests,     \* requests and evictions served at a time
  Boot,         \* the main task, which starts the saved streams
  Torn,         \* a settings file that does not parse
  MaxCrashes,   \* bound
  MaxFailures   \* bound: saves that fail

ASSUME StreamManagerAssumption ==
  /\ IsFiniteSet(Configs) /\ Defaults \subseteq Configs
  /\ Boot \notin Requests /\ MaxCrashes \in Nat /\ MaxFailures \in Nat

VARIABLES
  streams,   \* the configurations in MANAGER.streams, one for an id
  settings,  \* the settings in memory: [streams, blocked]
  file,      \* the settings file: such a record, or Torn
  task,      \* what every request is doing
  crashes,
  wanted,    \* history: streams that were added or set by a reset, and that
             \*          nobody has removed since
  orderly,   \* history: no two requests have overlapped that may not (Overlaps),
             \*          and no crash has interrupted one or come after a failed save
  failures,  \* how many saves have failed
  failed     \* history: the save that ended last did

vars == <<streams, settings, file, task, crashes, wanted, orderly, failures, failed>>

-----------------------------------------------------------------------------
(* Identity and conflicts *)

\* VideoSource::source_string; the host of an address may change (DHCP).
Source(c) == <<c.host, c.path>>
Sources   == {Source(c) : c \in Configs}

\* generate_pipeline_id: a source that cannot be shared is one stream whatever
\* its name; the host is left out.
Id(c) == IF c.shareable THEN <<c.name, c.path>> ELSE <<c.path>>

Conflicts_NameOnly(running, new) == running.name = new.name

\* VideoAndStreamInformation::conflicts_with, asked of a running stream.
Conflicts(running, new) ==
  \/ running.name = new.name
  \/ ~running.shareable /\ Source(running) = Source(new)
  \/ running.endpoints \intersect new.endpoints # {}

\* "post" takes the first available source that has the string asked for, so a
\* source is of one kind.  Only local devices are exclusive, and the path of a
\* device has no host.  The default streams are one of every camera, numbered:
\* their names and endpoints differ.
ASSUME ConfigsAssumption ==
  /\ \A c, d \in Configs : Source(c) = Source(d) => c.shareable = d.shareable
  /\ \A c, d \in Configs : ~c.shareable /\ ~d.shareable => c.host = d.host
  /\ \A c, d \in Defaults : c # d => ~Conflicts(c, d)

SettingsRecords == [streams : SUBSET Configs, blocked : SUBSET Sources]

\* A file that does not parse is no settings.
ASSUME TornAssumption == Torn \notin SettingsRecords

WithId(id) == {c \in streams : Id(c) = id}

-----------------------------------------------------------------------------
(* Requests *)

Tasks == Requests \union {Boot}

Ops    == {"None", "Post", "Delete", "Block", "Unblock", "Restart"}
Labels == {"idle", "add", "conflicts", "insert", "remove", "save", "write", "collect",
           "plan", "keys"}

\* What a request still has to remove (ids) and to add (configurations), and
\* what it is at (configurations; for Block those of the source).
Quiet == [op |-> "None", at |-> "idle", removing |-> {}, adding |-> {}, item |-> {},
          locked |-> FALSE]

At(r) == task[r].at
Idle(r) == At(r) = "idle"
Unlocked == \A r \in Tasks : ~task[r].locked

\* A save holds the settings' lock for reading while the file is written, so the
\* settings do not change meanwhile.
SettingsFree == \A r \in Tasks : At(r) # "write"

Goto(r, label) == task' = [task EXCEPT ![r].at = label]

\* After one removal or addition a request takes up the next.
Resumed(t) ==
  IF t.removing # {} THEN [t EXCEPT !.at = "remove", !.item = {}, !.locked = FALSE]
  ELSE IF t.adding # {} THEN [t EXCEPT !.at = "add", !.item = {}, !.locked = FALSE]
  ELSE Quiet

Resume(r, t) == task' = [task EXCEPT ![r] = Resumed(t)]
Save(r, t)   == task' = [task EXCEPT ![r] = [t EXCEPT !.at = "save", !.locked = TRUE]]

\* Requests whose checks and changes may be torn apart by one another.  A removal
\* by id gets along with everything but a restart.
Overlaps(r, op) ==
  \E q \in Tasks \ {r} :
    ~Idle(q) /\ ("Restart" \in {op, task[q].op} \/ "Delete" \notin {op, task[q].op})

\* The server takes requests once start_default is over.
Accept(r, t) ==
  /\ r \in Requests /\ Idle(r) /\ Idle(Boot)
  /\ task' = [task EXCEPT ![r] = t]
  /\ orderly' = (orderly /\ ~Overlaps(r, t.op))

Post(r, c) ==
  /\ Accept(r, [Quiet EXCEPT !.op = "Post", !.at = "add", !.adding = {c}])
  /\ UNCHANGED <<streams, settings, file, crashes, wanted, failures, failed>>

\* remove_stream_by_name, or the removal an eviction spawns: the id is known
\* before the table is locked to remove it.
Delete(r, c) ==
  /\ Unlocked /\ c \in streams
  /\ Accept(r, [Quiet EXCEPT !.op = "Delete", !.at = "remove", !.removing = {Id(c)}])
  /\ UNCHANGED <<streams, settings, file, crashes, wanted, failures, failed>>

\* block_source: the list first, then the streams that use the source.
Block(r, s) ==
  /\ SettingsFree
  /\ settings' = [settings EXCEPT !.blocked = @ \union {s}]
  /\ Accept(r, [Quiet EXCEPT !.op = "Block", !.at = "save",
                             !.item = {c \in Configs : Source(c) = s}])
  /\ UNCHANGED <<streams, file, crashes, wanted, failures, failed>>

Unblock(r, s) ==
  /\ SettingsFree
  /\ settings' = [settings EXCEPT !.blocked = @ \ {s}]
  /\ Accept(r, [Quiet EXCEPT !.op = "Unblock", !.at = "save"])
  /\ UNCHANGED <<streams, file, crashes, wanted, failures, failed>>

Restart(r) ==
  /\ Accept(r, [Quiet EXCEPT !.op = "Restart", !.at = "plan"])
  /\ UNCHANGED <<streams, settings, file, crashes, wanted, failures, failed>>

\* reset_settings: default settings are saved, then start_default runs.
Reset(r) ==
  /\ SettingsFree
  /\ settings' = [streams |-> Defaults, blocked |-> {}]
  /\ Accept(r, [Quiet EXCEPT !.op = "Restart", !.at = "save"])
  /\ wanted' = Defaults
  /\ UNCHANGED <<streams, file, crashes, failures, failed>>

-----------------------------------------------------------------------------
(* Their steps *)

\* What follows a save depends on whose it was, not on how it went: a save that
\* fails is logged and its caller goes on.
Saved(r) ==
  CASE task[r].locked \/ task[r].op = "Unblock"    -> Resume(r, task[r])
    [] ~task[r].locked /\ task[r].op = "Block"     -> Goto(r, "collect")
    [] ~task[r].locked /\ task[r].op = "Restart"   -> Goto(r, "plan")

SaveFails ==
  /\ failures < MaxFailures
  /\ failures' = failures + 1
  /\ failed' = TRUE

\* The file is truncated ...
Truncate(r) ==
  /\ At(r) = "save"
  /\ file' = Torn
  /\ Goto(r, "write")
  /\ UNCHANGED <<streams, settings, crashes, wanted, orderly, failures, failed>>

\* ... unless it cannot be opened for writing, and stays as it is.
OpenFails(r) ==
  /\ At(r) = "save"
  /\ Saved(r)
  /\ SaveFails
  /\ UNCHANGED <<streams, settings, file, crashes, wanted, orderly>>

\* Then it is written, or the write fails and leaves what is there: nothing, or
\* what a save that overtook this one has written.
Write(r) ==
  /\ At(r) = "write"
  /\ Saved(r)
  /\ \/ file' = settings /\ failed' = FALSE /\ UNCHANGED failures
     \/ SaveFails /\ UNCHANGED file
  /\ UNCHANGED <<streams, settings, crashes, wanted, orderly>>

\* add_stream_and_start: a blocked source is refused ...
CheckBlocked(r) ==
  /\ At(r) = "add"
  /\ \E c \in task[r].adding :
       LET t == [task[r] EXCEPT !.adding = @ \ {c}, !.item = {c}]
       IN  IF Source(c) \in settings.blocked
             THEN Resume(r, t)
             ELSE task' = [task EXCEPT ![r] = [t EXCEPT !.at = "conflicts"]]
  /\ UNCHANGED <<streams, settings, file, crashes, wanted, orderly, failures, failed>>

\* ... and so is a conflict with a running stream.
CheckConflicts(r) ==
  /\ At(r) = "conflicts" /\ Unlocked
  /\ IF \E c \in streams, new \in task[r].item : Conflicts(c, new)
       THEN Resume(r, task[r])
       ELSE Goto(r, "insert")
  /\ UNCHANGED <<streams, settings, file, crashes, wanted, orderly, failures, failed>>

\* Manager::add_stream.  A stream with the same id is replaced all the same, but
\* then the call fails before the settings are updated.
Insert(r) ==
  /\ At(r) = "insert" /\ Unlocked /\ SettingsFree
  /\ \E c \in task[r].item :
       /\ streams' = (streams \ WithId(Id(c))) \union {c}
       /\ IF WithId(Id(c)) # {}
            THEN Resume(r, task[r]) /\ UNCHANGED <<settings, wanted>>
            ELSE /\ settings' = [settings EXCEPT !.streams = streams']
                 /\ wanted' = wanted \union {c}
                 /\ Save(r, task[r])
  /\ UNCHANGED <<file, crashes, orderly, failures, failed>>

Remove_NoSave(r) ==
  /\ At(r) = "remove" /\ Unlocked
  /\ \E id \in task[r].removing :
       LET t == [task[r] EXCEPT !.removing = @ \ {id}]
       IN  /\ streams' = streams \ WithId(id)
           /\ Resume(r, t)
           /\ IF t.op = "Restart" \/ WithId(id) = {}
                THEN UNCHANGED <<settings, wanted>>
                ELSE /\ SettingsFree
                     /\ settings' = [settings EXCEPT !.streams = streams']
                     /\ wanted' = wanted \ WithId(id)
  /\ UNCHANGED <<file, crashes, orderly, failures, failed>>

\* Manager::remove_stream.  A restart does not rewrite the settings here.
Remove(r) ==
  /\ At(r) = "remove" /\ Unlocked
  /\ \E id \in task[r].removing :
       LET t == [task[r] EXCEPT !.removing = @ \ {id}]
       IN  /\ streams' = streams \ WithId(id)
           /\ IF t.op = "Restart" \/ WithId(id) = {}
                THEN Resume(r, t) /\ UNCHANGED <<settings, wanted>>
                ELSE /\ SettingsFree
                     /\ settings' = [settings EXCEPT !.streams = streams']
                     /\ wanted' = wanted \ WithId(id)
                     /\ Save(r, t)
  /\ UNCHANGED <<file, crashes, orderly, failures, failed>>

\* block_source looks for the streams that use the source.
Collect(r) ==
  /\ At(r) = "collect" /\ Unlocked
  /\ Resume(r, [task[r] EXCEPT !.removing = {Id(c) : c \in streams \intersect task[r].item}])
  /\ UNCHANGED <<streams, settings, file, crashes, wanted, orderly, failures, failed>>

Plan_FromRunning(r) ==
  /\ At(r) = "plan"
  /\ task' = [task EXCEPT ![r].adding = streams, ![r].at = "keys"]
  /\ UNCHANGED <<streams, settings, file, crashes, wanted, orderly, failures, failed>>

\* start_default: what is to run is read from the settings, ...
Plan(r) ==
  /\ At(r) = "plan"
  /\ task' = [task EXCEPT ![r].adding = settings.streams, ![r].at = "keys"]
  /\ UNCHANGED <<streams, settings, file, crashes, wanted, orderly, failures, failed>>

\* ... every stream of the table is removed, and then the plan is added.
Keys(r) ==
  /\ At(r) = "keys" /\ Unlocked
  /\ Resume(r, [task[r] EXCEPT !.removing = {Id(c) : c \in streams}])
  /\ UNCHANGED <<streams, settings, file, crashes, wanted, orderly, failures, failed>>

\* load_settings_from_file: a file that does not parse is put aside for defaults.
Load(f) == IF f = Torn THEN [streams |-> Defaults, blocked |-> {}] ELSE f

Booting == [Quiet EXCEPT !.op = "Restart", !.at = "save"]

\* The process dies and starts again; it saves what it has loaded.
Crash ==
  /\ crashes < MaxCrashes
  /\ crashes' = crashes + 1
  /\ streams' = {}
  /\ settings' = Load(file)
  /\ task' = [r \in Tasks |-> IF r = Boot THEN Booting ELSE Quiet]
  /\ orderly' = (orderly /\ ~failed /\ \A r \in Tasks : Idle(r))
  /\ UNCHANGED <<file, wanted, failures, failed>>

-----------------------------------------------------------------------------
Init ==
  /\ streams = {}
  /\ settings = [streams |-> Defaults, blocked |-> {}]
  /\ file = Torn
  /\ task = [r \in Tasks |-> IF r = Boot THEN Booting ELSE Quiet]
  /\ crashes = 0
  /\ wanted = Defaults
  /\ orderly = TRUE
  /\ failures = 0 /\ failed = FALSE

Step(r) ==
  \/ Truncate(r) \/ OpenFails(r) \/ Write(r) \/ CheckBlocked(r) \/ CheckConflicts(r) \/ Insert(r)
  \/ Remove(r) \/ Collect(r) \/ Plan(r) \/ Keys(r)

Next ==
  \/ \E r \in Tasks : Step(r) \/ Restart(r) \/ Reset(r)
  \/ \E r \in Requests, c \in Configs : Post(r, c) \/ Delete(r, c)
  \/ \E r \in Requests, s \in Sources : Block(r, s) \/ Unblock(r, s)
  \/ Crash

Spec == Init /\ [][Next]_vars

-----------------------------------------------------------------------------
(* Properties *)

TypeOK ==
  /\ streams \subseteq Configs
  /\ settings \in SettingsRecords
  /\ file \in SettingsRecords \union {Torn}
  /\ task \in [Tasks -> [op : Ops, at : Labels, removing : SUBSET {Id(c) : c \in Configs},
                         adding : SUBSET Configs, item : SUBSET Configs, locked : BOOLEAN]]
  /\ crashes \in 0..MaxCrashes
  /\ wanted \subseteq Configs
  /\ orderly \in BOOLEAN
  /\ failures \in 0..MaxFailures /\ failed \in BOOLEAN

\* While no save is due or under way the file holds the settings, unless the save
\* that ended last failed: saves outside the lock that changed them may overtake
\* one another, fail in any order, and none that succeeds last leaves an older
\* version behind.
FileIsCurrent ==
  ~failed /\ (\A r \in Tasks : At(r) \notin {"save", "write"}) => file = settings

\* When all is quiet, what runs and what the settings hold is what was asked for,
\* across restarts, and crashes that interrupted no request and came after no
\* failed save.
SettledAsWanted ==
  orderly /\ (\A r \in Tasks : Idle(r)) => streams = wanted /\ settings.streams = wanted

\* Streams that run at the same time never share a name, an exclusive source or
\* an endpoint, as long as no addition overlapped another or a block.
NoConflicts ==
  orderly =>
    \A c, d \in streams :
      c # d => /\ c.name # d.name
               /\ c.endpoints \intersect d.endpoints = {}
               /\ c.shareable \/ Source(c) # Source(d)

\* "Blocks a video source and removes all streams using it": when all is quiet no
\* stream uses a blocked source.
BlockedSourcesDoNotRun ==
  (\A r \in Tasks : Idle(r)) => \A c \in streams : Source(c) \notin settings.blocked

\* The part of it that holds: requests that do not overlap.
BlockedUnlessOverlapped ==
  orderly /\ (\A r \in Tasks : Idle(r)) =>
    \A c \in streams : Source(c) \notin settings.blocked

\* What requests that do not overlap keep true of the table of streams: none
\* conflict, none uses a blocked source.
TableInv == TypeOK /\ NoConflicts /\ BlockedUnlessOverlapped
=============================================================================
