---------------------------- MODULE LocalDevices ----------------------------
(***************************************************************************)
(* Finding a saved stream's camera again (update_devices of                *)
(* src/lib/stream/manager.rs, try_identify_device of                       *)
(* src/lib/video/local/video_source_local_linux.rs).  The kernel numbers   *)
(* the device nodes anew at every boot, cameras are plugged and unplugged  *)
(* at any time, also while the streams are being started, and a stream     *)
(* knows its camera by name, encode and bus alone.                         *)
(*                                                                         *)
(* What becomes of the streams' pipelines is in StreamManager; here a      *)
(* stream is the device it names.                                          *)
(***************************************************************************)
EXTENDS Naturals, FiniteSets

CONSTANTS
  Nodes,      \* device nodes: [camera, name, encodes]
  Buses,      \* the ports cameras are plugged into (v4l2.device.bus_info)
  Paths,      \* /dev/video<n>
  Ids,        \* bound: the streams there can be
  None,       \* no bus, no path, no node
  MaxBoots,   \* bound
  MaxPlugs    \* bound: cameras plugged in or unplugged

Cameras == {n.camera : n \in Nodes}

\* A camera gives each encode at one node, as in the code's example of
\* /dev/video0 (H264) and /dev/video1 (MJPG, YUYV).
ASSUME LocalDevicesAssumption ==
  /\ None \notin Buses \union Paths \union Nodes
  /\ MaxBoots \in Nat /\ MaxPlugs \in Nat
  /\ \A m, n \in Nodes :
       m # n /\ m.camera = n.camera => m.name = n.name /\ m.encodes \intersect n.encodes = {}

VARIABLES
  bus,         \* the port every camera is at, or None
  path,        \* the path of every node, or None
  saved,       \* the saved streams: [id, name, path, typ, encode]
  running,     \* the streams in MANAGER.streams
  at,          \* start_default: "idle", "list", "identify" or "start"
  todo,        \* the streams it has not come to yet
  updated,     \* the streams update_devices has dealt with
  candidates,  \* the cameras that no stream has taken: [name, path, typ]
  boots, plugs,
  found,       \* history: the streams this boot has identified
  made,        \* history: the node each stream was made for, or None
  undisturbed  \* history: no camera has been unplugged yet

devices == <<bus, path>>
start   == <<at, todo, updated, candidates, found>>
localVars == <<devices, saved, running, start, boots, plugs, made, undisturbed>>

-----------------------------------------------------------------------------
(* Devices *)

Plugged(n) == bus[n.camera] # None

\* VideoSourceLocal::cameras_available
CamerasAvailable ==
  {[name |-> n.name, path |-> path[n], typ |-> bus[n.camera]] : n \in {m \in Nodes : Plugged(m)}}

\* VideoSourceLocal::formats, of the device that has the path by now; a device
\* that is gone has none.
EncodesAt(p) == UNION {n.encodes : n \in {m \in Nodes : Plugged(m) /\ path[m] = p}}

\* The kernel numbers the nodes of a set, which leaves the others' paths alone.
Numberings(ns) ==
  {f \in [Nodes -> Paths \union {None}] :
     /\ \A n \in Nodes : f[n] = None <=> bus'[n.camera] = None
     /\ \A n \in Nodes \ ns : f[n] = path[n]
     /\ \A m, n \in Nodes : m # n /\ f[m] = f[n] => f[m] = None}

NodesOf(c) == {n \in Nodes : n.camera = c}

Plug(c, b) ==
  /\ plugs < MaxPlugs /\ plugs' = plugs + 1
  /\ bus[c] = None /\ \A d \in Cameras : bus[d] # b
  /\ bus' = [bus EXCEPT ![c] = b]
  /\ path' \in Numberings(NodesOf(c))
  /\ UNCHANGED <<saved, running, start, boots, made, undisturbed>>

Unplug(c) ==
  /\ plugs < MaxPlugs /\ plugs' = plugs + 1
  /\ bus[c] # None
  /\ bus' = [bus EXCEPT ![c] = None]
  /\ path' \in Numberings(NodesOf(c))
  /\ undisturbed' = FALSE
  /\ UNCHANGED <<saved, running, start, boots, made>>

-----------------------------------------------------------------------------
(* try_identify_device *)

SameName(cs, s) == {c \in cs : c.name = s.name}

SameEncode(cs, s) == {c \in cs : s.encode \in EncodesAt(c.path)}

SameBus_Forgotten(cs, s) == cs

SameBus(cs, s) == {c \in cs : c.typ = s.typ}

\* The cameras the rules leave: none (outcomes 1 and 2), one (3, or 4 by the bus), or
\* several, which tells nothing (5).
Identify(s, cs) ==
  LET alike == SameEncode(SameName(cs, s), s)
      here  == SameBus(alike, s)
  IN  IF Cardinality(here) = 1 THEN here ELSE alike

-----------------------------------------------------------------------------
(* start_default *)

\* The machine, or the service alone, starts again.
Reboot ==
  /\ at = "idle" /\ boots < MaxBoots
  /\ boots' = boots + 1
  /\ UNCHANGED bus
  /\ path' \in Numberings(Nodes)
  /\ running' = {}
  /\ at' = "list" /\ todo' = saved
  /\ updated' = {} /\ found' = {}
  /\ UNCHANGED <<saved, candidates, plugs, made, undisturbed>>

List ==
  /\ at = "list"
  /\ candidates' = CamerasAvailable
  /\ at' = "identify"
  /\ UNCHANGED <<devices, saved, running, todo, updated, boots, plugs, found, made,
                 undisturbed>>

\* A candidate a stream was given is no candidate for another.
Taken(cs, c) == cs \ {c}

\* One round of update_devices.  The streams come out of a hash map, so in any
\* order; formats() awaits, so what is plugged in may change between rounds.
Update(s) ==
  /\ at = "identify" /\ s \in todo
  /\ todo' = todo \ {s}
  /\ LET left == Identify(s, candidates)
     IN  IF Cardinality(left) = 1
           THEN \E c \in left :
                  /\ updated' = updated \union {[s EXCEPT !.path = c.path, !.typ = c.typ]}
                  /\ candidates' = Taken(candidates, c)
                  /\ found' = found \union {s.id}
           ELSE /\ updated' = updated \union
                               {IF left = {} THEN [s EXCEPT !.path = None] ELSE s}
                /\ UNCHANGED <<candidates, found>>
  /\ UNCHANGED <<devices, saved, running, at, boots, plugs, made, undisturbed>>

\* Sources that are not valid are dropped.
Filter ==
  /\ at = "identify" /\ todo = {}
  /\ todo' = {s \in updated : s.path # None}
  /\ at' = "start"
  /\ UNCHANGED <<devices, saved, running, updated, candidates, boots, plugs, found, made,
                 undisturbed>>

PathTaken(s) == \E r \in running : r.path = s.path

\* add_stream_and_start (StreamManager): a device two streams name goes to the first; what runs is
\* what is saved.
Start(s) ==
  /\ at = "start" /\ s \in todo
  /\ todo' = todo \ {s}
  /\ IF PathTaken(s)
       THEN UNCHANGED <<running, saved>>
       ELSE running' = running \union {s} /\ saved' = running'
  /\ UNCHANGED <<devices, at, updated, candidates, boots, plugs, found, made, undisturbed>>

Started ==
  /\ at = "start" /\ todo = {}
  /\ at' = "idle"
  /\ UNCHANGED <<devices, saved, running, todo, updated, candidates, boots, plugs, found,
                 made, undisturbed>>

\* A user makes a stream of a camera that is there.
PostStream(id, n, e) ==
  LET s == [id |-> id, name |-> n.name, path |-> path[n], typ |-> bus[n.camera], encode |-> e]
  IN  /\ at = "idle" /\ made[id] = None
      /\ Plugged(n) /\ ~PathTaken(s)
      /\ running' = running \union {s}
      /\ saved' = running'
      /\ made' = [made EXCEPT ![id] = n]
      /\ UNCHANGED <<devices, start, boots, plugs, undisturbed>>

-----------------------------------------------------------------------------
LocalInit ==
  /\ bus \in {f \in [Cameras -> Buses \union {None}] :
                \A c, d \in Cameras : c # d /\ f[c] = f[d] => f[c] = None}
  /\ path \in {f \in [Nodes -> Paths \union {None}] :
                 /\ \A n \in Nodes : f[n] = None <=> bus[n.camera] = None
                 /\ \A m, n \in Nodes : m # n /\ f[m] = f[n] => f[m] = None}
  /\ saved = {} /\ running = {}
  /\ at = "idle" /\ todo = {} /\ updated = {} /\ candidates = {} /\ found = {}
  /\ boots = 0 /\ plugs = 0
  /\ made = [i \in Ids |-> None]
  /\ undisturbed = TRUE

LocalNext ==
  \/ \E c \in Cameras, b \in Buses : Plug(c, b)
  \/ \E c \in Cameras : Unplug(c)
  \/ Reboot \/ List \/ Filter \/ Started
  \/ \E s \in todo : Update(s) \/ Start(s)
  \/ \E id \in Ids, n \in Nodes : \E e \in n.encodes : PostStream(id, n, e)

LocalSpec == LocalInit /\ [][LocalNext]_localVars

-----------------------------------------------------------------------------
(* Properties *)

StreamRecords ==
  [id : Ids, name : {n.name : n \in Nodes}, path : Paths \union {None}, typ : Buses,
   encode : UNION {n.encodes : n \in Nodes}]

LocalTypeOK ==
  /\ bus \in [Cameras -> Buses \union {None}]
  /\ path \in [Nodes -> Paths \union {None}]
  /\ saved \subseteq StreamRecords /\ running \subseteq StreamRecords
  /\ todo \subseteq StreamRecords /\ updated \subseteq StreamRecords
  /\ at \in {"idle", "list", "identify", "start"}
  /\ candidates \subseteq [name : {n.name : n \in Nodes}, path : Paths, typ : Buses]
  /\ found \subseteq Ids
  /\ made \in [Ids -> Nodes \union {None}]

\* However the kernel numbers the nodes, and in whatever order the streams come:
\* while every camera stays where it is, each stream is started again, on the
\* device it was made for (the rules of try_identify_device), even when a camera
\* of the same name is added.
FollowCameras ==
  undisturbed /\ at = "idle" =>
    \A i \in Ids : made[i] # None =>
      \E s \in running : s.id = i /\ s.path = path[made[i]] /\ s.typ = bus[made[i].camera]

\* Two streams are never identified as one device: a stream that is refused for a
\* conflict met one that kept its path unidentified, or kept its own.
IdentifiedApart ==
  \A s, t \in updated \union running :
    s.id # t.id /\ {s.id, t.id} \subseteq found => s.path # t.path

\* What the identification of saved streams keeps true when the service starts.
DevicesFound == LocalTypeOK /\ FollowCameras /\ IdentifiedApart
=============================================================================
