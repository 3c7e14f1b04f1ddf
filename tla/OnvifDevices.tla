------------------------------ MODULE OnvifDevices ------------------------------
(***************************************************************************)
(* Discovery of ONVIF cameras (controls/onvif/manager.rs, camera.rs): a    *)
(* loop scans the network for 20 s on every interface, handles what        *)
(* answered in concurrent tasks, which ask each device for its streams,    *)
(* and then removes the cameras that were not updated for a minute.        *)
(* Credentials come from the command line, by address, or from the REST    *)
(* interface, by device; a reset replaces the manager with a new one while *)
(* tasks of the old one still run.                                         *)
(*                                                                         *)
(* Time passes in scans: a Tick is 20 s, and does not happen while         *)
(* something can be done at once.  Every device has an address and one URL *)
(* of its own, and one stream.                                             *)
(***************************************************************************)
EXTENDS Naturals, FiniteSets

CONSTANTS
  Devices,     \* the network's devices
  Open,        \* those that answer without credentials
  Silent,      \* those whose stream gives no data, so that probing it takes
               \* every timeout and comes to nothing
  UrlAuth,     \* those whose address has credentials on the command line
  Reach,       \* the network interfaces, and which of them each reaches
  Slowest,     \* ticks that handling a silent device takes
  MaxResets,   \* bound: resets of the settings
  MaxCalls,    \* bound: credentials registered or removed
  MaxChanges   \* bound: times devices and interfaces come and go

ASSUME OnvifAssumption ==
  /\ Open \subseteq Devices /\ Silent \subseteq Devices /\ UrlAuth \subseteq Devices
  /\ Reach \in [DOMAIN Reach -> SUBSET Devices]
  /\ Slowest \in Nat \ {0}
  /\ {MaxResets, MaxCalls, MaxChanges} \subseteq Nat

VARIABLES
  online,      \* devices that answer
  up,          \* there is a suitable interface
  changes,     \* how often the two above changed
  resets,      \* resets so far
  context,     \* the context that MANAGER has; older ones live on in tasks
  calls,       \* calls of register_credentials
  loop,        \* discover_loop of each context: "off", "sleep", "scan" or "handle"
  scans,       \* scans under way, [context, born]
  jobs,        \* devices being handled, [context, device, iface, born, at, auth, ticks]
  cameras,     \* cameras of each context by device, [age, auth, born] or NoCamera
  discovered,  \* discovered_devices of each context
  credentials, \* devices that each context has credentials of
  urls,        \* url_credentials of each context
  removed,     \* devices whose credentials were ever removed from each context
  fresh        \* devices stored since the scan began

world == <<online, up, changes>>
auths == <<credentials, urls, removed>>
onvifVars == <<world, resets, context, calls, loop, scans, jobs, cameras, discovered,
               auths, fresh>>

Contexts  == 0..MaxResets
NoCamera  == [age |-> 0, auth |-> FALSE, born |-> MaxResets + 1]
Threshold == 3  \* 3 * scan_duration, in scans
MaxAge    == Threshold + 1

\* The task of an interface, or the handling of a device in it.
Job(c, d, i, b, at, auth, n) ==
  [context |-> c, device |-> d, iface |-> i, born |-> b, at |-> at, auth |-> auth,
   ticks |-> n]

OnvifInit ==
  /\ online = Devices /\ up = TRUE /\ changes = 0
  /\ resets = 0 /\ context = 0 /\ calls = 0
  /\ loop = [c \in Contexts |-> IF c = 0 THEN "sleep" ELSE "off"]
  /\ scans = {} /\ jobs = {}
  /\ cameras = [c \in Contexts |-> [d \in Devices |-> NoCamera]]
  /\ discovered = [c \in Contexts |-> {}]
  /\ credentials = [c \in Contexts |-> {}]
  /\ urls = [c \in Contexts |-> UrlAuth]
  /\ removed = [c \in Contexts |-> {}]
  /\ fresh = {}

OnvifTypeOK ==
  /\ online \subseteq Devices /\ up \in BOOLEAN /\ changes \in 0..MaxChanges
  /\ resets \in 0..MaxResets /\ context \in Contexts /\ calls \in 0..MaxCalls
  /\ loop \in [Contexts -> {"off", "sleep", "scan", "handle"}]
  /\ scans \subseteq [context : Contexts, born : Contexts]
  /\ jobs \subseteq [context : Contexts, device : Devices, iface : DOMAIN Reach,
                     born : Contexts, at : {"found", "known", "asking"},
                     auth : BOOLEAN, ticks : 0..Slowest]
  /\ cameras \in [Contexts -> [Devices ->
                    [age : 0..MaxAge, auth : BOOLEAN, born : Contexts] \cup {NoCamera}]]
  /\ \A f \in {discovered, credentials, urls, removed} : f \in [Contexts -> SUBSET Devices]
  /\ fresh \subseteq Devices

-----------------------------------------------------------------------------
(* discover_loop *)

\* One scan for each interface; without an interface the loop sleeps again, and
\* cleans nothing up.
StartScan(c) ==
  /\ loop[c] = "sleep" /\ up
  /\ loop' = [loop EXCEPT ![c] = "scan"]
  /\ scans' = scans \cup {[context |-> c, born |-> resets]}
  /\ fresh' = {}
  /\ UNCHANGED <<world, resets, context, calls, jobs, cameras, discovered, auths>>

CanClean(c) == loop[c] = "handle" /\ \A j \in jobs : j.context # c

\* A clean-up that is left out when the scan found nothing.
Cleanup_AfterFinds(c) ==
  /\ CanClean(c)
  /\ loop' = [loop EXCEPT ![c] = "sleep"]
  /\ cameras' = [cameras EXCEPT ![c] = [d \in Devices |->
                   IF @[d].age > Threshold /\ fresh # {} THEN NoCamera ELSE @[d]]]
  /\ UNCHANGED <<world, resets, context, calls, scans, jobs, discovered, auths, fresh>>

\* cleanup_old_cameras, when all tasks have ended
Cleanup(c) ==
  /\ CanClean(c)
  /\ loop' = [loop EXCEPT ![c] = "sleep"]
  /\ cameras' = [cameras EXCEPT ![c] = [d \in Devices |->
                   IF @[d].age > Threshold THEN NoCamera ELSE @[d]]]
  /\ UNCHANGED <<world, resets, context, calls, scans, jobs, discovered, auths, fresh>>

-----------------------------------------------------------------------------
(* process_discovered_devices and handle_device *)

Replace(j, new) == jobs' = (jobs \ {j}) \cup new

\* The credentials of the address become those of the device, unless it has some,
\* under one write lock.
Transfer(j) ==
  /\ j.at = "found"
  /\ urls' = [urls EXCEPT ![j.context] = @ \ {j.device}]
  /\ credentials' = IF j.device \in urls[j.context]
                    THEN [credentials EXCEPT ![j.context] = @ \cup {j.device}]
                    ELSE credentials
  /\ Replace(j, {[j EXCEPT !.at = "known"]})
  /\ UNCHANGED <<world, resets, context, calls, loop, scans, cameras, discovered,
                 removed, fresh>>

\* The device is listed and its credentials are read, under locks of their own.
Lookup(j) ==
  /\ j.at = "known"
  /\ discovered' = [discovered EXCEPT ![j.context] = @ \cup {j.device}]
  /\ Replace(j, {[j EXCEPT !.at = "asking",
                           !.auth = j.device \in credentials[j.context]]})
  /\ UNCHANGED <<world, resets, context, calls, loop, scans, cameras, auths, fresh>>

\* OnvifCamera::try_new: the device says who it is and what it streams, and its
\* stream, with the credentials in it, is probed.
Succeeds(j) == j.device \in online \ Silent /\ (j.auth \/ j.device \in Open)

\* The camera takes the place of the one before.
Store(j) ==
  /\ j.at = "asking" /\ Succeeds(j)
  /\ cameras' = [cameras EXCEPT ![j.context][j.device] =
                   [age |-> 0, auth |-> j.auth, born |-> j.born]]
  /\ fresh' = fresh \cup {j.device}
  /\ Replace(j, {})
  /\ UNCHANGED <<world, resets, context, calls, loop, scans, discovered, auths>>

\* A camera that is updated although its device refused.
GiveUp_Refreshes(j) ==
  /\ j.at = "asking" /\ ~Succeeds(j)
  /\ j.device \in Silent => j.ticks = Slowest
  /\ cameras' = [cameras EXCEPT ![j.context][j.device] =
                   IF @ = NoCamera THEN @ ELSE [@ EXCEPT !.age = 0]]
  /\ Replace(j, {})
  /\ UNCHANGED <<world, resets, context, calls, loop, scans, discovered, auths, fresh>>

\* Refused, unreachable, or without a stream when every try has timed out.
GiveUp(j) ==
  /\ j.at = "asking" /\ ~Succeeds(j)
  /\ j.device \in Silent => j.ticks = Slowest
  /\ Replace(j, {})
  /\ UNCHANGED <<world, resets, context, calls, loop, scans, cameras, discovered,
                 auths, fresh>>

Handle(j) == Transfer(j) \/ Lookup(j) \/ Store(j) \/ GiveUp(j)

-----------------------------------------------------------------------------
(* Time *)

\* Nothing can happen at once.
NothingDue ==
  /\ \A c \in Contexts : ~CanClean(c) /\ ~(loop[c] = "sleep" /\ up)
  /\ \A j \in jobs : j.at = "asking" /\ ~Succeeds(j) /\ j.device \in Silent
                       /\ j.ticks < Slowest

\* 20 s pass: scans end with what is online, cameras age.
Tick ==
  /\ NothingDue
  /\ jobs' = {[j EXCEPT !.ticks = @ + 1] : j \in jobs} \cup
             UNION {{Job(s.context, d, i, s.born, "found", FALSE, 0) :
                       s \in scans, d \in online \cap Reach[i]} : i \in DOMAIN Reach}
  /\ scans' = {}
  /\ loop' = [c \in Contexts |-> IF loop[c] = "scan" THEN "handle" ELSE loop[c]]
  /\ cameras' = [c \in Contexts |-> [d \in Devices |->
                   LET k == cameras[c][d] IN
                   IF k = NoCamera \/ k.age = MaxAge THEN k ELSE [k EXCEPT !.age = @ + 1]]]
  /\ UNCHANGED <<world, resets, context, calls, discovered, auths, fresh>>

-----------------------------------------------------------------------------
(* The REST interface *)

\* register_credentials with credentials, for any device, discovered or not ...
Authenticate(d) ==
  /\ calls < MaxCalls
  /\ calls' = calls + 1
  /\ credentials' = [credentials EXCEPT ![context] = @ \cup {d}]
  /\ UNCHANGED <<world, resets, context, loop, scans, jobs, cameras, discovered,
                 urls, removed, fresh>>

\* ... and without; the camera stays until it is old
Unauthenticate(d) ==
  /\ calls < MaxCalls
  /\ calls' = calls + 1
  /\ credentials' = [credentials EXCEPT ![context] = @ \ {d}]
  /\ removed' = [removed EXCEPT ![context] = @ \cup {d}]
  /\ UNCHANGED <<world, resets, context, loop, scans, jobs, cameras, discovered,
                 urls, fresh>>

\* The maps are cleared, and the tasks keep writing to them.
ResetOnvif_InPlace ==
  /\ resets < MaxResets
  /\ resets' = resets + 1
  /\ loop' = [loop EXCEPT ![context] = "sleep"]
  /\ cameras' = [cameras EXCEPT ![context] = [d \in Devices |-> NoCamera]]
  /\ discovered' = [discovered EXCEPT ![context] = {}]
  /\ credentials' = [credentials EXCEPT ![context] = {}]
  /\ urls' = [urls EXCEPT ![context] = UrlAuth]
  /\ removed' = [removed EXCEPT ![context] = {}]
  /\ fresh' = {}
  /\ UNCHANGED <<world, context, calls, scans, jobs>>

\* reset: the loop is aborted, the tasks it spawned are not; a new manager has
\* maps of its own.
ResetOnvif ==
  /\ resets < MaxResets
  /\ resets' = resets + 1 /\ context' = context + 1
  /\ loop' = [loop EXCEPT ![context] = "off", ![context + 1] = "sleep"]
  /\ fresh' = {}
  /\ UNCHANGED <<world, calls, scans, jobs, cameras, discovered, auths>>

-----------------------------------------------------------------------------
(* The network *)

DeviceChanges(d) ==
  /\ changes < MaxChanges
  /\ changes' = changes + 1
  /\ online' = IF d \in online THEN online \ {d} ELSE online \cup {d}
  /\ UNCHANGED <<up, resets, context, calls, loop, scans, jobs, cameras, discovered,
                 auths, fresh>>

InterfacesChange ==
  /\ changes < MaxChanges
  /\ changes' = changes + 1
  /\ up' = ~up
  /\ UNCHANGED <<online, resets, context, calls, loop, scans, jobs, cameras,
                 discovered, auths, fresh>>

-----------------------------------------------------------------------------
Progress ==
  \/ \E c \in Contexts : StartScan(c) \/ Cleanup(c)
  \/ \E j \in jobs : Handle(j)
  \/ Tick

OnvifNext ==
  \/ Progress
  \/ \E d \in Devices : Authenticate(d) \/ Unauthenticate(d) \/ DeviceChanges(d)
  \/ ResetOnvif \/ InterfacesChange

\* The tasks run: every request of a device, and every probe of a stream, has a
\* timeout.
OnvifSpec == OnvifInit /\ [][OnvifNext]_onvifVars /\ WF_onvifVars(Progress)

-----------------------------------------------------------------------------
(* Properties *)

\* A device with credentials on the command line is asked with credentials from
\* the first time on, whichever interface finds it first and however the tasks
\* interleave, until somebody removes them.
UrlCredentialSeen ==
  \A j \in jobs : (j.at = "asking" /\ j.device \in UrlAuth)
    => (j.auth \/ j.device \in removed[j.context])

\* After a reset only cameras that were discovered after it are listed, though
\* older scans still end and devices found by them are still handled.
ResetIsClean ==
  \A d \in Devices : cameras[context][d] # NoCamera => cameras[context][d].born = resets

\* A device that went away for good loses its cameras, if the network stays.
GoneIsForgotten ==
  \A d \in Devices :
    <>[](up /\ d \notin online) => <>[](cameras[context][d] = NoCamera)

\* A device whose credentials were removed for good is left with no camera that
\* still uses them, also when a task that had read them before stores one later.
UnauthenticatedIsForgotten ==
  \A d \in Devices :
    <>[](up /\ d \notin credentials[context] \cup urls[context])
      => <>[](cameras[context][d] = NoCamera \/ ~cameras[context][d].auth)

\* The clean-up after a scan removes stale cameras: none that was stored since
\* that scan began.
KeptWhileSeen ==
  [][\A d \in Devices :
       (context' = context /\ cameras[context][d] # NoCamera /\ cameras'[context][d] = NoCamera)
         => d \notin fresh]_onvifVars

\* What the discovery keeps true of the devices it knows: they are asked with the
\* credentials they were given, and a reset forgets them all.
DevicesInv == OnvifTypeOK /\ UrlCredentialSeen /\ ResetIsClean
================================================================================
