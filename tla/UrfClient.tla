----------------------------- MODULE UrfClient -----------------------------
(***************************************************************************)
(* The client library's copy of the daemon's devices:                      *)
(* src/liburfkill-glib/urf-client.c with the device objects of             *)
(* src/liburfkill-glib/urf-device.c, and the side of the daemon that tells *)
(* clients of its devices (src/src/urf-daemon.c, urf-device-kernel.c).     *)
(*                                                                         *)
(* Signals wait in bus, in the order in which the daemon sent them.  A     *)
(* synchronous call of the library does not run the program's main loop:   *)
(* its answer is newer than the signals that wait, and the daemon goes on  *)
(* between two calls of one handler.                                       *)
(*                                                                         *)
(* The properties of a device are one value, which is new at every change. *)
(* The library's list is kept by path: the objects of a path, first one    *)
(* first; the order of different paths is left out.                        *)
(***************************************************************************)
EXTENDS Naturals, Sequences, Functions

CONSTANTS Path,                 \* object paths; the daemon gives each to one device
          MaxValue,             \* bound: changes of all devices together
          MaxEnumerations       \* bound: calls of urf_client_enumerate_devices_sync

ASSUME ClientAssumption == MaxValue \in Nat /\ MaxEnumerations \in Nat

VARIABLES
  listed,       \* daemon: paths of the arbitrator's devices
  used,         \* daemon: paths given to a device so far
  value,        \* daemon: the properties of each device, as a read finds them
  bus,          \* signals that wait in the client
  watched,      \* paths to whose objects the client is subscribed
  mirror,       \* client->priv->devices: what the objects of each path have cached
  enumerated,   \* client->priv->is_enumerated
  task,         \* what the library is in the middle of
  todo,         \* paths it has still to make an object for
  opening,      \* the path that it subscribed to and will read next, or none
  answers,      \* history: how often the daemon has listed its devices to it
  silent        \* history: devices of which a property changed without a signal

vars == <<listed, used, value, bus, watched, mirror, enumerated, task, todo, opening,
          answers, silent>>
daemonVars == <<listed, used, value, silent>>
libraryVars == <<watched, mirror, enumerated, task, todo, opening, answers>>

Values  == 0 .. MaxValue
Tasks   == {"none", "enumerate", "add"}
ListSignals == {"DeviceAdded", "DeviceRemoved"}
Signal  == [sig : ListSignals \cup {"DeviceChanged", "PropertiesChanged"},
            path : Path, value : Values]
Signalled(sig, p, v) == [sig |-> sig, path |-> p, value |-> v]

Init ==
  /\ listed \in SUBSET Path /\ used = listed /\ value = [p \in Path |-> 0]
  /\ bus = <<>> /\ watched = {} /\ mirror = [p \in Path |-> <<>>]
  /\ enumerated = FALSE /\ task = "none" /\ todo = {} /\ opening = {}
  /\ answers = 0 /\ silent = {}

(***************************************************************************)
(* The daemon.                                                             *)
(***************************************************************************)
\* The arbitrator emits device-added, and urf_daemon_device_added_cb sends it.
\* The index of a device is never given again, so its path is not either.
DeviceAdded(p) ==
  /\ p \notin used
  /\ listed' = listed \cup {p} /\ used' = used \cup {p}
  /\ bus' = Append(bus, Signalled("DeviceAdded", p, value[p]))
  /\ UNCHANGED <<value, silent, libraryVars>>

DeviceRemoved(p) ==
  /\ p \in listed
  /\ listed' = listed \ {p}
  /\ bus' = Append(bus, Signalled("DeviceRemoved", p, value[p]))
  /\ UNCHANGED <<used, value, silent, libraryVars>>

\* What is sent when the kernel tells of another block: the object's properties,
\* to those who are subscribed to it, and then the daemon's own signal.
Announce_Reversed(p, v) ==
  <<Signalled("DeviceChanged", p, v)>>
    \o IF p \in watched THEN <<Signalled("PropertiesChanged", p, v)>> ELSE <<>>
Announce(p, v) ==
  (IF p \in watched THEN <<Signalled("PropertiesChanged", p, v)>> ELSE <<>>)
    \o <<Signalled("DeviceChanged", p, v)>>

MayChange(p) == value[p] < MaxValue /\ FoldFunction(+, 0, value) < MaxValue

\* urf_device_kernel_update_states and update_killswitch.
DeviceChanged(p) ==
  /\ p \in listed /\ MayChange(p)
  /\ value' = [value EXCEPT ![p] = @ + 1]
  /\ bus' = bus \o Announce(p, value[p] + 1)
  /\ silent' = silent \ {p}
  /\ UNCHANGED <<listed, used, libraryVars>>

\* A request: set_soft stores the block in the device, and the event with which
\* the kernel answers then brings nothing new, so no signal is ever sent.
DeviceRequested(p) ==
  /\ p \in listed /\ MayChange(p)
  /\ value' = [value EXCEPT ![p] = @ + 1]
  /\ silent' = silent \cup {p}
  /\ UNCHANGED <<listed, used, bus, libraryVars>>

(***************************************************************************)
(* The library.  A handler runs to its end before the next signal, with    *)
(* the daemon free to go on at each synchronous call.                      *)
(***************************************************************************)
\* urf_client_find_device.
Found(p) == mirror[p] # <<>>

\* urf_client_enumerate_devices_sync, up to the daemon's answer.
Enumerate ==
  /\ task = "none" /\ answers < MaxEnumerations
  /\ task' = "enumerate" /\ todo' = listed
  /\ answers' = answers + 1
  /\ UNCHANGED <<daemonVars, bus, watched, mirror, enumerated, opening>>

\* urf_client_add, urf_device_set_object_path_sync: the subscription of the
\* proxy is in place before the properties are read.
Subscribe_Async(p) ==
  /\ p \in todo \ opening
  /\ opening' = opening \cup {p} /\ watched' = watched \cup {p}
  /\ UNCHANGED <<daemonVars, bus, mirror, enumerated, task, todo, answers>>
Subscribe(p) ==
  /\ p \in todo /\ opening = {}
  /\ opening' = {p} /\ watched' = watched \cup {p}
  /\ UNCHANGED <<daemonVars, bus, mirror, enumerated, task, todo, answers>>

\* What the read finds: for a device that has gone since, the object on the bus
\* outlives the device, and the answer can be anything.
Answers_Never(p) == IF p \in listed THEN {value[p]} ELSE {}
Answers(p) == IF p \in listed THEN {value[p]} ELSE Values

\* urf_device_refresh_private reads the proxy's properties, and the object goes
\* to the end of the list; a single addition ends with device-added.
Read(p) ==
  /\ opening = {p}
  /\ \E v \in Answers(p) : mirror' = [mirror EXCEPT ![p] = Append(@, v)]
  /\ opening' = {} /\ todo' = todo \ {p}
  /\ task' = IF task = "add" THEN "none" ELSE task
  /\ UNCHANGED <<daemonVars, bus, watched, enumerated, answers>>

\* The end of urf_client_enumerate_devices_sync: only now are signals heard.
Enumerated_Flush ==
  /\ task = "enumerate" /\ todo = {}
  /\ enumerated' = TRUE /\ task' = "none" /\ bus' = <<>>
  /\ UNCHANGED <<daemonVars, watched, mirror, todo, opening, answers>>
Enumerated ==
  /\ task = "enumerate" /\ todo = {}
  /\ enumerated' = TRUE /\ task' = "none"
  /\ UNCHANGED <<daemonVars, bus, watched, mirror, todo, opening, answers>>

Take(sig, p) ==
  /\ task = "none" /\ bus # <<>> /\ Head(bus).sig = sig /\ Head(bus).path = p
  /\ bus' = Tail(bus)

\* urf_client_device_added.
HandleAdded_Unchecked(p) ==
  /\ Take("DeviceAdded", p)
  /\ IF enumerated THEN task' = "add" /\ todo' = {p} ELSE UNCHANGED <<task, todo>>
  /\ UNCHANGED <<daemonVars, watched, mirror, enumerated, opening, answers>>
HandleAdded(p) ==
  /\ Take("DeviceAdded", p)
  /\ IF enumerated /\ ~Found(p) THEN task' = "add" /\ todo' = {p} ELSE UNCHANGED <<task, todo>>
  /\ UNCHANGED <<daemonVars, watched, mirror, enumerated, opening, answers>>

\* urf_client_device_removed: the first object of the path.
Removed(p) == IF enumerated /\ Found(p) THEN Tail(mirror[p]) ELSE mirror[p]
HandleRemoved(p) ==
  /\ Take("DeviceRemoved", p)
  /\ mirror' = [mirror EXCEPT ![p] = Removed(p)]
  /\ watched' = IF Removed(p) = <<>> THEN watched \ {p} ELSE watched
  /\ UNCHANGED <<daemonVars, enumerated, task, todo, opening, answers>>

\* urf_client_device_changed only tells the program; see ChangeIsSeen.
HandleChanged(p) ==
  /\ Take("DeviceChanged", p)
  /\ UNCHANGED <<daemonVars, watched, mirror, enumerated, task, todo, opening, answers>>

\* urf_device_changed_cb, in every object of the path.
HandleProperties_First(p) ==
  /\ Take("PropertiesChanged", p)
  /\ mirror' = [mirror EXCEPT ![p] = [i \in DOMAIN @ |-> IF i = 1 THEN Head(bus).value ELSE @[i]]]
  /\ UNCHANGED <<daemonVars, watched, enumerated, task, todo, opening, answers>>
HandleProperties(p) ==
  /\ Take("PropertiesChanged", p)
  /\ mirror' = [mirror EXCEPT ![p] = [i \in DOMAIN @ |-> Head(bus).value]]
  /\ UNCHANGED <<daemonVars, watched, enumerated, task, todo, opening, answers>>

Daemon == \E p \in Path : DeviceAdded(p) \/ DeviceRemoved(p) \/ DeviceChanged(p) \/ DeviceRequested(p)
Library ==
  \/ Enumerated
  \/ \E p \in Path : \/ Subscribe(p) \/ Read(p)
                     \/ HandleAdded(p) \/ HandleRemoved(p)
                     \/ HandleChanged(p) \/ HandleProperties(p)

Next == Daemon \/ Enumerate \/ Library
Spec == Init /\ [][Next]_vars
\* A handler that has begun goes on, and the program's main loop runs.
FairSpec == Spec /\ WF_vars(Library)

(***************************************************************************)
(* Properties.                                                             *)
(***************************************************************************)
TypeOK ==
  /\ listed \subseteq used /\ used \subseteq Path
  /\ value \in [Path -> Values] /\ bus \in Seq(Signal)
  /\ watched \subseteq Path /\ mirror \in [Path -> Seq(Values)]
  /\ enumerated \in BOOLEAN /\ task \in Tasks
  /\ todo \subseteq Path /\ opening \subseteq todo /\ \A a, b \in opening : a = b
  /\ answers \in Nat /\ silent \subseteq Path

\* The signals of the list in b that are about p, by their place.
IsAbout(b, i, p) == b[i].sig \in ListSignals /\ b[i].path = p
NoneAbout(b, p) == \A i \in DOMAIN b : ~IsAbout(b, i, p)

\* The last of them, if there is one, says that p is there exactly if it is.
LastTells(b, p, there) ==
  \A i \in DOMAIN b :
    (IsAbout(b, i, p) /\ \A j \in DOMAIN b : IsAbout(b, j, p) => j <= i)
      => (b[i].sig = "DeviceAdded" <=> there)

\* The paths that the library's list has, or will have when the handler that
\* runs has ended.
View == {p \in Path : Found(p)} \cup todo

\* Once the daemon has listed its devices, the list is one queue away from the
\* daemon's: the last signal that waits about a path tells what the daemon has,
\* and without one the list has it already.  Nothing is lost while signals are
\* not heard, nor between the answer to EnumerateDevices and its last object
\* (src/liburfkill-glib/urf-client.c, urf_client_proxy_signal_cb).
MirrorConverges ==
  \A p \in Path :
    /\ LastTells(bus, p, p \in listed)
    /\ (answers = 1 /\ NoneAbout(bus, p)) => (p \in View <=> p \in listed)

\* A path has at most one object for each time that the devices were enumerated;
\* what the signals add is never doubled (urf_client_device_added).
AddedOnce ==
  \A p \in Path : Len(mirror[p]) + (IF p \in todo THEN 1 ELSE 0) <= answers

\* When a program is told that a device has changed, its objects have already a
\* value as new as that change (the order of src/src/urf-device-kernel.c:142-146).
ChangeIsSeen ==
  (task = "none" /\ enumerated /\ bus # <<>> /\ Head(bus).sig = "DeviceChanged"
     /\ Head(bus).path \in listed)
    => \A i \in DOMAIN mirror[Head(bus).path] : mirror[Head(bus).path][i] >= Head(bus).value

\* When nothing waits, the cached properties of a device are the daemon's, except
\* those of a device of which nobody was told that it changed.
CacheCurrent ==
  (task = "none" /\ bus = <<>>)
    => \A p \in listed \ silent : \A i \in DOMAIN mirror[p] : mirror[p][i] = value[p]

\* In the end the program has the daemon's list, whenever it enumerated.
CatchesUp == <>[](answers = 1 => {p \in Path : Found(p)} = listed)
=============================================================================
