---------------------------- MODULE OfonoManager ----------------------------
(***************************************************************************)
(* The modems of oFono in the daemon: src/src/urf-ofono-manager.c and the  *)
(* objects of OfonoDevice, with what the arbitrator does with them         *)
(* (src/src/urf-arbitrator.c, add_device, remove_device and the requests). *)
(*                                                                         *)
(* oFono and the bus are external.  What the daemon gets from them waits   *)
(* in inbox, what it asks of oFono waits in calls; both are in order, as   *)
(* D-Bus keeps the messages of one connection.  oFono may stop and start   *)
(* at any time.                                                            *)
(*                                                                         *)
(* Objects are never taken away: urf_ofono_manager_remove_modem drops the  *)
(* device from the lists but not the reference that the manager owns, so   *)
(* the object keeps its proxy, its handlers and its path on the bus.       *)
(***************************************************************************)
EXTENDS OfonoDevice, Functions, SequencesExt, FiniteSets

CONSTANTS FirstIndex,                   \* 100 in the code
          Persist, ForceSync,           \* options of urfkill.conf
          Stored,                       \* the block that was stored for modems at start
          MaxAdded, MaxStarts, MaxPowered, MaxRefused, MaxRequests,
          MaxTotal                      \* bound on all of these together

ASSUME OfonoAssumption ==
  /\ FirstIndex \in Nat
  /\ Persist \in BOOLEAN /\ ForceSync \in BOOLEAN /\ Stored \in BOOLEAN
  /\ {MaxAdded, MaxStarts, MaxPowered, MaxRefused, MaxRequests, MaxTotal} \subseteq Nat

\* The elements of s that are in S, in their order: SelectSeq with a set for the
\* test, which is a function of first-order arguments.
Kept(s, S) ==
  LET upTo[n \in 0 .. Len(s)] ==
        IF n = 0 THEN <<>>
        ELSE IF s[n] \in S THEN Append(upTo[n - 1], s[n]) ELSE upTo[n - 1]
  IN upTo[Len(s)]

VARIABLES ofono,      \* external: whether it runs, its modems with their power and Online
          inbox,      \* messages for the daemon
          calls,      \* calls for oFono
          manager,    \* how far the manager is with the oFono that runs
          objects,    \* every device object ever made, in that order
          devices,    \* positions of the objects in the manager's and the arbitrator's list
          modem_idx, stored, alive,
          leftover,   \* history: listed paths of which the manager cannot follow the removal
          byIndex,    \* history: objects that were last asked for a block by their index
          refused,    \* history: modems of which oFono turned the last write down
          deaf,       \* history: objects that got an error instead of their proxy
          unread,     \* history: objects that got an error instead of the properties of
                      \* their modem, and that no signal told of Online since
          missed,     \* history: ... and whose modem did not get power since
          left        \* what is left of the bounds

vars == <<ofono, inbox, calls, manager, objects, devices, modem_idx, stored, alive,
          leftover, byIndex, refused, deaf, unread, missed, left>>
failures == <<refused, deaf, unread, missed>>
daemonVars == <<manager, objects, devices, modem_idx, stored, alive, leftover, byIndex>>

Kinds == {"added", "starts", "powered", "refused", "requests", "total"}
Phases == {"away", "connecting", "asked", "listed", "unlisted"}
Absent == [present |-> FALSE, powered |-> FALSE, online |-> FALSE]
Modem == [present : BOOLEAN, powered : BOOLEAN, online : BOOLEAN]
Present == {p \in Paths : ofono.modems[p].present}

Ids == DOMAIN objects

Message ==
  [msg : {"appeared", "vanished", "managerConnected"}]
    \union [msg : {"added", "removed"}, path : Paths]
    \union [msg : {"modems"}, ok : BOOLEAN, paths : Seq(Paths)]
    \union [msg : {"connected"}, id : Ids]
    \union [msg : {"properties"}, id : Ids, powered : BOOLEAN, online : BOOLEAN]
    \union [msg : {"changed"}, path : Paths, name : {"Online", "Powered"}, value : BOOLEAN]

Call ==
  [call : {"ManagerConnect", "GetModems"}]
    \union [call : {"Connect", "GetProperties"}, id : Ids]
    \union [call : {"SetProperty"}, id : Ids, online : BOOLEAN]

Init ==
  /\ ofono = [up |-> FALSE, modems |-> [p \in Paths |-> Absent]]
  /\ inbox = <<>> /\ calls = <<>>
  /\ manager = "away" /\ objects = <<>> /\ devices = <<>> /\ modem_idx = FirstIndex
  /\ stored = Stored /\ alive = TRUE
  /\ leftover = {} /\ byIndex = {}
  /\ refused = {} /\ deaf = {} /\ unread = {} /\ missed = {}
  /\ left = [k \in Kinds |-> CASE k = "added" -> MaxAdded [] k = "starts" -> MaxStarts
                               [] k = "powered" -> MaxPowered [] k = "refused" -> MaxRefused
                               [] k = "requests" -> MaxRequests [] OTHER -> MaxTotal]

Spend(kind) ==
  /\ left[kind] > 0 /\ left["total"] > 0
  /\ left' = [left EXCEPT ![kind] = @ - 1, !["total"] = @ - 1]

(***************************************************************************)
(* oFono and the bus.                                                      *)
(***************************************************************************)
OfonoStart ==
  /\ ~ofono.up /\ Spend("starts")
  /\ ofono' = [ofono EXCEPT !.up = TRUE]
  /\ inbox' = Append(inbox, [msg |-> "appeared"])
  /\ UNCHANGED <<calls, failures, daemonVars>>

\* The modems go with oFono, and the bus fails what was asked of it: a proxy is
\* made also for a name that nobody owns, the other calls fail with a warning.
Connects == Kept(calls, [call : {"Connect"}, id : Ids])
OfonoStop ==
  /\ ofono.up
  /\ ofono' = [up |-> FALSE, modems |-> [p \in Paths |-> Absent]]
  /\ inbox' = Append(inbox, [msg |-> "vanished"])
              \o [i \in DOMAIN Connects |-> [msg |-> "connected", id |-> Connects[i].id]]
  /\ calls' = <<>>
  /\ UNCHANGED <<failures, left, daemonVars>>

ModemAdded(p) ==
  /\ ofono.up /\ ~ofono.modems[p].present /\ Spend("added")
  /\ \E powered \in BOOLEAN :
       ofono' = [ofono EXCEPT !.modems[p] = [present |-> TRUE, powered |-> powered, online |-> FALSE]]
  /\ inbox' = Append(inbox, [msg |-> "added", path |-> p])
  /\ UNCHANGED <<calls, failures, daemonVars>>

ModemRemoved(p) ==
  /\ ofono.modems[p].present
  /\ ofono' = [ofono EXCEPT !.modems[p] = Absent]
  /\ inbox' = Append(inbox, [msg |-> "removed", path |-> p])
  /\ refused' = refused \ {p}
  /\ UNCHANGED <<calls, deaf, unread, missed, left, daemonVars>>

\* A signal of a modem comes to every object that has a proxy for the path, also
\* to one that is in no list any more.
Hearers(path) == {id \in Ids : objects[id].proxy /\ objects[id].path = path}
Changed(p, name, value) == [msg |-> "changed", path |-> p, name |-> name, value |-> value]

\* A modem without power is not online, and one that gets power is not yet.
ModemPowered(p) ==
  LET was == ofono.modems[p]
  IN /\ was.present /\ Spend("powered")
     /\ ofono' = [ofono EXCEPT !.modems[p] = [present |-> TRUE, powered |-> ~was.powered, online |-> FALSE]]
     /\ inbox' = inbox \o (IF was.online THEN <<Changed(p, "Online", FALSE)>> ELSE <<>>)
                       \o <<Changed(p, "Powered", ~was.powered)>>
     /\ unread' = IF was.online THEN unread \ Hearers(p) ELSE unread
     /\ missed' = IF was.powered THEN missed ELSE missed \ Hearers(p)
     /\ UNCHANGED <<calls, refused, deaf, daemonVars>>

\* An answer that is an error, as after a timeout: the daemon only warns.
Fail == Spend("refused") /\ UNCHANGED inbox

\* Without its proxy an object hears nothing and sends nothing.
AnswerConnect(c) ==
  /\ c.call = "Connect"
  /\ \/ /\ inbox' = Append(inbox, [msg |-> "connected", id |-> c.id])
        /\ UNCHANGED <<deaf, left>>
     \/ Fail /\ deaf' = deaf \union {c.id}
  /\ UNCHANGED <<ofono, refused, unread, missed>>

\* Without its proxy the manager hears nothing until the next oFono appears.
AnswerManagerConnect(c) ==
  /\ c.call = "ManagerConnect"
  /\ \/ inbox' = Append(inbox, [msg |-> "managerConnected"]) /\ UNCHANGED left
     \/ Fail
  /\ UNCHANGED <<ofono, failures>>

\* The list, in any order; or an error.
AnswerGetModems(c) ==
  /\ c.call = "GetModems"
  /\ \/ /\ ofono.up
        /\ \E list \in Bijection(1 .. Cardinality(Present), Present) :
             inbox' = Append(inbox, [msg |-> "modems", ok |-> TRUE, paths |-> list])
        /\ UNCHANGED left
     \/ /\ IF ofono.up THEN Spend("refused") ELSE UNCHANGED left
        /\ inbox' = Append(inbox, [msg |-> "modems", ok |-> FALSE, paths |-> <<>>])
  /\ UNCHANGED <<ofono, failures>>

AnswerGetProperties(c) ==
  LET modem == ofono.modems[objects[c.id].path]
  IN /\ c.call = "GetProperties"
     /\ \/ /\ modem.present
           /\ inbox' = Append(inbox, [msg |-> "properties", id |-> c.id,
                                      powered |-> modem.powered, online |-> modem.online])
           /\ UNCHANGED <<unread, missed, left>>
        \/ /\ modem.present /\ Fail
           /\ unread' = unread \union {c.id} /\ missed' = missed \union {c.id}
        \/ ~modem.present /\ UNCHANGED <<inbox, unread, missed, left>>
     /\ UNCHANGED <<ofono, refused, deaf>>

\* A modem without power is not put online, and oFono may be busy with another
\* request; in both cases the daemon only warns.
AnswerSetProperty(c) ==
  LET p == objects[c.id].path
      modem == ofono.modems[p]
  IN /\ c.call = "SetProperty"
     /\ \/ /\ modem.powered
           /\ ofono' = [ofono EXCEPT !.modems[p] = [present |-> modem.present, powered |-> TRUE, online |-> c.online]]
           /\ inbox' = IF modem.online = c.online THEN inbox
                       ELSE Append(inbox, Changed(p, "Online", c.online))
           /\ refused' = refused \ {p}
           /\ unread' = IF modem.online = c.online THEN unread ELSE unread \ Hearers(p)
           /\ UNCHANGED left
        \/ /\ ~modem.powered
           /\ UNCHANGED <<ofono, inbox, refused, unread, left>>
        \/ /\ modem.powered /\ Spend("refused")
           /\ refused' = refused \union {p}
           /\ UNCHANGED <<ofono, inbox, unread>>
     /\ UNCHANGED <<deaf, missed>>

Answer ==
  /\ calls # <<>>
  /\ calls' = Tail(calls)
  /\ \/ AnswerConnect(Head(calls))
     \/ AnswerManagerConnect(Head(calls))
     \/ AnswerGetModems(Head(calls))
     \/ AnswerGetProperties(Head(calls))
     \/ AnswerSetProperty(Head(calls))
  /\ UNCHANGED daemonVars

(***************************************************************************)
(* The daemon.                                                             *)
(***************************************************************************)
Listed(list) == {objects[list[i]].path : i \in DOMAIN list}

\* urf_arbitrator_find_device finds the first device of the list with the index.
HasIndex(index) == {i \in DOMAIN devices : objects[devices[i]].index = index}
IsFirst(i, S) == i \in S /\ \A j \in S : i <= j

\* What the objects send when they are asked for the block, one after the other.
SetCalls(ids, blocked) ==
  LET ready == Kept(ids, {id \in Ids : objects[id].proxy})
  IN [i \in DOMAIN ready |-> [call |-> "SetProperty", id |-> ready[i], online |-> ~blocked]]

\* urf_device_register_device asserts that the path on the bus, which is made
\* of the index, is free; no object ever gives its path back.  The first n new
\* devices get their paths.
PathsFree(n) == \A id \in Ids, i \in 1 .. n : objects[id].index # modem_idx + i - 1

\* urf_arbitrator_add_device: with force_sync the block that the device has now
\* is asked of it, with persist the stored one.  Its index is nobody else's, so
\* urf_arbitrator_set_block_idx finds this device, which has no proxy yet and
\* sends nothing.
Enlisted_Unsynced(device) == device
Enlisted(device) ==
  LET synced == IF ForceSync THEN SoftSet(device, SoftOf(device)) ELSE device
  IN IF Persist THEN SoftSet(synced, stored) ELSE synced

\* urf_ofono_manager_add_modem, for one path after the other; it does not look
\* for the path in its list.
NewIds_Again(paths) ==
  [i \in DOMAIN paths |->
     IF paths[i] \in Listed(devices)
     THEN CHOOSE id \in ToSet(devices) : objects[id].path = paths[i]
     ELSE Len(objects) + i]
NewIds(paths) == [i \in DOMAIN paths |-> Len(objects) + i]
NewDevices(paths) == [i \in DOMAIN paths |-> Enlisted(NewDevice(modem_idx + i - 1, paths[i]))]

Register(paths) ==
  /\ objects' = objects \o NewDevices(paths)
  /\ devices' = devices \o NewIds(paths)
  /\ modem_idx' = modem_idx + Len(paths)
  /\ calls' = calls \o [i \in DOMAIN paths |-> [call |-> "Connect", id |-> Len(objects) + i]]

\* ... up to the first whose path on the bus is taken, which is the end.
AddModems(paths) ==
  \E n \in 0 .. Len(paths) :
    /\ PathsFree(n)
    /\ n = Len(paths) \/ ~PathsFree(n + 1)
    /\ Register(SubSeq(paths, 1, n))
    /\ alive' = (n = Len(paths))

\* Ghost: the paths that AddModems puts in the list a second time.
Again(paths) ==
  {p \in Paths : \/ \E i, j \in DOMAIN paths : i # j /\ paths[i] = p /\ paths[j] = p
                 \/ p \in ToSet(paths) /\ p \in Listed(devices)}

\* urf_ofono_manager_remove_modem: the first device of the path.
OfPath_Ready(path) ==
  {i \in DOMAIN devices : objects[devices[i]].path = path /\ objects[devices[i]].proxy}
OfPath(path) == {i \in DOMAIN devices : objects[devices[i]].path = path}
RemoveModem(path) ==
  \/ OfPath(path) = {} /\ UNCHANGED devices
  \/ \E i \in DOMAIN devices : IsFirst(i, OfPath(path)) /\ devices' = RemoveAt(devices, i)

Take(msg) == alive /\ inbox # <<>> /\ Head(inbox).msg = msg

\* on_ofono_appeared.
HandleAppeared ==
  /\ Take("appeared")
  /\ manager' = "connecting"
  /\ inbox' = Tail(inbox)
  /\ calls' = Append(calls, [call |-> "ManagerConnect"])
  /\ UNCHANGED <<ofono, failures, left, objects, devices, modem_idx, stored, alive, leftover, byIndex>>

\* ofono_proxy_ready_cb; the signals are connected from here on.
HandleManagerConnected ==
  /\ Take("managerConnected")
  /\ manager' = "asked"
  /\ inbox' = Tail(inbox)
  /\ calls' = Append(calls, [call |-> "GetModems"])
  /\ UNCHANGED <<ofono, failures, left, objects, devices, modem_idx, stored, alive, leftover, byIndex>>

\* ofono_get_modems_cb.
HandleModems ==
  /\ Take("modems")
  /\ manager' = IF Head(inbox).ok THEN "listed" ELSE "unlisted"
  /\ AddModems(Head(inbox).paths)
  /\ leftover' = leftover \union Again(Head(inbox).paths)
  /\ inbox' = Tail(inbox)
  /\ UNCHANGED <<ofono, failures, left, stored, byIndex>>

Hears == manager \in {"asked", "listed", "unlisted"}

\* ofono_signal_cb.
HandleAdded ==
  /\ Take("added")
  /\ IF Hears
     THEN /\ AddModems(<<Head(inbox).path>>)
          /\ leftover' = leftover \union Again(<<Head(inbox).path>>)
     ELSE UNCHANGED <<objects, devices, modem_idx, calls, alive, leftover, byIndex>>
  /\ inbox' = Tail(inbox)
  /\ UNCHANGED <<ofono, failures, left, manager, stored, byIndex>>

HandleRemoved ==
  /\ Take("removed")
  /\ IF Hears THEN RemoveModem(Head(inbox).path) ELSE UNCHANGED devices
  /\ inbox' = Tail(inbox)
  /\ UNCHANGED <<ofono, failures, left, calls, manager, objects, modem_idx, stored, alive, leftover, byIndex>>

\* on_ofono_vanished: what is outstanding is cancelled and the proxy is dropped.
\* Then ofono_get_modems_cb runs, if it was to run, without a proxy: it gets no
\* value and no error, and goes on to read the value.  The devices are not
\* removed (urf_ofono_manager_remove_all_modems is empty), but the index is
\* set back.
HandleVanished ==
  /\ Take("vanished")
  /\ manager' = "away"
  /\ alive' = (manager # "asked")
  /\ modem_idx' = IF devices # <<>> THEN FirstIndex ELSE modem_idx
  /\ calls' = Kept(calls, Call \ [call : {"ManagerConnect"}])
  /\ inbox' = Kept(Tail(inbox), Message \ [msg : {"managerConnected"}])
  /\ leftover' = leftover \union Listed(devices)
  /\ UNCHANGED <<ofono, failures, left, objects, devices, stored, byIndex>>

HandleConnected ==
  /\ Take("connected")
  /\ LET id == Head(inbox).id
     IN /\ objects' = [objects EXCEPT ![id] = ProxyReady(@)]
        /\ calls' = calls \o ProxyReadyCalls(id)
  /\ inbox' = Tail(inbox)
  /\ UNCHANGED <<ofono, failures, left, manager, devices, modem_idx, stored, alive, leftover, byIndex>>

HandleProperties ==
  /\ Take("properties")
  /\ LET m == Head(inbox)
     IN /\ objects' = [objects EXCEPT ![m.id] = PropertiesRead(@, m.online)]
        /\ calls' = calls \o PropertiesCalls(objects[m.id], m.id, m.powered)
  /\ inbox' = Tail(inbox)
  /\ UNCHANGED <<ofono, failures, left, manager, devices, modem_idx, stored, alive, leftover, byIndex>>

\* modem_signal_cb in every object that hears it.
HandleChanged ==
  /\ Take("changed")
  /\ LET m == Head(inbox)
         senders == Kept([id \in Ids |-> id],
                         {id \in Hearers(m.path) : ChangedCalls(objects[id], id, m.name, m.value) # <<>>})
     IN /\ objects' = [id \in Ids |-> IF id \in Hearers(m.path)
                                      THEN PropertyChanged(objects[id], m.name, m.value)
                                      ELSE objects[id]]
        /\ calls' = calls \o [i \in DOMAIN senders |->
                                ChangedCalls(objects[senders[i]], senders[i], m.name, m.value)[1]]
  /\ inbox' = Tail(inbox)
  /\ UNCHANGED <<ofono, failures, left, manager, devices, modem_idx, stored, alive, leftover, byIndex>>

\* urf_arbitrator_set_block: the killswitch has its devices newest first, and
\* an asynchronous write always succeeds, so the block is stored.
RequestBlock(blocked) ==
  /\ alive /\ Spend("requests")
  /\ objects' = [id \in Ids |-> IF id \in ToSet(devices) THEN SoftSet(objects[id], blocked)
                                ELSE objects[id]]
  /\ calls' = calls \o SetCalls(Reverse(devices), blocked)
  /\ stored' = blocked
  /\ byIndex' = byIndex \ ToSet(devices)
  /\ UNCHANGED <<ofono, inbox, failures, manager, devices, modem_idx, alive, leftover>>

\* urf_arbitrator_set_block_idx stores nothing.
RequestBlockIdx(index, blocked) ==
  /\ alive /\ Spend("requests")
  /\ \E i \in DOMAIN devices :
       /\ IsFirst(i, HasIndex(index))
       /\ objects' = [objects EXCEPT ![devices[i]] = SoftSet(@, blocked)]
       /\ calls' = calls \o SoftCalls(objects[devices[i]], devices[i], blocked)
       /\ byIndex' = byIndex \union {devices[i]}
  /\ UNCHANGED <<ofono, inbox, failures, manager, devices, modem_idx, stored, alive, leftover>>

Outside ==
  \/ OfonoStart \/ OfonoStop
  \/ \E p \in Paths : ModemAdded(p) \/ ModemRemoved(p) \/ ModemPowered(p)

Handle ==
  \/ HandleAppeared \/ HandleManagerConnected \/ HandleModems
  \/ HandleAdded \/ HandleRemoved \/ HandleVanished
  \/ HandleConnected \/ HandleProperties \/ HandleChanged

Request ==
  \E blocked \in BOOLEAN :
    \/ RequestBlock(blocked)
    \/ \E id \in Ids : RequestBlockIdx(objects[id].index, blocked)

\* What oFono does after the daemon's end is of no interest.
Next == alive /\ (Outside \/ Answer \/ Handle \/ Request)
Spec == Init /\ [][Next]_vars

\* The main loop handles what has arrived, and oFono or the bus answers: weak
\* fairness of Handle and of Answer, written out.  Each can be taken exactly while
\* there is something to take, each makes its queue shorter, and (but for what a
\* cancelled proxy takes with it) no other step does.
FairSpec ==
  /\ Spec
  /\ []<>(~alive \/ inbox = <<>>) \/ []<><<Len(inbox') < Len(inbox)>>_vars
  /\ []<>(~alive \/ calls = <<>>) \/ []<><<Len(calls') < Len(calls)>>_vars

(***************************************************************************)
(* Properties.                                                             *)
(***************************************************************************)
Quiet == inbox = <<>> /\ calls = <<>>
\* ... and the daemon has the list of modems of the oFono that runs.
Settled == alive /\ Quiet /\ manager = "listed"

\* The objects that are in the list for a path.
For(p) == {id \in ToSet(devices) : objects[id].path = p}

\* The types, and: no two objects share an index, hence a path on the bus, and
\* none is in the list twice (src/src/urf-device.c:509).
TypeOK ==
  /\ ofono \in [up : BOOLEAN, modems : [Paths -> Modem]]
  /\ inbox \in Seq(Message) /\ calls \in Seq(Call)
  /\ manager \in Phases
  /\ objects \in Seq(Device)
  /\ devices \in Seq(Ids) /\ IsInjective(devices)
  /\ \A a, b \in Ids : objects[a].index = objects[b].index => a = b
  /\ modem_idx \in Nat /\ stored \in BOOLEAN /\ alive \in BOOLEAN
  /\ leftover \subseteq Paths /\ byIndex \subseteq Ids /\ refused \subseteq Paths
  /\ deaf \subseteq Ids /\ unread \subseteq Ids /\ missed \subseteq Ids
  /\ left \in [Kinds -> Nat]

\* When nothing is on its way, every modem that oFono has is in the list, and
\* the list has no other, except a modem that was announced twice (by a signal
\* and by the answer to GetModems) or that was there when oFono went
\* (src/src/urf-ofono-manager.c, add_modem and remove_modem).
ListFollowsOfono ==
  Settled
    => /\ Present \subseteq Listed(devices)
       /\ Listed(devices) \subseteq Present \union leftover

\* When nothing is on its way, a modem that has power and one object is online
\* exactly if it is not blocked: by the last request for its index, or else, with
\* persist, by the block that is stored for modems, also when it was found or
\* got power later (src/src/urf-device-ofono.c, set_soft and its callers).  Not so
\* while the modem turned the last write down, or when the object got an error for
\* its proxy, or for the properties until the modem gets power again.
BlockReachesModem ==
  Settled =>
    \A p \in Present, id \in Ids :
      (ofono.modems[p].powered /\ For(p) = {id} /\ p \notin refused
                                 /\ id \notin deaf \union missed)
        => ofono.modems[p].online =
             ~(IF Persist /\ id \notin byIndex THEN stored ELSE objects[id].soft)

\* When nothing is on its way, the state that the daemon tells of a modem that
\* has one object is the modem's own (get_soft, get_state); unless the object got
\* an error for its proxy, or for the properties until Online changes.
StateIsTheModems ==
  Settled =>
    \A p \in Present, id \in Ids :
      (For(p) = {id} /\ id \notin deaf \union unread)
        => /\ objects[id].online # "absent"
           /\ SoftOf(objects[id]) = ~ofono.modems[p].online

\* What the objects send and what oFono answers comes to an end, also when a
\* modem has several objects that want different things.
Quiesces == <>[](alive => Quiet)

\* The assertion of src/src/urf-device.c:509: whenever a modem is announced to
\* the manager, the path of the device that is made for it is free on the bus.
PathAlwaysFree ==
  (alive /\ inbox # <<>> /\ Hears /\ Head(inbox).msg = "added") => PathsFree(1)

=============================================================================
