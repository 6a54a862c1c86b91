# A specification of urfkill

`urfkilld` owns the radio switches of a Linux machine.  It reads the kernel's
rfkill events, keeps one *killswitch* per radio type, answers D-Bus clients and
hotkeys, remembers the wanted state across restarts, and treats the modems of
oFono as further devices.  This directory holds TLA+ modules that model it, TLC
configurations that check them on small machines, and proofs that the TLA+
proof system checks for every machine.  Paths below are relative to the root of
the repository.

## 1. Inventory

| part | source | state | operations |
|---|---|---|---|
| Arbitrator | `src/urf-arbitrator.c` | list of devices, one killswitch per type, the fd of `/dev/rfkill`, the options `force_sync` and `persist` | start-up, the event handler (ADD, DEL, CHANGE), set_block, set_block_idx, set_flight_mode, add/remove device, dispose |
| Killswitch | `src/urf-killswitch.c` | devices of its type, cached state, saved state | add, del, refresh, block all its devices |
| Kernel device | `src/urf-device-kernel.c` | index, type, soft, hard, its own fd | update_states, set_soft (a write of CHANGE_ALL), get_state |
| Daemon | `src/urf-daemon.c` | flight mode | Block, BlockIdx, FlightMode, EnumerateDevices, Inhibit, Uninhibit, key presses |
| Configuration | `src/urf-config.c` | options, the hardware profile and its parser, the persistence file in memory | load, merge, get/set of an entry, save |
| Session checker, seats | `src/urf-session-checker-*.c`, `src/urf-seat-*.c` | seats, sessions, inhibitors, cached decision | inhibit, uninhibit, bus owner changes, active session changes |
| oFono manager | `src/urf-ofono-manager.c` | its proxy, the list of modems, the next index | oFono appears and vanishes, GetModems, ModemAdded, ModemRemoved |
| oFono device | `src/urf-device-ofono.c` | wanted soft block, proxy, copy of the modem's properties | set_soft, proxy ready, GetProperties, PropertyChanged |
| Main, polkit, input | `src/urf-main.c`, `src/urf-polkit.c`, `src/urf-input.c` | the main loop, the name on the bus; none; the key device | start, take the name, drop privileges, stop; authorise; a key press |
| Client library | `liburfkill-glib/` | a copy of the daemon's devices and of their properties | enumerate, signals, blocking calls |

**Interactions.**  The daemon is one GLib main loop.  A handler runs to its end
before another starts: a kernel event, a D-Bus call (authorisation is a
synchronous call), a key, an answer of oFono.  What runs beside it is the
kernel, which changes devices whenever it likes and queues an event per open fd;
the D-Bus clients; the login manager; oFono, whose answers are asynchronous; and
possibly a second `urfkilld` that shares the kernel and the file with it.  A
write of one device makes the kernel change *every* device of its type and queue
the CHANGE events of those that really changed behind the events that already
wait.  So each handler acts on a copy that is a queue behind, and the same is
true of the session checker's copy of the seats, of the objects for modems and
of the client library's list.

**What is hard.**  Events that are older than what the daemon has since written;
the start-up loop, which throws away every event but ADD; writes that fail,
because a device that appears after privileges were dropped cannot open
`/dev/rfkill`; `force_sync`, which answers events with writes that make events;
flight mode, whose way back depends on states saved on the way in; a
persistence file written only at a clean end; states cached behind signals that
nobody emits; proxies that are not ready when a block is asked for; answers that
come after the one who asked has gone; two counters that stand for a stack of
XML elements; synchronous calls in the middle of a handler.

**What makes each part correct.**

* Arbitrator: once the queue is read its list and blocks are the kernel's; every
  event fits the list it meets.
* Killswitch: its state is that of its devices, and an empty one remembers
  nothing.
* Daemon: flight mode blocks every radio, is undone exactly, and what clients are
  told of it is what is stored.
* Persistence: a stored block is one that all devices took, devices found later
  get it, a clean restart restores it, and the file is what the radios were in.
* Configuration: an option has the value of `urfkill.conf`, else the saved one,
  else that of the profiles that match; a profile means what its nesting says.
* Session checker: the decision is that of the active sessions' inhibitors, and
  a client that is gone holds none.
* oFono: the list is oFono's, and a block asked for while the modem is not ready
  or has no power is applied when it is.
* Processes: each serves or ends, and a signal ends it at whatever time it comes.
* Client library: its list and its cached properties are one queue away from the
  daemon's, whenever it enumerated.

## 2. Modules

| module | models |
|---|---|
| `KillswitchState` | pure operators: state of a device, aggregation over a killswitch, what counts as blocked in the store |
| `Arbitrator` | the core: kernel, event queue, arbitrator, killswitches, store, requests, keys, start, stop and kill |
| `ArbitratorPersist` | `Arbitrator` with two history variables: which types nobody touched since a successful request, and their state at the last clean end |
| `ArbitratorFlight` | `Arbitrator` with the state of each type when flight mode was entered |
| `ArbitratorSync` | `Arbitrator` with the devices whose soft block somebody asked to be off |
| `ArbitratorClaims` | a sentence of the documentation that the program does not keep |
| `SessionChecker` | inhibitors, cookies, seats and the cached decision, with the clients, the bus and the login manager around them |
| `ProfileMatch` | the rules of a `match` element as pure operators, with their reference definitions |
| `ProfileParser` | the parser's state and its three callbacks |
| `Config` | `ProfileParser` inside the load of the options: profiles, saved profile, `urfkill.conf`, kills and power failures |
| `ProfileMeaning` | the abstract specification: what nested profiles mean |
| `OfonoDevice` | one modem's object: its fields and the calls that each event makes |
| `OfonoManager` | oFono, the bus, the manager, the objects and the arbitrator's part in them |
| `Lifecycle` | any number of processes from `main` to the saved file, with the name, signals and polkit |
| `UrfClient` | the client library against the daemon's signals and answers |
| `MCDevices`, `MC*` | values of the constants for TLC |
| `ArbitratorProofs` | lemmas on the operators, type correctness, the inductive invariant on the queue and the daemon's copy |
| `ArbitratorSwitchProofs` | availability of killswitches, flight mode; persistence, hard blocks under `force_sync`, flight mode as a round trip |
| `OfonoProofs` | the queues of oFono and the daemon, types, that the list follows oFono |
| `OfonoBlockProofs` | a modem's newest object: that its block reaches the modem and its state is the modem's |
| `SessionProofs` | types, inhibitors of clients that left, the decision, the cookies |
| `ProfileProofs` | the parser's counters, the refinement of `ProfileMeaning`, the files |
| `LifecycleProofs` | polkit's question, the file and the radio |
| `ClientProofs` | the library's list and its cached properties |

**Composition.**  `ArbitratorPersist`, `ArbitratorFlight`, `ArbitratorSync` and
`ArbitratorClaims` extend `Arbitrator`; `Config` extends `ProfileParser`, which
extends `ProfileMatch`, and has `ProfileMeaning` as an instance; `OfonoManager`
extends `OfonoDevice`.  The other components meet over small interfaces, and each
module says in its own terms what the other gives it: `OfonoManager` has the
arbitrator's `add_device`, `remove_device`, `find_device`, `set_block` and
`set_block_idx` for modems; `Lifecycle` takes one type for all and leaves what a
handler does to the devices to `Arbitrator`; `Arbitrator` takes any values of
`persist` and `force_sync`, which `Config` computes; a `KeyPress` of `Arbitrator`
is one that `inhibit` of `SessionChecker` lets through; `UrfClient` has the
daemon's signals as steps that may happen at any time.

### `Arbitrator`

`kdev`, `plugged`, `ksoft`, `khard` are the kernel's devices, the indices it has
used (it never reuses one) and their blocks; `events` is what waits in the
arbitrator's fd.  `devices`, `soft`, `hard` are the list of `UrfDeviceKernel`
objects; `writable` those whose own fd is open.  `kstate` and `saved` are the two
states of each `UrfKillswitch`, `persist` the key file in memory and `disk` the
file, `flight` the daemon's flag.  `reply` is the last answer, `dropped` (a
history variable) the devices of which the start-up loop skipped an event and
none has been handled since: the first CHANGE or DEL that `event_cb` reads for a
device takes it out again.

A handler is one step, with all the writes it makes:

| action | code |
|---|---|
| `Start`, `StartupAdd`, `StartupSkip`, `StartupDone` | `urf_arbitrator_startup`: open, each turn of the read loop, the pass over the types |
| `HandleAdd`, `HandleDel`, `HandleChange` | one turn of the loop of `event_cb` |
| `Block`, `BlockAll`, `BlockIdx`, `FlightMode`, `RequestWithoutDevices` | the D-Bus methods, authorised |
| `KeyPress` | `urf_daemon_input_event_cb`, not inhibited |
| `Shutdown`, `Kill`, `Crash` | dispose and finalize with the saves, the last of which writes the file or fails and leaves the old one; a signal that cannot be caught; the null pointer of type 0 |
| `Plug`, `Unplug`, `KernelChange` | the kernel and other programs (external) |

Abstractions.  `event_cb` reads until the queue is empty in one dispatch; the
model lets another handler run between two events, which adds behaviours that
differ from real ones only in when the kernel queued the event.  Type, platform
and options are constants.  `Platform` is what udev says when the device is
found.  `HotplugFd` is the set of outcomes of a later open of `/dev/rfkill`:
`{TRUE}` for a daemon that stays root, with `FALSE` for one that dropped its
privileges or ran out of descriptors.  No property assumes it to be `{TRUE}`.  The order of CHANGE events of one write
is that of the types, then the indices.  Entries of the file are Boolean; a
missing one reads as unblocked.

### `SessionChecker`

`alive` are the clients on the bus, `present` and `foremost` the login manager's
seats and their active sessions; `bus` is what has reached the daemon and waits
for the main loop.  One connection carries everything, so it is one queue.
`seats`, `active`, `inhibitors` and `inhibit` are the daemon's: the `UrfSeat`
objects, their active sessions, the list of `UrfInhibitor` and the decision that
`urf_daemon_input_event_cb` reads.  `given` is the cookie a client counts on.
Two history variables: `stale`, a seat came or went since the decision was made
(the code does not make it again then), and `lost`, cookies whose inhibitor went
with a well-known name.

| action | code |
|---|---|
| `HandleInhibit`, `HandleUninhibit` | the D-Bus methods with `urf_session_checker_inhibit` and `_uninhibit` |
| `HandleOwnerChanged` | `NameOwnerChanged`: of a connection (`Gone`), of a well-known name (`Released`) |
| `HandleSeatNew`, `HandleSeatRemoved` | the login manager's signals; a new seat asks for its active session at once, so its answer is newer than the messages that wait |
| `HandleActive` | the seat's callback and `active-changed` |
| `HandleUnheard` | a message for a seat's proxy that went with the seat |
| `AskInhibit`, `AskUninhibit`, `Disconnect`, `ReleaseName` | clients (those of the library wait for the answer to Inhibit) and the bus |
| `SeatAppears`, `SeatVanishes`, `SwitchSession` | the login manager (external) |

The files for logind and ConsoleKit differ in the calls they make and in the
seat's callback: `FollowsActive` is TRUE for ConsoleKit's, FALSE for logind's,
which never recognises a change (below).  The map names the lines of the logind
files.  Cookies are random numbers; here members of a small set, any that is
free.  A reply of the login manager has the type the code reads it with.  The
files return cookie 0 while there is no login manager to ask (`key_control`
off): nothing happens then and it is left out.

### `ProfileMatch`, `ProfileParser`, `Config`

`ProfileMatch` has the rules with their operators (string, prefix, suffix,
contains, with `_ncase`, `_outof`, `_not`) over texts that are sequences of letters, the reading
of attributes, in which later ones add to or replace earlier ones, and two laws,
`ListsMeanTokens` and `FormsAgree`, that say what the rules compute.
`ProfileParser` has the fields of `ParseInfo`, `depth`, `bound`, `opt` and the
options (`draft`), with the open elements `open` as expat keeps them; the three
handlers are `StartElement`, `EndElement` and `Text`.

`ProfileMeaning` leaves nothing open but what the documents hold.  Which elements
are open, whether each matches and which option it names is its own state
(`scopes`); a text *must* set the option named to the value said if all of them
match, and must change nothing otherwise; the end of a document must make the
draft count, and a broken one must take it back.  What the reader was told last is
in the variable `heard` of both machines, so that the refinement compares them
word by word: a text cannot pass for a stutter.  A parser that ignores a value,
writes the opposite one, or stops counting after a sibling that does not match has
a step that is none of `ProfileMeaning`'s.

`Config` cuts the load into steps at every point where a process that is killed
leaves something behind:

| action | code |
|---|---|
| `Start`, `NextProfile`, `Unreadable` | `load_configured_settings` with or without a saved profile, the loop of `urf_config_load_profile` over the files |
| `XmlStart`, `XmlEnd`, `XmlText`, `ParseError`, `EndDocument` | expat's calls and the result of `XML_Parse` in `profile_xml_parse` |
| `Fault` | `match_rule` compares a field of the machine with a text that the element does not have: the process ends |
| `RemoveSaved`, `WriteSaved` | `save_configured_profile`: unlink, then write, which may fail |
| `MergeConf` | the entries of `urfkill.conf` in `urf_config_load_from_file` |
| `Stop`, `PowerFailure`, `EditConf`, `RemoveHardwareConf` | the process ends at any point; a file whose data was not on the disk is cut off; the administrator |

### `OfonoDevice`, `OfonoManager`

`objects` is every `UrfDeviceOfono` ever made, with its index, its path, the block
it wants, its copy of `Online` and whether its proxy is ready; `devices` is the
list (manager and arbitrator have the same one).  Objects never go: the manager
drops a removed modem from the lists only, and its handlers stay.  `inbox` is
what waits for the daemon, `calls` what waits for oFono, `manager` how far the
manager is.  The bus keeps the order of the daemon's calls, and oFono that of its
answers and signals: both are queues.

Every answer may be an error instead, as after a timeout: to GetModems, to
SetProperty, to GetProperties of a modem that is there (`get_properties_cb`
returns), and to the making of a proxy, a modem's or the manager's (the callback
returns with a warning).  The code does not try again, so a modem's object may
stay without its proxy, or without knowing `Online`.  History variables say which:
`deaf`, objects that got an error for their proxy; `unread`, objects that got one
for the properties and have heard of no change of `Online` since; `missed`,
objects that got one and have not seen their modem get power since (that signal
makes the object send its block).  The others are `leftover` (paths whose removal
the list cannot follow: announced twice, or left by an oFono that went),
`byIndex`, objects that were set by their index, and `refused`, modems that turned
the last write down.

| action | code |
|---|---|
| `HandleAppeared`, `HandleManagerConnected`, `HandleModems`, `HandleVanished` | `on_ofono_appeared`, `ofono_proxy_ready_cb`, `ofono_get_modems_cb`, `on_ofono_vanished` |
| `HandleAdded`, `HandleRemoved` | `ofono_signal_cb` with `add_modem` and `remove_modem`, and what the arbitrator does for a new device |
| `HandleConnected`, `HandleProperties`, `HandleChanged` | the modem's `proxy_ready_cb`, `get_properties_cb`, `modem_signal_cb` in every object of the path |
| `RequestBlock`, `RequestBlockIdx` | `urf_arbitrator_set_block` for modems, and `_set_block_idx` |
| `OfonoStart`, `OfonoStop`, `ModemAdded`, `ModemRemoved`, `ModemPowered`, `Answer` | oFono and the bus (external): answers are late and may be errors (`Fail`) |

### `Lifecycle`

Each process of `Proc` is at a stage of `main`; `radio` is the kernel's state of
one type that stands for all, `file` its entry in the file, `owner` and `waiting`
the bus's queue for the name.  `due` is a history variable: what the last process
to write the file left the radio in.

| action | code |
|---|---|
| `Launch`, `OpenRadio`, `OpenFails`, `Prepare`, `PrepareFails`, `RunLoop` | `main` up to `g_main_loop_run`: configuration, arbitrator, input and session checker, user |
| `RequestName`, `NameLost`, `HandleSignal`, `HandleEvents` | the main loop: the name is asked for and answered, a signal or timer, the kernel's events |
| `Ask`, `Granted`, `Denied` | a request up to polkit's synchronous question, and its answer |
| `Release`, `Dispose`, `DisposeFails`, `Save` | `out:` in its order: name, daemon and arbitrator, configuration |
| `Outside`, `Signal`, `Kill` | other programs and the driver; signals |

### `UrfClient`

`listed`, `used`, `value` are the daemon's; `bus` the signals that wait in the
client; `mirror` the objects of each path with the properties they cache,
`watched` the paths the client is subscribed to, `enumerated` its flag.  `task`,
`todo` and `opening` say where a handler stands between two of its synchronous
calls.  The properties of a device are one number that grows with every change.
`DeviceRequested` is a change by a request, of which the daemon tells nobody; the
history variable `silent` keeps such devices.

| action | code |
|---|---|
| `Enumerate`, `Subscribe`, `Read`, `Enumerated` | `urf_client_enumerate_devices_sync` with `urf_client_add` and `urf_device_set_object_path_sync` |
| `HandleAdded`, `HandleRemoved`, `HandleChanged` | `urf_client_proxy_signal_cb` |
| `HandleProperties` | `urf_device_changed_cb` |
| `DeviceAdded`, `DeviceRemoved`, `DeviceChanged`, `DeviceRequested` | the daemon: its signals and the properties on the bus |

## 3. Runs

Steps of the environment are bounded by the constants named below; the program's
answers to them are not, and all counters follow from those bounds.  Deadlock is
not checked in the runs whose machine may use its bounds up and stop (the
configurations say so); in `config` the process can always start again, so there
it is.

| run | machine | shows |
|---|---|---|
| `plain` | one type, a platform device at boot and a second device that can be plugged, which can or cannot be written; 4 stimuli | `TypeOK`; `ViewConverges`: after its queue the daemon's copy is the kernel's; `EventsInOrder`: no event meets the wrong list; `SwitchAvailability` |
| `persist` | the same with `persist`, any stored state, 4 stimuli | `PersistedStateHolds`, `CleanRestartRestores` |
| `flight` | two types, one device each, found in the reverse order of the types, the second of which can or cannot be written; 3 stimuli | `FlightFlagPersisted`: told and stored mode differ only after a device refused, `FlightModeRoundTrip`, `FlightModeSilences` |
| `sync` | two devices of one type at boot, `force_sync`, any blocks; 3 stimuli | `HardBlockSticks`, `Quiesces` |
| `session` | two clients, of two sessions, one owning a well-known name; two interchangeable seats with any active sessions; `FollowsActive`; 5 stimuli | `TypeOK`, `GoneClientsRelease`, `CookieCounts`, `DecisionFresh`, `DecisionCurrent` |
| `config` | a machine with a vendor and an empty product name; two profiles made of six elements, nested up to three deep; two forms of `urfkill.conf` | `TypeOK`, `DepthAndBound`, `OptionsFollowFiles`, `ParserMeans`: the parser implements `ProfileMeaning`, word by word; and, as the assumption `RulesAgree`, the laws of the rules over all texts of up to two of three letters |
| `ofono` | one path for modems; two starts of oFono, two modems, one change of power, one error in place of any answer, one request, at most 5 of these; `persist` and `force_sync` | `TypeOK`, `ListFollowsOfono`, `BlockReachesModem`, `StateIsTheModems`, `Quiesces` |
| `client` | two paths, two changes, two enumerations | `TypeOK`, `MirrorConverges`, `AddedOnce`, `ChangeIsSeen`, `CacheCurrent`, `CatchesUp` |
| `lifecycle` | two processes, with key control, another user than root, and modems; 5 stimuli | `TypeOK`, `AskedAboutADevice`, `FileTellsRadio`, `ServesOrEnds`, `StopsWhenTold` |

**Why the bounds are enough.**  Two devices of one type are the least at which a
write through one changes another, at which platform and other devices differ,
and at which one write of two can fail; two types are the least at which the last
type's result hides another's.  Four stimuli are enough for a plug, a request, an
event from outside and a stop, or for enter, change and leave.  In `sync`, three
reach both hard blocks set and one released while events of both are still in the
queue.  In `session`, five reach Inhibit, Uninhibit and Inhibit again with a
message of the bus or a change of the session between them, and a seat that goes
and comes while its messages wait.  In `config`, three levels let an element that
does not match stand below and above ones that do, and two profiles let the second
undo or keep what the first said.  In `ofono` every path is independent but for
the indices and the stored block, so that one path is enough for everything but
two modems at once (the second of which comes with the second start); five events
reach a modem that is announced twice, removed while its proxy is not ready, and
comes back with an old object listening.  `MaxRefused` counts every kind of error
there; one is enough for a modem to miss its block, get power and have it after
all.  In `client`, one path may go while the
other is being read.  In `lifecycle`, two processes with five stimuli reach two
starts, a request, a change by another program and a signal.

Every property of these runs can be broken by a plausible mistake in the code it
is about.  Some of those mistakes stand in the modules beside the definition they
replace, named for what they do (`HandleActive_EmitFirst`,
`LoweredBound_IfEqual`).

**Fairness.**

* `sync`: weak fairness of the event handler and of the start-up loop.  The main
  loop dispatches the watch of the fd as long as it is readable, and the start-up
  loop does not leave before it is not.
* `ofono`: weak fairness of `Handle` and of `Answer`, written out over the
  lengths of the two queues: the main loop handles what has arrived, and oFono or
  the bus answers every call, if only with an error when it times out.
* `client`: weak fairness of the library: a handler that has begun gets answers to
  its synchronous calls, and the program runs its main loop.
* `lifecycle`: weak fairness of what each process does by itself: `main` goes on,
  its loop runs, and polkit answers.

Nothing is assumed of the kernel, of clients, of users or of the administrator.

### What the program does not do

Three runs each show a behaviour that breaks what the repository says.

| run | what is said | the behaviour |
|---|---|---|
| `claim_all` | type 0 is "All"; the master key "controls all killswitches" | the killswitch of type 0 is a null pointer: the process ends |
| `claim_session` | Inhibit is "for the session" | on logind the daemon never notices that another session becomes active: the callback of `g-properties-changed` compares a dictionary with a name |
| `claim_ofono` | the assertion that an object path is free | when oFono leaves the bus the index is set back but the modems stay: the first modem of the next oFono ends the process |

Where documents and program differ without a property that says more than the
step itself, the modules follow the program:

* `src/urf-daemon.c:239`: a request while the daemon knows no device is not
  answered (`RequestWithoutDevices`).
* `src/urf-killswitch.c:217`: the cached state of a killswitch waits for a signal
  that no device emits (`kstate`).
* `src/urf-arbitrator.c:600`: the start-up loop loses every event but ADD, so a
  device that goes meanwhile stays in the list (`dropped`), and the `soft` of one
  that changes is old, until an event of it is handled.
* `src/urf-device-kernel.c:382`: a device found after privileges were dropped
  cannot be written and does not get the stored state.
* `src/urf-arbitrator.c:126`: BlockIdx is documented for one device, but writes
  CHANGE_ALL: all devices of the type change.
* `src/urf-device-kernel.c:245`: a block by a request changes a device without a
  Changed signal (`silent` of `UrfClient`).
* `src/urf-session-checker-logind.c:390`: a client that only gives up a well-known
  name loses its inhibitor (`lost`); lines 322 to 345: a seat that comes or goes
  does not make the daemon decide again (`stale`).
* `src/urf-arbitrator.c:654`: a clean end stores a hard block as a soft one;
  `CleanRestartRestores` says so.  Line 560: `persist` is set before the device is
  opened, so a start that fails there stores all types as unblocked (`OpenFails`).
* `src/urf-main.c:275`: the name is given up before the file is saved, so that a
  process that starts then reads the old file; and a second process sets the
  radios before it learns that the name is taken.
* `src/urf-ofono-manager.c:95`: a removed modem's object keeps its handlers and
  goes on sending its block; `src/urf-arbitrator.c:670`: a modem that is listed at
  the end is unreferenced once too often (`DisposeFails`).  A kernel index that
  reaches 100 would meet those of modems; the kernel and the modems are in
  different modules, so this is not reached.

## 4. Proofs

They hold for any finite set of devices, any types and options (`Arbitrator`),
any clients, sessions, seats and cookies (`SessionChecker`), any profiles, files
and hardware (`Config`), any modems and any bounds on them and on requests
(`OfonoManager`), any paths (`UrfClient`) and any number of processes
(`Lifecycle`): only the named assumptions of these modules are used, and
`DecisionCurrentAlways` assumes `FollowsActive`.  None rests on a bound.

* `TypeCorrect` (`ArbitratorProofs`).  One lemma per operator that builds a
  value (`ChangeAllTypes`, `SetBlockTypes`, `AddKillswitchTypes`, `ExitTypes`),
  one step per action.
* `ViewConvergesAlways`, `EventsInOrderAlways` (`ArbitratorProofs`).  Neither
  is inductive alone: that a CHANGE finds its device in the list depends on the
  order of the queue, and that the copy is right when the queue is empty depends
  on what each event in it will do.  `Coherent` says of each device what its
  *last* event tells; it relates the queue, the list and the kernel.  Lemmas say
  what appending an event (`Push`), reading one (`Pop`) and appending the batch
  of a write (`Batch`) do to it, for any queue; each action is a combination of
  these.  `ViewMeans` shows that it says the same as the two properties TLC
  checks, so the strengthening is itself model-checked.
* `SwitchAvailabilityAlways`, `FlightFlagAlways`, `FlightModeBlocks`
  (`ArbitratorSwitchProofs`).  The first needs that a killswitch is refreshed
  whenever the list changes.  The second says that the mode told and the mode
  stored are the same unless a device of the last type refused the last request
  (`refusing`).  `FlagRequest` shows it of a request, where the result of the last
  type stands for all: that there is a last type with a device, `GreatestType`, is
  an induction, given as a smallest counterexample.  `FlagOther` shows that
  nothing else touches either.  No device is assumed to be writable.
* `PersistedStateHoldsAlways`, `RestartRestores`, `HardBlockSticksAlways`,
  `RoundTripAlways` (`ArbitratorSwitchProofs`).  Each specification with history
  variables implements `Spec`, so that types and `Coherent` carry over.  `PInv`
  adds that the start-up loop lists only devices it can write, that memory and
  disk agree unless the daemon serves, and that the state kept from the last clean
  end is the stored one.  `SyncInv` says the property of the daemon's copy instead
  of the kernel's, and `ViewConverges` takes it across when the queue is empty.
  `FlightTrip` says that between entry and return the saved state is the one at
  entry and the type is soft blocked; the events that echo the daemon's own writes
  do not change a refreshed state.
* `SessionTypeCorrect`, `GoneClientsReleaseAlways`, `DecisionFreshAlways`,
  `DecisionCurrentAlways`, `CookieCountsAlways` (`SessionProofs`).  Types include
  that no cookie and no client has two inhibitors.  `SeatFollows` says of each seat
  that the last message about its session tells the login manager's, or that
  without one the copy is right already.  `BusOrder` says that a client's messages
  precede that of its leaving; `Accounts` ties `given` to the inhibitors and the
  messages that return cookies.
* `ConfigTypeCorrect`, `DepthAndBoundAlways`, `OptionsFollowFilesAlways`,
  `ParserImplementsMeaning` (`ProfileProofs`).  `DepthAndBound` is the relation
  between the two counters and the stack: the bound is one more than the number of
  outer elements that match, up to the first that does not.  With it each step of
  `Config` is one of `ProfileMeaning` or leaves its variables alone, under the
  mapping `Scopes` (what each open element passes and names) and `ReadSoFar`.
  The heart is `SayRefines`: the parser, which looks at its two counters and the
  option last named, sets the option that the innermost element names exactly
  when all elements around the text match; `OptionIsNamed` ties the two names.
  `FilesInv` says what each phase knows of the saved profile.
* `ClientTypeCorrect`, `MirrorConvergesAlways`, `AddedOnceAlways`,
  `ChangeIsSeenAlways`, `CacheCurrentAlways` (`ClientProofs`).  `Progress` says
  where the library can be between two calls.  `PathInv` says of each path the
  daemon lists that the last properties that wait are the daemon's, that without
  any the objects have them already, and that properties precede the signal that
  tells of them; of a path never used, that nothing is about it.
* `OfonoTypeCorrect`, `ListFollowsOfonoAlways` (`OfonoProofs`).  `None`, `After`,
  `Single`, `Led` and `Parted` say how the messages of two kinds lie in a queue;
  lemmas say what appending one, taking the first and dropping some (`Alike`) do to
  them, so that no later proof looks into a sequence.  The types
  include that no two objects have an index in common; `TypeInv` adds that oFono
  has finitely many modems and that no answer to GetModems names one twice.  `QueueInv` is the manager's part:
  oFono appears again only behind a message that it vanished, and of the manager's
  own calls and answers at most one is on its way.  `TellInv` says that the last
  signal about a modem is true, and so is an answer to GetModems that no signal
  about the modem follows.  `ListInv` goes modem by modem: if no signal about it
  waits, it is in the list exactly if oFono has it; unless it is in `leftover` it
  is there once.
* `BlockReachesModemAlways`, `StateIsTheModemsAlways` (`OfonoBlockProofs`).  Both
  speak of the moment when nothing is on its way, so what is kept is how far the
  *newest* object of a modem is: its proxy is being made (`Asking`), is on its way
  (`Reaching`), the properties are asked for (`Reading`), or it follows the modem
  (`Follows`), or it got an error for its proxy (`deaf`).  The last is `Knows`, the copy of Online is right or a message will
  correct it, or it is in `unread`, and `Obeys`, the last call that sets the modem (`LastWord`) asks for
  what the object wants, or a message waits that makes the object send it, or it is in `missed`.  That the
  exceptions end when the code makes up for the error is part of both.  The
  difficulty is the older objects of the modem, which hear the same signals and
  send their own block: nothing of theirs may be behind what counts.  `StoredInv`
  says that objects of the list want what is stored.  TLC checked `NewestInv` and
  `StoredInv` for one modem and for two before they were proved.
* `LifecycleTypeCorrect`, `AskedAboutADeviceAlways`, `FileTellsRadioAlways`
  (`LifecycleProofs`).  The file is right because what is stored is what the radio
  was when the loop was left, which is `LeftTells`, which rests on `ViewTrue`: a
  process with no event left to read has the radio's state.  `StepKeeps` says once
  what a step of one process does to all others through the kernel's events.

Only model-checked: liveness (`Quiesces` of `sync` and of `ofono`, `CatchesUp`,
`ServesOrEnds`, `StopsWhenTold`), which is out of the prover's reach under
fairness; and the laws of `ProfileMatch` (`RulesAgree`), whose folds over the
rules of an element would need an induction over them.

## 5. Not modelled

* `src/urf-utils.c`, `src/urf-input.c`: wording, reads of udev and DMI, choosing
  and reading the key device.  A key press and a missing device are modelled.
* `src/urf-device.c`: registering properties; only the object path and the
  assertion about it are modelled.
* Branches left out of modelled handlers.  `src/urf-arbitrator.c:602`: an event of
  a type above the greatest one is skipped; `Types` are the types the kernel has.
  `src/urf-arbitrator.c:538`: an error of the fd itself, after which the daemon
  hears no more of the kernel, and `src/urf-device-kernel.c:151`, a signal that
  cannot be sent.  `src/urf-config.c:357`: after an attribute with an unknown name
  its value is taken for a name.  In `SessionChecker` a client returns the cookies
  it was given and each once; the code ignores a cookie that it does not know.
  In `Lifecycle` writes reach the radio and nothing blocks it in hardware: what
  a block does to devices is `Arbitrator`'s, which has both.
* The forking, the command line and the log of `src/urf-main.c`.
* In the client library: the killswitch object, which caches its state as a device
  object does; the calls that pass a request on; a daemon that is restarted under a
  running client, of which the library takes no notice.
* Object paths are never given back on the bus; the daemon's own devices of the
  kernel have indices that the kernel never uses again, so this matters for modems
  only, where it is modelled.
* The programs in `tests/` print what the library says and are run by hand; the
  interface descriptions are documentation.

## 6. What could come next

1. The key press with the session checker's decision: `KeyPress` of `Arbitrator`
   composed with `inhibit`, and an abstract specification of inhibition.
2. The killswitch object of the client library beside `UrfClient`, and a daemon
   that is restarted under a client.
3. Modems and kernel devices in one arbitrator, with the indices that can meet.
4. An abstract specification of modems, a list that follows oFono's and a block for
   each, that `OfonoManager` implements.
