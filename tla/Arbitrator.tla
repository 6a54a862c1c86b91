---------------------------- MODULE Arbitrator ----------------------------
(***************************************************************************)
(* The core of urfkilld: the kernel's rfkill devices and the event queue   *)
(* of /dev/rfkill, the arbitrator's copy of the devices, the killswitches  *)
(* (one per rfkill type), the persisted state, and the requests that come  *)
(* in over D-Bus and from the keyboard.                                    *)
(*                                                                         *)
(* The daemon is one main loop: a handler runs to its end before the next  *)
(* one starts, so each handler is one step.  The kernel runs beside it:    *)
(* its steps come between any two handlers, and its events wait in the     *)
(* queue of the arbitrator's file descriptor until they are read.          *)
(***************************************************************************)
EXTENDS KillswitchState, Sequences, FiniteSets

CONSTANTS
    Dev,          \* indices the kernel hands out to rfkill devices
    BootDev,      \* the devices present when the machine has booted
    BootStored,   \* the values an entry of the persistence file then has
    Types,        \* rfkill types with a killswitch (RFKILL_TYPE_ALL is none)
    KeyTypes,     \* types that have a key of their own on the keyboard
    Type,         \* the type of each device
    Platform,     \* devices whose parent is a platform driver
    ForceSync,    \* the options of urfkill.conf
    Persist,
    MasterKey,
    HotplugFd,    \* can a device found after start-up open /dev/rfkill?
    MaxStimuli    \* bound: steps of the kernel's and clients' own accord

RfkillAll  == 0   \* RFKILL_TYPE_ALL: its killswitch pointer is NULL
RfkillWlan == 1

ASSUME DevAssumption      == /\ Dev \subseteq Nat /\ IsFiniteSet(Dev)
                             /\ BootDev \subseteq Dev
                             /\ BootStored \subseteq BOOLEAN
ASSUME TypesAssumption    == /\ Types \subseteq Nat \ {RfkillAll}
                             /\ RfkillWlan \in Types
                             /\ KeyTypes \subseteq Types \cup {RfkillAll}
                             /\ Type \in [Dev -> Types]
                             /\ Platform \subseteq Dev
ASSUME OptionsAssumption  == /\ ForceSync \in BOOLEAN
                             /\ Persist \in BOOLEAN
                             /\ MasterKey \in BOOLEAN
                             /\ HotplugFd \in (SUBSET BOOLEAN) \ {{}}
ASSUME StimuliAssumption  == MaxStimuli \in Nat

VARIABLES
    kdev,       \* kernel: the devices that are present
    plugged,    \* kernel: the indices handed out so far (never used again)
    ksoft,      \* kernel: soft block of each device
    khard,      \* kernel: hard block of each device
    events,     \* kernel: events not yet read from the arbitrator's fd
    phase,      \* daemon: "down", "startup", "running" or "crashed"
    devices,    \* arbitrator->devices
    writable,   \* the devices in it whose own fd is open
    soft,       \* UrfDeviceKernel soft of each device in it
    hard,       \* UrfDeviceKernel hard
    kstate,     \* UrfKillswitch state, as D-Bus clients read it
    saved,      \* UrfKillswitch saved_state
    persist,    \* persistence_file in memory
    disk,       \* the persistence file on disk
    flight,     \* UrfDaemon flight_mode
    reply,      \* the answer to the last request
    dropped,    \* history: devices of which the start-up loop threw an event
                \* away, and of which none has been read since
    stimuli     \* how much of MaxStimuli is used

kernelVars == <<kdev, plugged, ksoft, khard>>
viewVars   == <<devices, writable, soft, hard>>
switchVars == <<kstate, saved>>
storeVars  == <<persist, disk, flight>>
vars == <<kernelVars, events, phase, viewVars, switchVars, storeVars, reply,
          dropped, stimuli>>

(***************************************************************************)
(* The kernel's side of /dev/rfkill, as the daemon uses it.                *)
(***************************************************************************)
EventOps == {"ADD", "DEL", "CHANGE"}
Event    == [op : EventOps, idx : Dev, soft : BOOLEAN, hard : BOOLEAN]

\* The daemon's fd is open: the kernel queues events for it.
Listening == phase \in {"startup", "running"}

\* S listed by type and, within a type, by index: a set with one sequence.
Listings(S) ==
    {s \in [1..Cardinality(S) -> S] :
        /\ \A d \in S : \E i \in DOMAIN s : s[i] = d
        /\ \A i, j \in DOMAIN s : i < j =>
              \/ Type[s[i]] < Type[s[j]]
              \/ Type[s[i]] = Type[s[j]] /\ s[i] < s[j]}

\* The events of kind op for the devices listed in s.
EventsFor(op, s, ks, kh) ==
    [i \in DOMAIN s |->
        [op |-> op, idx |-> s[i], soft |-> ks[s[i]], hard |-> kh[s[i]]]]

\* RFKILL_OP_CHANGE_ALL for each type in the domain of want: every device of
\* the type takes the block, and one that really changed queues an event.
\* The outcomes [ks, q] from soft blocks ks and queue q.
ChangeAll(want, ks, q) ==
    LET hit   == {d \in kdev : Type[d] \in DOMAIN want}
        after == [d \in Dev |-> IF d \in hit THEN want[Type[d]] ELSE ks[d]]
    IN  {[ks |-> after, q |-> q \o EventsFor("CHANGE", s, after, khard)] :
            s \in Listings({d \in hit : ks[d] # after[d]})}

\* A request for one type only.
Only(t, b) == [x \in {t} |-> b]
Nothing    == [x \in {} |-> FALSE]

(***************************************************************************)
(* Arbitrator and killswitch helpers                                       *)
(***************************************************************************)
DevicesOf(t, D) == {d \in D : Type[d] = t}

\* urf_killswitch_state_refresh
Refreshed(t, D, s, h) == SwitchState(DevicesOf(t, D), Platform, s, h)

\* A mistake that SwitchAvailability must find: the empty killswitch keeps
\* its saved state.
SavedAfterRefresh_Kept(t, D) == saved

\* The early return of the refresh forgets the saved state of an empty switch.
SavedAfterRefresh(t, D) ==
    IF DevicesOf(t, D) = {} THEN [saved EXCEPT ![t] = NoAdapter] ELSE saved

\* urf_killswitch_set_software_blocked calls set_soft of every device of the
\* type; the types in the domain of want are written through the devices that
\* have an fd, which then believe that the block is set.
Reached(want) == {d \in devices \cap writable : Type[d] \in DOMAIN want}
Written(want) == [t \in {Type[d] : d \in Reached(want)} |-> want[t]]

\* A mistake that ViewConverges must find: the copy changes although the
\* write failed.
SoftAfter_Unchecked(want) ==
    [d \in Dev |-> IF d \in devices /\ Type[d] \in DOMAIN want
                   THEN want[Type[d]] ELSE soft[d]]

SoftAfter(want) ==
    [d \in Dev |-> IF d \in Reached(want) THEN want[Type[d]] ELSE soft[d]]

\* A mistake that PersistedStateHolds must find: failures are forgotten.
SetOk_Always(t) == TRUE

\* The result is FALSE when one of the type's devices failed.
SetOk(t) == DevicesOf(t, devices) \subseteq writable

\* The write of want as a step of kernel and device objects.
SetBlock(want) ==
    \E r \in ChangeAll(Written(want), ksoft, events) :
        /\ ksoft'  = r.ks
        /\ events' = r.q
        /\ soft'   = SoftAfter(want)
        /\ UNCHANGED <<kdev, plugged, khard, devices, writable, hard>>

\* Both counters of a stimulus, and the two answers a silent handler gives.
Stimulus == stimuli < MaxStimuli /\ stimuli' = stimuli + 1
NoReply  == reply' = "none"
Answer(ok) == reply' = IF ok THEN "true" ELSE "false"

(***************************************************************************)
(* Steps of the kernel                                                     *)
(***************************************************************************)
Notify(op, d, s, h) ==
    events' = IF Listening
              THEN Append(events, [op |-> op, idx |-> d, soft |-> s, hard |-> h])
              ELSE events

\* A device is registered under the next index, with any blocks its driver and
\* the kernel's global state give it.
Plug(d, s, h) ==
    /\ Stimulus
    /\ d \notin plugged /\ \A e \in Dev \ plugged : d <= e
    /\ kdev' = kdev \cup {d}
    /\ plugged' = plugged \cup {d}
    /\ ksoft' = [ksoft EXCEPT ![d] = s]
    /\ khard' = [khard EXCEPT ![d] = h]
    /\ Notify("ADD", d, s, h)
    /\ NoReply
    /\ UNCHANGED <<phase, viewVars, switchVars, storeVars, dropped>>

Unplug(d) ==
    /\ Stimulus
    /\ d \in kdev
    /\ kdev' = kdev \ {d}
    /\ ksoft' = [ksoft EXCEPT ![d] = FALSE]
    /\ khard' = [khard EXCEPT ![d] = FALSE]
    /\ Notify("DEL", d, ksoft[d], khard[d])
    /\ NoReply
    /\ UNCHANGED <<plugged, phase, viewVars, switchVars, storeVars, dropped>>

\* The hardware switch moves, or a driver or another program sets the soft
\* block: one event carries the new state of both.
KernelChange(d, s, h) ==
    /\ Stimulus
    /\ d \in kdev
    /\ <<s, h>> # <<ksoft[d], khard[d]>>
    /\ ksoft' = [ksoft EXCEPT ![d] = s]
    /\ khard' = [khard EXCEPT ![d] = h]
    /\ Notify("CHANGE", d, s, h)
    /\ NoReply
    /\ UNCHANGED <<kdev, plugged, phase, viewVars, switchVars, storeVars, dropped>>

(***************************************************************************)
(* Reading an event                                                        *)
(***************************************************************************)
NextEvent(op, d) == events # <<>> /\ Head(events).op = op /\ Head(events).idx = d

\* A mistake that EventsInOrder must find: no device without its fd.
NewDevice_NeedsFd(d, fd) == IF fd THEN {d} ELSE {}

\* urf_device_kernel_new keeps a device that cannot open /dev/rfkill.
NewDevice(d, fd) == {d}

\* add_killswitch and urf_arbitrator_add_device.  The killswitch is refreshed
\* before the writes; force_sync writes the device's own block to its type,
\* and persist then writes the stored block of the type.
AddKillswitch(d, fd) ==
    LET e     == Head(events)
        t     == Type[d]
        sync  == fd /\ ForceSync /\ d \notin Platform
        keep  == fd /\ Persist
        found == [soft EXCEPT ![d] = e.soft]
    IN  IF d \in devices
        THEN /\ events' = Tail(events)
             /\ UNCHANGED <<kernelVars, viewVars, switchVars>>
        ELSE /\ devices' = devices \cup NewDevice(d, fd)
             /\ writable' = IF fd THEN writable \cup {d} ELSE writable
             /\ hard' = [hard EXCEPT ![d] = e.hard]
             /\ kstate' = [kstate EXCEPT ![t] =
                                Refreshed(t, devices', found, hard')]
             /\ \E r1 \in ChangeAll(IF sync THEN Only(t, e.soft) ELSE Nothing,
                                    ksoft, Tail(events)) :
                \E r2 \in ChangeAll(IF keep THEN Only(t, persist[t]) ELSE Nothing,
                                    r1.ks, r1.q) :
                   ksoft' = r2.ks /\ events' = r2.q
             /\ soft' = IF keep THEN [soft EXCEPT ![d] = persist[t]] ELSE found
             /\ UNCHANGED <<kdev, plugged, khard, saved>>

HandleAdd(d, fd) ==
    /\ phase = "running"
    /\ NextEvent("ADD", d)
    /\ AddKillswitch(d, fd)
    /\ NoReply
    /\ UNCHANGED <<phase, storeVars, dropped, stimuli>>

\* remove_killswitch
HandleDel(d) ==
    /\ phase = "running"
    /\ NextEvent("DEL", d)
    /\ events' = Tail(events)
    /\ IF d \in devices
       THEN LET t == Type[d]
            IN  /\ devices' = devices \ {d}
                /\ writable' = writable \ {d}
                /\ kstate' = [kstate EXCEPT ![t] = Refreshed(t, devices', soft, hard)]
                /\ saved' = SavedAfterRefresh(t, devices')
                /\ soft' = [soft EXCEPT ![d] = FALSE]
                /\ hard' = [hard EXCEPT ![d] = FALSE]
       ELSE UNCHANGED <<viewVars, switchVars>>
    /\ dropped' = dropped \ {d}
    /\ NoReply
    /\ UNCHANGED <<kernelVars, phase, storeVars, stimuli>>

\* A mistake that Quiesces must find: any unblocked event unblocks the type.
SyncRequest_AnyUnblock(d, e) ==
    CASE d \in writable /\ ForceSync /\ e.hard /\ ~e.soft -> Only(Type[d], TRUE)
      [] d \in writable /\ ForceSync /\ ~e.hard           -> Only(Type[d], FALSE)
      [] OTHER                                            -> Nothing

\* A mistake that HardBlockSticks must find: only a new hard block counts.
SyncRequest_OnEdge(d, e) ==
    CASE d \in writable /\ ForceSync /\ e.hard /\ ~hard[d] -> Only(Type[d], TRUE)
      [] d \in writable /\ ForceSync /\ hard[d] /\ ~e.hard -> Only(Type[d], FALSE)
      [] OTHER                                             -> Nothing

\* What update_killswitch writes when the state really changed: with
\* force_sync a hard block is followed by a soft block of the type, and its
\* release by an unblock.
SyncRequest(d, e) ==
    CASE d \in writable /\ ForceSync /\ e.hard /\ ~e.soft   -> Only(Type[d], TRUE)
      [] d \in writable /\ ForceSync /\ hard[d] /\ ~e.hard  -> Only(Type[d], FALSE)
      [] OTHER                                              -> Nothing

\* update_killswitch and urf_device_kernel_update_states
HandleChange(d) ==
    LET e    == Head(events)
        want == SyncRequest(d, e)
    IN  /\ phase = "running"
        /\ NextEvent("CHANGE", d)
        /\ IF d \in devices /\ <<e.soft, e.hard>> # <<soft[d], hard[d]>>
           THEN /\ hard' = [hard EXCEPT ![d] = e.hard]
                /\ soft' = [soft EXCEPT ![d] = IF Type[d] \in DOMAIN want
                                               THEN want[Type[d]] ELSE e.soft]
                /\ \E r \in ChangeAll(want, ksoft, Tail(events)) :
                      ksoft' = r.ks /\ events' = r.q
           ELSE events' = Tail(events) /\ UNCHANGED <<ksoft, soft, hard>>
        /\ dropped' = dropped \ {d}
        /\ NoReply
        /\ UNCHANGED <<kdev, plugged, khard, phase, devices, writable, switchVars,
                       storeVars, stimuli>>

(***************************************************************************)
(* Requests                                                                *)
(***************************************************************************)
\* The process ends, in phase p, and takes its memory with it: persist and
\* flight become what the next process will read from store.
Exit(p, store) ==
    /\ phase' = p
    /\ events' = <<>>
    /\ devices' = {} /\ writable' = {}
    /\ soft' = [d \in Dev |-> FALSE] /\ hard' = [d \in Dev |-> FALSE]
    /\ kstate' = [t \in Types |-> NoAdapter]
    /\ saved' = [t \in Types |-> NoAdapter]
    /\ persist' = store /\ disk' = store /\ flight' = store[RfkillAll]
    /\ dropped' = {}

\* killswitch[RFKILL_TYPE_ALL] is NULL: a request for it ends the process.
Crash == Exit("crashed", disk)

\* urf_daemon_block, for an authorised caller; urf_arbitrator_set_block stores
\* the block only when every device took it.
Block(t, b) ==
    /\ Stimulus
    /\ phase = "running"
    /\ devices # {}
    /\ t \in Types
    /\ SetBlock(Only(t, b))
    /\ persist' = IF SetOk(t) THEN [persist EXCEPT ![t] = b] ELSE persist
    /\ Answer(SetOk(t))
    /\ UNCHANGED <<phase, switchVars, disk, flight, dropped>>

BlockAll(b) ==
    /\ Stimulus
    /\ phase = "running"
    /\ devices # {}
    /\ Crash
    /\ NoReply
    /\ UNCHANGED kernelVars

\* urf_daemon_block_idx and urf_arbitrator_set_block_idx: the device writes
\* CHANGE_ALL with its type.
BlockIdx(d, b) ==
    /\ Stimulus
    /\ phase = "running"
    /\ devices # {}
    /\ IF d \in devices \cap writable
       THEN /\ \E r \in ChangeAll(Only(Type[d], b), ksoft, events) :
                  ksoft' = r.ks /\ events' = r.q
            /\ soft' = [soft EXCEPT ![d] = b]
       ELSE UNCHANGED <<ksoft, events, soft>>
    /\ Answer(d \in devices \cap writable)
    /\ UNCHANGED <<kdev, plugged, khard, phase, devices, writable, hard, switchVars,
                   storeVars, dropped>>

\* A request while the daemon knows no device goes to "out" and is never
\* answered.
RequestWithoutDevices ==
    /\ Stimulus
    /\ phase = "running"
    /\ devices = {}
    /\ reply' = "silent"
    /\ UNCHANGED <<kernelVars, events, phase, viewVars, switchVars, storeVars, dropped>>

\* Mistakes that FlightModeRoundTrip (a type that was blocked before is
\* unblocked) and FlightModeSilences (the saved state also counts on the way in)
\* must find.
FlightRequest_Forgets(t, st, b) == b
FlightRequest_BothWays(t, st, b) ==
    IF st = saved[t] THEN CountsAsBlocked(saved[t]) ELSE b

\* The block that set_flight_mode requests for a type whose state is st.
FlightRequest(t, st, b) ==
    IF ~b /\ st = saved[t] THEN CountsAsBlocked(saved[t]) ELSE b

\* A mistake that FlightFlagPersisted must find: only the types are stored.
FlightStore_TypesOnly(want, b) ==
    [t \in Types \cup {RfkillAll} |->
        IF t \in DOMAIN want /\ SetOk(t) THEN want[t] ELSE persist[t]]

\* What set_flight_mode stores: the mode, and the block of each type it set.
FlightStore(want, b) ==
    [t \in Types \cup {RfkillAll} |->
        IF t = RfkillAll THEN b
        ELSE IF t \in DOMAIN want /\ SetOk(t) THEN want[t] ELSE persist[t]]

\* urf_daemon_flight_mode and urf_arbitrator_set_flight_mode: one pass over
\* the types; the answer is the result of the last type that has devices.
FlightMode(b) ==
    LET now     == [t \in Types |-> Refreshed(t, devices, soft, hard)]
        present == {t \in Types : now[t] # NoAdapter}
        want    == [t \in present |-> FlightRequest(t, now[t], b)]
        ok      == \E t \in present : SetOk(t) /\ \A u \in present : u <= t
    IN  /\ Stimulus
        /\ phase = "running"
        /\ devices # {}
        /\ SetBlock(want)
        /\ kstate' = now
        /\ saved' = [t \in Types |-> IF t \notin present THEN NoAdapter
                                     ELSE IF b THEN now[t] ELSE saved[t]]
        /\ persist' = FlightStore(want, b)
        /\ flight' = IF ok THEN b ELSE flight
        /\ Answer(ok)
        /\ UNCHANGED <<phase, disk, dropped>>

\* urf_daemon_input_event_cb, when the session checker does not inhibit it:
\* the key toggles its type; the state of "all" is that of WLAN.
KeyPress(k) ==
    LET t  == IF k = RfkillAll THEN RfkillWlan ELSE k
        st == Refreshed(t, devices, soft, hard)
        b  == st # SoftBlocked
    IN  /\ Stimulus
        /\ phase = "running"
        /\ k \in KeyTypes
        /\ NoReply
        /\ IF st # NoAdapter /\ (k = RfkillAll \/ MasterKey)
           THEN Crash /\ UNCHANGED kernelVars
           ELSE /\ kstate' = [kstate EXCEPT ![t] = st]
                /\ saved' = SavedAfterRefresh(t, devices)
                /\ IF st = NoAdapter
                   THEN UNCHANGED <<kernelVars, events, viewVars, persist>>
                   ELSE /\ SetBlock(Only(t, b))
                        /\ persist' = IF SetOk(t) THEN [persist EXCEPT ![t] = b]
                                                  ELSE persist
                /\ UNCHANGED <<phase, disk, flight, dropped>>

(***************************************************************************)
(* The life of the process                                                 *)
(***************************************************************************)
\* urf_arbitrator_startup opens the fd: the kernel queues ADD for every device
\* that is present.  urf_config_init has read the file and urf_daemon_new the
\* flight mode; set_flight_mode, called while no device is known, sets nothing.
Start ==
    /\ phase \in {"down", "crashed"}
    /\ phase' = "startup"
    /\ \E s \in Listings(kdev) : events' = EventsFor("ADD", s, ksoft, khard)
    /\ NoReply
    /\ UNCHANGED <<kernelVars, viewVars, switchVars, storeVars, dropped, stimuli>>

\* The read loop of urf_arbitrator_startup adds devices ...
StartupAdd(d) ==
    /\ phase = "startup"
    /\ NextEvent("ADD", d)
    /\ AddKillswitch(d, TRUE)
    /\ NoReply
    /\ UNCHANGED <<phase, storeVars, dropped, stimuli>>

\* ... and skips every other event.
StartupSkip(d) ==
    /\ phase = "startup"
    /\ NextEvent("DEL", d) \/ NextEvent("CHANGE", d)
    /\ events' = Tail(events)
    /\ dropped' = dropped \cup {d}
    /\ NoReply
    /\ UNCHANGED <<kernelVars, phase, viewVars, switchVars, storeVars, stimuli>>

\* The queue is empty: with persist every type is set to its stored state.
StartupDone ==
    /\ phase = "startup"
    /\ events = <<>>
    /\ phase' = "running"
    /\ IF Persist THEN SetBlock([t \in Types |-> persist[t]])
                  ELSE UNCHANGED <<kernelVars, events, viewVars>>
    /\ NoReply
    /\ UNCHANGED <<switchVars, storeVars, dropped, stimuli>>

\* A clean end: urf_arbitrator_dispose stores the state of every killswitch,
\* urf_config_finalize writes the file, or warns and the old one stays.
Shutdown(written) ==
    LET now   == [t \in Types |-> Refreshed(t, devices, soft, hard)]
        store == [t \in Types \cup {RfkillAll} |->
                    IF Persist /\ t # RfkillAll THEN CountsAsBlocked(now[t])
                                                ELSE persist[t]]
    IN  /\ Stimulus
        /\ phase = "running"
        /\ Exit("down", IF written THEN store ELSE disk)
        /\ NoReply
        /\ UNCHANGED kernelVars

\* The process is killed: nothing is saved.
Kill ==
    /\ Stimulus
    /\ Listening
    /\ Exit("down", disk)
    /\ NoReply
    /\ UNCHANGED kernelVars

(***************************************************************************)
(* The specification                                                       *)
(***************************************************************************)
\* The machine has booted; the persistence file is one that earlier sessions
\* left.
Init ==
    /\ kdev = BootDev
    /\ plugged = BootDev
    /\ \E s, h \in [BootDev -> BOOLEAN] :
        /\ ksoft = [d \in Dev |-> d \in BootDev /\ s[d]]
        /\ khard = [d \in Dev |-> d \in BootDev /\ h[d]]
    /\ events = <<>>
    /\ phase = "down"
    /\ devices = {}
    /\ writable = {}
    /\ soft = [d \in Dev |-> FALSE]
    /\ hard = [d \in Dev |-> FALSE]
    /\ kstate = [t \in Types |-> NoAdapter]
    /\ saved = [t \in Types |-> NoAdapter]
    /\ disk \in [Types \cup {RfkillAll} -> BootStored]
    /\ persist = disk
    /\ flight = disk[RfkillAll]
    /\ reply = "none"
    /\ dropped = {}
    /\ stimuli = 0

Kernel ==
    \E d \in Dev :
        \/ \E s, h \in BOOLEAN : Plug(d, s, h) \/ KernelChange(d, s, h)
        \/ Unplug(d)

\* event_cb: the next event of the queue.
HandleEvent ==
    \E d \in Dev :
        \/ \E fd \in HotplugFd : HandleAdd(d, fd)
        \/ HandleDel(d)
        \/ HandleChange(d)

StartupStep ==
    \/ \E d \in Dev : StartupAdd(d) \/ StartupSkip(d)
    \/ StartupDone

SwitchRequest ==
    \/ \E b \in BOOLEAN :
        \/ \E t \in Types : Block(t, b)
        \/ BlockAll(b)
        \/ \E d \in Dev : BlockIdx(d, b)
    \/ \E k \in KeyTypes : KeyPress(k)
    \/ RequestWithoutDevices

Request == SwitchRequest \/ \E b \in BOOLEAN : FlightMode(b)

Process == Start \/ Kill \/ \E written \in BOOLEAN : Shutdown(written)

Next == Kernel \/ HandleEvent \/ StartupStep \/ Request \/ Process

Spec == Init /\ [][Next]_vars

\* The main loop does not sleep while events wait, nor does the start-up loop.
FairSpec == Spec /\ WF_vars(HandleEvent) /\ WF_vars(StartupStep)

(***************************************************************************)
(* Properties                                                              *)
(***************************************************************************)
\* Every variable has its type; a process that does not run keeps nothing.
TypeOK ==
    /\ kdev \subseteq plugged /\ plugged \subseteq Dev
    /\ ksoft \in [Dev -> BOOLEAN] /\ khard \in [Dev -> BOOLEAN]
    /\ events \in Seq(Event)
    /\ \A i \in DOMAIN events : events[i].idx \in plugged
    /\ phase \in {"down", "startup", "running", "crashed"}
    /\ devices \subseteq plugged /\ writable \subseteq devices
    /\ soft \in [Dev -> BOOLEAN] /\ hard \in [Dev -> BOOLEAN]
    /\ kstate \in [Types -> KillswitchStates]
    /\ saved \in [Types -> KillswitchStates]
    /\ persist \in [Types \cup {RfkillAll} -> BOOLEAN]
    /\ disk \in [Types \cup {RfkillAll} -> BOOLEAN]
    /\ flight \in BOOLEAN
    /\ reply \in {"none", "true", "false", "silent"}
    /\ dropped \subseteq plugged
    /\ ~Listening => events = <<>> /\ devices = {} /\ dropped = {}
    /\ stimuli \in 0..MaxStimuli

\* Event e tells the truth about the device it names.
Current(e) ==
    IF e.idx \in kdev
    THEN e.op # "DEL" /\ e.soft = ksoft[e.idx] /\ e.hard = khard[e.idx]
    ELSE e.op = "DEL"

\* What the daemon will believe of a device when it has read the queue is what
\* the kernel has: an event that is not current is followed by another one for
\* its device, and the daemon's copy of a device with no event left is exact.
\* Only a device of which the start-up loop skipped an event is excepted, until
\* the next event of it is read, and even that one is known when it is present.
ViewConverges ==
    Listening =>
        /\ \A i \in DOMAIN events :
              \/ Current(events[i])
              \/ \E j \in DOMAIN events : j > i /\ events[j].idx = events[i].idx
        /\ \A d \in Dev :
              (\A i \in DOMAIN events : events[i].idx # d) =>
                  /\ d \in kdev => d \in devices
                  /\ d \in devices \ dropped =>
                        /\ d \in kdev
                        /\ soft[d] = ksoft[d] /\ hard[d] = khard[d]

\* The daemon never has to doubt an event: ADD is the first of its device and
\* names one that is not in the list, any other names one that is, or that an
\* earlier event adds, and nothing follows DEL.  The branches for an unknown
\* and for a known index are never taken.
EventsInOrder ==
    \A i \in DOMAIN events :
        LET Same(j) == events[j].idx = events[i].idx
            e       == events[i]
        IN  /\ e.op = "ADD" => /\ e.idx \notin devices
                               /\ \A j \in DOMAIN events : j < i => ~Same(j)
            /\ e.op # "ADD" => \/ e.idx \in devices
                               \/ \E j \in DOMAIN events :
                                    j < i /\ Same(j) /\ events[j].op = "ADD"
            /\ e.op = "DEL" => \A j \in DOMAIN events : j > i => ~Same(j)

\* When the daemon can write through each device it knows, a request to enter
\* flight mode soft-blocks every radio of every type it knows, whatever state
\* its own copies and saved states are in, also those not yet announced to it.
FlightModeSilences ==
    [][FlightMode(TRUE) /\ devices = writable =>
        \A d \in kdev : DevicesOf(Type[d], devices) # {} => ksoft'[d]]_vars

\* A killswitch is "not available" to clients exactly while the daemon knows no
\* device of its type, and an absent one keeps no state to come back to.
SwitchAvailability ==
    \A t \in Types :
        /\ kstate[t] = NoAdapter <=> DevicesOf(t, devices) = {}
        /\ DevicesOf(t, devices) = {} => saved[t] = NoAdapter
=============================================================================
