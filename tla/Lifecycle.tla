----------------------------- MODULE Lifecycle -----------------------------
(***************************************************************************)
(* The life of urfkilld's processes: start-up step by step, the name on    *)
(* the bus, signals, polkit's question, and the end in which the states    *)
(* are stored and the file is written.                                     *)
(*                                                                         *)
(* Nothing keeps two processes from running at once: an administrator      *)
(* starts one beside another, or the bus starts one as soon as the one     *)
(* that ends has given up its name.  The name decides which of them stays, *)
(* but only when its main loop runs, long after it has read the file and   *)
(* set the radios.  All of them share the kernel and the file.             *)
(*                                                                         *)
(* One rfkill type stands for all of them, and its devices for one radio.  *)
(* What a handler does to devices and killswitches is Arbitrator's.        *)
(***************************************************************************)
EXTENDS Naturals

CONSTANTS
  Proc,          \* the processes; one that has ended may be started again
  Nobody,        \* not a process
  Persist,       \* the options of urfkill.conf ...
  KeyControl,
  OtherUser,     \* ... and whether its user is another one than root
  Modems,        \* may oFono have announced a modem when a process ends?
  MaxStimuli     \* bound: launches, signals, kills, requests, outside changes

ASSUME ProcAssumption == Nobody \notin Proc
ASSUME OptionsAssumption ==
  /\ Persist \in BOOLEAN /\ KeyControl \in BOOLEAN /\ OtherUser \in BOOLEAN
  /\ Modems \in BOOLEAN
ASSUME StimuliAssumption == MaxStimuli \in Nat

VARIABLES
  radio,     \* kernel: the type's devices
  file,      \* the type's entry in the persistence file
  owner,     \* the bus: who has the name org.freedesktop.URfkill
  waiting,   \* the bus: who waits for it
  proc,      \* the processes
  due,       \* what the last process to write the file left the radio in
  stimuli    \* how much of MaxStimuli is used

vars == <<radio, file, owner, waiting, proc, due, stimuli>>

Radios == {"absent", "free", "blocked"}
Unknown == "unknown"
\* The stages of main(): "down" is no process; the file is read, the radio open,
\* the start-up complete, the main loop running, polkit asked; the loop left,
\* the name given up, the daemon disposed of.
Stages == {"down", "loaded", "opened", "ready", "running", "asking",
           "leaving", "unnamed", "disposed"}
Requests == [block : BOOLEAN, stored : BOOLEAN]
NoRequest == [block |-> FALSE, stored |-> FALSE]

Process == [stage : Stages,
            table : BOOLEAN,                  \* persistence_file, in memory
            view : Radios,                    \* the arbitrator's copy of the devices
            open : BOOLEAN,                   \* it listens to /dev/rfkill ...
            news : {"none", "change", "add"}, \* ... what it has yet to read there
            stores : BOOLEAN,                 \* the arbitrator's persist
            name : {"unasked", "held", "lost"},
            told : BOOLEAN,                   \* a signal or timer waits for the loop
            want : Requests,
            left : Radios \cup {Unknown}]     \* the radio when it left its loop

Down == [stage |-> "down", table |-> FALSE, view |-> "absent", open |-> FALSE,
         news |-> "none", stores |-> FALSE, name |-> "unasked", told |-> FALSE,
         want |-> NoRequest, left |-> Unknown]

Blocked(r) == r = "blocked"
Written(r, b) == IF r = "absent" THEN r ELSE IF b THEN "blocked" ELSE "free"

(***************************************************************************)
(* Steps of the machine                                                    *)
(***************************************************************************)
Stimulus == stimuli < MaxStimuli /\ stimuli' = stimuli + 1

\* The kernel queues an event for every open file descriptor.
Informed(r, new) ==
  IF ~r.open \/ new = radio THEN r
  ELSE [r EXCEPT !.news = IF radio = "absent" \/ @ = "add" THEN "add" ELSE "change"]

\* The radio becomes new while process p becomes r.
Step(p, r, new) ==
  /\ radio' = new
  /\ proc' = [q \in Proc |-> Informed(IF q = p THEN r ELSE proc[q], new)]

Becomes(p, r) == proc' = [proc EXCEPT ![p] = r] /\ UNCHANGED radio

\* Another program or the driver blocks the radio; it is plugged or unplugged.
Outside(new) ==
  /\ Stimulus
  /\ new # radio
  /\ radio' = new
  /\ proc' = [q \in Proc |-> Informed(proc[q], new)]
  /\ UNCHANGED <<file, owner, waiting, due>>

\* A signal that ends the process, or a timer of the command line: the main loop
\* will see it, once it runs.
Signal(p) ==
  /\ Stimulus
  /\ proc[p].stage \in {"loaded", "opened", "ready", "running", "asking"}
  /\ Becomes(p, [proc[p] EXCEPT !.told = TRUE])
  /\ UNCHANGED <<file, owner, waiting, due>>

\* The bus passes the name that p gives up, or whose connection closes, to one of
\* those that wait.
Heirs(p) == IF owner # p THEN {owner} ELSE IF waiting = {} THEN {Nobody} ELSE waiting

\* A mistake that TypeOK must find: p keeps its place among them.
WithoutName_Waiting(p) == owner' \in Heirs(p) /\ waiting' = waiting \ {owner'}

WithoutName(p) == owner' \in Heirs(p) /\ waiting' = waiting \ {p, owner'}

\* The process is killed, or a fatal error ends it: nothing is stored.
Kill(p) ==
  /\ Stimulus
  /\ proc[p].stage # "down"
  /\ Becomes(p, Down)
  /\ WithoutName(p)
  /\ UNCHANGED <<file, due>>

(***************************************************************************)
(* Start-up: main, urf_daemon_startup                                      *)
(***************************************************************************)
Quiet == UNCHANGED <<file, owner, waiting, due, stimuli>>

\* urf_config_new and urf_config_load_from_file
Launch(p) ==
  /\ Stimulus
  /\ proc[p].stage = "down"
  /\ Becomes(p, [Down EXCEPT !.stage = "loaded", !.table = file])
  /\ UNCHANGED <<file, owner, waiting, due>>

\* What a process keeps of the radio when it leaves its main loop, or gives up
\* before, for the property: the kernel's truth, if it has read all of it.
Left(r) == IF r.open /\ r.stores /\ r.news = "none" THEN radio ELSE Unknown

Leaves(p) == Becomes(p, [proc[p] EXCEPT !.stage = "leaving", !.left = Left(proc[p])])

\* urf_arbitrator_startup: devices that are present are found and, with persist,
\* set to the stored state.
OpenRadio(p) ==
  LET new == IF Persist THEN Written(radio, proc[p].table) ELSE radio
  IN  /\ proc[p].stage = "loaded"
      /\ Step(p, [proc[p] EXCEPT !.stage = "opened", !.open = TRUE,
                                 !.stores = Persist, !.view = new], new)
      /\ Quiet

\* It has set priv->persist when /dev/rfkill cannot be opened.
OpenFails(p) ==
  /\ proc[p].stage = "loaded"
  /\ Becomes(p, [proc[p] EXCEPT !.stage = "leaving", !.stores = Persist])
  /\ Quiet

\* What the rest of the start-up may not find: a hotkey device that can be opened,
\* the login manager's seats, the user and their groups.
InputMayFail   == KeyControl
CheckerMayFail == KeyControl
UserMayFail    == OtherUser

\* All of it is found ...
Prepare(p) ==
  /\ proc[p].stage = "opened"
  /\ Becomes(p, [proc[p] EXCEPT !.stage = "ready"])
  /\ Quiet

\* ... or the daemon gives up, with the radio open and perhaps changed.
PrepareFails(p) ==
  /\ InputMayFail \/ CheckerMayFail \/ UserMayFail
  /\ proc[p].stage = "opened"
  /\ Leaves(p)
  /\ Quiet

\* A mistake that StopsWhenTold must find: to quit a loop that does
\* not run yet has no effect.
RunLoop_Forgets(p) ==
  /\ proc[p].stage = "ready"
  /\ Becomes(p, [proc[p] EXCEPT !.stage = "running", !.told = FALSE])
  /\ Quiet

\* g_main_loop_run: only now is a waiting signal dispatched.
RunLoop(p) ==
  /\ proc[p].stage = "ready"
  /\ Becomes(p, [proc[p] EXCEPT !.stage = "running"])
  /\ Quiet

(***************************************************************************)
(* The main loop                                                           *)
(***************************************************************************)
\* g_bus_own_name has asked for the connection, whose callback asks for the name:
\* the first process has it, another one waits and is told that it lost it.
RequestName(p) ==
  /\ proc[p].stage = "running" /\ proc[p].name = "unasked"
  /\ Becomes(p, [proc[p] EXCEPT !.name = IF owner = Nobody THEN "held" ELSE "lost"])
  /\ IF owner = Nobody THEN owner' = p /\ UNCHANGED waiting
                       ELSE waiting' = waiting \cup {p} /\ UNCHANGED owner
  /\ UNCHANGED <<file, due, stimuli>>

\* A mistake that ServesOrEnds must find: a warning is all.
NameLost_Warns(p) ==
  /\ proc[p].stage = "running" /\ proc[p].name = "lost"
  /\ Becomes(p, [proc[p] EXCEPT !.name = "held"])
  /\ Quiet

\* on_name_lost
NameLost(p) ==
  /\ proc[p].stage = "running" /\ proc[p].name = "lost"
  /\ Leaves(p)
  /\ Quiet

\* urf_main_signal_cb, urf_main_timed_exit_cb
HandleSignal(p) ==
  /\ proc[p].stage = "running" /\ proc[p].told
  /\ Leaves(p)
  /\ Quiet

\* event_cb reads all that waits.  With persist a device that was added gets the
\* stored state, and the events that follow it in the queue end with that write.
AfterEvents(r) == IF r.news = "add" /\ Persist THEN Written(radio, r.table) ELSE radio

ReadEvents(p) ==
  LET r == proc[p]
  IN  /\ r.news # "none"
      /\ Step(p, [r EXCEPT !.news = "none", !.view = AfterEvents(r)], AfterEvents(r))
      /\ Quiet

\* A mistake that AskedAboutADevice must find: polkit is asked without
\* waiting, and events are read before it answers.
HandleEvents_Async(p) == proc[p].stage \in {"running", "asking"} /\ ReadEvents(p)

HandleEvents(p) == proc[p].stage = "running" /\ ReadEvents(p)

\* urf_polkit_check_auth: the sender's subject is asked about, in a call that only
\* returns with the answer.
Asks(r, want) == [r EXCEPT !.stage = "asking", !.want = want]

\* urf_daemon_block and urf_daemon_block_idx look whether there is a device and
\* ask polkit; nothing else is handled until it answers.  A request while there is
\* none is not answered and changes nothing.
Ask(p, want) ==
  /\ Stimulus
  /\ proc[p].stage = "running" /\ owner = p
  /\ proc[p].view # "absent"
  /\ Becomes(p, Asks(proc[p], want))
  /\ UNCHANGED <<file, owner, waiting, due>>

\* The block of a type is stored, that of one device is not.
Granted(p) ==
  LET r == proc[p]
  IN  /\ r.stage = "asking"
      /\ Step(p, [r EXCEPT !.stage = "running", !.want = NoRequest,
                           !.view = Written(@, r.want.block),
                           !.table = IF r.want.stored THEN r.want.block ELSE @],
                 Written(radio, r.want.block))
      /\ Quiet

Denied(p) ==
  /\ proc[p].stage = "asking"
  /\ Becomes(p, [proc[p] EXCEPT !.stage = "running", !.want = NoRequest])
  /\ Quiet

(***************************************************************************)
(* The end: main from "out" on                                             *)
(***************************************************************************)
\* g_bus_unown_name
Release(p) ==
  /\ proc[p].stage = "leaving"
  /\ Becomes(p, [proc[p] EXCEPT !.stage = "unnamed"])
  /\ WithoutName(p)
  /\ UNCHANGED <<file, due, stimuli>>

\* A mistake that FileTellsRadio must find: the last request counts.
Stored_Request(r) == r.table

\* urf_arbitrator_dispose: what the killswitches say, when the daemon persists.
Stored(r) == IF r.stores THEN Blocked(r.view) ELSE r.table

\* urf_daemon_dispose: the arbitrator's reference on the configuration goes after
\* the states are stored.
Dispose(p) ==
  /\ proc[p].stage = "unnamed"
  /\ Becomes(p, [proc[p] EXCEPT !.stage = "disposed", !.open = FALSE, !.news = "none",
                                !.table = Stored(proc[p])])
  /\ Quiet

\* A modem that is still listed is unreferenced once too often (by the oFono
\* manager, the killswitch and the arbitrator): the process may not survive it.
DisposeFails(p) ==
  /\ Modems
  /\ proc[p].stage = "unnamed" /\ proc[p].open
  /\ Becomes(p, Down)
  /\ Quiet

\* urf_config_finalize writes the file, if the user may.
Save(p) ==
  /\ proc[p].stage = "disposed"
  /\ Becomes(p, Down)
  /\ \/ file' = proc[p].table /\ due' = proc[p].left
     \/ OtherUser /\ UNCHANGED <<file, due>>
  /\ UNCHANGED <<owner, waiting, stimuli>>

(***************************************************************************)
(* The specification                                                       *)
(***************************************************************************)
Init ==
  /\ radio \in Radios /\ file \in BOOLEAN
  /\ owner = Nobody /\ waiting = {}
  /\ proc = [p \in Proc |-> Down]
  /\ due = Unknown
  /\ stimuli = 0

Starting(p) == OpenRadio(p) \/ OpenFails(p) \/ Prepare(p) \/ PrepareFails(p) \/ RunLoop(p)
Looping(p) == RequestName(p) \/ NameLost(p) \/ HandleSignal(p) \/ HandleEvents(p)
Answered(p) == Granted(p) \/ Denied(p)
Ending(p) == Release(p) \/ Dispose(p) \/ DisposeFails(p) \/ Save(p)

\* What a process does without being asked for it.
Goes(p) == Starting(p) \/ Looping(p) \/ Answered(p) \/ Ending(p)

Next ==
  \/ \E new \in Radios : Outside(new)
  \/ \E p \in Proc :
       \/ Launch(p) \/ Signal(p) \/ Kill(p) \/ Goes(p)
       \/ \E want \in Requests : Ask(p, want)

Spec == Init /\ [][Next]_vars
\* A process that can go on does, and polkit answers.
FairSpec == Spec /\ \A p \in Proc : WF_vars(Goes(p))

(***************************************************************************)
(* Properties                                                              *)
(***************************************************************************)
\* Types, and what ties the bus to the processes: the name and the queue are
\* those of processes that asked for it in their main loop.
TypeOK ==
  /\ radio \in Radios /\ file \in BOOLEAN
  /\ owner \in Proc \cup {Nobody} /\ waiting \subseteq Proc \ {owner}
  /\ proc \in [Proc -> Process]
  /\ due \in Radios \cup {Unknown}
  /\ stimuli \in 0..MaxStimuli
  /\ \A p \in Proc :
       (p = owner \/ p \in waiting) =>
          /\ proc[p].name # "unasked"
          /\ proc[p].stage \in {"running", "asking", "leaving"}

\* The daemon looks whether it knows a device before it asks polkit, which may
\* take as long as the user thinks, and does not look again: it still knows one
\* when the answer comes (src/src/urf-daemon.c:239-248).
AskedAboutADevice ==
  \A p \in Proc : proc[p].stage = "asking" => proc[p].view # "absent"

\* The file tells what the radio was in when the process that wrote it last left
\* its main loop or gave up its start-up, whatever was asked for meanwhile, if
\* that process had no event left to read: nothing that other programs did to the
\* radio is lost (src/src/urf-arbitrator.c:654-660, src/src/urf-config.c:880-886).
FileTellsRadio == due # Unknown => (file <=> Blocked(due))

\* Of any number of processes, each comes to have the name or ends; none stays
\* behind another one for ever (src/src/urf-main.c:48-55).
ServesOrEnds ==
  \A p \in Proc : proc[p].stage = "loaded" ~> (owner = p \/ proc[p].stage = "down")

\* A signal ends the process also when it arrives during start-up, while the name
\* is asked for or while polkit is (src/src/urf-main.c:202-212).
StopsWhenTold == \A p \in Proc : proc[p].told ~> proc[p].stage = "down"
=============================================================================
