-------------------------- MODULE ArbitratorSync ---------------------------
(***************************************************************************)
(* "force_sync" answers events with writes, and every write makes new      *)
(* events.  The history variable records the devices whose soft block is   *)
(* off because somebody asked for that.                                    *)
(***************************************************************************)
EXTENDS Arbitrator

VARIABLE released    \* known devices left unblocked by a request, or found so

svars == <<vars, released>>

SInit == Init /\ released = {}

SNext ==
    \/ /\ Request
       /\ released' = {d \in devices' : ~soft'[d]}
    \/ /\ Kernel \/ HandleEvent \/ StartupStep \/ Process
       /\ released' = {d \in devices' : ~soft'[d] /\ (d \in released \/ d \notin devices)}

SSpec == SInit /\ [][SNext]_svars /\ WF_vars(HandleEvent) /\ WF_vars(StartupStep)

\* Once the queue is read, a device with a hard block also has a soft block,
\* unless a request (or the device's arrival) took it off after the event that
\* announced the hard block: releasing the switch of one device of the type does
\* not leave another one unblocked behind its hard block.
HardBlockSticks ==
    ForceSync /\ phase = "running" /\ events = <<>> =>
        \A d \in (kdev \cap writable) \ (released \cup dropped) :
            khard[d] => ksoft[d]

\* Writes that answer events do not feed each other for ever: when the devices
\* and the clients come to rest, so does the daemon.
Quiesces == <>[](events = <<>>)
=============================================================================
