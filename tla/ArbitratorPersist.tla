------------------------- MODULE ArbitratorPersist -------------------------
(***************************************************************************)
(* The promise of "persist": what was last asked of a type is what all its *)
(* devices have, also devices found later, and it survives a clean restart.*)
(* Two history variables record what may be expected of each type.         *)
(***************************************************************************)
EXTENDS Arbitrator

VARIABLES
    settled,   \* types no one has changed but by a request that succeeded
    left       \* the state of each type at the last clean end that wrote the
               \* file, or NoAdapter when something has changed the type since

pvars == <<vars, settled, left>>

Settle(S) == settled' = (settled \ S) \cup {t \in S : SetOk(t)}
Unsettle(S) == settled' = settled \ S

\* Types one of whose present devices gets another soft block, or which get a
\* device.
Moved == {Type[d] : d \in {x \in kdev' : x \notin kdev \/ ksoft'[x] # ksoft[x]}}

PInit ==
    /\ Init
    /\ settled = {}
    /\ left = [t \in Types |-> NoAdapter]

\* A device that cannot be plugged in yet is nobody's business until its ADD
\* event is read, so only a change of a known device unsettles its type.
PKernel ==
    /\ Kernel
    /\ Unsettle({Type[d] : d \in {x \in kdev \cap kdev' : ksoft'[x] # ksoft[x]}})
    /\ left' = [t \in Types |-> IF t \in Moved THEN NoAdapter ELSE left[t]]

PHandleEvent ==
    /\ \E d \in Dev :
        \/ \E fd \in HotplugFd :
            /\ HandleAdd(d, fd)
            /\ settled' = IF d \in devices THEN settled
                          ELSE IF fd /\ Persist THEN settled \cup {Type[d]}
                          ELSE settled \ {Type[d]}
        \/ HandleDel(d) /\ UNCHANGED settled
        \/ /\ HandleChange(d)
           /\ Unsettle(DOMAIN SyncRequest(d, Head(events)))
    /\ UNCHANGED left

PRequest ==
    /\ \E b \in BOOLEAN :
        \/ \E t \in Types : Block(t, b) /\ Settle({t})
        \/ BlockAll(b) /\ settled' = {}
        \/ \E d \in Dev : BlockIdx(d, b) /\ Unsettle({Type[d]})
        \/ FlightMode(b) /\ Settle({Type[d] : d \in devices})
        \/ \E k \in KeyTypes :
            /\ KeyPress(k)
            /\ IF phase' = "crashed" THEN settled' = {} ELSE Settle({k})
        \/ RequestWithoutDevices /\ UNCHANGED settled
    /\ UNCHANGED left

PStartupStep ==
    \/ /\ \E d \in Dev : StartupAdd(d) \/ StartupSkip(d)
       /\ UNCHANGED <<settled, left>>
    \/ /\ StartupDone
       /\ settled' = IF Persist THEN Types ELSE {}
       /\ left' = [t \in Types |-> NoAdapter]

PProcess ==
    \/ Start /\ UNCHANGED <<settled, left>>
    \/ /\ Shutdown(TRUE)
       /\ settled' = {}
       /\ left' = [t \in Types |-> IF events = <<>>
                                   THEN Refreshed(t, devices, soft, hard)
                                   ELSE NoAdapter]
    \/ Shutdown(FALSE) /\ settled' = {} /\ UNCHANGED left
    \/ Kill /\ settled' = {} /\ UNCHANGED left

PNext == PKernel \/ PHandleEvent \/ PRequest \/ PStartupStep \/ PProcess

PSpec == PInit /\ [][PNext]_pvars

\* Every known device of a settled type has the stored block of the type: a
\* stored state is never one that only some of the devices took.
PersistedStateHolds ==
    Persist /\ phase = "running" =>
        \A d \in devices \cap kdev :
            Type[d] \in settled => ksoft[d] = persist[Type[d]]

\* After a clean end that wrote its file and with no change from outside, the next start leaves
\* every device of a type blocked when the type was blocked (by software or by
\* hardware) and unblocked when it was not.
CleanRestartRestores ==
    [][StartupDone /\ Persist =>
        \A d \in kdev :
            left[Type[d]] # NoAdapter =>
                (ksoft'[d] <=> left[Type[d]] \in {SoftBlocked, HardBlocked})]_pvars
=============================================================================
