------------------------- MODULE ArbitratorFlight --------------------------
(***************************************************************************)
(* Flight mode as a round trip, and the flag of it that clients are told.  *)
(* A history variable records, for each type, the state in which flight    *)
(* mode was last entered, as long as nothing else has touched the type     *)
(* since; another one which devices made the last request fail.            *)
(***************************************************************************)
EXTENDS Arbitrator

VARIABLES
    before,    \* the state of each type at entry, or NoAdapter
    refusing   \* at the last flight mode request of this process, the devices
               \* of the last type that has any which could not be written

fvars == <<vars, before, refusing>>

FInit == Init /\ before = [t \in Types |-> NoAdapter] /\ refusing = {}

\* What the daemon and the kernel have of device d.
Facts(d) == <<d \in devices, soft[d], hard[d], d \in kdev, ksoft[d], khard[d]>>

FOther ==
    /\ Kernel \/ HandleEvent \/ StartupStep \/ SwitchRequest \/ Process
    /\ before' = [t \in Types |->
                    IF \E d \in Dev : Type[d] = t /\ Facts(d)' # Facts(d)
                    THEN NoAdapter ELSE before[t]]
    /\ refusing' = IF Listening' THEN refusing ELSE {}

FFlightMode(b) ==
    /\ FlightMode(b)
    /\ before' = [t \in Types |-> IF b /\ SetOk(t)
                                  THEN Refreshed(t, devices, soft, hard)
                                  ELSE NoAdapter]
    /\ refusing' = {d \in devices \ writable : \A e \in devices : Type[e] <= Type[d]}

FNext == FOther \/ \E b \in BOOLEAN : FFlightMode(b)

FSpec == FInit /\ [][FNext]_fvars

\* Entering flight mode and leaving it again, with nothing else in between
\* (events that only echo the daemon's own writes may be read), blocks the
\* types that were soft blocked and unblocks those that were not.
FlightModeRoundTrip ==
    [][FlightMode(FALSE) =>
        \A d \in devices \cap kdev :
            before[Type[d]] \in {Unblocked, SoftBlocked} =>
                (ksoft'[d] <=> before[Type[d]] = SoftBlocked)]_fvars

\* The flight mode that clients are told and the one that is stored are one and
\* the same through requests, failing writes, stops and restarts.  They part
\* only when a device of the last type refused the last request, which stores
\* the mode first and takes the last type's result for that of all.
FlightFlagPersisted == flight # persist[RfkillAll] => refusing # {}
=============================================================================
