-------------------------- MODULE KillswitchState --------------------------
(***************************************************************************)
(* The state of a killswitch (all the rfkill devices of one type) as a     *)
(* function of the soft and hard blocks of its devices.  Pure operators:   *)
(* event_to_state of urf-utils.c and the loop of                           *)
(* urf_killswitch_state_refresh of urf-killswitch.c.                       *)
(***************************************************************************)
EXTENDS Integers

\* enum KillswitchState: the code compares its members with < and >.
NoAdapter   == -1
Unblocked   == 0
SoftBlocked == 1
HardBlocked == 2

KillswitchStates == {NoAdapter, Unblocked, SoftBlocked, HardBlocked}

\* A mistake that TypeOK must find: the blocks as bits of a mask.
EventToState_Mask(soft, hard) ==
    (IF hard THEN HardBlocked ELSE 0) + (IF soft THEN SoftBlocked ELSE 0)

\* The state of one device: a hard block hides a soft one.
EventToState(soft, hard) ==
    IF hard THEN HardBlocked ELSE IF soft THEN SoftBlocked ELSE Unblocked

\* What "if (state > max) max = state" leaves after a loop over S that starts
\* from NoAdapter.
Highest(S) ==
    CHOOSE m \in S \cup {NoAdapter} : \A x \in S \cup {NoAdapter} : x <= m

\* A blocked platform switch decides; an unblocked one defers to the others.
AggregateStates(platform, nonPlatform) ==
    IF platform = Unblocked /\ nonPlatform # NoAdapter THEN nonPlatform
                                                       ELSE platform

\* The state of a killswitch with the set D of devices; P are the platform
\* devices, soft and hard the blocks of each device.
SwitchState(D, P, soft, hard) ==
    LET StatesOf(S) == {EventToState(soft[d], hard[d]) : d \in S}
        platform    == Highest(StatesOf(D \cap P))
        nonPlatform == Highest(StatesOf(D \ P))
    IN  IF D \cap P = {} THEN nonPlatform
                         ELSE AggregateStates(platform, nonPlatform)

\* A mistake that CleanRestartRestores must find: off by one.
CountsAsBlocked_Hard(state) == state > SoftBlocked

\* urf_config_set_persist_state stores "state > 0"; set_flight_mode compares
\* a saved state the same way.
CountsAsBlocked(state) == state > Unblocked
=============================================================================
