----------------------------- MODULE MCDevices -----------------------------
(***************************************************************************)
(* Values for the constants of Arbitrator on small machines.               *)
(***************************************************************************)
EXTENDS Integers, TLC

WlanType      == 1
BluetoothType == 2

OneType  == {WlanType}
TwoTypes == {WlanType, BluetoothType}

\* Up to three devices of one type.
AllWlan == [d \in 0..2 |-> WlanType]
TwoWlan == [d \in 0..1 |-> WlanType]

\* One device of each type, found in the reverse order of the types.
OneOfEach == (0 :> BluetoothType) @@ (1 :> WlanType)
=============================================================================
