------------------------- MODULE ArbitratorClaims --------------------------
(***************************************************************************)
(* What the D-Bus documentation and the configuration file say of requests *)
(* for all types, where the program does not do so: TLC shows a behaviour  *)
(* that breaks it.                                                         *)
(***************************************************************************)
EXTENDS Arbitrator

\* data/org.freedesktop.URfkill.xml lists type 0, "All", among those Block
\* accepts, and data/urfkill.conf says of the master key that it "controls all
\* killswitches": neither ends the process.
AllServed ==
    [][(\E b \in BOOLEAN : BlockAll(b)) \/ (\E k \in KeyTypes : MasterKey /\ KeyPress(k))
          => phase' = "running"]_vars
=============================================================================
