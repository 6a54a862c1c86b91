---------------------------- MODULE OfonoDevice ----------------------------
(***************************************************************************)
(* One modem as the daemon keeps it, src/src/urf-device-ofono.c: an object *)
(* that copies the modem's properties from oFono's signals and that        *)
(* remembers the block it was last asked for, in order to ask oFono again  *)
(* whenever the modem is powered.  What an operation sends is a sequence   *)
(* of calls; what it does to the object is a new record.                   *)
(***************************************************************************)
EXTENDS Naturals, Sequences

CONSTANT Paths           \* the object paths oFono gives to modems

\* The copy of Online: a property that was never told is absent from the
\* object's table.
Onlines == {"absent", "on", "off"}
AsOnline(value) == IF value THEN "on" ELSE "off"

Device == [index : Nat, path : Paths, soft : BOOLEAN, online : Onlines, proxy : BOOLEAN]

\* urf_device_ofono_new: nothing is known of the modem yet, and the object
\* asks for a proxy whose answer comes later.
NewDevice(index, path) ==
  [index |-> index, path |-> path, soft |-> FALSE, online |-> "absent", proxy |-> FALSE]

\* get_soft: a modem of which oFono told nothing counts as not blocked.
SoftOf(device) == device.online = "off"

\* set_soft remembers the block at once; the call needs the proxy, and without
\* one nothing is sent.  The result is TRUE in either case.
SoftSet(device, blocked) == [device EXCEPT !.soft = blocked]
SoftCalls(device, id, blocked) ==
  IF device.proxy THEN <<[call |-> "SetProperty", id |-> id, online |-> ~blocked]>> ELSE <<>>

\* proxy_ready_cb: from now on the object hears signals, and it asks for the
\* properties that it missed.
ProxyReady(device) == [device EXCEPT !.proxy = TRUE]
ProxyReadyCalls(id) == <<[call |-> "GetProperties", id |-> id]>>

\* Both ways in which the object learns that the modem has power send the
\* remembered block again.
PoweredCalls(device, id, powered) ==
  IF powered THEN SoftCalls(device, id, device.soft) ELSE <<>>

\* get_properties_cb.
PropertiesRead(device, online) == [device EXCEPT !.online = AsOnline(online)]
PropertiesCalls(device, id, powered) == PoweredCalls(device, id, powered)

\* modem_signal_cb, for the two properties that matter here.
PropertyChanged_Skipped(device, name, value) == device
PropertyChanged(device, name, value) ==
  IF name = "Online" THEN [device EXCEPT !.online = AsOnline(value)] ELSE device

\* What it sends: the remembered block when the modem gets power, nothing when
\* it comes online or goes offline, whoever wanted that.
ChangedCalls_Insist(device, id, name, value) ==
  IF name = "Powered" THEN PoweredCalls(device, id, value)
  ELSE IF value = device.soft THEN SoftCalls(device, id, device.soft) ELSE <<>>
ChangedCalls(device, id, name, value) ==
  IF name = "Powered" THEN PoweredCalls(device, id, value) ELSE <<>>
=============================================================================
