----------------------- MODULE ArbitratorSwitchProofs -----------------------
(***************************************************************************)
(* Proofs about the killswitches, for every set of devices, types, options *)
(* and stored states: what clients read of an absent switch, that entering *)
(* flight mode blocks every radio the daemon can reach, and, with the history*)
(* variables that say what may be expected of a type, what "persist" promises,*)
(* hard blocks under "force_sync", and flight mode as a round trip.        *)
(***************************************************************************)
EXTENDS ArbitratorPersist, ArbitratorSync, ArbitratorFlight, ArbitratorProofs

(***************************************************************************)
(* Availability                                                            *)
(***************************************************************************)
\* Switch t is in order for devices D, states ks and saved states sv.
Available(t, D, ks, sv) ==
    /\ ks[t] = NoAdapter <=> DevicesOf(t, D) = {}
    /\ DevicesOf(t, D) = {} => sv[t] = NoAdapter

LEMMA AvailabilityStep == TypeOK /\ SwitchAvailability /\ [Next]_vars => SwitchAvailability'
<1> SUFFICES ASSUME TypeOK, [Next]_vars,
                    \A t \in Types : Available(t, devices, kstate, saved),
                    NEW t \in Types
             PROVE  Available(t, devices', kstate', saved')
  BY DEF SwitchAvailability, Available
<1> USE DEF vars, kernelVars, viewVars, switchVars, storeVars
<1>t. /\ devices \in SUBSET Dev
      /\ soft \in [Dev -> BOOLEAN] /\ hard \in [Dev -> BOOLEAN]
      /\ kstate \in [Types -> KillswitchStates] /\ saved \in [Types -> KillswitchStates]
      /\ Available(t, devices, kstate, saved)
  BY DEF TypeOK
<1>1. ASSUME UNCHANGED <<devices, kstate, saved>>
      PROVE  Available(t, devices', kstate', saved')
  BY <1>t, <1>1
<1>2. ASSUME NEW d \in Dev, NEW fd \in BOOLEAN, NextEvent("ADD", d), AddKillswitch(d, fd)
      PROVE  Available(t, devices', kstate', saved')
  <2> DEFINE e == Head(events)
             found == [soft EXCEPT ![d] = e.soft]
  <2>1. CASE d \in devices
    BY <1>1, <1>2, <2>1 DEF AddKillswitch
  <2>2. CASE d \notin devices
    <3>1. /\ devices' = devices \cup {d} /\ devices' \in SUBSET Dev
          /\ hard' = [hard EXCEPT ![d] = e.hard]
          /\ kstate' = [kstate EXCEPT ![Type[d]] =
                            Refreshed(Type[d], devices', found, hard')]
          /\ saved' = saved
      BY <1>2, <1>t, <2>2 DEF AddKillswitch, NewDevice
    <3>2. found \in [Dev -> BOOLEAN] /\ hard' \in [Dev -> BOOLEAN] /\ Type[d] \in Types
      BY <1>2, <1>t, <3>1, QueueTypes, TailTypes, TypesAssumption DEF NextEvent, Event
    <3> HIDE DEF e, found
    <3>3. CASE t = Type[d]
      <4>1. DevicesOf(t, devices') # {}
        BY <3>1, <3>3 DEF DevicesOf
      <4>2. kstate'[t] = Refreshed(t, devices', found, hard')
        BY <1>t, <3>1, <3>3
      <4>3. Refreshed(t, devices', found, hard') = NoAdapter <=> DevicesOf(t, devices') = {}
        <5>1. /\ t \in Types /\ devices' \in SUBSET Dev
              /\ found \in [Dev -> BOOLEAN] /\ hard' \in [Dev -> BOOLEAN]
          BY <3>1, <3>2
        <5>2. QED
          BY <5>1, RefreshedStates
      <4>4. QED
        BY <4>1, <4>2, <4>3 DEF Available
    <3>4. CASE t # Type[d]
      <4>1. DevicesOf(t, devices') = DevicesOf(t, devices) /\ kstate'[t] = kstate[t]
        BY <1>t, <3>1, <3>4 DEF DevicesOf
      <4>2. QED
        BY <1>t, <3>1, <4>1 DEF Available
    <3>5. QED
      BY <3>3, <3>4
  <2>3. QED
    BY <2>1, <2>2
<1>3. ASSUME NEW d \in Dev, HandleDel(d)
      PROVE  Available(t, devices', kstate', saved')
  <2>1. CASE d \notin devices
    BY <1>1, <1>3, <2>1 DEF HandleDel
  <2>2. CASE d \in devices
    <3>1. /\ devices' = devices \ {d} /\ devices' \in SUBSET Dev
          /\ kstate' = [kstate EXCEPT ![Type[d]] = Refreshed(Type[d], devices', soft, hard)]
          /\ saved' = SavedAfterRefresh(Type[d], devices')
      BY <1>3, <1>t, <2>2 DEF HandleDel
    <3>2. CASE t = Type[d]
      <4>1. kstate'[t] = Refreshed(t, devices', soft, hard)
        BY <1>t, <3>1, <3>2
      <4>2. Refreshed(t, devices', soft, hard) = NoAdapter <=> DevicesOf(t, devices') = {}
        BY <1>t, <3>1, RefreshedStates
      <4>3. DevicesOf(t, devices') = {} => saved'[t] = NoAdapter
        BY <1>t, <3>1, <3>2 DEF SavedAfterRefresh
      <4>4. QED
        BY <4>1, <4>2, <4>3 DEF Available
    <3>3. CASE t # Type[d]
      <4>1. /\ DevicesOf(t, devices') = DevicesOf(t, devices)
            /\ kstate'[t] = kstate[t] /\ saved'[t] = saved[t]
        BY <1>t, <3>1, <3>3 DEF DevicesOf, SavedAfterRefresh
      <4>2. QED
        BY <1>t, <4>1 DEF Available
    <3>4. QED
      BY <3>2, <3>3
  <2>3. QED
    BY <2>1, <2>2
<1>4. ASSUME NEW p, NEW store, Exit(p, store)
      PROVE  Available(t, devices', kstate', saved')
  BY <1>4 DEF Exit, Available, DevicesOf
<1>5. ASSUME NEW b \in BOOLEAN, FlightMode(b)
      PROVE  Available(t, devices', kstate', saved')
  <2> DEFINE now == [u \in Types |-> Refreshed(u, devices, soft, hard)]
             present == {u \in Types : now[u] # NoAdapter}
  <2>1. /\ kstate' = now /\ devices' = devices
        /\ saved' = [u \in Types |-> IF u \notin present THEN NoAdapter
                                     ELSE IF b THEN now[u] ELSE saved[u]]
    BY <1>5 DEF FlightMode, SetBlock
  <2>2. now[t] = NoAdapter <=> DevicesOf(t, devices) = {}
    BY <1>t, RefreshedStates
  <2>3. DevicesOf(t, devices) = {} => saved'[t] = NoAdapter
    BY <2>1, <2>2
  <2> HIDE DEF now
  <2>4. QED
    BY <2>1, <2>2, <2>3 DEF Available
<1>6. ASSUME NEW k \in KeyTypes, KeyPress(k)
      PROVE  Available(t, devices', kstate', saved')
  <2> DEFINE u  == IF k = RfkillAll THEN RfkillWlan ELSE k
             st == Refreshed(u, devices, soft, hard)
  <2>1. CASE st # NoAdapter /\ (k = RfkillAll \/ MasterKey)
    BY <1>4, <1>6, <2>1 DEF KeyPress, Crash
  <2>2. CASE ~(st # NoAdapter /\ (k = RfkillAll \/ MasterKey))
    <3>1. /\ kstate' = [kstate EXCEPT ![u] = st]
          /\ saved' = SavedAfterRefresh(u, devices)
          /\ devices' = devices
      BY <1>6, <2>2 DEF KeyPress, SetBlock
    <3>2. u \in Types
      BY TypesAssumption
    <3>3. st = NoAdapter <=> DevicesOf(u, devices) = {}
      BY <1>t, <3>2, RefreshedStates
    <3> HIDE DEF u, st
    <3>4. CASE t = u
      BY <1>t, <3>1, <3>3, <3>4 DEF Available, SavedAfterRefresh
    <3>5. CASE t # u
      BY <1>t, <3>1, <3>5 DEF Available, SavedAfterRefresh
    <3>6. QED
      BY <3>4, <3>5
  <2>3. QED
    BY <2>1, <2>2
<1>7. CASE Kernel
  BY <1>1, <1>7 DEF Kernel, Plug, Unplug, KernelChange
<1>8. CASE HandleEvent
  <2>1. ASSUME NEW d \in Dev, NEW fd \in HotplugFd, HandleAdd(d, fd)
        PROVE  Available(t, devices', kstate', saved')
    BY <1>2, <2>1, OptionsAssumption DEF HandleAdd
  <2>2. ASSUME NEW d \in Dev, HandleChange(d)
        PROVE  Available(t, devices', kstate', saved')
    BY <1>1, <2>2 DEF HandleChange
  <2>3. QED
    BY <1>3, <1>8, <2>1, <2>2 DEF HandleEvent
<1>9. CASE StartupStep
  <2>1. ASSUME NEW d \in Dev, StartupAdd(d)
        PROVE  Available(t, devices', kstate', saved')
    BY <1>2, <2>1 DEF StartupAdd
  <2>2. ASSUME NEW d \in Dev, StartupSkip(d)
        PROVE  Available(t, devices', kstate', saved')
    BY <1>1, <2>2 DEF StartupSkip
  <2>3. ASSUME StartupDone
        PROVE  Available(t, devices', kstate', saved')
    BY <1>1, <2>3 DEF StartupDone, SetBlock
  <2>4. QED
    BY <1>9, <2>1, <2>2, <2>3 DEF StartupStep
<1>10. CASE Request
  <2>1. ASSUME NEW u \in Types, NEW b \in BOOLEAN, Block(u, b)
        PROVE  Available(t, devices', kstate', saved')
    BY <1>1, <2>1 DEF Block, SetBlock
  <2>2. ASSUME NEW d \in Dev, NEW b \in BOOLEAN, BlockIdx(d, b)
        PROVE  Available(t, devices', kstate', saved')
    BY <1>1, <2>2 DEF BlockIdx
  <2>3. ASSUME NEW b \in BOOLEAN, BlockAll(b)
        PROVE  Available(t, devices', kstate', saved')
    BY <1>4, <2>3 DEF BlockAll, Crash
  <2>4. ASSUME RequestWithoutDevices
        PROVE  Available(t, devices', kstate', saved')
    BY <1>1, <2>4 DEF RequestWithoutDevices
  <2>5. QED
    BY <1>5, <1>6, <1>10, <2>1, <2>2, <2>3, <2>4 DEF Request, SwitchRequest
<1>11. CASE Process
  <2>1. ASSUME Start
        PROVE  Available(t, devices', kstate', saved')
    BY <1>1, <2>1 DEF Start
  <2>2. QED
    BY <1>4, <1>11, <2>1 DEF Process, Shutdown, Kill
<1>12. CASE UNCHANGED vars
  BY <1>1, <1>12
<1>13. QED
  BY <1>7, <1>8, <1>9, <1>10, <1>11, <1>12 DEF Next

\* A killswitch is "not available" to clients exactly while no device of its
\* type is known, and then keeps no state (urf_killswitch_state_refresh is called
\* after every change of the device list).
THEOREM SwitchAvailabilityAlways == Spec => []SwitchAvailability
<1>1. Init => SwitchAvailability
  BY DEF Init, SwitchAvailability, DevicesOf
<1>2. Spec => []TypeOK
  BY TypeCorrect
<1>3. QED
  BY <1>1, <1>2, AvailabilityStep, PTL DEF Spec

(***************************************************************************)
(* The stored flight mode                                                  *)
(***************************************************************************)
\* Some device of a finite, non-empty set has the greatest type.  By induction
\* on the size of the set, as a smallest counterexample.
LEMMA GreatestType ==
    ASSUME NEW S0 \in SUBSET Dev, S0 # {}
    PROVE  \E d \in S0 : \A e \in S0 : Type[e] <= Type[d]
<1> DEFINE Has(S) == \E d \in S : \A e \in S : Type[e] <= Type[d]
           Bad == {n \in Nat : \E S \in SUBSET Dev :
                                  S # {} /\ Cardinality(S) = n /\ ~Has(S)}
<1>1. ASSUME NEW S \in SUBSET Dev
      PROVE  IsFiniteSet(S) /\ Cardinality(S) \in Nat
  BY DevAssumption, FS_Subset, FS_CardinalityType
<1>2. Bad = {}
  <2> SUFFICES ASSUME Bad # {}
               PROVE  FALSE
    OBVIOUS
  <2>1. PICK n \in Bad : \A m \in Bad : ~ (<<m, n>> \in OpToRel(<, Nat))
    <3>1. Bad \subseteq Nat
      OBVIOUS
    <3> HIDE DEF Bad
    <3>2. QED
      BY <3>1, WFMin, NatLessThanWellFounded
  <2>2. PICK S \in SUBSET Dev : S # {} /\ Cardinality(S) = n /\ ~Has(S)
    BY <2>1
  <2>3. PICK d : d \in S
    BY <2>2
  <2>4. /\ \A e \in Dev : Type[e] \in Nat
        /\ d \in Dev /\ IsFiniteSet(S) /\ n \in Nat
    BY <1>1, <2>1, <2>2, <2>3, TypesAssumption
  <2>5. CASE S \ {d} = {}
    <3>1. \A e \in S : e = d
      BY <2>5
    <3>2. Type[d] <= Type[d]
      BY <2>4
    <3>3. QED
      BY <2>2, <2>3, <3>1, <3>2
  <2>6. CASE S \ {d} # {}
    <3>1. Cardinality(S \ {d}) = n - 1 /\ S \ {d} \in SUBSET Dev
      BY <2>2, <2>3, <2>4, FS_RemoveElement
    <3>2. n - 1 \in Nat
      BY <1>1, <3>1
    <3>3. n - 1 \notin Bad
      <4>1. <<n - 1, n>> \in OpToRel(<, Nat)
        BY <2>4, <3>2 DEF OpToRel
      <4> HIDE DEF Bad
      <4>2. QED
        BY <2>1, <4>1
    <3>4. Has(S \ {d})
      BY <2>6, <3>1, <3>2, <3>3
    <3>5. PICK g \in S \ {d} : \A e \in S \ {d} : Type[e] <= Type[g]
      BY <3>4
    <3>6. CASE Type[d] <= Type[g]
      BY <2>2, <3>5, <3>6
    <3>7. CASE Type[g] <= Type[d]
      <4>1. ASSUME NEW e \in S
            PROVE  Type[e] <= Type[d]
        <5>1. Type[e] \in Nat /\ Type[g] \in Nat /\ Type[d] \in Nat
          BY <2>4
        <5>2. CASE e = d
          BY <5>1, <5>2
        <5>3. CASE e # d
          BY <3>5, <3>7, <5>1, <5>3
        <5>4. QED
          BY <5>2, <5>3
      <4>2. QED
        BY <2>2, <2>3, <4>1
    <3>8. QED
      BY <2>4, <3>5, <3>6, <3>7
  <2>7. QED
    BY <2>5, <2>6
<1>3. Has(S0)
  BY <1>1, <1>2
<1>4. QED
  BY <1>3

\* A process that begins is told what is stored.
FlightInv == FlightFlagPersisted /\ (~Listening => flight = persist[RfkillAll])

\* A step either leaves the two flags and the process alone, or makes the flags
\* one.
FlagStep ==
    \/ /\ flight' = flight /\ persist'[RfkillAll] = persist[RfkillAll]
       /\ Listening' <=> Listening
    \/ flight' = persist'[RfkillAll]

LEMMA FlagOther ==
    ASSUME TypeOK, ~Listening => flight = persist[RfkillAll],
           Kernel \/ HandleEvent \/ StartupStep \/ SwitchRequest \/ Process
    PROVE  FlagStep
<1> USE DEF kernelVars, viewVars, switchVars, storeVars
<1>t. persist \in [Types \cup {RfkillAll} -> BOOLEAN] /\ RfkillAll \notin Types
  BY TypesAssumption DEF TypeOK
<1>1. ASSUME UNCHANGED <<flight, persist, phase>> PROVE FlagStep
  BY <1>1 DEF FlagStep, Listening
<1>2. ASSUME NEW p, NEW store, Exit(p, store) PROVE FlagStep
  BY <1>2 DEF Exit, FlagStep
<1>3. ASSUME NEW k \in KeyTypes, KeyPress(k) PROVE FlagStep
  <2> DEFINE t  == IF k = RfkillAll THEN RfkillWlan ELSE k
             st == Refreshed(t, devices, soft, hard)
             b  == st # SoftBlocked
  <2>1. CASE st # NoAdapter /\ (k = RfkillAll \/ MasterKey)
    BY <1>2, <1>3, <2>1 DEF KeyPress, Crash
  <2>2. CASE ~(st # NoAdapter /\ (k = RfkillAll \/ MasterKey))
    <3>1. t # RfkillAll
      BY <1>t, TypesAssumption
    <3>2. /\ flight' = flight /\ phase' = phase
          /\ persist' = persist \/ persist' = [persist EXCEPT ![t] = b]
      BY <1>3, <2>2 DEF KeyPress
    <3> HIDE DEF t, b
    <3>3. QED
      BY <1>t, <3>1, <3>2 DEF FlagStep, Listening
  <2>3. QED
    BY <2>1, <2>2
<1>4. ASSUME NEW u \in Types, NEW b \in BOOLEAN, Block(u, b) PROVE FlagStep
  BY <1>t, <1>4 DEF Block, FlagStep, Listening
<1>5. CASE Kernel
  BY <1>1, <1>5 DEF Kernel, Plug, Unplug, KernelChange
<1>6. CASE HandleEvent
  BY <1>1, <1>6 DEF HandleEvent, HandleAdd, HandleDel, HandleChange
<1>7. CASE StartupStep
  <2>1. ASSUME NEW d \in Dev, StartupAdd(d) \/ StartupSkip(d) PROVE FlagStep
    BY <1>1, <2>1 DEF StartupAdd, StartupSkip
  <2>2. ASSUME StartupDone PROVE FlagStep
    BY <2>2 DEF StartupDone, FlagStep, Listening
  <2>3. QED
    BY <1>7, <2>1, <2>2 DEF StartupStep
<1>8. CASE SwitchRequest
  <2>1. ASSUME NEW d \in Dev, NEW b \in BOOLEAN, BlockIdx(d, b) PROVE FlagStep
    BY <1>1, <2>1 DEF BlockIdx
  <2>2. ASSUME NEW b \in BOOLEAN, BlockAll(b) PROVE FlagStep
    BY <1>2, <2>2 DEF BlockAll, Crash
  <2>3. ASSUME RequestWithoutDevices PROVE FlagStep
    BY <1>1, <2>3 DEF RequestWithoutDevices
  <2>4. QED
    BY <1>3, <1>4, <1>8, <2>1, <2>2, <2>3 DEF SwitchRequest
<1>9. CASE Process
  <2>1. ASSUME Start PROVE FlagStep
    BY <2>1 DEF Start, FlagStep, Listening
  <2>2. QED
    BY <1>2, <1>9, <2>1 DEF Process, Shutdown, Kill
<1>10. QED
  BY <1>5, <1>6, <1>7, <1>8, <1>9

\* A flight mode request that its last type takes sets both flags.
LEMMA FlagRequest ==
    ASSUME TypeOK, NEW b \in BOOLEAN, FFlightMode(b)
    PROVE  /\ Listening'
           /\ refusing' = {} => flight' = persist'[RfkillAll]
<1> DEFINE now     == [t \in Types |-> Refreshed(t, devices, soft, hard)]
           present == {t \in Types : now[t] # NoAdapter}
           want    == [t \in present |-> FlightRequest(t, now[t], b)]
           ok      == \E t \in present : SetOk(t) /\ \A u \in present : u <= t
<1>t. devices \in SUBSET Dev
  BY DEF TypeOK
<1>1. /\ devices # {} /\ phase = "running" /\ phase' = phase
      /\ persist' = FlightStore(want, b)
      /\ flight' = IF ok THEN b ELSE flight
      /\ refusing' = {d \in devices \ writable : \A e \in devices : Type[e] <= Type[d]}
  BY DEF FFlightMode, FlightMode
<1>2. \A t \in Types : now[t] = NoAdapter <=> DevicesOf(t, devices) = {}
  BY <1>t, RefreshedStates DEF TypeOK
<1>3. PICK d \in devices : \A e \in devices : Type[e] <= Type[d]
  BY <1>t, <1>1, GreatestType
<1>4. Type[d] \in present
  <2>1. Type[d] \in Types /\ d \in DevicesOf(Type[d], devices)
    BY <1>t, <1>3, TypesAssumption DEF DevicesOf
  <2> HIDE DEF now
  <2>2. QED
    BY <1>2, <2>1
<1>5. ASSUME NEW u \in present
      PROVE  u <= Type[d]
  <2>1. DevicesOf(u, devices) # {}
    BY <1>2
  <2>2. QED
    BY <1>3, <2>1 DEF DevicesOf
<1>6. refusing' = {} => SetOk(Type[d])
  <2>1. ASSUME NEW e \in DevicesOf(Type[d], devices), e \notin writable
        PROVE  e \in refusing'
    BY <1>1, <1>3, <2>1 DEF DevicesOf
  <2>2. QED
    BY <2>1 DEF SetOk
<1> HIDE DEF present
<1>7. refusing' = {} => ok
  BY <1>4, <1>5, <1>6
<1> HIDE DEF ok, want
<1>8. persist'[RfkillAll] = b
  BY <1>1 DEF FlightStore
<1>9. QED
  BY <1>1, <1>7, <1>8 DEF Listening

LEMMA FlightStep == TypeOK /\ FlightInv /\ [FNext]_fvars => FlightInv'
<1> SUFFICES ASSUME TypeOK, FlightInv, [FNext]_fvars
             PROVE  FlightInv'
  OBVIOUS
<1> USE DEF FlightInv, FlightFlagPersisted
<1>1. CASE FOther
  <2>1. /\ FlagStep
        /\ refusing' = IF Listening' THEN refusing ELSE {}
    BY <1>1, FlagOther DEF FOther
  <2>2. QED
    BY <2>1 DEF FlagStep
<1>2. ASSUME NEW b \in BOOLEAN, FFlightMode(b) PROVE FlightInv'
  BY <1>2, FlagRequest
<1>3. CASE UNCHANGED fvars
  BY <1>3 DEF fvars, vars, storeVars, Listening
<1>4. QED
  BY <1>1, <1>2, <1>3 DEF FNext

\* With devices that can be written and devices that cannot, the flight mode
\* that clients are told parts from the stored one only after a request that a
\* device of the last type refused (urf_daemon_flight_mode sets its flag only
\* when urf_arbitrator_set_flight_mode, which stores the mode first, succeeds).
THEOREM FlightFlagAlways == FSpec => []FlightFlagPersisted
<1>1. FInit => Init /\ FlightInv
  BY DEF FInit, Init, FlightInv, FlightFlagPersisted
<1>2. FlightInv => FlightFlagPersisted
  BY DEF FlightInv
<1>3. [FNext]_fvars => [Next]_vars
  BY DEF FNext, FOther, FFlightMode, Next, Request, fvars
<1>4. Init /\ [][Next]_vars => []TypeOK
  BY TypeCorrect DEF Spec
<1>5. QED
  BY <1>1, <1>2, <1>3, <1>4, FlightStep, PTL DEF FSpec

\* Entering flight mode soft-blocks, in the kernel, every radio of every type
\* that the daemon knows and can write, whatever was saved or believed before.
THEOREM FlightModeBlocks == Spec => FlightModeSilences
<1> DEFINE Silences ==
        FlightMode(TRUE) /\ devices = writable =>
            \A d \in kdev : DevicesOf(Type[d], devices) # {} => ksoft'[d]
<1>1. TypeOK => Silences
  <2> SUFFICES ASSUME TypeOK, FlightMode(TRUE), devices = writable,
                      NEW d \in kdev, DevicesOf(Type[d], devices) # {}
               PROVE  ksoft'[d]
    OBVIOUS
  <2> DEFINE now     == [t \in Types |-> Refreshed(t, devices, soft, hard)]
             present == {t \in Types : now[t] # NoAdapter}
             want    == [t \in present |-> FlightRequest(t, now[t], TRUE)]
             t       == Type[d]
  <2>1. /\ kdev \in SUBSET Dev /\ devices \in SUBSET Dev /\ events \in Seq(Event)
        /\ khard \in [Dev -> BOOLEAN] /\ ksoft \in [Dev -> BOOLEAN]
    BY DEF TypeOK
  <2>2. PICK r \in ChangeAll(Written(want), ksoft, events) : ksoft' = r.ks
    BY DEF FlightMode, SetBlock
  <2>3. t \in Types /\ d \in Dev
    BY <2>1, TypesAssumption
  <2>4. t \in DOMAIN want /\ want[t] = TRUE
    <3>1. now[t] # NoAdapter
      BY <2>1, <2>3, RefreshedStates, SMTT(30) DEF TypeOK
    <3>2. FlightRequest(t, now[t], TRUE) = TRUE
      BY DEF FlightRequest
    <3> HIDE DEF now, t
    <3>3. QED
      BY <2>3, <3>1, <3>2
  <2>5. \A u \in DOMAIN want : want[u] = TRUE
    BY DEF FlightRequest
  <2> HIDE DEF want, t
  <2>6. PICK e \in devices : Type[e] = t
    BY DEF DevicesOf, t
  <2>7. t \in DOMAIN Written(want) /\ Written(want)[t] = TRUE
    BY <2>4, <2>6 DEF Written, Reached
  <2>8. \A u \in DOMAIN Written(want) : Written(want)[u] \in BOOLEAN
    BY <2>5 DEF Written, Reached
  <2>9. Applied(Written(want), ksoft, r)
    BY <2>1, <2>2, <2>8, ChangeAllEffect
  <2>10. r.ks[d] = TRUE
    BY <2>3, <2>7, <2>9 DEF Applied, t
  <2>11. QED
    BY <2>2, <2>10
<1>2. Spec => []TypeOK
  BY TypeCorrect
<1>3. TypeOK => [Silences]_vars
  BY <1>1
<1>4. Spec => [][Silences]_vars
  BY <1>2, <1>3, PTL
<1>5. QED
  BY <1>4 DEF FlightModeSilences

(***************************************************************************)
(* Persistence                                                             *)
(***************************************************************************)
\* What was asked of the settled types is what their known devices have.
Promise ==
    \A d \in devices \cap kdev : Type[d] \in settled => ksoft[d] = persist[Type[d]]

\* The start-up loop adds only devices that it can write, a process that does
\* not serve holds what is on the disk, and the state of the last clean end is
\* the stored one until the next process serves.
PInv ==
    /\ Persist /\ phase = "running" => Promise
    /\ phase = "startup" => devices = writable
    /\ phase # "running" => persist = disk
    /\ left \in [Types -> KillswitchStates]
    /\ \A t \in Types :
          left[t] # NoAdapter =>
            /\ phase # "running"
            /\ Persist => (persist[t] <=> CountsAsBlocked(left[t]))

(***************************************************************************)
(* The writes                                                              *)
(***************************************************************************)
\* A write gives the block of its type to every present device of a type that
\* was reached, and a type whose devices can all be written is reached.
LEMMA SetBlockWrites ==
    ASSUME TypeOK, NEW want, \A t \in DOMAIN want : want[t] \in BOOLEAN, SetBlock(want)
    PROVE  /\ UNCHANGED <<kdev, devices, writable>>
           /\ \A d \in kdev : ksoft'[d] = IF Type[d] \in DOMAIN Written(want)
                                          THEN want[Type[d]] ELSE ksoft[d]
           /\ DOMAIN Written(want) \subseteq DOMAIN want
           /\ \A d \in devices : Type[d] \in DOMAIN want /\ SetOk(Type[d])
                                    => Type[d] \in DOMAIN Written(want)
<1>1. /\ kdev \in SUBSET Dev /\ khard \in [Dev -> BOOLEAN]
      /\ ksoft \in [Dev -> BOOLEAN] /\ events \in Seq(Event)
  BY DEF TypeOK
<1>2. \A t \in DOMAIN Written(want) : t \in DOMAIN want /\ Written(want)[t] = want[t]
  BY DEF Written, Reached
<1>3. PICK r \in ChangeAll(Written(want), ksoft, events) : ksoft' = r.ks
  BY DEF SetBlock
<1>4. Applied(Written(want), ksoft, r)
  <2> DEFINE w == Written(want)
  <2>1. \A t \in DOMAIN w : w[t] \in BOOLEAN
    BY <1>2
  <2>2. r \in ChangeAll(w, ksoft, events)
    BY <1>3
  <2> HIDE DEF w
  <2>3. Applied(w, ksoft, r)
    BY <1>1, <2>1, <2>2, ChangeAllEffect
  <2> QED
    BY <2>3 DEF w
<1>5. \A d \in kdev : ksoft'[d] = IF Type[d] \in DOMAIN Written(want)
                                  THEN want[Type[d]] ELSE ksoft[d]
  BY <1>1, <1>2, <1>3, <1>4 DEF Applied
<1>6. \A d \in devices : Type[d] \in DOMAIN want /\ SetOk(Type[d])
                            => Type[d] \in DOMAIN Written(want)
  BY DEF SetOk, DevicesOf, Written, Reached
<1>7. UNCHANGED <<kdev, devices, writable>>
  BY DEF SetBlock
<1> QED
  BY <1>2, <1>5, <1>6, <1>7

\* ... so a request that succeeded settles its types, when what it wrote is
\* what is stored, and leaves the others as they were.
LEMMA SetBlockSettles ==
    ASSUME TypeOK, Promise,
           NEW want, \A t \in DOMAIN want : want[t] \in BOOLEAN, SetBlock(want),
           NEW S, \A d \in devices : Type[d] \in DOMAIN want => Type[d] \in S,
           Settle(S),
           \A d \in devices : Type[d] \in S => Type[d] \in DOMAIN want,
           \A d \in devices :
              persist'[Type[d]] = IF Type[d] \in DOMAIN want /\ SetOk(Type[d])
                                  THEN want[Type[d]] ELSE persist[Type[d]]
    PROVE  Promise'
<1>1. /\ UNCHANGED <<kdev, devices, writable>>
      /\ \A d \in kdev : ksoft'[d] = IF Type[d] \in DOMAIN Written(want)
                                     THEN want[Type[d]] ELSE ksoft[d]
      /\ DOMAIN Written(want) \subseteq DOMAIN want
      /\ \A d \in devices : Type[d] \in DOMAIN want /\ SetOk(Type[d])
                               => Type[d] \in DOMAIN Written(want)
  BY SetBlockWrites
<1> SUFFICES ASSUME NEW d \in devices \cap kdev, Type[d] \in settled'
             PROVE  ksoft'[d] = persist'[Type[d]]
  BY <1>1 DEF Promise
<1>2. CASE Type[d] \in S
  BY <1>1, <1>2 DEF Settle
<1>3. CASE Type[d] \notin S
  <2>1. Type[d] \in settled /\ Type[d] \notin DOMAIN want
    BY <1>3 DEF Settle
  <2> QED
    BY <1>1, <2>1 DEF Promise
<1> QED
  BY <1>2, <1>3

\* A device that is found does not disturb the other types; when it can be
\* written, it takes the stored block of its type, and so do the others.
LEMMA AddKillswitchWrites ==
    ASSUME TypeOK, NEW d \in Dev, NEW fd \in BOOLEAN,
           NextEvent("ADD", d), AddKillswitch(d, fd), d \notin devices
    PROVE  /\ kdev' = kdev /\ devices' = devices \cup {d}
           /\ writable' = IF fd THEN writable \cup {d} ELSE writable
           /\ \A x \in kdev : Type[x] # Type[d] \/ ~fd => ksoft'[x] = ksoft[x]
           /\ fd /\ Persist => \A x \in kdev : Type[x] = Type[d] => ksoft'[x] = persist[Type[d]]
<1> DEFINE e  == Head(events)
           t  == Type[d]
           w1 == IF fd /\ ForceSync /\ d \notin Platform THEN Only(t, e.soft) ELSE Nothing
           w2 == IF fd /\ Persist THEN Only(t, persist[t]) ELSE Nothing
<1>1. /\ kdev \in SUBSET Dev /\ khard \in [Dev -> BOOLEAN] /\ ksoft \in [Dev -> BOOLEAN]
      /\ persist[t] \in BOOLEAN
  BY TypesAssumption DEF TypeOK
<1>2. Tail(events) \in Seq(Event) /\ e \in Event /\ e.soft \in BOOLEAN
  BY QueueTypes, TailTypes DEF NextEvent, Queue, Event
<1>3. (\A x \in DOMAIN w1 : w1[x] \in BOOLEAN) /\ (\A x \in DOMAIN w2 : w2[x] \in BOOLEAN)
  BY <1>1, <1>2 DEF Only, Nothing
<1>4. PICK r1 \in ChangeAll(w1, ksoft, Tail(events)) :
        \E r2 \in ChangeAll(w2, r1.ks, r1.q) : ksoft' = r2.ks /\ events' = r2.q
  BY DEF AddKillswitch
<1>5. PICK r2 \in ChangeAll(w2, r1.ks, r1.q) : ksoft' = r2.ks
  BY <1>4
<1>6. \A x \in Dev : w1 = Nothing \/ Type[x] # t => Type[x] \notin DOMAIN w1
  BY DEF Only, Nothing
<1>7. \A x \in Dev : w2 = Nothing \/ Type[x] # t => Type[x] \notin DOMAIN w2
  BY DEF Only, Nothing
<1>8. /\ ~fd => w1 = Nothing /\ w2 = Nothing
      /\ fd /\ Persist => t \in DOMAIN w2 /\ w2[t] = persist[t]
  BY DEF Only
<1> HIDE DEF w1, w2
<1>9. r1.ks \in [Dev -> BOOLEAN] /\ Applied(w1, ksoft, r1) /\ r1.q \in Seq(Event)
  BY <1>1, <1>2, <1>3, <1>4, ChangeAllEffect
<1>10. Applied(w2, r1.ks, r2)
  BY <1>1, <1>3, <1>5, <1>9, ChangeAllEffect
<1>11. \A x \in kdev : Type[x] # t \/ ~fd => ksoft'[x] = ksoft[x]
  BY <1>1, <1>5, <1>6, <1>7, <1>8, <1>9, <1>10 DEF Applied
<1>12. fd /\ Persist => \A x \in kdev : Type[x] = t => ksoft'[x] = persist[t]
  BY <1>1, <1>5, <1>8, <1>10 DEF Applied
<1>13. /\ kdev' = kdev /\ devices' = devices \cup {d}
       /\ writable' = IF fd THEN writable \cup {d} ELSE writable
  BY DEF AddKillswitch, NewDevice
<1> QED
  BY <1>11, <1>12, <1>13

(***************************************************************************)
(* The promise, step by step                                               *)
(***************************************************************************)
\* The kernel's steps leave the settled types alone.
LEMMA KernelKeepsPromise == ASSUME TypeOK, Promise, PKernel PROVE Promise'
<1> USE DEF viewVars, storeVars
<1>1. /\ devices' = devices /\ persist' = persist /\ devices \subseteq plugged
      /\ settled' = settled \ {Type[d] : d \in {x \in kdev \cap kdev' : ksoft'[x] # ksoft[x]}}
  BY DEF PKernel, Kernel, Plug, KernelChange, Unplug, Unsettle, TypeOK
<1>2. \A d \in kdev' : d \in kdev \/ d \notin plugged
  BY DEF PKernel, Kernel, Plug, KernelChange, Unplug
<1> SUFFICES ASSUME NEW d \in devices' \cap kdev', Type[d] \in settled'
             PROVE  ksoft'[d] = persist'[Type[d]]
  BY DEF Promise
<1>3. d \in kdev /\ ksoft'[d] = ksoft[d]
  BY <1>1, <1>2
<1> QED
  BY <1>1, <1>3 DEF Promise

\* Neither does an event: a device that cannot be written unsettles its type,
\* and so does a write of force_sync.
LEMMA EventKeepsPromise == ASSUME TypeOK, Promise, Persist, PHandleEvent PROVE Promise'
<1> USE DEF viewVars, storeVars, kernelVars
<1>1. ASSUME NEW d \in Dev, NEW fd \in HotplugFd, HandleAdd(d, fd),
             settled' = IF d \in devices THEN settled
                        ELSE IF fd /\ Persist THEN settled \cup {Type[d]}
                        ELSE settled \ {Type[d]}
      PROVE  Promise'
  <2>1. CASE d \in devices
    BY <1>1, <2>1 DEF HandleAdd, AddKillswitch, Promise
  <2>2. CASE d \notin devices
    <3>1. /\ fd \in BOOLEAN /\ NextEvent("ADD", d) /\ AddKillswitch(d, fd) /\ persist' = persist
      BY <1>1, OptionsAssumption DEF HandleAdd
    <3>2. /\ kdev' = kdev /\ devices' = devices \cup {d}
          /\ \A x \in kdev : Type[x] # Type[d] \/ ~fd => ksoft'[x] = ksoft[x]
          /\ fd /\ Persist => \A x \in kdev : Type[x] = Type[d] => ksoft'[x] = persist[Type[d]]
      BY <2>2, <3>1, AddKillswitchWrites
    <3>3. CASE fd
      BY <1>1, <2>2, <3>1, <3>2, <3>3 DEF Promise
    <3>4. CASE ~fd
      BY <1>1, <2>2, <3>1, <3>2, <3>4 DEF Promise
    <3> QED
      BY <3>3, <3>4
  <2> QED
    BY <2>1, <2>2
<1>2. ASSUME NEW d \in Dev, HandleDel(d), UNCHANGED settled
      PROVE  Promise'
  BY <1>2 DEF HandleDel, Promise
<1>3. ASSUME NEW d \in Dev, HandleChange(d), Unsettle(DOMAIN SyncRequest(d, Head(events)))
      PROVE  Promise'
  <2> DEFINE want == SyncRequest(d, Head(events))
  <2>1. UNCHANGED <<kdev, devices, persist>> /\ settled' = settled \ DOMAIN want
    BY <1>3 DEF HandleChange, Unsettle
  <2>2. ksoft' = ksoft \/ \E r \in ChangeAll(want, ksoft, Tail(events)) : ksoft' = r.ks
    BY <1>3 DEF HandleChange
  <2>3. /\ kdev \in SUBSET Dev /\ khard \in [Dev -> BOOLEAN] /\ ksoft \in [Dev -> BOOLEAN]
        /\ Tail(events) \in Seq(Event)
    BY <1>3, QueueTypes, TailTypes DEF TypeOK, HandleChange, NextEvent, Queue
  <2>4. \A t \in DOMAIN want : want[t] \in BOOLEAN
    BY DEF SyncRequest, Only, Nothing
  <2> HIDE DEF want
  <2>5. \A x \in kdev : Type[x] \notin DOMAIN want => ksoft'[x] = ksoft[x]
    <3>1. ASSUME NEW r \in ChangeAll(want, ksoft, Tail(events)), ksoft' = r.ks
          PROVE  \A x \in kdev : Type[x] \notin DOMAIN want => ksoft'[x] = ksoft[x]
      <4>1. Applied(want, ksoft, r)
        BY <2>3, <2>4, ChangeAllEffect
      <4> QED
        BY <2>3, <3>1, <4>1 DEF Applied
    <3> QED
      BY <2>2, <3>1
  <2> QED
    BY <2>1, <2>5 DEF Promise
<1> QED
  BY <1>1, <1>2, <1>3 DEF PHandleEvent

\* A request that succeeds keeps its promise; one that fails promises nothing.
LEMMA RequestKeepsPromise ==
    ASSUME TypeOK, Promise, PRequest, phase' = "running"
    PROVE  Promise'
<1> USE DEF viewVars, storeVars, kernelVars
<1>1. /\ RfkillAll \notin Types /\ \A d \in devices : Type[d] \in Types
      /\ devices \in SUBSET Dev /\ kdev \in SUBSET Dev
      /\ soft \in [Dev -> BOOLEAN] /\ hard \in [Dev -> BOOLEAN]
      /\ persist \in [Types \cup {RfkillAll} -> BOOLEAN]
  BY TypesAssumption DEF TypeOK
<1>2. ASSUME NEW t \in Types, NEW b \in BOOLEAN, Block(t, b), Settle({t})
      PROVE  Promise'
  <2> DEFINE want == Only(t, b)
  <2>1. SetBlock(want) /\ persist' = IF SetOk(t) THEN [persist EXCEPT ![t] = b] ELSE persist
    BY <1>2 DEF Block
  <2>2. DOMAIN want = {t} /\ want[t] = b
    BY DEF Only
  <2> HIDE DEF want
  <2>3. \A d \in devices :
           persist'[Type[d]] = IF Type[d] \in DOMAIN want /\ SetOk(Type[d])
                               THEN want[Type[d]] ELSE persist[Type[d]]
    BY <1>1, <2>1, <2>2
  <2>4. Settle(DOMAIN want) /\ \A x \in DOMAIN want : want[x] \in BOOLEAN
    BY <1>2, <2>2
  <2> QED
    BY <2>1, <2>3, <2>4, SetBlockSettles
<1>3. ASSUME NEW b \in BOOLEAN, BlockAll(b)
      PROVE  FALSE
  BY <1>3 DEF BlockAll, Crash, Exit
<1>4. ASSUME NEW d \in Dev, NEW b \in BOOLEAN, BlockIdx(d, b), Unsettle({Type[d]})
      PROVE  Promise'
  <2>1. UNCHANGED <<kdev, devices, persist>> /\ settled' = settled \ {Type[d]}
    BY <1>4 DEF BlockIdx, Unsettle
  <2>2. \A x \in kdev : Type[x] # Type[d] => ksoft'[x] = ksoft[x]
    <3>1. CASE d \notin devices \cap writable
      BY <1>4, <3>1 DEF BlockIdx
    <3>2. CASE d \in devices \cap writable
      <4> DEFINE want == Only(Type[d], b)
      <4>1. PICK r \in ChangeAll(want, ksoft, events) : ksoft' = r.ks
        BY <1>4, <3>2 DEF BlockIdx
      <4>2. DOMAIN want = {Type[d]} /\ \A x \in DOMAIN want : want[x] \in BOOLEAN
        BY DEF Only
      <4> HIDE DEF want
      <4>3. khard \in [Dev -> BOOLEAN] /\ ksoft \in [Dev -> BOOLEAN] /\ events \in Seq(Event)
        BY DEF TypeOK
      <4>4. Applied(want, ksoft, r)
        BY <1>1, <4>1, <4>2, <4>3, ChangeAllEffect
      <4> QED
        BY <1>1, <4>1, <4>2, <4>4 DEF Applied
    <3> QED
      BY <3>1, <3>2
  <2> QED
    BY <2>1, <2>2 DEF Promise
<1>5. ASSUME NEW b \in BOOLEAN, FlightMode(b), Settle({Type[d] : d \in devices})
      PROVE  Promise'
  <2> DEFINE now     == [t \in Types |-> Refreshed(t, devices, soft, hard)]
             present == {t \in Types : now[t] # NoAdapter}
             want    == [t \in present |-> FlightRequest(t, now[t], b)]
  <2>1. SetBlock(want) /\ persist' = FlightStore(want, b)
    BY <1>5 DEF FlightMode
  <2>2. \A t \in Types : now[t] \in KillswitchStates /\ (now[t] = NoAdapter <=> DevicesOf(t, devices) = {})
    BY <1>1, RefreshedStates
  <2>3. \A t \in DOMAIN want : want[t] \in BOOLEAN
    <3>1. \A t \in Types : saved[t] \in KillswitchStates
      BY DEF TypeOK
    <3> QED
      BY <3>1, CountsAsBlockedType DEF FlightRequest
  <2>4. \A d \in devices : Type[d] \in DOMAIN want
    BY <1>1, <2>2 DEF DevicesOf
  <2> HIDE DEF want
  <2>5. \A d \in devices :
           persist'[Type[d]] = IF Type[d] \in DOMAIN want /\ SetOk(Type[d])
                               THEN want[Type[d]] ELSE persist[Type[d]]
    BY <1>1, <2>1 DEF FlightStore
  <2> QED
    BY <1>5, <2>1, <2>3, <2>4, <2>5, SetBlockSettles
<1>6. ASSUME NEW k \in KeyTypes, KeyPress(k), Settle({k})
      PROVE  Promise'
  <2> DEFINE t    == IF k = RfkillAll THEN RfkillWlan ELSE k
             st   == Refreshed(t, devices, soft, hard)
             want == Only(t, st # SoftBlocked)
  <2>1. /\ ~(st # NoAdapter /\ (k = RfkillAll \/ MasterKey))
        /\ IF st = NoAdapter
           THEN UNCHANGED <<kernelVars, events, viewVars, persist>>
           ELSE /\ SetBlock(want)
                /\ persist' = IF SetOk(t) THEN [persist EXCEPT ![t] = st # SoftBlocked]
                                          ELSE persist
    BY <1>6 DEF KeyPress, Crash, Exit
  <2>2. t \in Types /\ (k # RfkillAll => t = k)
    BY TypesAssumption
  <2>3. CASE st = NoAdapter
    <3>1. \A d \in devices : Type[d] # k
      <4>1. st = NoAdapter <=> DevicesOf(t, devices) = {}
        BY <1>1, <2>2, RefreshedStates
      <4> QED
        BY <1>1, <2>2, <2>3, <4>1 DEF DevicesOf
    <3> QED
      BY <1>6, <2>1, <2>3, <3>1 DEF Settle, Promise
  <2>4. CASE st # NoAdapter
    <3>1. t = k /\ DOMAIN want = {t} /\ want[t] = (st # SoftBlocked)
      BY <2>1, <2>2, <2>4 DEF Only
    <3>2. SetBlock(want) /\ persist' = IF SetOk(t) THEN [persist EXCEPT ![t] = want[t]] ELSE persist
      BY <2>1, <2>4, <3>1
    <3>3. want[t] \in BOOLEAN
      BY <3>1
    <3> HIDE DEF want, st, t
    <3>4. \A d \in devices :
             persist'[Type[d]] = IF Type[d] \in DOMAIN want /\ SetOk(Type[d])
                                 THEN want[Type[d]] ELSE persist[Type[d]]
      BY <1>1, <2>2, <3>1, <3>2
    <3>5. Settle(DOMAIN want) /\ \A x \in DOMAIN want : want[x] \in BOOLEAN
      BY <1>6, <3>1, <3>3
    <3> QED
      BY <3>2, <3>4, <3>5, SetBlockSettles
  <2> QED
    BY <2>3, <2>4
<1>7. ASSUME RequestWithoutDevices, UNCHANGED settled
      PROVE  Promise'
  BY <1>7 DEF RequestWithoutDevices, Promise
<1> QED
  BY <1>2, <1>3, <1>4, <1>5, <1>6, <1>7 DEF PRequest

\* The start-up ends with every device of every type at the stored block.
LEMMA StartupKeepsPromise ==
    ASSUME TypeOK, PInv, Persist, PStartupStep, phase' = "running"
    PROVE  Promise' /\ \A d \in devices \cap kdev : ksoft'[d] = persist[Type[d]]
<1> DEFINE want == [t \in Types |-> persist[t]]
<1>1. /\ StartupDone /\ SetBlock(want) /\ phase = "startup" /\ persist' = persist
  BY DEF PStartupStep, StartupAdd, StartupSkip, StartupDone, storeVars
<1>2. /\ \A t \in DOMAIN want : want[t] \in BOOLEAN
      /\ \A d \in devices : Type[d] \in DOMAIN want /\ want[Type[d]] = persist[Type[d]]
  BY TypesAssumption DEF TypeOK
<1>3. \A d \in devices : SetOk(Type[d])
  BY <1>1 DEF PInv, SetOk, DevicesOf
<1> HIDE DEF want
<1>4. /\ UNCHANGED <<kdev, devices, writable>>
      /\ \A d \in kdev : ksoft'[d] = IF Type[d] \in DOMAIN Written(want)
                                     THEN want[Type[d]] ELSE ksoft[d]
      /\ \A d \in devices : Type[d] \in DOMAIN want /\ SetOk(Type[d])
                               => Type[d] \in DOMAIN Written(want)
  BY <1>1, <1>2, SetBlockWrites
<1>5. \A d \in devices \cap kdev : ksoft'[d] = persist[Type[d]]
  BY <1>2, <1>3, <1>4
<1> QED
  BY <1>1, <1>4, <1>5 DEF Promise

LEMMA PromiseStep ==
    ASSUME TypeOK, PInv, [PNext]_pvars, Persist, phase' = "running"
    PROVE  Promise'
<1>1. CASE PKernel
  BY <1>1, KernelKeepsPromise DEF PKernel, Kernel, Plug, Unplug, KernelChange, PInv
<1>2. CASE PHandleEvent
  BY <1>2, EventKeepsPromise DEF PHandleEvent, HandleAdd, HandleDel, HandleChange, PInv
<1>3. CASE PRequest
  BY <1>3, RequestKeepsPromise
     DEF PRequest, Block, BlockAll, BlockIdx, FlightMode, KeyPress, RequestWithoutDevices, PInv
<1>4. CASE PStartupStep
  BY <1>4, StartupKeepsPromise
<1>5. CASE PProcess
  BY <1>5 DEF PProcess, Start, Shutdown, Kill, Exit
<1>6. CASE UNCHANGED pvars
  BY <1>6 DEF pvars, vars, kernelVars, viewVars, storeVars, PInv, Promise
<1> QED
  BY <1>1, <1>2, <1>3, <1>4, <1>5, <1>6 DEF PNext

(***************************************************************************)
(* The invariant                                                           *)
(***************************************************************************)
\* The state that a process leaves behind counts as what it stores.
LEMMA ShutdownLeaves ==
    ASSUME TypeOK, Shutdown(TRUE),
           left' = [t \in Types |-> IF events = <<>> THEN Refreshed(t, devices, soft, hard)
                                                     ELSE NoAdapter]
    PROVE  /\ left' \in [Types -> KillswitchStates]
           /\ persist' = disk' /\ phase' = "down"
           /\ Persist => \A t \in Types :
                left'[t] # NoAdapter => (persist'[t] <=> CountsAsBlocked(left'[t]))
<1>1. \A t \in Types : Refreshed(t, devices, soft, hard) \in KillswitchStates
  BY RefreshedStates DEF TypeOK
<1>2. left' \in [Types -> KillswitchStates]
  BY <1>1 DEF KillswitchStates
<1>3. persist' = disk' /\ phase' = "down"
  BY DEF Shutdown, Exit
<1>4. ASSUME Persist, NEW t \in Types, left'[t] # NoAdapter
      PROVE  persist'[t] <=> CountsAsBlocked(left'[t])
  <2>1. left'[t] = Refreshed(t, devices, soft, hard)
    BY <1>4
  <2>2. persist'[t] = CountsAsBlocked(Refreshed(t, devices, soft, hard))
    BY <1>4, TypesAssumption DEF Shutdown, Exit
  <2> QED
    BY <2>1, <2>2
<1> QED
  BY <1>2, <1>3, <1>4

LEMMA PStep == ASSUME TypeOK, PInv, [PNext]_pvars PROVE PInv'
<1> USE DEF kernelVars, viewVars, storeVars
<1> DEFINE Rest == /\ phase = "startup" => devices = writable
                   /\ phase # "running" => persist = disk
                   /\ left \in [Types -> KillswitchStates]
                   /\ \A t \in Types :
                        left[t] # NoAdapter =>
                          /\ phase # "running"
                          /\ Persist => (persist[t] <=> CountsAsBlocked(left[t]))
<1>0. Rest /\ NoAdapter \in KillswitchStates
  BY DEF PInv, KillswitchStates
<1>1. ASSUME PKernel PROVE Rest'
  <2>1. UNCHANGED <<phase, devices, writable, persist, disk>>
    BY <1>1 DEF PKernel, Kernel, Plug, Unplug, KernelChange
  <2>2. \A t \in Types : left'[t] = left[t] \/ left'[t] = NoAdapter
    BY <1>1 DEF PKernel
  <2>3. left' \in [Types -> KillswitchStates]
    BY <1>0, <1>1 DEF PKernel
  <2> QED
    BY <1>0, <2>1, <2>2, <2>3
<1>2. ASSUME PHandleEvent PROVE Rest'
  BY <1>0, <1>2 DEF PHandleEvent, HandleAdd, HandleDel, HandleChange
<1>3. ASSUME PRequest PROVE Rest'
  <2>1. phase = "running" /\ left' = left
    BY <1>3 DEF PRequest, Block, BlockAll, BlockIdx, FlightMode, KeyPress, RequestWithoutDevices
  <2>2. phase' \in {"running", "crashed"} /\ (phase' = "crashed" => persist' = disk')
    BY <1>3 DEF PRequest, Block, BlockAll, BlockIdx, FlightMode, KeyPress,
                RequestWithoutDevices, Crash, Exit
  <2> QED
    BY <1>0, <2>1, <2>2
<1>4. ASSUME PStartupStep PROVE Rest'
  <2>1. CASE StartupDone
    BY <1>0, <1>4, <2>1 DEF PStartupStep, StartupAdd, StartupSkip, StartupDone
  <2>2. ASSUME NEW d \in Dev, StartupAdd(d), UNCHANGED left
        PROVE  Rest'
    <3>1. devices' = writable'
      <4>1. AddKillswitch(d, TRUE) /\ NextEvent("ADD", d) /\ devices = writable
        BY <1>0, <2>2 DEF StartupAdd
      <4>2. CASE d \in devices
        BY <4>1, <4>2 DEF AddKillswitch
      <4>3. CASE d \notin devices
        BY <4>1, <4>3, AddKillswitchWrites
      <4> QED
        BY <4>2, <4>3
    <3> QED
      BY <1>0, <2>2, <3>1 DEF StartupAdd
  <2>3. ASSUME NEW d \in Dev, StartupSkip(d), UNCHANGED left
        PROVE  Rest'
    BY <1>0, <2>3 DEF StartupSkip
  <2> QED
    BY <1>4, <2>1, <2>2, <2>3 DEF PStartupStep
<1>5. ASSUME PProcess PROVE Rest'
  <2>1. CASE Start /\ UNCHANGED left
    <3>1. phase \in {"down", "crashed"} /\ devices = {} /\ writable = {}
      BY <2>1 DEF Start, TypeOK, Listening
    <3> QED
      BY <1>0, <2>1, <3>1 DEF Start
  <2>2. CASE Shutdown(TRUE) /\ left' = [t \in Types |-> IF events = <<>>
                                                        THEN Refreshed(t, devices, soft, hard)
                                                  ELSE NoAdapter]
    BY <2>2, ShutdownLeaves
  <2>3. CASE Kill /\ UNCHANGED left
    BY <1>0, <2>3 DEF Kill, Exit, Listening
  <2>4. CASE Shutdown(FALSE) /\ UNCHANGED left
    BY <1>0, <2>4 DEF Shutdown, Exit
  <2> QED
    BY <1>5, <2>1, <2>2, <2>3, <2>4 DEF PProcess
<1>6. ASSUME UNCHANGED pvars PROVE Rest'
  BY <1>0, <1>6 DEF pvars, vars
<1>7. Rest'
  BY <1>1, <1>2, <1>3, <1>4, <1>5, <1>6 DEF PNext
<1> QED
  BY <1>7, PromiseStep DEF PInv

\* The history variables only watch: the arbitrator's theorems hold here too.
LEMMA OnlyWatches == PSpec => Spec
<1>1. PInit => Init
  BY DEF PInit
<1>2. [PNext]_pvars => [Next]_vars
  BY DEF PNext, Next, pvars, PKernel, PHandleEvent, HandleEvent, PRequest, Request,
         SwitchRequest, PStartupStep, StartupStep, PProcess, Process
<1> QED
  BY <1>1, <1>2, PTL DEF PSpec, Spec

LEMMA PInvariant == PSpec => [](TypeOK /\ PInv)
<1>1. PInit => PInv
  BY DEF PInit, Init, PInv, KillswitchStates
<1>2. Spec => []TypeOK
  BY TypeCorrect
<1>3. TypeOK /\ PInv /\ [PNext]_pvars => PInv'
  BY PStep
<1> QED
  BY <1>1, <1>2, <1>3, OnlyWatches, PTL DEF PSpec

(***************************************************************************)
(* The theorems                                                            *)
(***************************************************************************)
\* What a request that succeeded asked of a type is what every known device of
\* it has and what is stored, until somebody else changes one of them: writes
\* that failed, devices that come, events and the other requests included.
THEOREM PersistedStateHoldsAlways == PSpec => []PersistedStateHolds
<1>1. PInv => PersistedStateHolds
  BY DEF PInv, Promise, PersistedStateHolds
<1> QED
  BY <1>1, PInvariant, PTL

\* After a clean end and with no change from outside, however many starts were
\* killed in between, a start that comes to its end gives every device the block
\* that its type had.
THEOREM RestartRestores == PSpec => CleanRestartRestores
<1> DEFINE Restores ==
      StartupDone /\ Persist =>
        \A d \in kdev :
            left[Type[d]] # NoAdapter =>
                (ksoft'[d] <=> left[Type[d]] \in {SoftBlocked, HardBlocked})
<1>1. TypeOK /\ PInv /\ ViewConverges /\ [PNext]_pvars => Restores
  <2> SUFFICES ASSUME TypeOK, PInv, ViewConverges, [PNext]_pvars, StartupDone, Persist,
                      NEW d \in kdev, left[Type[d]] # NoAdapter
               PROVE  ksoft'[d] <=> left[Type[d]] \in {SoftBlocked, HardBlocked}
    OBVIOUS
  <2>1. d \in devices /\ Type[d] \in Types
    <3>1. DOMAIN events = {} /\ Listening /\ d \in Dev
      BY DEF StartupDone, Listening, TypeOK
    <3> QED
      BY <3>1, TypesAssumption DEF ViewConverges
  <2>2. ksoft'[d] = persist[Type[d]]
    <3>1. PStartupStep /\ phase' = "running"
      BY DEF StartupDone, PNext, PKernel, Kernel, Plug, Unplug, KernelChange, PHandleEvent,
             HandleAdd, HandleDel, HandleChange, PRequest, Block, BlockAll, BlockIdx,
             FlightMode, KeyPress, RequestWithoutDevices, PProcess, Start, Shutdown, Kill,
             Exit, pvars, vars
    <3> QED
      BY <2>1, <3>1, StartupKeepsPromise
  <2>3. persist[Type[d]] <=> CountsAsBlocked(left[Type[d]])
    BY <2>1 DEF PInv
  <2>4. left[Type[d]] \in KillswitchStates \ {NoAdapter}
    BY <2>1 DEF PInv
  <2> QED
    BY <2>2, <2>3, <2>4 DEF CountsAsBlocked, KillswitchStates, NoAdapter, Unblocked,
       SoftBlocked, HardBlocked
<1>2. Spec => []ViewConverges
  BY ViewConvergesAlways
<1> QED
  BY <1>1, <1>2, OnlyWatches, PInvariant, PTL DEF PSpec, CleanRestartRestores

(***************************************************************************)
(* Hard blocks under force_sync                                            *)
(***************************************************************************)
\* What the daemon believes of a device that nobody released is that a hard
\* block came with a soft one; the start-up loop has given every device the
\* stored block already when it writes that again at its end.
SyncInv ==
    /\ ForceSync => \A d \in writable \ released : hard[d] => soft[d]
    /\ phase = "startup" /\ Persist => \A d \in devices : soft[d] = persist[Type[d]]

LEMMA SyncStep == ASSUME TypeOK, SyncInv, [SNext]_svars PROVE SyncInv'
<1> USE DEF kernelVars, viewVars, storeVars
<1>t. /\ writable \subseteq devices /\ devices \subseteq Dev
      /\ soft \in [Dev -> BOOLEAN] /\ hard \in [Dev -> BOOLEAN]
  BY DEF TypeOK
\* A request counts every device that it leaves unblocked as released.
<1>1. ASSUME Request, released' = {d \in devices' : ~soft'[d]}
      PROVE  SyncInv'
  <2>1. TypeOK'
    BY <1>1, TypeStep DEF Next
  <2>2. phase = "running" /\ phase' # "startup"
    BY <1>1 DEF Request, SwitchRequest, Block, BlockAll, BlockIdx, FlightMode, KeyPress,
                RequestWithoutDevices, Crash, Exit
  <2>3. \A d \in writable' \ released' : soft'[d]
    BY <1>1, <2>1 DEF TypeOK
  <2> QED
    BY <2>2, <2>3 DEF SyncInv
<1> DEFINE Kept == released' = {d \in devices' : ~soft'[d] /\ (d \in released \/ d \notin devices)}
<1>2. ASSUME Kernel, Kept PROVE SyncInv'
  <2>1. UNCHANGED <<devices, writable, soft, hard, phase, persist>>
    BY <1>2 DEF Kernel, Plug, Unplug, KernelChange
  <2> QED
    BY <1>t, <1>2, <2>1 DEF SyncInv
<1>3. ASSUME NEW d \in Dev, NEW fd \in BOOLEAN, NextEvent("ADD", d), AddKillswitch(d, fd), Kept,
             UNCHANGED <<phase, persist>>, phase = "startup" => fd
      PROVE  SyncInv'
  <2>1. CASE d \in devices
    BY <1>t, <1>3, <2>1 DEF AddKillswitch, SyncInv
  <2>2. CASE d \notin devices
    <3>1. devices' = devices \cup {d} /\ writable' = IF fd THEN writable \cup {d} ELSE writable
      BY <1>3, <2>2, AddKillswitchWrites
    <3>2. \A x \in Dev : x # d => soft'[x] = soft[x] /\ hard'[x] = hard[x]
      BY <1>t, <1>3, <2>2 DEF AddKillswitch
    <3>3. fd /\ Persist => soft'[d] = persist[Type[d]]
      BY <1>t, <1>3, <2>2 DEF AddKillswitch
    <3> QED
      BY <1>t, <1>3, <2>2, <3>1, <3>2, <3>3 DEF SyncInv
  <2> QED
    BY <2>1, <2>2
<1>4. ASSUME NEW d \in Dev, HandleDel(d), Kept PROVE SyncInv'
  BY <1>t, <1>4 DEF HandleDel, SyncInv
<1>5. ASSUME NEW d \in Dev, HandleChange(d), Kept PROVE SyncInv'
  <2> DEFINE e    == Head(events)
             want == SyncRequest(d, e)
  <2>1. UNCHANGED <<devices, writable, phase>> /\ phase = "running"
    BY <1>5 DEF HandleChange
  <2>2. CASE UNCHANGED <<soft, hard>>
    BY <1>t, <1>5, <2>1, <2>2 DEF SyncInv
  <2>3. CASE d \in devices /\ <<e.soft, e.hard>> # <<soft[d], hard[d]>>
    <3>1. /\ hard' = [hard EXCEPT ![d] = e.hard]
          /\ soft' = [soft EXCEPT ![d] = IF Type[d] \in DOMAIN want
                                         THEN want[Type[d]] ELSE e.soft]
      BY <1>5, <2>3 DEF HandleChange
    <3>2. /\ d \in writable /\ ForceSync /\ e.hard /\ ~e.soft =>
               Type[d] \in DOMAIN want /\ want[Type[d]] = TRUE
          /\ d \in writable /\ ForceSync /\ e.hard /\ e.soft => Type[d] \notin DOMAIN want
      BY DEF SyncRequest, Only, Nothing
    <3> HIDE DEF want, e
    <3>3. d \in writable /\ ForceSync /\ hard'[d] => soft'[d]
      BY <1>t, <3>1, <3>2
    <3>4. \A x \in Dev : x # d => soft'[x] = soft[x] /\ hard'[x] = hard[x]
      BY <1>t, <3>1
    <3> QED
      BY <1>t, <1>5, <2>1, <3>3, <3>4 DEF SyncInv
  <2> QED
    BY <1>5, <2>2, <2>3 DEF HandleChange
<1>6. ASSUME HandleEvent, Kept PROVE SyncInv'
  BY <1>3, <1>4, <1>5, <1>6, OptionsAssumption DEF HandleEvent, HandleAdd
<1>7. ASSUME StartupStep, Kept PROVE SyncInv'
  <2>1. ASSUME NEW d \in Dev, StartupAdd(d) PROVE SyncInv'
    BY <1>3, <1>7, <2>1 DEF StartupAdd
  <2>2. ASSUME NEW d \in Dev, StartupSkip(d) PROVE SyncInv'
    BY <1>t, <1>7, <2>2 DEF StartupSkip, SyncInv
  <2>3. CASE StartupDone
    <3>1. /\ UNCHANGED <<devices, writable, hard>> /\ phase' = "running" /\ phase = "startup"
      BY <2>3 DEF StartupDone, SetBlock
    <3>2. \A d \in devices : soft'[d] = soft[d]
      <4>1. CASE Persist
        BY <1>t, <2>3, <3>1, <4>1 DEF StartupDone, SetBlock, SoftAfter, Reached, SyncInv
      <4>2. CASE ~Persist
        BY <2>3, <4>2 DEF StartupDone
      <4> QED
        BY <4>1, <4>2
    <3> QED
      BY <1>t, <1>7, <3>1, <3>2 DEF SyncInv
  <2> QED
    BY <1>7, <2>1, <2>2, <2>3 DEF StartupStep
<1>8. ASSUME Process, Kept PROVE SyncInv'
  <2>1. writable' = {} /\ devices' = {}
    <3>1. Start => writable = {} /\ devices = {}
      BY DEF Start, TypeOK, Listening
    <3> QED
      BY <1>8, <3>1 DEF Process, Start, Shutdown, Kill, Exit
  <2> QED
    BY <2>1 DEF SyncInv
<1>9. ASSUME UNCHANGED svars PROVE SyncInv'
  BY <1>9 DEF svars, vars, SyncInv
<1> QED
  BY <1>1, <1>2, <1>6, <1>7, <1>8, <1>9 DEF SNext

\* Once the queue is read, a hard block that nobody lifted comes with a soft
\* one, however the switches of the other devices of the type were moved.
THEOREM HardBlockSticksAlways == SSpec => []HardBlockSticks
<1>1. SInit => Init /\ SyncInv
  BY DEF SInit, Init, SyncInv
<1>2. [SNext]_svars => [Next]_vars
  BY DEF SNext, Next, svars
<1>3. TypeOK /\ SyncInv /\ [SNext]_svars => SyncInv'
  BY SyncStep
<1>4. Spec => [](TypeOK /\ ViewConverges)
  BY TypeCorrect, ViewConvergesAlways, PTL
<1>5. TypeOK /\ ViewConverges /\ SyncInv => HardBlockSticks
  <2> SUFFICES ASSUME TypeOK, ViewConverges, SyncInv, ForceSync, phase = "running",
                      events = <<>>,
                      NEW d \in (kdev \cap writable) \ (released \cup dropped), khard[d]
               PROVE  ksoft[d]
    BY DEF HardBlockSticks
  <2>1. DOMAIN events = {} /\ Listening /\ d \in Dev /\ d \in devices
    BY DEF Listening, TypeOK
  <2>2. soft[d] = ksoft[d] /\ hard[d] = khard[d]
    BY <2>1 DEF ViewConverges
  <2> QED
    BY <2>2 DEF SyncInv
<1> QED
  BY <1>1, <1>2, <1>3, <1>4, <1>5, PTL DEF SSpec, Spec

(***************************************************************************)
(* Flight mode as a round trip                                             *)
(***************************************************************************)
\* The states of the devices in S.
States(S, s, h) == {EventToState(s[d], h[d]) : d \in S}

\* Devices none of which is hard blocked: when all get a soft block, the state of
\* the set is "soft blocked".
LEMMA SoftenedSet ==
    ASSUME NEW S, NEW s, NEW h, NEW s2,
           \A d \in S : s[d] \in BOOLEAN /\ h[d] \in BOOLEAN /\ s2[d] = TRUE,
           Highest(States(S, s, h)) \in {Unblocked, SoftBlocked}
    PROVE  Highest(States(S, s2, h)) = SoftBlocked
<1> DEFINE Old == States(S, s, h)
<1>1. Old \in SUBSET {Unblocked, SoftBlocked, HardBlocked}
  BY DEF EventToState, States
<1>2. /\ Highest(Old) = NoAdapter <=> Old = {}
      /\ \A x \in Old : x <= Highest(Old)
  BY <1>1, HighestState
<1>3. \A d \in S : EventToState(s[d], h[d]) \in Old
  BY DEF States
<1>4. Highest(Old) # NoAdapter /\ ~(HardBlocked <= Highest(Old))
  BY DEF NoAdapter, Unblocked, SoftBlocked, HardBlocked
<1>5. \A d \in S : ~h[d]
  BY <1>2, <1>3, <1>4 DEF EventToState
<1>6. S # {}
  BY <1>2, <1>4 DEF States
<1>7. \A d \in S : EventToState(s2[d], h[d]) = SoftBlocked
  BY <1>5 DEF EventToState
<1>8. States(S, s2, h) = {SoftBlocked}
  BY <1>6, <1>7 DEF States
<1>9. Highest({SoftBlocked}) \in {SoftBlocked, NoAdapter} /\ Highest({SoftBlocked}) # NoAdapter
  <2>1. {SoftBlocked} \in SUBSET {Unblocked, SoftBlocked, HardBlocked}
    OBVIOUS
  <2> QED
    BY <2>1, HighestState
<1> QED
  BY <1>8, <1>9

\* The same for a switch, whatever its platform devices are.
LEMMA SoftenedSwitch ==
    ASSUME NEW D, NEW P, NEW s, NEW h, NEW s2,
           \A d \in D : s[d] \in BOOLEAN /\ h[d] \in BOOLEAN /\ s2[d] = TRUE,
           SwitchState(D, P, s, h) \in {Unblocked, SoftBlocked}
    PROVE  SwitchState(D, P, s2, h) = SoftBlocked
<1> DEFINE A == D \cap P
           B == D \ P
<1>1. ASSUME NEW S \in SUBSET D, Highest(States(S, s, h)) \in {Unblocked, SoftBlocked}
      PROVE  Highest(States(S, s2, h)) = SoftBlocked
  <2>1. \A d \in S : s[d] \in BOOLEAN /\ h[d] \in BOOLEAN /\ s2[d] = TRUE
    OBVIOUS
  <2> QED
    BY <1>1, <2>1, SoftenedSet
<1>2. /\ SwitchState(D, P, s, h) =
           IF A = {} THEN Highest(States(B, s, h))
           ELSE AggregateStates(Highest(States(A, s, h)), Highest(States(B, s, h)))
      /\ SwitchState(D, P, s2, h) =
           IF A = {} THEN Highest(States(B, s2, h))
           ELSE AggregateStates(Highest(States(A, s2, h)), Highest(States(B, s2, h)))
  BY DEF SwitchState, States
<1>3. A \in SUBSET D /\ B \in SUBSET D
  OBVIOUS
<1> HIDE DEF A, B
<1>4. CASE A = {}
  BY <1>1, <1>2, <1>3, <1>4
<1>5. CASE A # {}
  <2>1. Highest(States(A, s, h)) \in {Unblocked, SoftBlocked}
    BY <1>2, <1>5 DEF AggregateStates
  <2>2. Highest(States(A, s2, h)) = SoftBlocked
    BY <1>1, <1>3, <2>1
  <2> QED
    BY <1>2, <1>5, <2>2 DEF AggregateStates, SoftBlocked, Unblocked
<1> QED
  BY <1>4, <1>5

\* The state of a type depends on nothing but the facts about its devices.
LEMMA SameFacts ==
    ASSUME NEW t \in Types, \A d \in Dev : Type[d] = t => Facts(d)' = Facts(d),
           devices \subseteq Dev, devices' \subseteq Dev
    PROVE  /\ DevicesOf(t, devices') = DevicesOf(t, devices)
           /\ Refreshed(t, devices', soft', hard') = Refreshed(t, devices, soft, hard)
<1>1. DevicesOf(t, devices') = DevicesOf(t, devices)
  BY DEF DevicesOf, Facts
<1>2. \A d \in DevicesOf(t, devices) : soft'[d] = soft[d] /\ hard'[d] = hard[d]
  BY DEF DevicesOf, Facts
<1>3. \A S \in SUBSET DevicesOf(t, devices) :
         {EventToState(soft'[d], hard'[d]) : d \in S} = {EventToState(soft[d], hard[d]) : d \in S}
  BY <1>2
<1> QED
  BY <1>1, <1>3 DEF Refreshed, SwitchState

\* Between entry and return the saved state is the one at entry, every device of
\* the type can be written, and the type is soft blocked.
FlightTrip ==
    /\ before \in [Types -> KillswitchStates]
    /\ \A t \in Types :
          before[t] \in {Unblocked, SoftBlocked} =>
            /\ saved[t] = before[t]
            /\ SetOk(t)
            /\ Refreshed(t, devices, soft, hard) = SoftBlocked

LEMMA TripStep == ASSUME TypeOK, FlightTrip, [FNext]_fvars PROVE FlightTrip'
<1> USE DEF kernelVars, viewVars, storeVars, switchVars
<1>t. /\ devices \subseteq Dev /\ soft \in [Dev -> BOOLEAN] /\ hard \in [Dev -> BOOLEAN]
      /\ saved \in [Types -> KillswitchStates] /\ writable \subseteq devices
      /\ NoAdapter \in KillswitchStates
  BY DEF TypeOK, KillswitchStates
\* A type that keeps its facts keeps its saved state and its open devices.
<1>1. ASSUME Kernel \/ HandleEvent \/ StartupStep \/ SwitchRequest \/ Process,
             NEW t \in Types, \A d \in Dev : Type[d] = t => Facts(d)' = Facts(d),
             DevicesOf(t, devices) # {}, SetOk(t)
      PROVE  saved'[t] = saved[t] /\ SetOk(t)'
  <2>1. ASSUME UNCHANGED <<devices, writable, saved>>
        PROVE  saved'[t] = saved[t] /\ SetOk(t)'
    BY <1>1, <2>1 DEF SetOk, DevicesOf
  <2>2. ASSUME Exit("down", disk) \/ Exit("crashed", disk) \/ \E st : Exit("down", st)
        PROVE  FALSE
    <3>1. devices' = {}
      BY <2>2 DEF Exit
    <3> QED
      BY <1>t, <1>1, <3>1 DEF Facts, DevicesOf
  <2>3. CASE Kernel
    BY <2>1, <2>3 DEF Kernel, Plug, Unplug, KernelChange
  <2>4. ASSUME NEW d \in Dev, NEW fd \in BOOLEAN, NextEvent("ADD", d), AddKillswitch(d, fd)
        PROVE  saved'[t] = saved[t] /\ SetOk(t)'
    <3>1. CASE d \in devices
      BY <2>1, <2>4, <3>1 DEF AddKillswitch
    <3>2. CASE d \notin devices
      <4>1. devices' = devices \cup {d} /\ writable \subseteq writable' /\ saved' = saved
        BY <2>4, <3>2 DEF AddKillswitch, NewDevice
      <4>2. Type[d] # t
        BY <1>1, <3>2, <4>1 DEF Facts
      <4> QED
        BY <1>1, <4>1, <4>2 DEF SetOk, DevicesOf
    <3> QED
      BY <3>1, <3>2
  <2>5. ASSUME NEW d \in Dev, HandleDel(d)
        PROVE  saved'[t] = saved[t] /\ SetOk(t)'
    <3>1. CASE d \notin devices
      BY <2>1, <2>5, <3>1 DEF HandleDel
    <3>2. CASE d \in devices
      <4>1. /\ devices' = devices \ {d} /\ writable' = writable \ {d}
            /\ saved' = SavedAfterRefresh(Type[d], devices')
        BY <2>5, <3>2 DEF HandleDel
      <4>2. Type[d] # t
        BY <1>1, <3>2, <4>1 DEF Facts
      <4> QED
        BY <1>t, <1>1, <4>1, <4>2 DEF SetOk, DevicesOf, SavedAfterRefresh
    <3> QED
      BY <3>1, <3>2
  <2>6. ASSUME NEW d \in Dev, HandleChange(d)
        PROVE  saved'[t] = saved[t] /\ SetOk(t)'
    BY <2>1, <2>6 DEF HandleChange
  <2>7. CASE HandleEvent
    BY <2>4, <2>5, <2>6, <2>7, OptionsAssumption DEF HandleEvent, HandleAdd
  <2>8. CASE StartupStep
    BY <2>1, <2>4, <2>8 DEF StartupStep, StartupAdd, StartupSkip, StartupDone, SetBlock
  <2>9. ASSUME NEW k \in KeyTypes, KeyPress(k)
        PROVE  saved'[t] = saved[t] /\ SetOk(t)'
    <3> DEFINE u  == IF k = RfkillAll THEN RfkillWlan ELSE k
               st == Refreshed(u, devices, soft, hard)
    <3>1. CASE st # NoAdapter /\ (k = RfkillAll \/ MasterKey)
      BY <2>2, <2>9, <3>1 DEF KeyPress, Crash
    <3>2. CASE ~(st # NoAdapter /\ (k = RfkillAll \/ MasterKey))
      <4>1. saved' = SavedAfterRefresh(u, devices) /\ UNCHANGED <<devices, writable>>
        BY <2>9, <3>2 DEF KeyPress, SetBlock
      <4> QED
        BY <1>t, <1>1, <4>1 DEF SetOk, DevicesOf, SavedAfterRefresh
    <3> QED
      BY <3>1, <3>2
  <2>10. CASE SwitchRequest
    BY <2>1, <2>2, <2>9, <2>10
       DEF SwitchRequest, Block, BlockAll, BlockIdx, RequestWithoutDevices, SetBlock, Crash
  <2>11. CASE Process
    BY <2>1, <2>2, <2>11 DEF Process, Start, Shutdown, Kill
  <2> QED
    BY <1>1, <2>3, <2>7, <2>8, <2>10, <2>11
<1>2. ASSUME FOther PROVE FlightTrip'
  <2>1. devices' \subseteq Dev
    BY <1>2, TypeStep DEF FOther, Next, Request, TypeOK
  <2>2. before' \in [Types -> KillswitchStates]
    BY <1>t, <1>2 DEF FOther, FlightTrip
  <2>3. ASSUME NEW t \in Types, before'[t] \in {Unblocked, SoftBlocked}
        PROVE  /\ saved'[t] = before'[t] /\ SetOk(t)'
               /\ Refreshed(t, devices', soft', hard') = SoftBlocked
    <3>1. /\ before'[t] = before[t]
          /\ \A d \in Dev : Type[d] = t => Facts(d)' = Facts(d)
      BY <1>2, <2>3 DEF FOther, NoAdapter, Unblocked, SoftBlocked
    <3>2. saved[t] = before[t] /\ SetOk(t) /\ Refreshed(t, devices, soft, hard) = SoftBlocked
      BY <2>3, <3>1 DEF FlightTrip
    <3>3. DevicesOf(t, devices) # {}
      BY <1>t, <3>2, RefreshedStates DEF SoftBlocked, NoAdapter
    <3>4. saved'[t] = saved[t] /\ SetOk(t)'
      BY <1>1, <1>2, <3>1, <3>2, <3>3 DEF FOther
    <3> QED
      BY <1>t, <2>1, <3>1, <3>2, <3>4, SameFacts
  <2> QED
    BY <2>2, <2>3 DEF FlightTrip
<1>3. ASSUME NEW b \in BOOLEAN, FFlightMode(b) PROVE FlightTrip'
  <2> DEFINE now     == [t \in Types |-> Refreshed(t, devices, soft, hard)]
             present == {t \in Types : now[t] # NoAdapter}
             want    == [t \in present |-> FlightRequest(t, now[t], b)]
  <2>1. /\ SetBlock(want)
        /\ saved' = [t \in Types |-> IF t \notin present THEN NoAdapter
                                     ELSE IF b THEN now[t] ELSE saved[t]]
        /\ before' = [t \in Types |-> IF b /\ SetOk(t) THEN now[t] ELSE NoAdapter]
    BY <1>3 DEF FFlightMode, FlightMode
  <2>2. \A t \in Types : now[t] \in KillswitchStates
    BY <1>t, RefreshedStates
  <2>3. before' \in [Types -> KillswitchStates]
    BY <1>t, <2>1, <2>2
  <2>4. /\ UNCHANGED <<devices, writable, hard>> /\ soft' = SoftAfter(want)
    BY <2>1 DEF SetBlock
  <2>5. ASSUME NEW t \in Types, before'[t] \in {Unblocked, SoftBlocked}
        PROVE  /\ saved'[t] = before'[t] /\ SetOk(t)'
               /\ Refreshed(t, devices', soft', hard') = SoftBlocked
    <3>1. b /\ SetOk(t) /\ before'[t] = now[t] /\ now[t] \in {Unblocked, SoftBlocked}
      BY <2>1, <2>5 DEF NoAdapter, Unblocked, SoftBlocked
    <3>2. t \in present /\ saved'[t] = now[t]
      BY <2>1, <3>1 DEF NoAdapter, Unblocked, SoftBlocked
    <3>3. want[t] = TRUE /\ t \in DOMAIN want
      BY <3>1, <3>2 DEF FlightRequest
    <3> HIDE DEF want
    <3>4. \A d \in DevicesOf(t, devices) : soft'[d] = TRUE
      BY <1>t, <2>4, <3>1, <3>3 DEF SoftAfter, Reached, SetOk, DevicesOf
    <3>5. SwitchState(DevicesOf(t, devices), Platform, soft, hard) \in {Unblocked, SoftBlocked}
      BY <3>1 DEF Refreshed
    <3>6. \A d \in DevicesOf(t, devices) : soft[d] \in BOOLEAN /\ hard[d] \in BOOLEAN
      BY <1>t DEF DevicesOf
    <3>7. SwitchState(DevicesOf(t, devices), Platform, soft', hard) = SoftBlocked
      BY <3>4, <3>5, <3>6, SoftenedSwitch
    <3>8. Refreshed(t, devices', soft', hard') = SoftBlocked
      BY <2>4, <3>7 DEF Refreshed
    <3>9. SetOk(t)'
      BY <2>4, <3>1 DEF SetOk, DevicesOf
    <3> QED
      BY <3>1, <3>2, <3>8, <3>9
  <2> QED
    BY <2>3, <2>5 DEF FlightTrip
<1>4. ASSUME UNCHANGED fvars PROVE FlightTrip'
  BY <1>4 DEF fvars, vars, FlightTrip, SetOk
<1> QED
  BY <1>2, <1>3, <1>4 DEF FNext

\* Leaving flight mode blocks the types that were soft blocked when it was
\* entered and unblocks those that were not, with any platform switches and with
\* the daemon's own echoes read or not.
THEOREM RoundTripAlways == FSpec => FlightModeRoundTrip
<1> DEFINE Returns ==
      FlightMode(FALSE) =>
        \A d \in devices \cap kdev :
            before[Type[d]] \in {Unblocked, SoftBlocked} =>
                (ksoft'[d] <=> before[Type[d]] = SoftBlocked)
<1>1. TypeOK /\ FlightTrip => Returns
  <2> SUFFICES ASSUME TypeOK, FlightTrip, FlightMode(FALSE), NEW d \in devices \cap kdev,
                      before[Type[d]] \in {Unblocked, SoftBlocked}
               PROVE  ksoft'[d] <=> before[Type[d]] = SoftBlocked
    OBVIOUS
  <2> DEFINE now     == [t \in Types |-> Refreshed(t, devices, soft, hard)]
             present == {t \in Types : now[t] # NoAdapter}
             want    == [t \in present |-> FlightRequest(t, now[t], FALSE)]
             t       == Type[d]
  <2>1. t \in Types /\ \A x \in Types : saved[x] \in KillswitchStates
    BY TypesAssumption DEF TypeOK
  <2>2. saved[t] = before[t] /\ SetOk(t) /\ now[t] = SoftBlocked
    BY <2>1 DEF FlightTrip
  <2>3. SetBlock(want)
    BY DEF FlightMode
  <2>4. t \in DOMAIN want /\ want[t] = FlightRequest(t, SoftBlocked, FALSE)
    <3>1. SoftBlocked # NoAdapter
      BY DEF SoftBlocked, NoAdapter
    <3>2. t \in present
      BY <2>1, <2>2, <3>1
    <3> HIDE DEF now, present
    <3> QED
      BY <2>2, <3>2
  <2>5. \A x \in DOMAIN want : want[x] \in BOOLEAN
    BY <2>1, CountsAsBlockedType DEF FlightRequest
  <2> HIDE DEF want
  <2>6. ksoft'[d] = want[t]
    BY <2>2, <2>3, <2>4, <2>5, SetBlockWrites
  <2>7. want[t] <=> before[t] = SoftBlocked
    <3>1. CASE before[t] = SoftBlocked
      <4>1. want[t] = (SoftBlocked > Unblocked)
        BY <2>2, <2>4, <3>1 DEF FlightRequest, CountsAsBlocked
      <4>2. (SoftBlocked > Unblocked) = TRUE
        BY DEF SoftBlocked, Unblocked
      <4>3. want[t] = TRUE
        BY <4>1, <4>2
      <4> QED
        BY <3>1, <4>3
    <3>2. CASE before[t] = Unblocked
      <4>1. SoftBlocked # Unblocked
        BY DEF SoftBlocked, Unblocked
      <4>2. want[t] = FALSE
        BY <2>2, <2>4, <3>2, <4>1 DEF FlightRequest
      <4> QED
        BY <3>2, <4>1, <4>2
    <3> QED
      BY <3>1, <3>2
  <2> QED
    BY <2>6, <2>7
<1>2. FInit => Init /\ FlightTrip
  BY DEF FInit, FlightTrip, NoAdapter, Unblocked, SoftBlocked, HardBlocked, KillswitchStates
<1>3. [FNext]_fvars => [Next]_vars
  BY DEF FNext, FOther, FFlightMode, Next, Request, fvars
<1>4. TypeOK /\ FlightTrip /\ [FNext]_fvars => FlightTrip'
  BY TripStep
<1>5. Spec => []TypeOK
  BY TypeCorrect
<1> QED
  BY <1>1, <1>2, <1>3, <1>4, <1>5, PTL DEF FSpec, Spec, FlightModeRoundTrip

=============================================================================
