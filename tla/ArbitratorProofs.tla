-------------------------- MODULE ArbitratorProofs --------------------------
(***************************************************************************)
(* Proofs about Arbitrator, for every set of devices, types and options: the*)
(* types, and that the daemon's copy of the rfkill devices converges to the*)
(* kernel's (ViewConverges) while events come in order (EventsInOrder).    *)
(***************************************************************************)
EXTENDS Arbitrator, TLAPS, FiniteSetTheorems, SequenceTheorems, WellFoundedInduction

(***************************************************************************)
(* Killswitch states                                                       *)
(***************************************************************************)
\* The maximum of a set of device states is one of them, or NoAdapter for the
\* empty set.
LEMMA HighestState ==
    ASSUME NEW S \in SUBSET {Unblocked, SoftBlocked, HardBlocked}
    PROVE  /\ Highest(S) \in S \cup {NoAdapter}
           /\ Highest(S) = NoAdapter <=> S = {}
           /\ \A x \in S : x <= Highest(S)
<1> DEFINE T == S \cup {NoAdapter}
<1>1. \E m \in T : \A x \in T : x <= m
  BY DEF NoAdapter, Unblocked, SoftBlocked, HardBlocked
<1>2. Highest(S) \in T /\ \A x \in T : x <= Highest(S)
  BY <1>1 DEF Highest
<1> HIDE DEF T
<1>3. Highest(S) = NoAdapter => S = {}
  BY <1>2 DEF T, NoAdapter, Unblocked, SoftBlocked, HardBlocked
<1>4. S = {} => Highest(S) = NoAdapter
  BY <1>2 DEF T
<1>5. QED
  BY <1>2, <1>3, <1>4 DEF T

\* The state of a switch is NoAdapter exactly when it has no device.
LEMMA SwitchStates ==
    ASSUME NEW D, NEW P,
           NEW s, NEW h, \A d \in D : s[d] \in BOOLEAN /\ h[d] \in BOOLEAN
    PROVE  /\ SwitchState(D, P, s, h) \in KillswitchStates
           /\ SwitchState(D, P, s, h) = NoAdapter <=> D = {}
<1> DEFINE Of(S) == {EventToState(s[d], h[d]) : d \in S}
<1>1. ASSUME NEW S \in SUBSET D
      PROVE  /\ Of(S) \in SUBSET {Unblocked, SoftBlocked, HardBlocked}
             /\ Of(S) = {} <=> S = {}
  BY DEF EventToState
<1>2. ASSUME NEW S \in SUBSET D
      PROVE  /\ Highest(Of(S)) \in KillswitchStates
             /\ Highest(Of(S)) = NoAdapter <=> S = {}
  BY <1>1, HighestState DEF KillswitchStates
<1>3. D \cap P \in SUBSET D /\ D \ P \in SUBSET D
  OBVIOUS
<1>4. /\ Highest(Of(D \cap P)) \in KillswitchStates
      /\ Highest(Of(D \cap P)) = NoAdapter <=> D \cap P = {}
      /\ Highest(Of(D \ P)) \in KillswitchStates
      /\ Highest(Of(D \ P)) = NoAdapter <=> D \ P = {}
  BY <1>2, <1>3
<1> HIDE DEF Of
<1>5. SwitchState(D, P, s, h) =
        IF D \cap P = {} THEN Highest(Of(D \ P))
        ELSE AggregateStates(Highest(Of(D \cap P)), Highest(Of(D \ P)))
  BY DEF SwitchState, Of
<1>6. D = {} <=> D \cap P = {} /\ D \ P = {}
  OBVIOUS
<1>7. QED
  BY <1>4, <1>5, <1>6 DEF AggregateStates, KillswitchStates, NoAdapter, Unblocked,
     SoftBlocked, HardBlocked

LEMMA RefreshedStates ==
    ASSUME NEW t \in Types, NEW D \in SUBSET Dev,
           NEW s \in [Dev -> BOOLEAN], NEW h \in [Dev -> BOOLEAN]
    PROVE  /\ Refreshed(t, D, s, h) \in KillswitchStates
           /\ Refreshed(t, D, s, h) = NoAdapter <=> DevicesOf(t, D) = {}
<1>1. \A d \in DevicesOf(t, D) : s[d] \in BOOLEAN /\ h[d] \in BOOLEAN
  BY DEF DevicesOf
<1>2. QED
  BY <1>1, SwitchStates DEF Refreshed

LEMMA CountsAsBlockedType ==
    \A st \in KillswitchStates : CountsAsBlocked(st) \in BOOLEAN
BY DEF CountsAsBlocked, KillswitchStates, NoAdapter, Unblocked, SoftBlocked, HardBlocked

(***************************************************************************)
(* The kernel's writes                                                     *)
(***************************************************************************)
LEMMA ListingIsSeq ==
    ASSUME NEW S \in SUBSET Dev, NEW s \in Listings(S)
    PROVE  /\ s \in Seq(S)
           /\ \A i \in 1..Len(s) : s[i] \in S
           /\ \A d \in S : \E i \in 1..Len(s) : s[i] = d
           /\ \A i, j \in 1..Len(s) : i < j => s[i] # s[j]
<1>1. IsFiniteSet(S) /\ Cardinality(S) \in Nat
  BY DevAssumption, FS_Subset, FS_CardinalityType
<1>2. s \in [1..Cardinality(S) -> S]
  BY DEF Listings
<1>3. s \in Seq(S) /\ Len(s) = Cardinality(S) /\ DOMAIN s = 1..Len(s)
  BY <1>1, <1>2
<1>4. \A d \in S : \E i \in 1..Len(s) : s[i] = d
  BY <1>3 DEF Listings
<1>5. ASSUME NEW i \in 1..Len(s), NEW j \in 1..Len(s), i < j
      PROVE  s[i] # s[j]
  <2>1. \/ Type[s[i]] < Type[s[j]]
        \/ Type[s[i]] = Type[s[j]] /\ s[i] < s[j]
    BY <1>3, <1>5 DEF Listings
  <2>2. s[i] \in Dev
    BY <1>3
  <2>3. s[i] \in Nat /\ Type[s[i]] \in Nat
    BY <2>2, DevAssumption, TypesAssumption
  <2>4. QED
    BY <2>1, <2>3
<1>6. QED
  BY <1>3, <1>4, <1>5

LEMMA EventsForType ==
    ASSUME NEW op \in EventOps, NEW S \in SUBSET Dev, NEW s \in Listings(S),
           NEW ks \in [Dev -> BOOLEAN], NEW kh \in [Dev -> BOOLEAN]
    PROVE  /\ EventsFor(op, s, ks, kh) \in Seq(Event)
           /\ Len(EventsFor(op, s, ks, kh)) = Len(s)
           /\ \A i \in 1..Len(s) :
                EventsFor(op, s, ks, kh)[i] =
                    [op |-> op, idx |-> s[i], soft |-> ks[s[i]], hard |-> kh[s[i]]]
<1>1. s \in Seq(S) /\ \A i \in 1..Len(s) : s[i] \in Dev
  BY ListingIsSeq
<1>2. DOMAIN s = 1..Len(s) /\ Len(s) \in Nat
  BY <1>1
<1>3. \A i \in 1..Len(s) :
        [op |-> op, idx |-> s[i], soft |-> ks[s[i]], hard |-> kh[s[i]]] \in Event
  BY <1>1 DEF Event
<1>4. QED
  BY <1>2, <1>3 DEF EventsFor

\* b only reports to the daemon what the kernel now has of present devices.
Echo(b, ks) ==
    /\ b \in Seq(Event)
    /\ \A i \in 1..Len(b) :
        /\ b[i].op = "CHANGE"
        /\ b[i].idx \in kdev
        /\ b[i].soft = ks[b[i].idx]
        /\ b[i].hard = khard[b[i].idx]

\* The soft blocks ks with want applied to the present devices.
Applied(want, ks, r) ==
    \A d \in Dev : r.ks[d] = IF d \in kdev /\ Type[d] \in DOMAIN want
                             THEN want[Type[d]] ELSE ks[d]

\* From soft blocks ks and queue q, r has reported every change to the daemon.
Reported(ks, q, r) ==
    \E b : /\ Echo(b, r.ks)
           /\ r.q = q \o b
           /\ \A d \in Dev : r.ks[d] # ks[d] => \E i \in 1..Len(b) : b[i].idx = d

\* A CHANGE_ALL changes exactly the present devices of the types it names, and
\* appends to the queue a true event for every device that it really changed.
LEMMA ChangeAllEffect ==
    ASSUME kdev \in SUBSET Dev, khard \in [Dev -> BOOLEAN],
           NEW want, \A t \in DOMAIN want : want[t] \in BOOLEAN,
           NEW ks \in [Dev -> BOOLEAN], NEW q \in Seq(Event),
           NEW r \in ChangeAll(want, ks, q)
    PROVE  /\ r.ks \in [Dev -> BOOLEAN]
           /\ Applied(want, ks, r)
           /\ r.q \in Seq(Event)
           /\ Reported(ks, q, r)
<1> DEFINE after == [d \in Dev |-> IF d \in kdev /\ Type[d] \in DOMAIN want
                                   THEN want[Type[d]] ELSE ks[d]]
           S     == {d \in kdev : Type[d] \in DOMAIN want /\ ks[d] # after[d]}
<1>1. after \in [Dev -> BOOLEAN]
  OBVIOUS
<1>2. PICK s \in Listings(S) :
        r = [ks |-> after, q |-> q \o EventsFor("CHANGE", s, after, khard)]
  <2> DEFINE hit   == {d \in kdev : Type[d] \in DOMAIN want}
             after2 == [d \in Dev |-> IF d \in hit THEN want[Type[d]] ELSE ks[d]]
  <2>1. after2 = after
    OBVIOUS
  <2>2. {d \in hit : ks[d] # after2[d]} = S
    BY <2>1
  <2>3. \E s \in Listings({d \in hit : ks[d] # after2[d]}) :
          r = [ks |-> after2, q |-> q \o EventsFor("CHANGE", s, after2, khard)]
    BY DEF ChangeAll
  <2>4. QED
    BY <2>1, <2>2, <2>3
<1> DEFINE echo == EventsFor("CHANGE", s, after, khard)
           Report(d) == [op |-> "CHANGE", idx |-> d, soft |-> after[d], hard |-> khard[d]]
<1>3. S \in SUBSET Dev /\ S \in SUBSET kdev /\ "CHANGE" \in EventOps
  BY DEF EventOps
<1> HIDE DEF after, S
<1>4. /\ s \in Seq(S)
      /\ \A i \in 1..Len(s) : s[i] \in S
      /\ \A d \in S : \E i \in 1..Len(s) : s[i] = d
  BY <1>2, <1>3, ListingIsSeq
<1>5. /\ echo \in Seq(Event) /\ Len(echo) = Len(s)
      /\ \A i \in 1..Len(s) : echo[i] = Report(s[i])
  BY <1>1, <1>2, <1>3, EventsForType, ZenonT(60)
<1>6. r.ks = after /\ r.q = q \o echo
  BY <1>2
<1> HIDE DEF echo
<1>7. ASSUME NEW i \in 1..Len(s)
      PROVE  /\ echo[i].op = "CHANGE"
             /\ echo[i].idx = s[i]
             /\ echo[i].soft = after[s[i]]
             /\ echo[i].hard = khard[s[i]]
  <2>1. echo[i] = Report(s[i])
    BY <1>5
  <2>2. QED
    BY <2>1
<1>8. Echo(echo, after)
  BY <1>3, <1>4, <1>5, <1>7 DEF Echo
<1>9. ASSUME NEW d \in Dev, after[d] # ks[d]
      PROVE  \E i \in 1..Len(echo) : echo[i].idx = d
  <2>1. d \in S
    BY <1>9 DEF S, after
  <2>2. PICK i \in 1..Len(s) : s[i] = d
    BY <2>1, <1>4
  <2>3. echo[i].idx = d
    BY <1>7, <2>2
  <2>4. QED
    BY <1>5, <2>3
<1>10. r.q \in Seq(Event)
  BY <1>5, <1>6
<1>11. Applied(want, ks, r)
  BY <1>6 DEF after, Applied
<1>12. Reported(ks, q, r)
  <2>1. /\ Echo(echo, r.ks)
        /\ r.q = q \o echo
        /\ \A d \in Dev : r.ks[d] # ks[d] => \E i \in 1..Len(echo) : echo[i].idx = d
    BY <1>6, <1>8, <1>9
  <2>2. QED
    BY <2>1 DEF Reported
<1>13. r.ks \in [Dev -> BOOLEAN]
  BY <1>1, <1>6
<1>14. QED
  BY <1>10, <1>11, <1>12, <1>13

(***************************************************************************)
(* Types                                                                   *)
(***************************************************************************)
\* A queue of well-formed events about indices that were handed out.
Queue(q) == q \in Seq(Event) /\ \A i \in 1..Len(q) : q[i].idx \in plugged

LEMMA ChangeAllTypes ==
    ASSUME TypeOK,
           NEW want, \A t \in DOMAIN want : want[t] \in BOOLEAN,
           NEW ks \in [Dev -> BOOLEAN], NEW q, Queue(q),
           NEW r \in ChangeAll(want, ks, q)
    PROVE  r.ks \in [Dev -> BOOLEAN] /\ Queue(r.q)
<1>1. kdev \in SUBSET Dev /\ kdev \subseteq plugged /\ khard \in [Dev -> BOOLEAN]
  BY DEF TypeOK
<1>2. q \in Seq(Event)
  BY DEF Queue
<1>3. r.ks \in [Dev -> BOOLEAN] /\ r.q \in Seq(Event) /\ Reported(ks, q, r)
  BY <1>1, <1>2, ChangeAllEffect
<1>4. PICK b : Echo(b, r.ks) /\ r.q = q \o b
  BY <1>3 DEF Reported
<1>5. b \in Seq(Event) /\ \A i \in 1..Len(b) : b[i].idx \in plugged
  BY <1>1, <1>4 DEF Echo
<1>6. ASSUME NEW i \in 1..Len(r.q)
      PROVE  r.q[i].idx \in plugged
  <2>1. Len(q \o b) = Len(q) + Len(b) /\ Len(q) \in Nat /\ Len(b) \in Nat
    BY <1>2, <1>5
  <2>2. CASE i <= Len(q)
    BY <1>2, <1>4, <1>5, <2>1, <2>2 DEF Queue
  <2>3. CASE i > Len(q)
    <3>1. r.q[i] = b[i - Len(q)] /\ i - Len(q) \in 1..Len(b)
      BY <1>2, <1>4, <1>5, <2>1, <2>3
    <3>2. QED
      BY <3>1, <1>5
  <2>4. QED
    BY <2>1, <2>2, <2>3
<1>7. QED
  BY <1>3, <1>6 DEF Queue

LEMMA TailTypes ==
    ASSUME NEW q, Queue(q), q # <<>>
    PROVE  Queue(Tail(q)) /\ Head(q) \in Event /\ Head(q).idx \in plugged
<1>1. q \in Seq(Event) /\ Len(q) \in Nat /\ Len(q) > 0
  BY EmptySeq DEF Queue
<1>2. /\ Tail(q) \in Seq(Event) /\ Len(Tail(q)) = Len(q) - 1
      /\ \A i \in 1..Len(Tail(q)) : Tail(q)[i] = q[i + 1] /\ i + 1 \in 1..Len(q)
      /\ Head(q) = q[1] /\ 1 \in 1..Len(q)
  BY <1>1
<1>3. \A i \in 1..Len(Tail(q)) : Tail(q)[i].idx \in plugged
  BY <1>2 DEF Queue
<1>4. QED
  BY <1>1, <1>2, <1>3 DEF Queue

LEMMA AppendTypes ==
    ASSUME NEW q, Queue(q), NEW e \in Event, e.idx \in plugged
    PROVE  Queue(Append(q, e))
<1>1. q \in Seq(Event) /\ Len(q) \in Nat
  BY DEF Queue
<1>2. Append(q, e) \in Seq(Event) /\ Len(Append(q, e)) = Len(q) + 1
  BY <1>1
<1>3. ASSUME NEW i \in 1..Len(q) + 1
      PROVE  Append(q, e)[i].idx \in plugged
  BY <1>1 DEF Queue
<1>4. QED
  BY <1>2, <1>3 DEF Queue

LEMMA QueueTypes == TypeOK => Queue(events)
<1>1. TypeOK => events \in Seq(Event) /\ DOMAIN events = 1..Len(events)
  BY DEF TypeOK
<1>2. QED
  BY <1>1 DEF TypeOK, Queue

\* What SetBlock leaves of the types of the variables it changes.
LEMMA SetBlockTypes ==
    ASSUME TypeOK,
           NEW want, \A t \in DOMAIN want : want[t] \in BOOLEAN,
           SetBlock(want)
    PROVE  /\ ksoft' \in [Dev -> BOOLEAN] /\ soft' \in [Dev -> BOOLEAN]
           /\ Queue(events')
<1>1. \A t \in DOMAIN Written(want) : Written(want)[t] \in BOOLEAN
  BY DEF Written, Reached
<1>2. PICK r \in ChangeAll(Written(want), ksoft, events) :
        ksoft' = r.ks /\ events' = r.q /\ soft' = SoftAfter(want)
  BY DEF SetBlock
<1>3. Queue(events) /\ ksoft \in [Dev -> BOOLEAN]
  BY QueueTypes DEF TypeOK
<1>4. ksoft' \in [Dev -> BOOLEAN] /\ Queue(events')
  BY <1>1, <1>2, <1>3, ChangeAllTypes
<1>5. soft' \in [Dev -> BOOLEAN]
  BY <1>2 DEF SoftAfter, Reached, TypeOK
<1>6. QED
  BY <1>4, <1>5

\* What AddKillswitch leaves of the types of the variables it changes.
LEMMA AddKillswitchTypes ==
    ASSUME TypeOK, NEW d \in Dev, NEW fd \in BOOLEAN,
           NextEvent("ADD", d), AddKillswitch(d, fd)
    PROVE  /\ ksoft' \in [Dev -> BOOLEAN] /\ Queue(events')
           /\ UNCHANGED <<kdev, plugged, khard>>
           /\ devices' \subseteq plugged /\ writable' \subseteq devices'
           /\ soft' \in [Dev -> BOOLEAN] /\ hard' \in [Dev -> BOOLEAN]
           /\ kstate' \in [Types -> KillswitchStates] /\ saved' = saved
<1> DEFINE e == Head(events)
           t == Type[d]
           found == [soft EXCEPT ![d] = e.soft]
<1>1. /\ Queue(Tail(events)) /\ e \in Event /\ e.idx = d /\ d \in plugged
      /\ e.soft \in BOOLEAN /\ e.hard \in BOOLEAN
  BY QueueTypes, TailTypes DEF NextEvent, Event
<1>2. t \in Types /\ persist[t] \in BOOLEAN
  BY TypesAssumption DEF TypeOK
<1>3. CASE d \in devices
  BY <1>1, <1>3 DEF AddKillswitch, TypeOK, kernelVars, viewVars, switchVars
<1>4. CASE d \notin devices
  <2> DEFINE w1 == IF fd /\ ForceSync /\ d \notin Platform THEN Only(t, e.soft) ELSE Nothing
             w2 == IF fd /\ Persist THEN Only(t, persist[t]) ELSE Nothing
  <2>1. \A x \in DOMAIN w1 : w1[x] \in BOOLEAN
    BY <1>1 DEF Only, Nothing
  <2>2. \A x \in DOMAIN w2 : w2[x] \in BOOLEAN
    BY <1>2 DEF Only, Nothing
  <2>3. PICK r1 \in ChangeAll(w1, ksoft, Tail(events)) :
          \E r2 \in ChangeAll(w2, r1.ks, r1.q) : ksoft' = r2.ks /\ events' = r2.q
    BY <1>4 DEF AddKillswitch
  <2>4. PICK r2 \in ChangeAll(w2, r1.ks, r1.q) : ksoft' = r2.ks /\ events' = r2.q
    BY <2>3
  <2> HIDE DEF w1, w2
  <2>5. r1.ks \in [Dev -> BOOLEAN] /\ Queue(r1.q)
    BY <1>1, <2>1, ChangeAllTypes DEF TypeOK
  <2>6. ksoft' \in [Dev -> BOOLEAN] /\ Queue(events')
    BY <2>2, <2>4, <2>5, ChangeAllTypes
  <2>7. /\ devices' = devices \cup {d}
        /\ writable' = IF fd THEN writable \cup {d} ELSE writable
        /\ hard' = [hard EXCEPT ![d] = e.hard]
        /\ kstate' = [kstate EXCEPT ![t] = Refreshed(t, devices', found, hard')]
        /\ soft' = IF fd /\ Persist THEN [soft EXCEPT ![d] = persist[t]] ELSE found
        /\ UNCHANGED <<kdev, plugged, khard, saved>>
    BY <1>4 DEF AddKillswitch, NewDevice
  <2>8. /\ devices' \subseteq plugged /\ writable' \subseteq devices'
        /\ devices' \in SUBSET Dev
        /\ hard' \in [Dev -> BOOLEAN] /\ found \in [Dev -> BOOLEAN]
        /\ soft' \in [Dev -> BOOLEAN]
    BY <1>1, <1>2, <2>7 DEF TypeOK
  <2>9. Refreshed(t, devices', found, hard') \in KillswitchStates
    BY <1>2, <2>8, RefreshedStates
  <2>10. kstate' \in [Types -> KillswitchStates]
    BY <2>7, <2>9 DEF TypeOK
  <2>11. QED
    BY <2>6, <2>7, <2>8, <2>10
<1>5. QED
  BY <1>3, <1>4

\* What Exit leaves: the memory of a process that does not run.
LEMMA ExitTypes ==
    ASSUME NEW p \in {"down", "crashed"},
           NEW store \in [Types \cup {RfkillAll} -> BOOLEAN],
           TypeOK, Exit(p, store), UNCHANGED kernelVars,
           reply' = "none", stimuli' \in 0..MaxStimuli
    PROVE  TypeOK'
<1>1. NoAdapter \in KillswitchStates
  BY DEF KillswitchStates
<1>2. events' = <<>> /\ events' \in Seq(Event) /\ DOMAIN events' = {}
  BY DEF Exit
<1>3. kdev' = kdev /\ plugged' = plugged /\ ksoft' = ksoft /\ khard' = khard
  BY DEF kernelVars
<1>4. QED
  BY <1>1, <1>2, <1>3 DEF TypeOK, Exit, Listening

\* The part of TypeOK about the queue and the phase.
QueueOK ==
    /\ events \in Seq(Event)
    /\ \A i \in DOMAIN events : events[i].idx \in plugged
    /\ ~Listening => events = <<>> /\ devices = {} /\ dropped = {}

LEMMA QueueOKAfter ==
    ASSUME Queue(events'), plugged \subseteq plugged', Listening'
    PROVE  QueueOK'
<1>1. events' \in Seq(Event) /\ DOMAIN events' = 1..Len(events')
  BY DEF Queue
<1>2. QED
  BY <1>1 DEF Queue, QueueOK

LEMMA TypeStep == TypeOK /\ [Next]_vars => TypeOK'
<1> SUFFICES ASSUME TypeOK, [Next]_vars
             PROVE  TypeOK'
  OBVIOUS
<1> USE DEF vars, kernelVars, viewVars, switchVars, storeVars, NoReply, Answer
<1>q. Queue(events)
  BY QueueTypes
<1>s. Stimulus => stimuli' \in 0..MaxStimuli
  BY StimuliAssumption DEF Stimulus, TypeOK
<1>1. ASSUME NEW d \in Dev, NEW s \in BOOLEAN, NEW h \in BOOLEAN, Plug(d, s, h)
      PROVE  TypeOK'
  <2>1. plugged' = plugged \cup {d} /\ kdev' = kdev \cup {d} /\ stimuli' \in 0..MaxStimuli
    BY <1>1, <1>s DEF Plug
  <2>2. QueueOK'
    <3> DEFINE e == [op |-> "ADD", idx |-> d, soft |-> s, hard |-> h]
    <3>1. e \in Event
      BY DEF Event, EventOps
    <3>2. Listening' <=> Listening
      BY <1>1 DEF Plug, Listening
    <3>3. CASE ~Listening
      BY <1>1, <2>1, <3>2, <3>3 DEF Plug, Notify, TypeOK, QueueOK
    <3>4. CASE Listening
      <4>1. events' = Append(events, e)
        BY <1>1, <3>4 DEF Plug, Notify
      <4>2. /\ events \in Seq(Event) /\ Len(events) \in Nat
            /\ \A i \in 1..Len(events) : events[i].idx \in plugged
        BY <1>q DEF Queue
      <4>3. events' \in Seq(Event) /\ DOMAIN events' = 1..(Len(events) + 1)
        BY <3>1, <4>1, <4>2
      <4>4. ASSUME NEW i \in 1..(Len(events) + 1)
            PROVE  events'[i].idx \in plugged'
        BY <2>1, <4>1, <4>2
      <4>5. QED
        BY <3>2, <3>4, <4>3, <4>4 DEF QueueOK
    <3>5. QED
      BY <3>3, <3>4
  <2>3. QED
    BY <1>1, <2>1, <2>2 DEF Plug, TypeOK, QueueOK
<1>2. ASSUME NEW d \in Dev, NEW s \in BOOLEAN, NEW h \in BOOLEAN, KernelChange(d, s, h)
      PROVE  TypeOK'
  <2>1. stimuli' \in 0..MaxStimuli
    BY <1>2, <1>s DEF KernelChange
  <2>2. QueueOK'
    <3>1. [op |-> "CHANGE", idx |-> d, soft |-> s, hard |-> h] \in Event /\ d \in plugged
      BY <1>2 DEF Event, EventOps, KernelChange, TypeOK
    <3>2. Queue(Append(events, [op |-> "CHANGE", idx |-> d, soft |-> s, hard |-> h]))
      BY <1>q, <3>1, AppendTypes
    <3>3. Listening' <=> Listening
      BY <1>2 DEF KernelChange, Listening
    <3>4. CASE ~Listening
      BY <1>2, <3>3, <3>4 DEF KernelChange, Notify, TypeOK, QueueOK
    <3>5. CASE Listening
      BY <1>2, <3>2, <3>3, <3>5, QueueOKAfter DEF KernelChange, Notify
    <3>6. QED
      BY <3>4, <3>5
  <2>3. QED
    BY <1>2, <2>1, <2>2 DEF KernelChange, TypeOK, QueueOK
<1>3. ASSUME NEW d \in Dev, Unplug(d)
      PROVE  TypeOK'
  <2>1. stimuli' \in 0..MaxStimuli
    BY <1>3, <1>s DEF Unplug
  <2>2. QueueOK'
    <3> DEFINE e == [op |-> "DEL", idx |-> d, soft |-> ksoft[d], hard |-> khard[d]]
    <3>1. e \in Event /\ e.idx \in plugged
      BY <1>3 DEF Event, EventOps, Unplug, TypeOK
    <3>2. Queue(Append(events, e))
      BY <1>q, <3>1, AppendTypes
    <3>3. Listening' <=> Listening
      BY <1>3 DEF Unplug, Listening
    <3>4. CASE ~Listening
      BY <1>3, <3>3, <3>4 DEF Unplug, Notify, TypeOK, QueueOK
    <3>5. CASE Listening
      BY <1>3, <3>2, <3>3, <3>5, QueueOKAfter DEF Unplug, Notify
    <3>6. QED
      BY <3>4, <3>5
  <2>3. QED
    BY <1>3, <2>1, <2>2 DEF Unplug, TypeOK, QueueOK
<1>4. ASSUME NEW d \in Dev, NEW fd \in BOOLEAN, NextEvent("ADD", d), AddKillswitch(d, fd),
             Listening, NoReply, UNCHANGED <<storeVars, dropped, stimuli, phase>>
      PROVE  TypeOK'
  <2>1. Listening'
    BY <1>4 DEF Listening
  <2>2. /\ ksoft' \in [Dev -> BOOLEAN] /\ Queue(events')
        /\ UNCHANGED <<kdev, plugged, khard>>
        /\ devices' \subseteq plugged /\ writable' \subseteq devices'
        /\ soft' \in [Dev -> BOOLEAN] /\ hard' \in [Dev -> BOOLEAN]
        /\ kstate' \in [Types -> KillswitchStates] /\ saved' = saved
    BY <1>4, AddKillswitchTypes
  <2>3. QueueOK'
    BY <2>1, <2>2, QueueOKAfter
  <2>4. QED
    BY <1>4, <2>2, <2>3 DEF TypeOK, QueueOK
<1>5. ASSUME NEW d \in Dev, NEW fd \in HotplugFd, HandleAdd(d, fd)
      PROVE  TypeOK'
  BY <1>4, <1>5, OptionsAssumption DEF HandleAdd, Listening
<1>6. ASSUME NEW d \in Dev, StartupAdd(d)
      PROVE  TypeOK'
  BY <1>4, <1>6 DEF StartupAdd, Listening
<1>7. ASSUME NEW d \in Dev, HandleDel(d)
      PROVE  TypeOK'
  <2>1. Queue(events') /\ plugged' = plugged /\ Listening'
    BY <1>q, <1>7, TailTypes DEF HandleDel, NextEvent, Listening
  <2>2. QueueOK'
    BY <2>1, QueueOKAfter
  <2>3. CASE d \notin devices
    BY <1>7, <2>2, <2>3 DEF HandleDel, TypeOK, QueueOK
  <2>4. CASE d \in devices
    <3>1. /\ devices' = devices \ {d} /\ devices' \in SUBSET Dev /\ Type[d] \in Types
          /\ kstate' = [kstate EXCEPT ![Type[d]] = Refreshed(Type[d], devices', soft, hard)]
          /\ saved' = SavedAfterRefresh(Type[d], devices')
      BY <1>7, <2>4, TypesAssumption DEF HandleDel, TypeOK
    <3>2. kstate' \in [Types -> KillswitchStates]
      BY <3>1, RefreshedStates DEF TypeOK
    <3>3. saved' \in [Types -> KillswitchStates]
      BY <3>1 DEF SavedAfterRefresh, TypeOK, KillswitchStates
    <3>4. QED
      BY <1>7, <2>2, <2>4, <3>1, <3>2, <3>3 DEF HandleDel, TypeOK, QueueOK
  <2>5. QED
    BY <2>3, <2>4
<1>8. ASSUME NEW d \in Dev, HandleChange(d)
      PROVE  TypeOK'
  <2> DEFINE e == Head(events)
             want == SyncRequest(d, e)
  <2>1. /\ Queue(Tail(events)) /\ e \in Event /\ e.idx = d
        /\ e.soft \in BOOLEAN /\ e.hard \in BOOLEAN
    BY <1>8, <1>q, TailTypes DEF HandleChange, NextEvent, Event
  <2>2. \A t \in DOMAIN want : want[t] \in BOOLEAN
    BY DEF SyncRequest, Only, Nothing
  <2>3. ksoft' \in [Dev -> BOOLEAN] /\ Queue(events')
    <3>1. CASE d \in devices /\ <<e.soft, e.hard>> # <<soft[d], hard[d]>>
      <4>1. PICK r \in ChangeAll(want, ksoft, Tail(events)) : ksoft' = r.ks /\ events' = r.q
        BY <1>8, <3>1 DEF HandleChange
      <4> HIDE DEF want
      <4>2. QED
        BY <2>1, <2>2, <4>1, ChangeAllTypes DEF TypeOK
    <3>2. CASE ~(d \in devices /\ <<e.soft, e.hard>> # <<soft[d], hard[d]>>)
      BY <1>8, <2>1, <3>2 DEF HandleChange, TypeOK
    <3>3. QED
      BY <3>1, <3>2
  <2> HIDE DEF want
  <2>4. soft' \in [Dev -> BOOLEAN] /\ hard' \in [Dev -> BOOLEAN]
    BY <1>8, <2>1, <2>2 DEF HandleChange, TypeOK, want
  <2>5. QueueOK'
    BY <1>8, <2>3, QueueOKAfter DEF HandleChange, Listening
  <2>6. QED
    BY <1>8, <2>3, <2>4, <2>5 DEF HandleChange, TypeOK, QueueOK
<1>9. ASSUME NEW t \in Types, NEW b \in BOOLEAN, Block(t, b)
      PROVE  TypeOK'
  <2>1. /\ ksoft' \in [Dev -> BOOLEAN] /\ soft' \in [Dev -> BOOLEAN] /\ Queue(events')
        /\ UNCHANGED <<kdev, plugged, khard, devices, writable, hard>>
    <3>1. SetBlock(Only(t, b)) /\ \A x \in DOMAIN Only(t, b) : Only(t, b)[x] \in BOOLEAN
      BY <1>9 DEF Block, Only
    <3>2. QED
      BY <3>1, SetBlockTypes DEF SetBlock
  <2>2. QueueOK'
    BY <1>9, <2>1, QueueOKAfter DEF Block, Listening
  <2>3. persist' \in [Types \cup {RfkillAll} -> BOOLEAN] /\ stimuli' \in 0..MaxStimuli
    BY <1>9, <1>s DEF Block, TypeOK
  <2>4. QED
    BY <1>9, <2>1, <2>2, <2>3 DEF Block, TypeOK, QueueOK
<1>10. ASSUME NEW b \in BOOLEAN, BlockAll(b)
       PROVE  TypeOK'
  <2>1. disk \in [Types \cup {RfkillAll} -> BOOLEAN]
    BY DEF TypeOK
  <2>2. /\ Exit("crashed", disk) /\ UNCHANGED kernelVars
        /\ reply' = "none" /\ stimuli' \in 0..MaxStimuli
    BY <1>10, <1>s DEF BlockAll, Crash
  <2>3. QED
    BY <2>1, <2>2, ExitTypes
<1>11. ASSUME NEW d \in Dev, NEW b \in BOOLEAN, BlockIdx(d, b)
       PROVE  TypeOK'
  <2>1. ksoft' \in [Dev -> BOOLEAN] /\ Queue(events') /\ soft' \in [Dev -> BOOLEAN]
    <3>1. CASE d \in devices \cap writable
      <4>1. PICK r \in ChangeAll(Only(Type[d], b), ksoft, events) :
              ksoft' = r.ks /\ events' = r.q
        BY <1>11, <3>1 DEF BlockIdx
      <4>2. \A x \in DOMAIN Only(Type[d], b) : Only(Type[d], b)[x] \in BOOLEAN
        BY DEF Only
      <4>3. ksoft' \in [Dev -> BOOLEAN] /\ Queue(events')
        BY <1>q, <4>1, <4>2, ChangeAllTypes DEF TypeOK
      <4>4. QED
        BY <1>11, <3>1, <4>3 DEF BlockIdx, TypeOK
    <3>2. CASE d \notin devices \cap writable
      BY <1>11, <1>q, <3>2 DEF BlockIdx, TypeOK
    <3>3. QED
      BY <3>1, <3>2
  <2>2. QueueOK'
    BY <1>11, <2>1, QueueOKAfter DEF BlockIdx, Listening
  <2>3. QED
    BY <1>11, <1>s, <2>1, <2>2 DEF BlockIdx, TypeOK, QueueOK
<1>12. ASSUME RequestWithoutDevices
       PROVE  TypeOK'
  BY <1>12, <1>s DEF RequestWithoutDevices, TypeOK, Listening
<1>13. ASSUME NEW b \in BOOLEAN, FlightMode(b)
       PROVE  TypeOK'
  <2> DEFINE now     == [t \in Types |-> Refreshed(t, devices, soft, hard)]
             present == {t \in Types : now[t] # NoAdapter}
             want    == [t \in present |-> FlightRequest(t, now[t], b)]
  <2>1. now \in [Types -> KillswitchStates]
    <3>1. devices \in SUBSET Dev
      BY DEF TypeOK
    <3>2. QED
      BY <3>1, RefreshedStates DEF TypeOK
  <2>2. \A t \in present : FlightRequest(t, now[t], b) \in BOOLEAN
    <3>1. \A t \in Types : saved[t] \in KillswitchStates
      BY DEF TypeOK
    <3>2. \A st \in KillswitchStates : CountsAsBlocked(st) \in BOOLEAN
      BY CountsAsBlockedType
    <3>3. QED
      BY <3>1, <3>2 DEF FlightRequest
  <2>3. /\ SetBlock(want) /\ kstate' = now
        /\ saved' = [t \in Types |-> IF t \notin present THEN NoAdapter
                                     ELSE IF b THEN now[t] ELSE saved[t]]
        /\ persist' = FlightStore(want, b)
        /\ flight' \in BOOLEAN /\ reply' \in {"none", "true", "false", "silent"}
        /\ stimuli' \in 0..MaxStimuli
        /\ phase = "running"
        /\ UNCHANGED <<phase, disk, dropped>>
    BY <1>13, <1>s DEF FlightMode, TypeOK
  <2> HIDE DEF now
  <2>4. \A t \in DOMAIN want : want[t] \in BOOLEAN
    BY <2>2
  <2>5. /\ ksoft' \in [Dev -> BOOLEAN] /\ soft' \in [Dev -> BOOLEAN] /\ Queue(events')
        /\ UNCHANGED <<kdev, plugged, khard, devices, writable, hard>>
    BY <2>3, <2>4, SetBlockTypes DEF SetBlock
  <2>6. saved' \in [Types -> KillswitchStates]
    BY <2>1, <2>3 DEF TypeOK, KillswitchStates
  <2>7. persist' \in [Types \cup {RfkillAll} -> BOOLEAN]
    BY <2>3, <2>4 DEF FlightStore, TypeOK
  <2>8. QueueOK'
    BY <2>3, <2>5, QueueOKAfter DEF Listening
  <2>9. QED
    BY <2>1, <2>3, <2>5, <2>6, <2>7, <2>8 DEF TypeOK, QueueOK
<1>14. ASSUME NEW k \in KeyTypes, KeyPress(k)
       PROVE  TypeOK'
  <2> DEFINE t  == IF k = RfkillAll THEN RfkillWlan ELSE k
             st == Refreshed(t, devices, soft, hard)
             b  == st # SoftBlocked
  <2>1. t \in Types /\ devices \in SUBSET Dev
    BY TypesAssumption DEF TypeOK
  <2>2. st \in KillswitchStates
    BY <2>1, RefreshedStates DEF TypeOK
  <2>3. CASE st # NoAdapter /\ (k = RfkillAll \/ MasterKey)
    <3>1. disk \in [Types \cup {RfkillAll} -> BOOLEAN]
      BY DEF TypeOK
    <3>2. /\ Exit("crashed", disk) /\ UNCHANGED kernelVars
          /\ reply' = "none" /\ stimuli' \in 0..MaxStimuli
      BY <1>14, <1>s, <2>3 DEF KeyPress, Crash
    <3>3. QED
      BY <3>1, <3>2, ExitTypes
  <2>4. CASE ~(st # NoAdapter /\ (k = RfkillAll \/ MasterKey))
    <3>1. /\ kstate' = [kstate EXCEPT ![t] = st]
          /\ saved' = SavedAfterRefresh(t, devices)
          /\ IF st = NoAdapter
             THEN UNCHANGED <<kernelVars, events, viewVars, persist>>
             ELSE /\ SetBlock(Only(t, b))
                  /\ persist' = IF SetOk(t) THEN [persist EXCEPT ![t] = b] ELSE persist
          /\ UNCHANGED <<phase, disk, flight, dropped>>
          /\ phase = "running" /\ reply' = "none" /\ stimuli' \in 0..MaxStimuli
      BY <1>14, <1>s, <2>4 DEF KeyPress
    <3> HIDE DEF st, t
    <3>2. /\ kstate' \in [Types -> KillswitchStates]
          /\ saved' \in [Types -> KillswitchStates]
      BY <2>1, <2>2, <3>1 DEF SavedAfterRefresh, TypeOK, KillswitchStates
    <3>3. /\ ksoft' \in [Dev -> BOOLEAN] /\ soft' \in [Dev -> BOOLEAN] /\ Queue(events')
          /\ UNCHANGED <<kdev, plugged, khard, devices, writable, hard>>
          /\ persist' \in [Types \cup {RfkillAll} -> BOOLEAN]
      <4>1. CASE st = NoAdapter
        BY <1>q, <3>1, <4>1 DEF TypeOK
      <4>2. CASE st # NoAdapter
        <5>1. SetBlock(Only(t, b)) /\ \A x \in DOMAIN Only(t, b) : Only(t, b)[x] \in BOOLEAN
          BY <3>1, <4>2 DEF Only
        <5>2. persist' \in [Types \cup {RfkillAll} -> BOOLEAN]
          BY <3>1, <4>2 DEF TypeOK
        <5>3. QED
          BY <5>1, <5>2, SetBlockTypes DEF SetBlock
      <4>3. QED
        BY <4>1, <4>2
    <3>4. QueueOK'
      BY <3>1, <3>3, QueueOKAfter DEF Listening
    <3>5. QED
      BY <3>1, <3>2, <3>3, <3>4 DEF TypeOK, QueueOK
  <2>5. QED
    BY <2>3, <2>4
<1>15. ASSUME Start
       PROVE  TypeOK'
  <2>1. kdev \in SUBSET Dev /\ khard \in [Dev -> BOOLEAN] /\ ksoft \in [Dev -> BOOLEAN]
    BY DEF TypeOK
  <2>2. PICK s \in Listings(kdev) : events' = EventsFor("ADD", s, ksoft, khard)
    BY <1>15 DEF Start
  <2>3. /\ events' \in Seq(Event) /\ Len(events') = Len(s)
        /\ \A i \in 1..Len(s) : events'[i] = [op |-> "ADD", idx |-> s[i],
                                              soft |-> ksoft[s[i]], hard |-> khard[s[i]]]
    BY <2>1, <2>2, EventsForType DEF EventOps
  <2>4. \A i \in 1..Len(s) : s[i] \in kdev
    BY <2>1, ListingIsSeq
  <2>5. ASSUME NEW i \in 1..Len(s)
        PROVE  events'[i].idx \in plugged
    <3>1. events'[i].idx = s[i]
      <4>1. events'[i] = [op |-> "ADD", idx |-> s[i],
                          soft |-> ksoft[s[i]], hard |-> khard[s[i]]]
        BY <2>3
      <4>2. QED
        BY <4>1
    <3>2. s[i] \in plugged
      BY <2>4 DEF TypeOK
    <3>3. QED
      BY <3>1, <3>2
  <2>6. Queue(events')
    BY <2>3, <2>5 DEF Queue
  <2>7. QueueOK'
    BY <1>15, <2>6, QueueOKAfter DEF Start, Listening
  <2>8. QED
    BY <1>15, <2>7 DEF Start, TypeOK, QueueOK
<1>16. ASSUME NEW d \in Dev, StartupSkip(d)
       PROVE  TypeOK'
  <2>1. Queue(Tail(events)) /\ d \in plugged
    BY <1>q, <1>16, TailTypes DEF StartupSkip, NextEvent
  <2>2. QueueOK'
    BY <1>16, <2>1, QueueOKAfter DEF StartupSkip, Listening
  <2>3. QED
    BY <1>16, <2>1, <2>2 DEF StartupSkip, TypeOK, QueueOK
<1>17. ASSUME StartupDone
       PROVE  TypeOK'
  <2> DEFINE want == [t \in Types |-> persist[t]]
  <2>1. \A t \in DOMAIN want : want[t] \in BOOLEAN
    BY DEF TypeOK
  <2>2. CASE Persist
    <3>1. SetBlock(want)
      BY <1>17, <2>2 DEF StartupDone
    <3> HIDE DEF want
    <3>2. /\ ksoft' \in [Dev -> BOOLEAN] /\ soft' \in [Dev -> BOOLEAN] /\ Queue(events')
          /\ UNCHANGED <<kdev, plugged, khard, devices, writable, hard>>
      BY <2>1, <3>1, SetBlockTypes DEF SetBlock
    <3>3. QueueOK'
      BY <1>17, <3>2, QueueOKAfter DEF StartupDone, Listening
    <3>4. QED
      BY <1>17, <3>2, <3>3 DEF StartupDone, TypeOK, QueueOK
  <2>3. CASE ~Persist
    BY <1>17, <2>3 DEF StartupDone, TypeOK, Listening
  <2>4. QED
    BY <2>2, <2>3
<1>18. ASSUME NEW written \in BOOLEAN, Shutdown(written)
       PROVE  TypeOK'
  <2> DEFINE now   == [t \in Types |-> Refreshed(t, devices, soft, hard)]
             store == [t \in Types \cup {RfkillAll} |->
                         IF Persist /\ t # RfkillAll THEN CountsAsBlocked(now[t])
                                                     ELSE persist[t]]
  <2>1. store \in [Types \cup {RfkillAll} -> BOOLEAN]
    <3>1. \A t \in Types : now[t] \in KillswitchStates
      BY RefreshedStates DEF TypeOK
    <3>2. \A t \in Types : CountsAsBlocked(now[t]) \in BOOLEAN
      BY <3>1, CountsAsBlockedType
    <3>3. QED
      BY <3>2 DEF TypeOK
  <2>2. /\ Exit("down", IF written THEN store ELSE disk) /\ UNCHANGED kernelVars
        /\ reply' = "none" /\ stimuli' \in 0..MaxStimuli
    BY <1>18, <1>s DEF Shutdown
  <2> HIDE DEF store
  <2>3. (IF written THEN store ELSE disk) \in [Types \cup {RfkillAll} -> BOOLEAN]
    BY <2>1 DEF TypeOK
  <2>4. QED
    BY <2>2, <2>3, ExitTypes
<1>19. ASSUME Kill
       PROVE  TypeOK'
  <2>1. disk \in [Types \cup {RfkillAll} -> BOOLEAN]
    BY DEF TypeOK
  <2>2. /\ Exit("down", disk) /\ UNCHANGED kernelVars
        /\ reply' = "none" /\ stimuli' \in 0..MaxStimuli
    BY <1>19, <1>s DEF Kill
  <2>3. QED
    BY <2>1, <2>2, ExitTypes
<1>20. ASSUME UNCHANGED vars
       PROVE  TypeOK'
  BY <1>20 DEF TypeOK, Listening
<1>21. QED
  BY <1>1, <1>2, <1>3, <1>5, <1>6, <1>7, <1>8, <1>9, <1>10, <1>11, <1>12, <1>13,
     <1>14, <1>15, <1>16, <1>17, <1>18, <1>19, <1>20
     DEF Next, Kernel, HandleEvent, StartupStep, Request, SwitchRequest, Process

\* Every variable keeps its type in every process life: the handlers never put
\* a device index, a state or an entry of the store outside its range.
THEOREM TypeCorrect == Spec => []TypeOK
<1>1. Init => TypeOK
  <2> SUFFICES ASSUME Init
               PROVE  TypeOK
    OBVIOUS
  <2>1. events \in Seq(Event) /\ DOMAIN events = {}
    BY DEF Init
  <2>2. disk \in [Types \cup {RfkillAll} -> BOOLEAN]
    BY DevAssumption DEF Init
  <2>3. QED
    BY <2>1, <2>2, DevAssumption, StimuliAssumption DEF Init, TypeOK, Listening, KillswitchStates
<1>2. QED
  BY <1>1, TypeStep, PTL DEF Spec

(***************************************************************************)
(* The queue and the copy                                                  *)
(*                                                                         *)
(* ViewConverges and EventsInOrder are one statement, Coherent, about a queue,*)
(* the kernel's devices and the daemon's copy.  Everything the program does to*)
(* them is made of three moves, each of which keeps Coherent: the kernel   *)
(* appends an event (Push), the daemon takes one off (Pop), and a CHANGE_ALL of*)
(* the daemon appends a true event for each device it changes (Batch).     *)
(***************************************************************************)
\* Event e tells the truth about kernel devices K with blocks ks and kh.
Truth(e, K, ks, kh) ==
    IF e.idx \in K
    THEN e.op # "DEL" /\ e.soft = ks[e.idx] /\ e.hard = kh[e.idx]
    ELSE e.op = "DEL"

\* d has no event in q.
Absent(d, q) == \A i \in 1..Len(q) : q[i].idx # d

\* Device d of the daemon's copy D, s, h agrees with the kernel's K, ks, kh; X
\* are the devices whose events were skipped.
Agrees(d, K, ks, kh, D, s, h, X) ==
    /\ d \in K => d \in D
    /\ d \in D \ X => d \in K /\ s[d] = ks[d] /\ h[d] = kh[d]

\* Event i of q is true, or a later one follows for its device.
Superseded(i, q, K, ks, kh) ==
    \/ Truth(q[i], K, ks, kh)
    \/ \E j \in 1..Len(q) : j > i /\ q[j].idx = q[i].idx

\* Event i of q comes when it may.
InOrder(i, q, D) ==
    /\ q[i].op = "ADD" => /\ q[i].idx \notin D
                          /\ \A j \in 1..Len(q) : j < i => q[j].idx # q[i].idx
    /\ q[i].op # "ADD" => \/ q[i].idx \in D
                          \/ \E j \in 1..Len(q) :
                                j < i /\ q[j].idx = q[i].idx /\ q[j].op = "ADD"
    /\ q[i].op = "DEL" => \A j \in 1..Len(q) : j > i => q[j].idx # q[i].idx

Coherent(q, K, ks, kh, D, s, h, X) ==
    /\ \A i \in 1..Len(q) : Superseded(i, q, K, ks, kh) /\ InOrder(i, q, D)
    /\ \A d \in Dev : Absent(d, q) => Agrees(d, K, ks, kh, D, s, h, X)

(***************************************************************************)
(* The three moves                                                         *)
(***************************************************************************)
\* A non-empty set of naturals has a least element.
LEMMA LeastNatural ==
    ASSUME NEW T \in SUBSET Nat, T # {}
    PROVE  \E m \in T : \A n \in T : m <= n
<1>1. PICK m \in T : \A n \in T : ~ (<<n, m>> \in OpToRel(<, Nat))
  BY WFMin, NatLessThanWellFounded
<1>2. \A n \in T : ~ (n < m)
  BY <1>1 DEF OpToRel
<1>3. QED
  BY <1>2

\* Among the events of a device there is a last one.
LEMMA LastEvent ==
    ASSUME NEW q \in Seq(Event), NEW d, ~Absent(d, q)
    PROVE  \E i \in 1..Len(q) :
              q[i].idx = d /\ \A j \in 1..Len(q) : j > i => q[j].idx # d
<1> DEFINE T == {Len(q) - i : i \in {j \in 1..Len(q) : q[j].idx = d}}
<1>1. T # {} /\ T \in SUBSET Nat
  BY DEF Absent
<1>2. PICK m \in T : \A n \in T : m <= n
  BY <1>1, LeastNatural
<1>3. PICK i \in 1..Len(q) : q[i].idx = d /\ m = Len(q) - i
  BY <1>2
<1>4. ASSUME NEW j \in 1..Len(q), j > i, q[j].idx = d
      PROVE  FALSE
  <2>1. Len(q) - j \in T
    BY <1>4
  <2> HIDE DEF T
  <2>2. m <= Len(q) - j
    BY <1>2, <2>1
  <2>3. QED
    BY <1>3, <1>4, <2>2
<1>5. QED
  BY <1>3, <1>4

\* A present device is known, or its ADD is in the queue; and no DEL is.
LEMMA PresentDevice ==
    ASSUME NEW q \in Seq(Event), NEW K, NEW ks, NEW kh, NEW D, NEW s, NEW h, NEW X,
           Coherent(q, K, ks, kh, D, s, h, X), NEW d \in Dev, d \in K
    PROVE  /\ \A i \in 1..Len(q) : q[i].idx = d => q[i].op # "DEL"
           /\ d \in D \/ \E i \in 1..Len(q) : q[i].idx = d /\ q[i].op = "ADD"
<1>1. CASE Absent(d, q)
  BY <1>1 DEF Coherent, Absent, Agrees
<1>2. CASE ~Absent(d, q)
  <2>1. PICK i \in 1..Len(q) :
          q[i].idx = d /\ \A j \in 1..Len(q) : j > i => q[j].idx # d
    BY <1>2, LastEvent
  <2>2. Superseded(i, q, K, ks, kh) /\ InOrder(i, q, D)
    BY DEF Coherent
  <2>3. q[i].op # "DEL"
    BY <2>1, <2>2 DEF Superseded, Truth
  <2>4. d \in D \/ \E j \in 1..Len(q) : q[j].idx = d /\ q[j].op = "ADD"
    BY <2>1, <2>2 DEF InOrder
  <2>5. ASSUME NEW j \in 1..Len(q), q[j].idx = d, q[j].op = "DEL"
        PROVE  FALSE
    <3>1. InOrder(j, q, D)
      BY DEF Coherent
    <3>2. ~(i > j)
      BY <2>1, <2>5, <3>1 DEF InOrder
    <3>3. i # j /\ ~(j > i)
      BY <2>1, <2>3, <2>5
    <3>4. QED
      BY <3>2, <3>3
  <2>6. QED
    BY <2>4, <2>5
<1>3. QED
  BY <1>1, <1>2

\* The kernel appends event e: it is true afterwards, nothing changes for other
\* devices, ADD is for a device the queue and the daemon do not know, anything
\* else for one that they do and that no DEL has ended.
LEMMA Push ==
    ASSUME NEW q \in Seq(Event), NEW K, NEW ks, NEW kh, NEW D, NEW s, NEW h, NEW X,
           Coherent(q, K, ks, kh, D, s, h, X),
           NEW K2, NEW ks2, NEW kh2, NEW e \in Event,
           Truth(e, K2, ks2, kh2),
           \A d \in Dev : d # e.idx =>
                (d \in K2 <=> d \in K) /\ ks2[d] = ks[d] /\ kh2[d] = kh[d],
           e.op = "ADD" => e.idx \notin D /\ Absent(e.idx, q),
           e.op # "ADD" => \/ e.idx \in D
                           \/ \E i \in 1..Len(q) : q[i].idx = e.idx /\ q[i].op = "ADD",
           \A i \in 1..Len(q) : q[i].idx = e.idx => q[i].op # "DEL"
    PROVE  Coherent(Append(q, e), K2, ks2, kh2, D, s, h, X)
<1> DEFINE p == Append(q, e)
           n == Len(q)
<1>1. /\ n \in Nat /\ p \in Seq(Event) /\ Len(p) = n + 1
      /\ \A i \in 1..n : p[i] = q[i]
      /\ p[n + 1] = e
  OBVIOUS
<1>2. ASSUME NEW i \in 1..n
      PROVE  q[i].idx \in Dev
  <2>1. q[i] \in Event
    OBVIOUS
  <2>2. QED
    BY <2>1 DEF Event
<1> HIDE DEF p, n
<1>3. ASSUME NEW i \in 1..n
      PROVE  Superseded(i, p, K2, ks2, kh2)
  <2>1. Superseded(i, q, K, ks, kh)
    BY DEF Coherent, n
  <2>2. CASE q[i].idx = e.idx
    <3>1. n + 1 \in 1..Len(p) /\ n + 1 > i /\ p[n + 1].idx = p[i].idx
      BY <1>1, <2>2
    <3>2. QED
      BY <3>1 DEF Superseded
  <2>3. CASE q[i].idx # e.idx
    <3>1. CASE Truth(q[i], K, ks, kh)
      <4>1. Truth(p[i], K2, ks2, kh2)
        BY <1>1, <1>2, <2>3, <3>1 DEF Truth
      <4>2. QED
        BY <4>1 DEF Superseded
    <3>2. CASE \E j \in 1..n : j > i /\ q[j].idx = q[i].idx
      <4>1. PICK j \in 1..n : j > i /\ q[j].idx = q[i].idx
        BY <3>2
      <4>2. j \in 1..Len(p) /\ p[j].idx = p[i].idx
        BY <1>1, <4>1
      <4>3. QED
        BY <4>1, <4>2 DEF Superseded
    <3>3. QED
      BY <2>1, <3>1, <3>2 DEF Superseded, n
  <2>4. QED
    BY <2>2, <2>3
<1>4. ASSUME NEW i \in 1..n
      PROVE  InOrder(i, p, D)
  <2>1. InOrder(i, q, D) /\ p[i] = q[i]
    BY <1>1 DEF Coherent, n
  <2>2. ASSUME p[i].op = "ADD"
        PROVE  p[i].idx \notin D /\ \A j \in 1..Len(p) : j < i => p[j].idx # p[i].idx
    BY <1>1, <2>1, <2>2 DEF InOrder, n
  <2>3. ASSUME p[i].op # "ADD", p[i].idx \notin D
        PROVE  \E j \in 1..Len(p) : j < i /\ p[j].idx = p[i].idx /\ p[j].op = "ADD"
    <3>1. PICK j \in 1..n : j < i /\ q[j].idx = q[i].idx /\ q[j].op = "ADD"
      BY <2>1, <2>3 DEF InOrder, n
    <3>2. j \in 1..Len(p) /\ p[j] = q[j]
      BY <1>1
    <3>3. QED
      BY <2>1, <3>1, <3>2
  <2>4. ASSUME p[i].op = "DEL", NEW j \in 1..Len(p), j > i
        PROVE  p[j].idx # p[i].idx
    <3>1. CASE j \in 1..n
      BY <1>1, <2>1, <2>4, <3>1 DEF InOrder, n
    <3>2. CASE j = n + 1
      BY <1>1, <2>1, <2>4, <3>2 DEF n
    <3>3. QED
      BY <1>1, <3>1, <3>2
  <2>5. QED
    BY <2>2, <2>3, <2>4 DEF InOrder
<1>5. Superseded(n + 1, p, K2, ks2, kh2)
  BY <1>1 DEF Superseded
<1>6. InOrder(n + 1, p, D)
  <2>1. e.op = "ADD" => e.idx \notin D /\ \A j \in 1..Len(p) : j < n + 1 => p[j].idx # e.idx
    BY <1>1 DEF Absent, n
  <2>2. ASSUME e.op # "ADD", e.idx \notin D
        PROVE  \E j \in 1..Len(p) : j < n + 1 /\ p[j].idx = e.idx /\ p[j].op = "ADD"
    <3>1. PICK j \in 1..n : q[j].idx = e.idx /\ q[j].op = "ADD"
      BY <2>2 DEF n
    <3>2. j \in 1..Len(p) /\ p[j] = q[j] /\ j < n + 1
      BY <1>1
    <3>3. QED
      BY <3>1, <3>2
  <2>3. \A j \in 1..Len(p) : ~(j > n + 1)
    BY <1>1
  <2>4. QED
    BY <1>1, <2>1, <2>2, <2>3 DEF InOrder
<1>7. ASSUME NEW d \in Dev, Absent(d, p)
      PROVE  Agrees(d, K2, ks2, kh2, D, s, h, X)
  <2>1. Absent(d, q) /\ d # e.idx
    BY <1>1, <1>7 DEF Absent, n
  <2>2. Agrees(d, K, ks, kh, D, s, h, X)
    BY <2>1 DEF Coherent
  <2>3. QED
    BY <2>1, <2>2 DEF Agrees
<1>8. \A i \in 1..Len(p) : i \in 1..n \/ i = n + 1
  BY <1>1
<1>9. Coherent(p, K2, ks2, kh2, D, s, h, X)
  BY <1>3, <1>4, <1>5, <1>6, <1>7, <1>8 DEF Coherent
<1>10. QED
  BY <1>9 DEF p

\* The daemon takes an event off the queue and changes its copy of the device
\* that the event names, so that this copy is right if the event was the last.
LEMMA Pop ==
    ASSUME NEW q \in Seq(Event), q # <<>>,
           NEW K, NEW ks, NEW kh, NEW D, NEW s, NEW h, NEW X,
           Coherent(q, K, ks, kh, D, s, h, X),
           NEW D2, NEW s2, NEW h2, NEW X2, NEW e, e = Head(q),
           \A d \in Dev : d # e.idx =>
                /\ d \in D2 <=> d \in D
                /\ d \in X2 <=> d \in X
                /\ s2[d] = s[d] /\ h2[d] = h[d],
           e.op = "ADD" => e.idx \in D2,
           e.op = "CHANGE" => (e.idx \in D => e.idx \in D2),
           e.op \in EventOps,
           Truth(e, K, ks, kh) => Agrees(e.idx, K, ks, kh, D2, s2, h2, X2)
    PROVE  Coherent(Tail(q), K, ks, kh, D2, s2, h2, X2)
<1> DEFINE p == Tail(q)
           n == Len(p)
<1>1. /\ n \in Nat /\ p \in Seq(Event) /\ Len(q) = n + 1
      /\ \A i \in 1..n : p[i] = q[i + 1]
      /\ e = q[1]
  <2>1. Len(q) \in Nat /\ Len(q) > 0
    BY EmptySeq
  <2>2. QED
    BY <2>1
<1>2. ASSUME NEW i \in 1..Len(q)
      PROVE  q[i].idx \in Dev
  <2>1. q[i] \in Event
    OBVIOUS
  <2>2. QED
    BY <2>1 DEF Event
<1> HIDE DEF p
<1>3. \A i \in 1..n : i + 1 \in 1..Len(q) /\ 1 \in 1..Len(q)
  BY <1>1
<1>4. ASSUME NEW j \in 1..Len(q), j # 1
      PROVE  j - 1 \in 1..n /\ p[j - 1] = q[j]
  <2>1. j - 1 \in 1..n
    BY <1>1, <1>4
  <2>2. QED
    BY <1>1, <2>1
<1>5. ASSUME NEW i \in 1..n
      PROVE  Superseded(i, p, K, ks, kh)
  <2>1. Superseded(i + 1, q, K, ks, kh) /\ p[i] = q[i + 1]
    BY <1>1, <1>3 DEF Coherent
  <2>2. CASE Truth(q[i + 1], K, ks, kh)
    BY <2>1, <2>2 DEF Superseded
  <2>3. CASE ~Truth(q[i + 1], K, ks, kh)
    <3>1. PICK j \in 1..Len(q) : j > i + 1 /\ q[j].idx = q[i + 1].idx
      BY <2>1, <2>3 DEF Superseded
    <3>2. j - 1 \in 1..n /\ p[j - 1] = q[j] /\ j - 1 > i
      BY <1>1, <1>4, <3>1
    <3>3. QED
      BY <2>1, <3>1, <3>2 DEF Superseded
  <2>4. QED
    BY <2>2, <2>3
<1>6. ASSUME NEW i \in 1..n
      PROVE  InOrder(i, p, D2)
  <2>1. InOrder(i + 1, q, D) /\ InOrder(1, q, D) /\ p[i] = q[i + 1] /\ q[i + 1].idx \in Dev
    BY <1>1, <1>2, <1>3 DEF Coherent
  <2>2. ASSUME p[i].op = "ADD"
        PROVE  p[i].idx \notin D2 /\ \A j \in 1..n : j < i => p[j].idx # p[i].idx
    <3>1. q[1].idx # p[i].idx
      BY <1>3, <2>1, <2>2 DEF InOrder
    <3>2. p[i].idx \notin D2
      BY <1>1, <2>1, <2>2, <3>1 DEF InOrder
    <3>3. ASSUME NEW j \in 1..n, j < i
          PROVE  p[j].idx # p[i].idx
      <4>1. j + 1 \in 1..Len(q) /\ p[j] = q[j + 1] /\ j + 1 < i + 1
        BY <1>1, <1>3, <3>3
      <4>2. QED
        BY <2>1, <2>2, <4>1 DEF InOrder
    <3>4. QED
      BY <3>2, <3>3
  <2>3. ASSUME p[i].op # "ADD", p[i].idx \notin D2
        PROVE  \E j \in 1..n : j < i /\ p[j].idx = p[i].idx /\ p[j].op = "ADD"
    <3>1. CASE p[i].idx \in D
      <4>1. p[i].idx = e.idx
        BY <2>1, <2>3, <3>1
      <4>2. e.op = "DEL"
        BY <2>3, <3>1, <4>1 DEF EventOps
      <4>3. q[1].op = "DEL" /\ i + 1 \in 1..Len(q) /\ i + 1 > 1
        BY <1>1, <1>3, <4>2
      <4>4. q[i + 1].idx # q[1].idx
        BY <2>1, <4>3 DEF InOrder
      <4>5. QED
        BY <1>1, <2>1, <4>1, <4>4
    <3>2. CASE p[i].idx \notin D
      <4>1. PICK j \in 1..Len(q) : j < i + 1 /\ q[j].idx = q[i + 1].idx /\ q[j].op = "ADD"
        BY <2>1, <2>3, <3>2 DEF InOrder
      <4>2. j # 1
        BY <1>1, <2>1, <2>3, <4>1
      <4>3. j - 1 \in 1..n /\ p[j - 1] = q[j] /\ j - 1 < i
        BY <1>1, <1>4, <4>1, <4>2
      <4>4. QED
        BY <2>1, <4>1, <4>3
    <3>3. QED
      BY <3>1, <3>2
  <2>4. ASSUME p[i].op = "DEL", NEW j \in 1..n, j > i
        PROVE  p[j].idx # p[i].idx
    <3>1. j + 1 \in 1..Len(q) /\ p[j] = q[j + 1] /\ j + 1 > i + 1
      BY <1>1, <1>3, <2>4
    <3>2. QED
      BY <2>1, <2>4, <3>1 DEF InOrder
  <2>5. QED
    BY <2>2, <2>3, <2>4 DEF InOrder
<1>7. ASSUME NEW d \in Dev, Absent(d, p)
      PROVE  Agrees(d, K, ks, kh, D2, s2, h2, X2)
  <2>1. \A j \in 1..Len(q) : q[j].idx = d => j = 1
    BY <1>4, <1>7 DEF Absent
  <2>2. CASE d = e.idx
    <3>1. Superseded(1, q, K, ks, kh) /\ 1 \in 1..Len(q)
      BY <1>1 DEF Coherent
    <3>2. Truth(e, K, ks, kh)
      BY <1>1, <2>1, <2>2, <3>1 DEF Superseded
    <3>3. QED
      BY <2>2, <3>2
  <2>3. CASE d # e.idx
    <3>1. Absent(d, q)
      BY <1>1, <2>1, <2>3 DEF Absent
    <3>2. Agrees(d, K, ks, kh, D, s, h, X)
      BY <3>1 DEF Coherent
    <3>3. QED
      BY <2>3, <3>2 DEF Agrees
  <2>4. QED
    BY <2>2, <2>3
<1>8. Coherent(p, K, ks, kh, D2, s2, h2, X2)
  BY <1>5, <1>6, <1>7 DEF Coherent
<1>9. QED
  BY <1>8 DEF p

\* The daemon's write: the kernel's soft blocks become ks2, and every device
\* that changed has a true event in b.  The daemon's own copy of a device may
\* change with it, but only to what the kernel now has.
LEMMA Batch ==
    ASSUME NEW q \in Seq(Event), NEW ks, NEW D, NEW s, NEW h, NEW X,
           Coherent(q, kdev, ks, khard, D, s, h, X),
           NEW r, r.q \in Seq(Event), Reported(ks, q, r),
           NEW s2,
           \A d \in D : d \in kdev => s2[d] = s[d] \/ s2[d] = r.ks[d]
    PROVE  Coherent(r.q, kdev, r.ks, khard, D, s2, h, X)
<1>1. PICK b : /\ Echo(b, r.ks)
               /\ r.q = q \o b
               /\ \A d \in Dev : r.ks[d] # ks[d] => \E i \in 1..Len(b) : b[i].idx = d
  BY DEF Reported
<1> DEFINE p == q \o b
           n == Len(q)
<1>2. /\ n \in Nat /\ Len(b) \in Nat /\ b \in Seq(Event)
      /\ \A i \in 1..Len(b) : /\ b[i].op = "CHANGE" /\ b[i].idx \in kdev
                              /\ b[i].soft = r.ks[b[i].idx]
                              /\ b[i].hard = khard[b[i].idx]
  BY <1>1 DEF Echo
<1>3. /\ Len(p) = n + Len(b)
      /\ \A i \in 1..n : p[i] = q[i] /\ i \in 1..Len(p)
      /\ \A i \in 1..Len(b) : p[n + i] = b[i] /\ n + i \in 1..Len(p)
      /\ \A i \in 1..Len(p) : i \in 1..n \/ (i - n \in 1..Len(b) /\ i = n + (i - n))
  BY <1>2
<1>4. ASSUME NEW i \in 1..n
      PROVE  q[i].idx \in Dev
  <2>1. q[i] \in Event
    OBVIOUS
  <2>2. QED
    BY <2>1 DEF Event
<1>5. ASSUME NEW j \in 1..Len(b)
      PROVE  b[j].idx \in Dev
  <2>1. b[j] \in Event
    BY <1>2
  <2>2. QED
    BY <2>1 DEF Event
<1> HIDE DEF p, n
<1>6. ASSUME NEW i \in 1..n
      PROVE  Superseded(i, p, kdev, r.ks, khard)
  <2>1. Superseded(i, q, kdev, ks, khard) /\ p[i] = q[i]
    BY <1>3 DEF Coherent, n
  <2>2. CASE Truth(q[i], kdev, ks, khard)
    <3>1. CASE r.ks[q[i].idx] = ks[q[i].idx]
      BY <2>1, <2>2, <3>1 DEF Superseded, Truth
    <3>2. CASE r.ks[q[i].idx] # ks[q[i].idx]
      <4>1. PICK j \in 1..Len(b) : b[j].idx = q[i].idx
        BY <1>1, <1>4, <3>2
      <4>2. n + j \in 1..Len(p) /\ n + j > i /\ p[n + j] = b[j]
        BY <1>2, <1>3
      <4>3. QED
        BY <2>1, <4>1, <4>2 DEF Superseded
    <3>3. QED
      BY <3>1, <3>2
  <2>3. CASE ~Truth(q[i], kdev, ks, khard)
    <3>1. PICK j \in 1..n : j > i /\ q[j].idx = q[i].idx
      BY <2>1, <2>3 DEF Superseded, n
    <3>2. p[j] = q[j] /\ j \in 1..Len(p)
      BY <1>3
    <3>3. QED
      BY <2>1, <3>1, <3>2 DEF Superseded
  <2>4. QED
    BY <2>2, <2>3
<1>7. ASSUME NEW i \in 1..n
      PROVE  InOrder(i, p, D)
  <2>1. InOrder(i, q, D) /\ p[i] = q[i]
    BY <1>3 DEF Coherent, n
  <2>2. ASSUME p[i].op = "ADD"
        PROVE  p[i].idx \notin D /\ \A j \in 1..Len(p) : j < i => p[j].idx # p[i].idx
    <3>1. p[i].idx \notin D
      BY <2>1, <2>2 DEF InOrder
    <3>2. ASSUME NEW j \in 1..Len(p), j < i
          PROVE  p[j].idx # p[i].idx
      <4>1. j \in 1..n
        BY <1>2, <1>3, <3>2
      <4>2. QED
        BY <1>3, <2>1, <2>2, <3>2, <4>1 DEF InOrder, n
    <3>3. QED
      BY <3>1, <3>2
  <2>3. ASSUME p[i].op # "ADD", p[i].idx \notin D
        PROVE  \E j \in 1..Len(p) : j < i /\ p[j].idx = p[i].idx /\ p[j].op = "ADD"
    <3>1. PICK j \in 1..n : j < i /\ q[j].idx = q[i].idx /\ q[j].op = "ADD"
      BY <2>1, <2>3 DEF InOrder, n
    <3>2. p[j] = q[j] /\ j \in 1..Len(p)
      BY <1>3
    <3>3. QED
      BY <2>1, <3>1, <3>2
  <2>4. ASSUME p[i].op = "DEL", NEW j \in 1..Len(p), j > i
        PROVE  p[j].idx # p[i].idx
    <3>1. CASE j \in 1..n
      BY <1>3, <2>1, <2>4, <3>1 DEF InOrder, n
    <3>2. CASE j - n \in 1..Len(b) /\ j = n + (j - n)
      <4>1. p[j] = b[j - n] /\ p[j].idx \in kdev /\ p[j].idx \in Dev
        BY <1>2, <1>3, <1>5, <3>2
      <4>2. \A k \in 1..Len(q) : q[k].idx = p[j].idx => q[k].op # "DEL"
        BY <4>1, PresentDevice
      <4>3. QED
        BY <2>1, <2>4, <4>2 DEF n
    <3>3. QED
      BY <1>3, <3>1, <3>2
  <2>5. QED
    BY <2>2, <2>3, <2>4 DEF InOrder
<1>8. ASSUME NEW k \in 1..Len(b)
      PROVE  Superseded(n + k, p, kdev, r.ks, khard) /\ InOrder(n + k, p, D)
  <2>1. p[n + k] = b[k] /\ b[k].op = "CHANGE" /\ b[k].idx \in kdev /\ b[k].idx \in Dev
    BY <1>2, <1>3, <1>5
  <2>2. Superseded(n + k, p, kdev, r.ks, khard)
    BY <1>2, <2>1 DEF Superseded, Truth
  <2>3. b[k].idx \in D \/ \E i \in 1..n : q[i].idx = b[k].idx /\ q[i].op = "ADD"
    BY <2>1, PresentDevice DEF n
  <2>4. ASSUME b[k].idx \notin D
        PROVE  \E j \in 1..Len(p) : j < n + k /\ p[j].idx = b[k].idx /\ p[j].op = "ADD"
    <3>1. PICK i \in 1..n : q[i].idx = b[k].idx /\ q[i].op = "ADD"
      BY <2>3, <2>4
    <3>2. p[i] = q[i] /\ i \in 1..Len(p) /\ i < n + k
      BY <1>2, <1>3
    <3>3. QED
      BY <3>1, <3>2
  <2>5. InOrder(n + k, p, D)
    BY <2>1, <2>4 DEF InOrder
  <2>6. QED
    BY <2>2, <2>5
<1>9. ASSUME NEW d \in Dev, Absent(d, p)
      PROVE  Agrees(d, kdev, r.ks, khard, D, s2, h, X)
  <2>1. Absent(d, q)
    BY <1>3, <1>9 DEF Absent, n
  <2>2. \A i \in 1..Len(b) : b[i].idx # d
    BY <1>3, <1>9 DEF Absent
  <2>3. r.ks[d] = ks[d]
    BY <1>1, <2>2
  <2>4. Agrees(d, kdev, ks, khard, D, s, h, X)
    BY <2>1 DEF Coherent
  <2>5. QED
    BY <2>3, <2>4 DEF Agrees
<1>10. ASSUME NEW i \in 1..Len(p)
       PROVE  Superseded(i, p, kdev, r.ks, khard) /\ InOrder(i, p, D)
  <2>1. CASE i \in 1..n
    BY <1>6, <1>7, <2>1
  <2>2. CASE i - n \in 1..Len(b) /\ i = n + (i - n)
    BY <1>8, <2>2
  <2>3. QED
    BY <1>3, <2>1, <2>2
<1>11. Coherent(p, kdev, r.ks, khard, D, s2, h, X)
  BY <1>9, <1>10 DEF Coherent
<1>12. QED
  BY <1>1, <1>11 DEF p

\* What the kernel queues when the daemon opens its fd, knowing nothing.
LEMMA Listed ==
    ASSUME NEW K \in SUBSET Dev,
           NEW ks \in [Dev -> BOOLEAN], NEW kh \in [Dev -> BOOLEAN],
           NEW l \in Listings(K), NEW s, NEW h, NEW X
    PROVE  Coherent(EventsFor("ADD", l, ks, kh), K, ks, kh, {}, s, h, X)
<1> DEFINE q == EventsFor("ADD", l, ks, kh)
<1>1. /\ \A i \in 1..Len(l) : l[i] \in K
      /\ \A d \in K : \E i \in 1..Len(l) : l[i] = d
      /\ \A i, j \in 1..Len(l) : i < j => l[i] # l[j]
  BY ListingIsSeq
<1>2. /\ Len(q) = Len(l)
      /\ \A i \in 1..Len(l) : q[i] = [op |-> "ADD", idx |-> l[i],
                                      soft |-> ks[l[i]], hard |-> kh[l[i]]]
  BY EventsForType, ZenonT(60) DEF EventOps
<1> HIDE DEF q
<1>3. ASSUME NEW i \in 1..Len(l)
      PROVE  /\ q[i].op = "ADD" /\ q[i].idx = l[i]
             /\ q[i].soft = ks[l[i]] /\ q[i].hard = kh[l[i]]
  <2>1. q[i] = [op |-> "ADD", idx |-> l[i], soft |-> ks[l[i]], hard |-> kh[l[i]]]
    BY <1>2
  <2>2. QED
    BY <2>1
<1>4. ASSUME NEW i \in 1..Len(q)
      PROVE  Superseded(i, q, K, ks, kh) /\ InOrder(i, q, {})
  <2>1. Truth(q[i], K, ks, kh)
    BY <1>1, <1>2, <1>3 DEF Truth
  <2>2. \A j \in 1..Len(q) : j < i => q[j].idx # q[i].idx
    BY <1>1, <1>2, <1>3
  <2>3. q[i].op = "ADD"
    BY <1>2, <1>3
  <2>4. QED
    BY <2>1, <2>2, <2>3 DEF Superseded, InOrder
<1>5. ASSUME NEW d \in Dev, Absent(d, q)
      PROVE  Agrees(d, K, ks, kh, {}, s, h, X)
  <2>1. d \notin K
    BY <1>1, <1>2, <1>3, <1>5 DEF Absent
  <2>2. QED
    BY <2>1 DEF Agrees
<1>6. Coherent(q, K, ks, kh, {}, s, h, X)
  BY <1>4, <1>5 DEF Coherent
<1>7. QED
  BY <1>6 DEF q

(***************************************************************************)
(* The steps of the program                                                *)
(***************************************************************************)
\* The inductive invariant.
View  == Listening => Coherent(events, kdev, ksoft, khard, devices, soft, hard, dropped)
IInv  == TypeOK /\ View

\* It is the two checked invariants, with the types.
LEMMA ViewMeans == IInv <=> TypeOK /\ ViewConverges /\ EventsInOrder
<1> SUFFICES ASSUME TypeOK
             PROVE  View <=> ViewConverges /\ EventsInOrder
  BY DEF IInv
<1>1. DOMAIN events = 1..Len(events) /\ Len(events) \in Nat
  BY DEF TypeOK
<1>2. CASE ~Listening
  <2>1. DOMAIN events = {}
    BY <1>2 DEF TypeOK
  <2>2. QED
    BY <1>2, <2>1 DEF View, ViewConverges, EventsInOrder
<1>3. CASE Listening
  <2>1. ViewConverges <=>
          /\ \A i \in 1..Len(events) : Superseded(i, events, kdev, ksoft, khard)
          /\ \A d \in Dev : Absent(d, events) =>
                Agrees(d, kdev, ksoft, khard, devices, soft, hard, dropped)
    BY <1>1, <1>3 DEF ViewConverges, Current, Superseded, Truth, Absent, Agrees
  <2>2. EventsInOrder <=> \A i \in 1..Len(events) : InOrder(i, events, devices)
    BY <1>1 DEF EventsInOrder, InOrder
  <2>3. QED
    BY <1>3, <2>1, <2>2 DEF View, Coherent
<1>4. QED
  BY <1>2, <1>3

LEMMA SetBlockView ==
    ASSUME TypeOK, NEW want, \A t \in DOMAIN want : want[t] \in BOOLEAN,
           SetBlock(want),
           Coherent(events, kdev, ksoft, khard, devices, soft, hard, dropped)
    PROVE  Coherent(events', kdev', ksoft', khard', devices', soft', hard', dropped)
<1>1. PICK r \in ChangeAll(Written(want), ksoft, events) :
        ksoft' = r.ks /\ events' = r.q
  BY DEF SetBlock
<1>2. /\ soft' = SoftAfter(want)
      /\ UNCHANGED <<kdev, plugged, khard, devices, writable, hard>>
  BY DEF SetBlock
<1>3. \A t \in DOMAIN Written(want) : Written(want)[t] \in BOOLEAN
  BY DEF Written, Reached
<1>4. /\ kdev \in SUBSET Dev /\ khard \in [Dev -> BOOLEAN]
      /\ ksoft \in [Dev -> BOOLEAN] /\ events \in Seq(Event) /\ devices \in SUBSET Dev
  BY DEF TypeOK
<1>5. /\ r.q \in Seq(Event) /\ Reported(ksoft, events, r)
      /\ Applied(Written(want), ksoft, r)
  BY <1>3, <1>4, ChangeAllEffect
<1>6. ASSUME NEW d \in devices, d \in kdev
      PROVE  soft'[d] = soft[d] \/ soft'[d] = r.ks[d]
  <2>1. CASE d \in Reached(want)
    <3>1. soft'[d] = want[Type[d]]
      BY <1>2, <1>4, <2>1 DEF SoftAfter
    <3>2. Type[d] \in DOMAIN Written(want) /\ Written(want)[Type[d]] = want[Type[d]]
      BY <2>1 DEF Written
    <3>3. QED
      BY <1>4, <1>5, <1>6, <3>1, <3>2 DEF Applied
  <2>2. CASE d \notin Reached(want)
    BY <1>2, <1>4, <2>2 DEF SoftAfter
  <2>3. QED
    BY <2>1, <2>2
<1>7. Coherent(r.q, kdev, r.ks, khard, devices, soft', hard, dropped)
  BY <1>4, <1>5, <1>6, Batch
<1>8. QED
  BY <1>1, <1>2, <1>7

\* An ADD event is read, by event_cb or by the start-up loop.
LEMMA AddKillswitchView ==
    ASSUME TypeOK, NEW d \in Dev, NEW fd \in BOOLEAN,
           NextEvent("ADD", d), AddKillswitch(d, fd),
           Coherent(events, kdev, ksoft, khard, devices, soft, hard, dropped)
    PROVE  Coherent(events', kdev', ksoft', khard', devices', soft', hard', dropped)
<1> DEFINE e == Head(events)
           t == Type[d]
           found == [soft EXCEPT ![d] = e.soft]
           D2 == devices \cup {d}
           h2 == [hard EXCEPT ![d] = e.hard]
           w1 == IF fd /\ ForceSync /\ d \notin Platform THEN Only(t, e.soft) ELSE Nothing
           w2 == IF fd /\ Persist THEN Only(t, persist[t]) ELSE Nothing
<1>1. /\ events \in Seq(Event) /\ events # <<>> /\ Queue(Tail(events))
      /\ Tail(events) \in Seq(Event)
      /\ e \in Event /\ e.op = "ADD" /\ e.idx = d
      /\ e.soft \in BOOLEAN /\ e.hard \in BOOLEAN
  BY QueueTypes, TailTypes DEF NextEvent, Queue, Event
<1>2. /\ kdev \in SUBSET Dev /\ khard \in [Dev -> BOOLEAN] /\ ksoft \in [Dev -> BOOLEAN]
      /\ soft \in [Dev -> BOOLEAN] /\ hard \in [Dev -> BOOLEAN] /\ D2 \in SUBSET Dev
      /\ t \in Types /\ persist[t] \in BOOLEAN
  BY TypesAssumption DEF TypeOK
<1>3. d \notin devices
  <2>1. Len(events) \in Nat /\ 1 \in 1..Len(events) /\ events[1] = e
    BY <1>1, EmptySeq
  <2>2. QED
    BY <1>1, <2>1 DEF Coherent, InOrder
<1>4. Coherent(Tail(events), kdev, ksoft, khard, D2, found, h2, dropped)
  <2>1. \A x \in Dev : x # e.idx =>
            /\ x \in D2 <=> x \in devices
            /\ x \in dropped <=> x \in dropped
            /\ found[x] = soft[x] /\ h2[x] = hard[x]
    BY <1>1, <1>2
  <2>2. Truth(e, kdev, ksoft, khard) =>
            Agrees(e.idx, kdev, ksoft, khard, D2, found, h2, dropped)
    BY <1>1, <1>2 DEF Truth, Agrees
  <2>3. e.idx \in D2 /\ e.op \in EventOps /\ e.op # "CHANGE"
    BY <1>1 DEF EventOps
  <2> HIDE DEF e, D2, found, h2
  <2>4. QED
    BY <1>1, <2>1, <2>2, <2>3, Pop DEF e
<1>5. PICK r1 \in ChangeAll(w1, ksoft, Tail(events)) :
        \E r2 \in ChangeAll(w2, r1.ks, r1.q) : ksoft' = r2.ks /\ events' = r2.q
  BY <1>3 DEF AddKillswitch
<1>6. PICK r2 \in ChangeAll(w2, r1.ks, r1.q) : ksoft' = r2.ks /\ events' = r2.q
  BY <1>5
<1>7. /\ devices' = D2 /\ hard' = h2
      /\ soft' = IF fd /\ Persist THEN [soft EXCEPT ![d] = persist[t]] ELSE found
      /\ UNCHANGED <<kdev, plugged, khard, saved>>
  BY <1>3 DEF AddKillswitch, NewDevice
<1>8. /\ \A x \in DOMAIN w1 : w1[x] \in BOOLEAN
      /\ \A x \in DOMAIN w2 : w2[x] \in BOOLEAN
      /\ fd /\ Persist => t \in DOMAIN w2 /\ w2[t] = persist[t]
  BY <1>1, <1>2 DEF Only, Nothing
<1> HIDE DEF w1, w2, D2, h2
<1>9. /\ r1.ks \in [Dev -> BOOLEAN] /\ r1.q \in Seq(Event)
      /\ Reported(ksoft, Tail(events), r1)
  BY <1>1, <1>2, <1>8, ChangeAllEffect
<1>10. Coherent(r1.q, kdev, r1.ks, khard, D2, found, h2, dropped)
  BY <1>1, <1>4, <1>9, Batch
<1>11. /\ r2.q \in Seq(Event) /\ Reported(r1.ks, r1.q, r2)
       /\ Applied(w2, r1.ks, r2)
  BY <1>2, <1>8, <1>9, ChangeAllEffect
<1>12. ASSUME NEW x \in D2, x \in kdev
       PROVE  soft'[x] = found[x] \/ soft'[x] = r2.ks[x]
  <2>1. x \in Dev
    BY <1>2
  <2>2. CASE ~(fd /\ Persist)
    BY <1>7, <2>2
  <2>3. CASE fd /\ Persist /\ x = d
    BY <1>2, <1>7, <1>8, <1>11, <1>12, <2>3 DEF Applied
  <2>4. CASE fd /\ Persist /\ x # d
    BY <1>2, <1>7, <2>1, <2>4
  <2>5. QED
    BY <2>2, <2>3, <2>4
<1> HIDE DEF found
<1>13. Coherent(r2.q, kdev, r2.ks, khard, D2, soft', h2, dropped)
  BY <1>9, <1>10, <1>11, <1>12, Batch
<1>14. QED
  BY <1>6, <1>7, <1>13

\* A step that changes nothing Coherent is about.
LEMMA Untouched ==
    ASSUME View, UNCHANGED <<events, kdev, ksoft, khard, devices, soft, hard, dropped>>,
           Listening' => Listening
    PROVE  View'
BY DEF View

\* The head of the queue names a device that the daemon knows, unless it is ADD.
LEMMA HeadEvent ==
    ASSUME events \in Seq(Event), events # <<>>,
           Coherent(events, kdev, ksoft, khard, devices, soft, hard, dropped)
    PROVE  /\ Head(events).op = "ADD" => Head(events).idx \notin devices
           /\ Head(events).op # "ADD" => Head(events).idx \in devices
<1>1. Len(events) \in Nat /\ 1 \in 1..Len(events) /\ events[1] = Head(events)
  BY EmptySeq
<1>2. InOrder(1, events, devices)
  BY <1>1 DEF Coherent
<1>3. QED
  BY <1>1, <1>2 DEF InOrder

LEMMA ViewStep == TypeOK /\ View /\ [Next]_vars => View'
<1> SUFFICES ASSUME TypeOK, View, [Next]_vars
             PROVE  View'
  OBVIOUS
<1> USE DEF vars, kernelVars, viewVars, switchVars, storeVars
<1>t. /\ events \in Seq(Event) /\ kdev \in SUBSET Dev /\ devices \in SUBSET Dev
      /\ kdev \subseteq plugged /\ devices \subseteq plugged
      /\ ksoft \in [Dev -> BOOLEAN] /\ khard \in [Dev -> BOOLEAN]
      /\ soft \in [Dev -> BOOLEAN] /\ hard \in [Dev -> BOOLEAN]
      /\ Queue(events)
  BY QueueTypes DEF TypeOK
<1>1. ASSUME NEW d \in Dev, NEW s \in BOOLEAN, NEW h \in BOOLEAN, Plug(d, s, h)
      PROVE  View'
  <2> DEFINE e == [op |-> "ADD", idx |-> d, soft |-> s, hard |-> h]
  <2>1. CASE ~Listening
    BY <1>1, <2>1 DEF Plug, Listening, View
  <2>2. CASE Listening
    <3>1. /\ events' = Append(events, e) /\ e \in Event /\ d \notin plugged
          /\ kdev' = kdev \cup {d}
          /\ ksoft' = [ksoft EXCEPT ![d] = s] /\ khard' = [khard EXCEPT ![d] = h]
          /\ UNCHANGED <<devices, soft, hard, dropped>>
      BY <1>1, <2>2 DEF Plug, Notify, Event, EventOps
    <3>2. Coherent(events, kdev, ksoft, khard, devices, soft, hard, dropped)
      BY <2>2 DEF View
    <3>3. Truth(e, kdev', ksoft', khard')
      BY <1>t, <3>1 DEF Truth
    <3>4. \A x \in Dev : x # e.idx =>
            (x \in kdev' <=> x \in kdev) /\ ksoft'[x] = ksoft[x] /\ khard'[x] = khard[x]
      BY <1>t, <3>1
    <3>5. Absent(d, events)
      BY <1>t, <3>1 DEF Absent, Queue
    <3>6. /\ e.op = "ADD" => e.idx \notin devices /\ Absent(e.idx, events)
          /\ ~(e.op # "ADD")
          /\ \A i \in 1..Len(events) : events[i].idx = e.idx => events[i].op # "DEL"
          /\ events \in Seq(Event) /\ e \in Event
      BY <1>t, <3>1, <3>5 DEF Absent
    <3> HIDE DEF e
    <3>7. Coherent(Append(events, e), kdev', ksoft', khard', devices, soft, hard, dropped)
      BY <3>2, <3>3, <3>4, <3>6, Push
    <3>8. QED
      BY <3>1, <3>7 DEF View
  <2>3. QED
    BY <2>1, <2>2
<1>2. ASSUME NEW d \in Dev, d \in kdev,
             NEW e \in Event, e.idx = d, e.op # "ADD",
             Listening, events' = Append(events, e),
             Truth(e, kdev', ksoft', khard'),
             \A x \in Dev : x # d =>
                (x \in kdev' <=> x \in kdev) /\ ksoft'[x] = ksoft[x] /\ khard'[x] = khard[x],
             UNCHANGED <<devices, soft, hard, dropped>>
      PROVE  View'
  <2>1. Coherent(events, kdev, ksoft, khard, devices, soft, hard, dropped)
    BY <1>2 DEF View
  <2>2. /\ \A i \in 1..Len(events) : events[i].idx = d => events[i].op # "DEL"
        /\ \/ d \in devices
           \/ \E i \in 1..Len(events) : events[i].idx = d /\ events[i].op = "ADD"
    BY <1>2, <1>t, <2>1, PresentDevice
  <2>3. Coherent(Append(events, e), kdev', ksoft', khard', devices, soft, hard, dropped)
    BY <1>2, <1>t, <2>1, <2>2, Push
  <2>4. QED
    BY <1>2, <2>3 DEF View
<1>3. ASSUME NEW d \in Dev, NEW s \in BOOLEAN, NEW h \in BOOLEAN, KernelChange(d, s, h)
      PROVE  View'
  <2> DEFINE e == [op |-> "CHANGE", idx |-> d, soft |-> s, hard |-> h]
  <2>1. CASE ~Listening
    BY <1>3, <2>1 DEF KernelChange, Listening, View
  <2>2. CASE Listening
    <3>1. /\ events' = Append(events, e) /\ e \in Event /\ d \in kdev
          /\ kdev' = kdev
          /\ ksoft' = [ksoft EXCEPT ![d] = s] /\ khard' = [khard EXCEPT ![d] = h]
          /\ UNCHANGED <<devices, soft, hard, dropped>>
      BY <1>3, <2>2 DEF KernelChange, Notify, Event, EventOps
    <3>2. Truth(e, kdev', ksoft', khard')
      BY <1>t, <3>1 DEF Truth
    <3>3. \A x \in Dev : x # d =>
            (x \in kdev' <=> x \in kdev) /\ ksoft'[x] = ksoft[x] /\ khard'[x] = khard[x]
      BY <1>t, <3>1
    <3>4. e.idx = d /\ e.op # "ADD"
      OBVIOUS
    <3> HIDE DEF e
    <3>5. QED
      BY <1>2, <2>2, <3>1, <3>2, <3>3, <3>4
  <2>3. QED
    BY <2>1, <2>2
<1>4. ASSUME NEW d \in Dev, Unplug(d)
      PROVE  View'
  <2> DEFINE e == [op |-> "DEL", idx |-> d, soft |-> ksoft[d], hard |-> khard[d]]
  <2>1. CASE ~Listening
    BY <1>4, <2>1 DEF Unplug, Listening, View
  <2>2. CASE Listening
    <3>1. /\ events' = Append(events, e) /\ e \in Event /\ d \in kdev
          /\ kdev' = kdev \ {d}
          /\ ksoft' = [ksoft EXCEPT ![d] = FALSE] /\ khard' = [khard EXCEPT ![d] = FALSE]
          /\ UNCHANGED <<devices, soft, hard, dropped>>
      BY <1>4, <1>t, <2>2 DEF Unplug, Notify, Event, EventOps
    <3>2. Truth(e, kdev', ksoft', khard')
      BY <3>1 DEF Truth
    <3>3. \A x \in Dev : x # d =>
            (x \in kdev' <=> x \in kdev) /\ ksoft'[x] = ksoft[x] /\ khard'[x] = khard[x]
      BY <1>t, <3>1
    <3>4. e.idx = d /\ e.op # "ADD"
      OBVIOUS
    <3> HIDE DEF e
    <3>5. QED
      BY <1>2, <2>2, <3>1, <3>2, <3>3, <3>4
  <2>3. QED
    BY <2>1, <2>2
<1>5. ASSUME NEW d \in Dev, NEW fd \in HotplugFd, HandleAdd(d, fd)
      PROVE  View'
  BY <1>5, OptionsAssumption, AddKillswitchView DEF HandleAdd, View, Listening
<1>6. ASSUME NEW d \in Dev, StartupAdd(d)
      PROVE  View'
  BY <1>6, AddKillswitchView DEF StartupAdd, View, Listening
<1>7. ASSUME NEW d \in Dev, HandleDel(d)
      PROVE  View'
  <2> DEFINE e == Head(events)
  <2>1. /\ Coherent(events, kdev, ksoft, khard, devices, soft, hard, dropped)
        /\ events # <<>> /\ e.op = "DEL" /\ e.idx = d /\ events' = Tail(events)
        /\ UNCHANGED <<kdev, ksoft, khard>> /\ dropped' = dropped \ {d}
    BY <1>7 DEF HandleDel, NextEvent, View, Listening
  <2>2. d \in devices
    BY <1>t, <2>1, HeadEvent
  <2>3. /\ devices' = devices \ {d}
        /\ soft' = [soft EXCEPT ![d] = FALSE] /\ hard' = [hard EXCEPT ![d] = FALSE]
    BY <1>7, <2>2 DEF HandleDel
  <2>4. \A x \in Dev : x # e.idx =>
            /\ x \in devices' <=> x \in devices
            /\ x \in dropped' <=> x \in dropped
            /\ soft'[x] = soft[x] /\ hard'[x] = hard[x]
    BY <1>t, <2>1, <2>3
  <2>5. Truth(e, kdev, ksoft, khard) =>
            Agrees(e.idx, kdev, ksoft, khard, devices', soft', hard', dropped')
    BY <2>1, <2>3 DEF Truth, Agrees
  <2>6. e.op \in EventOps /\ e.op # "ADD" /\ e.op # "CHANGE"
    BY <2>1 DEF EventOps
  <2> HIDE DEF e
  <2>7. Coherent(Tail(events), kdev, ksoft, khard, devices', soft', hard', dropped')
    BY <1>t, <2>1, <2>4, <2>5, <2>6, Pop DEF e
  <2>8. QED
    BY <2>1, <2>7 DEF View
<1>8. ASSUME NEW d \in Dev, HandleChange(d)
      PROVE  View'
  <2> DEFINE e == Head(events)
             want == SyncRequest(d, e)
             s2 == [soft EXCEPT ![d] = e.soft]
             h2 == [hard EXCEPT ![d] = e.hard]
  <2>1. /\ Coherent(events, kdev, ksoft, khard, devices, soft, hard, dropped)
        /\ events # <<>> /\ e.op = "CHANGE" /\ e.idx = d
        /\ UNCHANGED <<kdev, khard, devices>> /\ dropped' = dropped \ {d}
    BY <1>8 DEF HandleChange, NextEvent, View, Listening
  <2>2. d \in devices
    BY <1>t, <2>1, HeadEvent
  <2>3. e.soft \in BOOLEAN /\ e.hard \in BOOLEAN /\ Tail(events) \in Seq(Event)
    BY <1>t, <2>1, TailTypes DEF Event, Queue
  <2>4. Coherent(Tail(events), kdev, ksoft, khard, devices, s2, h2, dropped')
    <3>1. \A x \in Dev : x # e.idx =>
              /\ x \in devices <=> x \in devices
              /\ x \in dropped' <=> x \in dropped
              /\ s2[x] = soft[x] /\ h2[x] = hard[x]
      BY <1>t, <2>1
    <3>2. Truth(e, kdev, ksoft, khard) =>
              Agrees(e.idx, kdev, ksoft, khard, devices, s2, h2, dropped')
      BY <1>t, <2>1, <2>2 DEF Truth, Agrees
    <3>3. e.op \in EventOps /\ e.op # "ADD"
      BY <2>1 DEF EventOps
    <3> HIDE DEF e, s2, h2
    <3>4. QED
      BY <1>t, <2>1, <2>2, <3>1, <3>2, <3>3, Pop DEF e
  <2>5. CASE <<e.soft, e.hard>> # <<soft[d], hard[d]>>
    <3>1. /\ hard' = h2
          /\ soft' = [soft EXCEPT ![d] = IF Type[d] \in DOMAIN want
                                         THEN want[Type[d]] ELSE e.soft]
      BY <1>8, <2>2, <2>5 DEF HandleChange
    <3>2. PICK r \in ChangeAll(want, ksoft, Tail(events)) : ksoft' = r.ks /\ events' = r.q
      BY <1>8, <2>2, <2>5 DEF HandleChange
    <3>3. \A x \in DOMAIN want : want[x] \in BOOLEAN
      BY DEF SyncRequest, Only, Nothing
    <3> HIDE DEF want
    <3>4. r.q \in Seq(Event) /\ Reported(ksoft, Tail(events), r) /\ Applied(want, ksoft, r)
      BY <1>t, <2>3, <3>2, <3>3, ChangeAllEffect
    <3>5. ASSUME NEW x \in devices, x \in kdev
          PROVE  soft'[x] = s2[x] \/ soft'[x] = r.ks[x]
      <4>1. CASE x # d
        BY <1>t, <3>1, <4>1
      <4>2. CASE x = d /\ Type[d] \notin DOMAIN want
        BY <1>t, <3>1, <4>2
      <4>3. CASE x = d /\ Type[d] \in DOMAIN want
        BY <1>t, <3>1, <3>4, <3>5, <4>3 DEF Applied
      <4>4. QED
        BY <4>1, <4>2, <4>3
    <3> HIDE DEF s2, h2, e
    <3>6. Coherent(r.q, kdev, r.ks, khard, devices, soft', h2, dropped')
      <4>1. \A x \in devices : x \in kdev => soft'[x] = s2[x] \/ soft'[x] = r.ks[x]
        BY <3>5
      <4>2. r.q \in Seq(Event) /\ Reported(ksoft, Tail(events), r)
        BY <3>4
      <4>3. Tail(events) \in Seq(Event)
        BY <2>3
      <4>4. QED
        BY <2>4, <4>1, <4>2, <4>3, Batch, ZenonT(60)
    <3>7. QED
      BY <2>1, <3>1, <3>2, <3>6 DEF View
  <2>6. CASE <<e.soft, e.hard>> = <<soft[d], hard[d]>>
    <3>1. s2 = soft /\ h2 = hard
      BY <1>t, <2>6
    <3>2. events' = Tail(events) /\ UNCHANGED <<ksoft, soft, hard>>
      BY <1>8, <2>6 DEF HandleChange
    <3> HIDE DEF s2, h2
    <3>3. QED
      BY <2>1, <2>4, <3>1, <3>2 DEF View
  <2>7. QED
    BY <2>5, <2>6
<1>9. ASSUME NEW want, \A t \in DOMAIN want : want[t] \in BOOLEAN,
             SetBlock(want), Listening, UNCHANGED dropped
      PROVE  View'
  BY <1>9, SetBlockView DEF View
<1>10. ASSUME NEW t \in Types, NEW b \in BOOLEAN, Block(t, b)
       PROVE  View'
  <2>1. SetBlock(Only(t, b)) /\ \A x \in DOMAIN Only(t, b) : Only(t, b)[x] \in BOOLEAN
    BY <1>10 DEF Block, Only
  <2>2. QED
    BY <1>9, <1>10, <2>1 DEF Block, Listening
<1>11. ASSUME NEW p \in {"down", "crashed"}, NEW store, Exit(p, store)
       PROVE  View'
  BY <1>11 DEF Exit, View, Listening
<1>12. ASSUME NEW b \in BOOLEAN, BlockAll(b)
       PROVE  View'
  BY <1>11, <1>12 DEF BlockAll, Crash
<1>13. ASSUME NEW d \in Dev, NEW b \in BOOLEAN, BlockIdx(d, b)
       PROVE  View'
  <2>1. CASE d \notin devices \cap writable
    BY <1>13, <2>1, Untouched DEF BlockIdx, Listening
  <2>2. CASE d \in devices \cap writable
    <3>1. PICK r \in ChangeAll(Only(Type[d], b), ksoft, events) :
            ksoft' = r.ks /\ events' = r.q
      BY <1>13, <2>2 DEF BlockIdx
    <3>2. /\ soft' = [soft EXCEPT ![d] = b]
          /\ UNCHANGED <<kdev, khard, devices, hard, dropped>>
          /\ Coherent(events, kdev, ksoft, khard, devices, soft, hard, dropped)
      BY <1>13, <2>2 DEF BlockIdx, View, Listening
    <3>3. \A x \in DOMAIN Only(Type[d], b) : Only(Type[d], b)[x] \in BOOLEAN
      BY DEF Only
    <3>4. /\ r.q \in Seq(Event) /\ Reported(ksoft, events, r)
          /\ Applied(Only(Type[d], b), ksoft, r)
      BY <1>t, <3>1, <3>3, ChangeAllEffect
    <3>5. \A x \in devices : x \in kdev => soft'[x] = soft[x] \/ soft'[x] = r.ks[x]
      BY <1>t, <3>2, <3>4 DEF Applied, Only
    <3>6. Coherent(r.q, kdev, r.ks, khard, devices, soft', hard, dropped)
      <4>1. /\ events \in Seq(Event) /\ r.q \in Seq(Event)
            /\ Coherent(events, kdev, ksoft, khard, devices, soft, hard, dropped)
            /\ Reported(ksoft, events, r)
        BY <1>t, <3>2, <3>4
      <4>2. QED
        BY <3>5, <4>1, Batch
    <3>7. QED
      BY <3>1, <3>2, <3>6 DEF View
  <2>3. QED
    BY <2>1, <2>2
<1>14. ASSUME RequestWithoutDevices
       PROVE  View'
  BY <1>14, Untouched DEF RequestWithoutDevices, Listening
<1>15. ASSUME NEW b \in BOOLEAN, FlightMode(b)
       PROVE  View'
  <2> DEFINE now     == [t \in Types |-> Refreshed(t, devices, soft, hard)]
             present == {t \in Types : now[t] # NoAdapter}
             want    == [t \in present |-> FlightRequest(t, now[t], b)]
  <2>1. \A t \in DOMAIN want : want[t] \in BOOLEAN
    <3>1. \A t \in Types : CountsAsBlocked(saved[t]) \in BOOLEAN
      BY CountsAsBlockedType DEF TypeOK
    <3>2. QED
      BY <3>1 DEF FlightRequest
  <2>2. SetBlock(want) /\ Listening /\ UNCHANGED dropped
    BY <1>15 DEF FlightMode, Listening
  <2> HIDE DEF want
  <2>3. QED
    BY <1>9, <2>1, <2>2
<1>16. ASSUME NEW k \in KeyTypes, KeyPress(k)
       PROVE  View'
  <2> DEFINE t  == IF k = RfkillAll THEN RfkillWlan ELSE k
             st == Refreshed(t, devices, soft, hard)
             b  == st # SoftBlocked
  <2>1. CASE st # NoAdapter /\ (k = RfkillAll \/ MasterKey)
    BY <1>11, <1>16, <2>1 DEF KeyPress, Crash
  <2>2. CASE ~(st # NoAdapter /\ (k = RfkillAll \/ MasterKey)) /\ st = NoAdapter
    BY <1>16, <2>2, Untouched DEF KeyPress, Listening
  <2>3. CASE ~(st # NoAdapter /\ (k = RfkillAll \/ MasterKey)) /\ st # NoAdapter
    <3>1. SetBlock(Only(t, b)) /\ Listening /\ UNCHANGED dropped
      BY <1>16, <2>3 DEF KeyPress, Listening
    <3>2. \A x \in DOMAIN Only(t, b) : Only(t, b)[x] \in BOOLEAN
      BY DEF Only
    <3> HIDE DEF t, b
    <3>3. QED
      BY <1>9, <3>1, <3>2
  <2>4. QED
    BY <2>1, <2>2, <2>3
<1>17. ASSUME Start
       PROVE  View'
  <2>1. PICK l \in Listings(kdev) : events' = EventsFor("ADD", l, ksoft, khard)
    BY <1>17 DEF Start
  <2>2. devices' = {} /\ UNCHANGED <<kdev, ksoft, khard>>
    BY <1>17 DEF Start, TypeOK, Listening
  <2>3. Coherent(EventsFor("ADD", l, ksoft, khard), kdev, ksoft, khard, {},
                 soft', hard', dropped')
    BY <1>t, Listed
  <2>4. QED
    BY <2>1, <2>2, <2>3 DEF View
<1>18. ASSUME NEW d \in Dev, StartupSkip(d)
       PROVE  View'
  <2> DEFINE e == Head(events)
  <2>1. /\ Coherent(events, kdev, ksoft, khard, devices, soft, hard, dropped)
        /\ events # <<>> /\ e.op \in {"DEL", "CHANGE"} /\ e.idx = d
        /\ events' = Tail(events) /\ dropped' = dropped \cup {d}
        /\ UNCHANGED <<kdev, ksoft, khard, devices, soft, hard>>
    BY <1>18 DEF StartupSkip, NextEvent, View, Listening
  <2>2. d \in devices
    BY <1>t, <2>1, HeadEvent
  <2>3. \A x \in Dev : x # e.idx =>
            /\ x \in devices <=> x \in devices
            /\ x \in dropped' <=> x \in dropped
            /\ soft[x] = soft[x] /\ hard[x] = hard[x]
    BY <2>1
  <2>4. Agrees(e.idx, kdev, ksoft, khard, devices, soft, hard, dropped')
    BY <2>1, <2>2 DEF Agrees
  <2>5. e.op \in EventOps /\ e.op # "ADD"
    BY <2>1 DEF EventOps
  <2> HIDE DEF e
  <2>6. Coherent(Tail(events), kdev, ksoft, khard, devices, soft, hard, dropped')
    BY <1>t, <2>1, <2>3, <2>4, <2>5, Pop DEF e
  <2>7. QED
    BY <2>1, <2>6 DEF View
<1>19. ASSUME StartupDone
       PROVE  View'
  <2>1. CASE Persist
    <3> DEFINE want == [t \in Types |-> persist[t]]
    <3>1. SetBlock(want) /\ Listening /\ UNCHANGED dropped
      BY <1>19, <2>1 DEF StartupDone, Listening
    <3>2. \A t \in DOMAIN want : want[t] \in BOOLEAN
      BY DEF TypeOK
    <3> HIDE DEF want
    <3>3. QED
      BY <1>9, <3>1, <3>2
  <2>2. CASE ~Persist
    BY <1>19, <2>2, Untouched DEF StartupDone, Listening
  <2>3. QED
    BY <2>1, <2>2
<1>20. ASSUME Kill \/ \E written \in BOOLEAN : Shutdown(written)
       PROVE  View'
  BY <1>11, <1>20 DEF Shutdown, Kill
<1>21. ASSUME UNCHANGED vars
       PROVE  View'
  BY <1>21, Untouched DEF Listening
<1>22. QED
  BY <1>1, <1>3, <1>4, <1>5, <1>6, <1>7, <1>8, <1>10, <1>12, <1>13, <1>14, <1>15,
     <1>16, <1>17, <1>18, <1>19, <1>20, <1>21
     DEF Next, Kernel, HandleEvent, StartupStep, Request, SwitchRequest, Process

(***************************************************************************)
(* The theorems                                                            *)
(***************************************************************************)
LEMMA ViewInvariant == Spec => []IInv
<1>1. Init => View
  BY DEF Init, View, Listening
<1>2. IInv /\ [Next]_vars => IInv'
  BY TypeStep, ViewStep DEF IInv
<1>3. Spec => []TypeOK
  BY TypeCorrect
<1>4. TypeOK /\ View => IInv
  BY DEF IInv
<1>5. QED
  BY <1>1, <1>2, <1>3, <1>4, PTL DEF Spec

\* What the daemon will believe when it has read its queue is what the kernel
\* has (urf_arbitrator_startup, event_cb and every write to /dev/rfkill), except
\* of devices of which the start-up loop skipped an event.
THEOREM ViewConvergesAlways == Spec => []ViewConverges
<1>1. IInv => ViewConverges
  BY ViewMeans
<1>2. QED
  BY <1>1, ViewInvariant, PTL

\* An ADD always names a device that the daemon does not know and any other
\* event one that it does: the branches of add_killswitch, update_killswitch and
\* remove_killswitch for the opposite case are dead.
THEOREM EventsInOrderAlways == Spec => []EventsInOrder
<1>1. IInv => EventsInOrder
  BY ViewMeans
<1>2. QED
  BY <1>1, ViewInvariant, PTL

=============================================================================
