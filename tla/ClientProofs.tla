---------------------------- MODULE ClientProofs ----------------------------
(***************************************************************************)
(* The client library's list and its cached properties are one queue away  *)
(* from the daemon's, for any set of paths and any number of changes and   *)
(* signals.                                                                *)
(*                                                                         *)
(* The inductive invariant says besides where the library can be between   *)
(* two synchronous calls (Progress): a handler that adds a device works on *)
(* one path, and once the daemon has listed its devices and the list is    *)
(* complete, signals are heard.  For the properties, PathInv says of each  *)
(* path what the last message that carries them will bring.                *)
(***************************************************************************)
EXTENDS UrfClient, TLAPS

Progress ==
  /\ task = "none" => todo = {}
  /\ task = "add" => enumerated /\ \A a, b \in todo : a = b
  /\ enumerated \/ task = "enumerate" => answers >= 1
  /\ answers >= 1 /\ task # "enumerate" => enumerated

IInv == TypeOK /\ Progress /\ AddedOnce /\ MirrorConverges

-----------------------------------------------------------------------------
(***************************************************************************)
(* What is said of a queue when a signal is added to its end or taken from *)
(* its head.                                                               *)
(***************************************************************************)

\* A signal that is not about the path changes nothing that is said of it.
LEMMA AppendOther ==
  ASSUME NEW b \in Seq(Signal), NEW s \in Signal, NEW p \in Path, NEW there \in SUBSET Path,
         ~(s.sig \in ListSignals /\ s.path = p)
  PROVE  /\ LastTells(b, p, p \in there) => LastTells(Append(b, s), p, p \in there)
         /\ NoneAbout(Append(b, s), p) <=> NoneAbout(b, p)
<1> DEFINE c == Append(b, s)
<1>1. /\ DOMAIN b = 1 .. Len(b) /\ DOMAIN c = 1 .. (Len(b) + 1) /\ Len(b) \in Nat
      /\ c[Len(b) + 1] = s /\ \A i \in 1 .. Len(b) : c[i] = b[i]
  OBVIOUS
<1>2. \A i \in DOMAIN c : IsAbout(c, i, p) => i \in DOMAIN b /\ IsAbout(b, i, p)
  BY <1>1 DEF IsAbout
<1>3. \A i \in DOMAIN b : i \in DOMAIN c /\ (IsAbout(c, i, p) <=> IsAbout(b, i, p))
  BY <1>1 DEF IsAbout
<1>4. NoneAbout(c, p) <=> NoneAbout(b, p)
  BY <1>2, <1>3 DEF NoneAbout
<1>5. ASSUME LastTells(b, p, p \in there) PROVE LastTells(c, p, p \in there)
  <2>1. SUFFICES ASSUME NEW i \in DOMAIN c, IsAbout(c, i, p),
                        \A j \in DOMAIN c : IsAbout(c, j, p) => j <= i
                 PROVE  c[i].sig = "DeviceAdded" <=> p \in there
    BY DEF LastTells
  <2>2. i \in DOMAIN b /\ IsAbout(b, i, p) /\ \A j \in DOMAIN b : IsAbout(b, j, p) => j <= i
    BY <2>1, <1>2, <1>3
  <2> QED BY <2>2, <1>5, <1>1 DEF LastTells
<1> QED BY <1>4, <1>5

\* A signal about the path is the last one, and says what it says.
LEMMA AppendAbout ==
  ASSUME NEW b \in Seq(Signal), NEW s \in Signal, NEW p \in Path,
         s.sig \in ListSignals, s.path = p
  PROVE  /\ LastTells(Append(b, s), p, s.sig = "DeviceAdded")
         /\ ~NoneAbout(Append(b, s), p)
<1> DEFINE c == Append(b, s)
<1>1. /\ DOMAIN c = 1 .. (Len(b) + 1) /\ Len(b) \in Nat /\ c[Len(b) + 1] = s
  OBVIOUS
<1>2. Len(b) + 1 \in DOMAIN c /\ IsAbout(c, Len(b) + 1, p)
  BY <1>1 DEF IsAbout
<1>3. ASSUME NEW i \in DOMAIN c, \A j \in DOMAIN c : IsAbout(c, j, p) => j <= i
      PROVE  i = Len(b) + 1
  BY <1>1, <1>2, <1>3
<1>4. LastTells(c, p, s.sig = "DeviceAdded")
  BY <1>3, <1>1 DEF LastTells
<1> QED BY <1>2, <1>4 DEF NoneAbout

\* Without its head a queue says the same, and if the head was the only signal
\* about a path, then it said the same too.
LEMMA TailTells ==
  ASSUME NEW b \in Seq(Signal), b # <<>>, NEW p \in Path, NEW there \in SUBSET Path,
         LastTells(b, p, p \in there)
  PROVE  /\ LastTells(Tail(b), p, p \in there)
         /\ NoneAbout(Tail(b), p) /\ ~IsAbout(b, 1, p) => NoneAbout(b, p)
         /\ NoneAbout(Tail(b), p) /\ IsAbout(b, 1, p)
              => (Head(b).sig = "DeviceAdded" <=> p \in there)
<1> DEFINE c == Tail(b)
<1>1. /\ DOMAIN b = 1 .. Len(b) /\ Len(b) \in Nat /\ Len(b) >= 1
      /\ DOMAIN c = 1 .. (Len(b) - 1) /\ \A i \in 1 .. (Len(b) - 1) : c[i] = b[i + 1]
      /\ Head(b) = b[1]
  OBVIOUS
<1>2. \A i \in DOMAIN c : i + 1 \in DOMAIN b /\ (IsAbout(c, i, p) <=> IsAbout(b, i + 1, p))
  BY <1>1 DEF IsAbout
<1>3. \A i \in DOMAIN b : i # 1 => i - 1 \in DOMAIN c /\ (IsAbout(c, i - 1, p) <=> IsAbout(b, i, p))
  BY <1>1 DEF IsAbout
<1>4. LastTells(c, p, p \in there)
  <2>1. SUFFICES ASSUME NEW i \in DOMAIN c, IsAbout(c, i, p),
                        \A j \in DOMAIN c : IsAbout(c, j, p) => j <= i
                 PROVE  c[i].sig = "DeviceAdded" <=> p \in there
    BY DEF LastTells
  <2>2. i + 1 \in DOMAIN b /\ IsAbout(b, i + 1, p)
    BY <2>1, <1>2
  <2>3. ASSUME NEW j \in DOMAIN b, IsAbout(b, j, p) PROVE j <= i + 1
    <3>1. CASE j = 1 BY <3>1, <1>1
    <3>2. CASE j # 1
      <4>1. j - 1 \in DOMAIN c /\ IsAbout(c, j - 1, p) BY <3>2, <2>3, <1>3
      <4>2. j - 1 <= i BY <4>1, <2>1
      <4> QED BY <4>2, <1>1
    <3> QED BY <3>1, <3>2
  <2>4. b[i + 1].sig = "DeviceAdded" <=> p \in there
    BY <2>2, <2>3 DEF LastTells
  <2> QED BY <2>4, <1>1
<1>5. ASSUME NoneAbout(c, p), ~IsAbout(b, 1, p) PROVE NoneAbout(b, p)
  BY <1>5, <1>3 DEF NoneAbout
<1>6. ASSUME NoneAbout(c, p), IsAbout(b, 1, p) PROVE Head(b).sig = "DeviceAdded" <=> p \in there
  <2>1. 1 \in DOMAIN b BY <1>1
  <2>2. ASSUME NEW j \in DOMAIN b, IsAbout(b, j, p) PROVE j <= 1
    <3>1. CASE j # 1 BY <3>1, <1>3, <1>6, <2>2 DEF NoneAbout
    <3> QED BY <3>1
  <2>3. b[1].sig = "DeviceAdded" <=> p \in there
    BY <2>1, <2>2, <1>6 DEF LastTells
  <2> QED BY <2>3, <1>1
<1> QED BY <1>4, <1>5, <1>6

\* The signals of a change are about no path's coming or going.
LEMMA AnnounceOther ==
  ASSUME NEW b \in Seq(Signal), NEW q \in Path, NEW v \in Values,
         NEW p \in Path, NEW there \in SUBSET Path
  PROVE  /\ b \o Announce(q, v) \in Seq(Signal)
         /\ LastTells(b, p, p \in there) => LastTells(b \o Announce(q, v), p, p \in there)
         /\ NoneAbout(b \o Announce(q, v), p) <=> NoneAbout(b, p)
<1> DEFINE P == Signalled("PropertiesChanged", q, v)
           D == Signalled("DeviceChanged", q, v)
<1>1. P \in Signal /\ D \in Signal /\ P.sig \notin ListSignals /\ D.sig \notin ListSignals
  BY DEF Signal, Signalled, ListSignals
<1> HIDE DEF P, D
<1>2. b \o Announce(q, v) = IF q \in watched THEN Append(Append(b, P), D) ELSE Append(b, D)
  BY <1>1 DEF Announce, P, D
<1>3. Append(b, P) \in Seq(Signal)
  BY <1>1
<1>4. /\ LastTells(b, p, p \in there) => LastTells(Append(b, P), p, p \in there)
      /\ NoneAbout(Append(b, P), p) <=> NoneAbout(b, p)
  BY <1>1, AppendOther
<1>5. /\ LastTells(b, p, p \in there) => LastTells(Append(b, D), p, p \in there)
      /\ NoneAbout(Append(b, D), p) <=> NoneAbout(b, p)
  BY <1>1, AppendOther
<1>6. /\ LastTells(Append(b, P), p, p \in there) => LastTells(Append(Append(b, P), D), p, p \in there)
      /\ NoneAbout(Append(Append(b, P), D), p) <=> NoneAbout(Append(b, P), p)
  BY <1>1, <1>3, AppendOther
<1>7. CASE q \in watched BY <1>7, <1>1, <1>2, <1>3, <1>4, <1>6
<1>8. CASE q \notin watched BY <1>8, <1>1, <1>2, <1>5
<1> QED BY <1>7, <1>8

\* The bound on changes leaves a device a value to change to.
LEMMA ChangeInValues ==
  ASSUME TypeOK, NEW p \in Path, MayChange(p)
  PROVE  value[p] + 1 \in Values
<1>1. value[p] < MaxValue BY DEF MayChange
<1> QED BY <1>1, ClientAssumption DEF TypeOK, Values

-----------------------------------------------------------------------------
(***************************************************************************)
(* Each part of the invariant, action by action.                           *)
(***************************************************************************)
LEMMA TypeStep ==
  ASSUME TypeOK, Progress, [Next]_vars
  PROVE  TypeOK'
<1> USE TypeOK
<1>1. CASE UNCHANGED vars
  BY <1>1 DEF TypeOK, vars
<1>2. ASSUME NEW p \in Path, DeviceAdded(p) PROVE TypeOK'
  <2>1. Signalled("DeviceAdded", p, value[p]) \in Signal
    BY DEF TypeOK, Signal, Signalled, ListSignals
  <2> QED BY <1>2, <2>1 DEF TypeOK, DeviceAdded, libraryVars
<1>3. ASSUME NEW p \in Path, DeviceRemoved(p) PROVE TypeOK'
  <2>1. Signalled("DeviceRemoved", p, value[p]) \in Signal
    BY DEF TypeOK, Signal, Signalled, ListSignals
  <2> QED BY <1>3, <2>1 DEF TypeOK, DeviceRemoved, libraryVars
<1>4. ASSUME NEW p \in Path, DeviceChanged(p) PROVE TypeOK'
  <2>1. value[p] + 1 \in Values BY <1>4, ChangeInValues DEF DeviceChanged
  <2>2. bus' \in Seq(Signal) BY <1>4, <2>1, AnnounceOther DEF TypeOK, DeviceChanged
  <2> QED BY <1>4, <2>1, <2>2 DEF TypeOK, DeviceChanged, libraryVars
<1>5. ASSUME NEW p \in Path, DeviceRequested(p) PROVE TypeOK'
  <2>1. value[p] + 1 \in Values BY <1>5, ChangeInValues DEF DeviceRequested
  <2> QED BY <1>5, <2>1 DEF TypeOK, DeviceRequested, libraryVars
<1>6. CASE Enumerate
  <2>1. opening = {} BY <1>6 DEF TypeOK, Progress, Enumerate
  <2> QED BY <1>6, <2>1 DEF TypeOK, Enumerate, daemonVars, Tasks
<1>7. ASSUME NEW p \in Path, Subscribe(p) PROVE TypeOK'
  BY <1>7 DEF TypeOK, Subscribe, daemonVars
<1>8. ASSUME NEW p \in Path, Read(p) PROVE TypeOK'
  <2>1. Answers(p) \subseteq Values BY DEF TypeOK, Answers
  <2>2. mirror' \in [Path -> Seq(Values)] BY <1>8, <2>1 DEF TypeOK, Read
  <2> QED BY <1>8, <2>2 DEF TypeOK, Read, daemonVars, Tasks
<1>9. CASE Enumerated
  BY <1>9 DEF TypeOK, Enumerated, daemonVars, Tasks
<1>10. ASSUME NEW p \in Path, HandleAdded(p) PROVE TypeOK'
  <2>1. opening = {} BY <1>10 DEF TypeOK, Progress, HandleAdded, Take
  <2>2. task' \in Tasks /\ todo' \subseteq Path
    BY <1>10 DEF TypeOK, HandleAdded, Take, Tasks
  <2>3. bus' \in Seq(Signal) BY <1>10 DEF TypeOK, HandleAdded, Take
  <2> QED BY <1>10, <2>1, <2>2, <2>3 DEF TypeOK, HandleAdded, daemonVars
<1>11. ASSUME NEW p \in Path, HandleRemoved(p) PROVE TypeOK'
  <2>1. Removed(p) \in Seq(Values) BY DEF TypeOK, Removed, Found
  <2> QED BY <1>11, <2>1 DEF TypeOK, HandleRemoved, Take, daemonVars
<1>12. ASSUME NEW p \in Path, HandleChanged(p) PROVE TypeOK'
  BY <1>12 DEF TypeOK, HandleChanged, Take, daemonVars
<1>13. ASSUME NEW p \in Path, HandleProperties(p) PROVE TypeOK'
  <2>1. Head(bus).value \in Values
    <3>1. Head(bus) \in Signal BY <1>13 DEF TypeOK, HandleProperties, Take
    <3> QED BY <3>1 DEF Signal
  <2>2. [i \in DOMAIN mirror[p] |-> Head(bus).value] \in Seq(Values) BY <2>1 DEF TypeOK
  <2> QED BY <1>13, <2>2 DEF TypeOK, HandleProperties, Take, daemonVars
<1> QED BY <1>1, <1>2, <1>3, <1>4, <1>5, <1>6, <1>7, <1>8, <1>9, <1>10, <1>11, <1>12, <1>13
        DEF Next, Daemon, Library

LEMMA ProgressStep ==
  ASSUME TypeOK, Progress, [Next]_vars
  PROVE  Progress'
<1> USE DEF TypeOK, Progress, Tasks
<1>1. CASE UNCHANGED vars
  BY <1>1 DEF vars
<1>2. CASE Daemon
  BY <1>2 DEF Daemon, DeviceAdded, DeviceRemoved, DeviceChanged, DeviceRequested, libraryVars
<1>3. CASE Enumerate
  BY <1>3 DEF Enumerate
<1>4. CASE Enumerated
  BY <1>4 DEF Enumerated
<1>5. ASSUME NEW p \in Path, Subscribe(p) PROVE Progress'
  BY <1>5 DEF Subscribe
<1>6. ASSUME NEW p \in Path, Read(p) PROVE Progress'
  BY <1>6 DEF Read
<1>7. ASSUME NEW p \in Path, HandleAdded(p) PROVE Progress'
  BY <1>7 DEF HandleAdded, Take
<1>8. ASSUME NEW p \in Path, HandleRemoved(p) \/ HandleChanged(p) \/ HandleProperties(p)
      PROVE  Progress'
  BY <1>8 DEF HandleRemoved, HandleChanged, HandleProperties
<1> QED BY <1>1, <1>2, <1>3, <1>4, <1>5, <1>6, <1>7, <1>8 DEF Next, Library

LEMMA AddedOnceStep ==
  ASSUME TypeOK, Progress, AddedOnce, [Next]_vars
  PROVE  AddedOnce'
<1> USE DEF AddedOnce
<1>0. \A p \in Path : mirror[p] \in Seq(Values) /\ Len(mirror[p]) \in Nat
  BY DEF TypeOK
<1>n. answers \in Nat
  BY DEF TypeOK
<1>1. CASE UNCHANGED vars
  BY <1>1 DEF vars
<1>2. CASE Daemon
  BY <1>2 DEF Daemon, DeviceAdded, DeviceRemoved, DeviceChanged, DeviceRequested, libraryVars
<1>3. CASE Enumerate
  <2>1. todo = {} BY <1>3 DEF Enumerate, Progress
  <2>2. \A p \in Path : Len(mirror[p]) <= answers BY <2>1
  <2>3. answers' = answers + 1 /\ mirror' = mirror BY <1>3 DEF Enumerate
  <2> SUFFICES ASSUME NEW q \in Path
               PROVE  Len(mirror'[q]) + (IF q \in todo' THEN 1 ELSE 0) <= answers'
    OBVIOUS
  <2>4. Len(mirror[q]) \in Nat /\ Len(mirror[q]) <= answers BY <2>2, <1>0
  <2>5. Len(mirror'[q]) = Len(mirror[q]) BY <2>3
  <2>6. ASSUME NEW n \in Nat, n <= answers
        PROVE  n + (IF q \in todo' THEN 1 ELSE 0) <= answers + 1
    BY <2>6, <1>n
  <2> QED BY <2>3, <2>4, <2>5, <2>6
<1>4. CASE Enumerated
  BY <1>4 DEF Enumerated
<1>5. ASSUME NEW p \in Path, Subscribe(p) PROVE AddedOnce'
  BY <1>5 DEF Subscribe
<1>6. ASSUME NEW p \in Path, Read(p) PROVE AddedOnce'
  <2>1. PICK v \in Answers(p) : mirror' = [mirror EXCEPT ![p] = Append(@, v)]
    BY <1>6 DEF Read
  <2>2. v \in Values BY DEF TypeOK, Answers
  <2>3. p \in todo /\ todo' = todo \ {p} /\ answers' = answers BY <1>6 DEF Read, TypeOK
  <2>4. Len(Append(mirror[p], v)) = Len(mirror[p]) + 1 BY <2>2, <1>0
  <2>5. mirror'[p] = Append(mirror[p], v) /\ \A q \in Path \ {p} : mirror'[q] = mirror[q]
    BY <2>1 DEF TypeOK
  <2>6. Len(mirror[p]) + 1 <= answers BY <2>3
  <2> SUFFICES ASSUME NEW q \in Path
               PROVE  Len(mirror'[q]) + (IF q \in todo' THEN 1 ELSE 0) <= answers'
    OBVIOUS
  <2>7. CASE q = p BY <2>7, <2>3, <2>4, <2>5, <2>6, <1>0, <1>n
  <2>8. CASE q # p BY <2>8, <2>3, <2>5, <1>0, <1>n
  <2> QED BY <2>7, <2>8
<1>7. ASSUME NEW p \in Path, HandleAdded(p) PROVE AddedOnce'
  <2>1. mirror' = mirror /\ answers' = answers BY <1>7 DEF HandleAdded
  <2>2. todo = {} BY <1>7 DEF HandleAdded, Take, Progress
  <2>3. CASE todo' = todo BY <2>1, <2>3
  <2>4. CASE todo' = {p} /\ ~Found(p) /\ enumerated
    <3>1. answers >= 1 BY <2>4 DEF Progress
    <3>2. Len(mirror[p]) = 0 BY <2>4, <1>0 DEF Found
    <3> SUFFICES ASSUME NEW q \in Path
                 PROVE  Len(mirror'[q]) + (IF q \in todo' THEN 1 ELSE 0) <= answers'
      OBVIOUS
    <3>3. CASE q = p BY <3>3, <3>1, <3>2, <2>1, <2>4, <1>0, <1>n
    <3>4. CASE q # p BY <3>4, <2>1, <2>2, <2>4, <1>0, <1>n
    <3> QED BY <3>3, <3>4
  <2> QED BY <1>7, <2>3, <2>4 DEF HandleAdded
<1>8. ASSUME NEW p \in Path, HandleRemoved(p) PROVE AddedOnce'
  <2>1. todo' = todo /\ answers' = answers BY <1>8 DEF HandleRemoved
  <2>2. mirror'[p] = Removed(p) /\ \A q \in Path \ {p} : mirror'[q] = mirror[q]
    BY <1>8 DEF HandleRemoved, TypeOK
  <2>3. Len(Removed(p)) <= Len(mirror[p]) /\ Len(Removed(p)) \in Nat BY <1>0 DEF Removed, Found
  <2> SUFFICES ASSUME NEW q \in Path
               PROVE  Len(mirror'[q]) + (IF q \in todo' THEN 1 ELSE 0) <= answers'
    OBVIOUS
  <2>4. CASE q = p
    <3>1. Len(mirror[p]) \in Nat /\ Len(mirror[p]) + (IF p \in todo THEN 1 ELSE 0) <= answers
      BY <1>0
    <3>2. Len(mirror'[p]) \in Nat /\ Len(mirror'[p]) <= Len(mirror[p]) BY <2>2, <2>3
    <3>3. ASSUME NEW n \in Nat, NEW m \in Nat, m <= n,
                 n + (IF p \in todo THEN 1 ELSE 0) <= answers
          PROVE  m + (IF p \in todo THEN 1 ELSE 0) <= answers
      BY <3>3, <1>n
    <3> QED BY <3>1, <3>2, <3>3, <2>4, <2>1
  <2>5. CASE q # p BY <2>5, <2>1, <2>2
  <2> QED BY <2>4, <2>5
<1>9. ASSUME NEW p \in Path, HandleChanged(p) PROVE AddedOnce'
  BY <1>9 DEF HandleChanged
<1>10. ASSUME NEW p \in Path, HandleProperties(p) PROVE AddedOnce'
  <2>1. todo' = todo /\ answers' = answers BY <1>10 DEF HandleProperties
  <2>2. mirror'[p] = [i \in DOMAIN mirror[p] |-> Head(bus).value]
        /\ \A q \in Path \ {p} : mirror'[q] = mirror[q]
    BY <1>10 DEF HandleProperties, TypeOK
  <2>3. Len(mirror'[p]) = Len(mirror[p]) BY <2>2, <1>0
  <2> QED BY <2>1, <2>2, <2>3
<1> QED BY <1>1, <1>2, <1>3, <1>4, <1>5, <1>6, <1>7, <1>8, <1>9, <1>10 DEF Next, Library

LEMMA MirrorStep ==
  ASSUME TypeOK, Progress, AddedOnce, MirrorConverges, [Next]_vars
  PROVE  MirrorConverges'
<1> USE DEF View
<1>0. bus \in Seq(Signal) /\ listed \subseteq Path /\ \A p \in Path : mirror[p] \in Seq(Values)
  BY DEF TypeOK
\* The steps that leave the queue, the daemon's list and the answers alone need
\* only keep the view of every path.
<1>a. ASSUME bus' = bus, listed' = listed, answers' = answers, View' = View
      PROVE  MirrorConverges'
  BY <1>a DEF MirrorConverges, LastTells, NoneAbout, IsAbout
\* A signal about nothing that came or went is taken from the queue.
<1>b. ASSUME NEW q \in Path, bus # <<>>, bus' = Tail(bus), Head(bus).sig \notin ListSignals,
             listed' = listed, answers' = answers, View' = View
      PROVE  MirrorConverges'
  <2> SUFFICES ASSUME NEW p \in Path
               PROVE  /\ LastTells(bus', p, p \in listed')
                      /\ (answers' = 1 /\ NoneAbout(bus', p)) => (p \in View' <=> p \in listed')
    BY DEF MirrorConverges
  <2>1. LastTells(bus, p, p \in listed) BY DEF MirrorConverges
  <2>2. ~IsAbout(bus, 1, p) BY <1>b, <1>0 DEF IsAbout
  <2>3. LastTells(Tail(bus), p, p \in listed) /\ (NoneAbout(Tail(bus), p) => NoneAbout(bus, p))
    BY <2>1, <2>2, <1>b, <1>0, TailTells
  <2> QED BY <2>3, <1>b DEF MirrorConverges
<1>1. CASE UNCHANGED vars
  <2>1. View' = View BY <1>1 DEF vars, Found
  <2> QED BY <2>1, <1>1, <1>a DEF vars
<1>2. ASSUME NEW q \in Path, DeviceAdded(q) PROVE MirrorConverges'
  <2> DEFINE s == Signalled("DeviceAdded", q, value[q])
  <2>1. s \in Signal /\ s.sig = "DeviceAdded" /\ s.path = q
    BY DEF TypeOK, Signal, Signalled, ListSignals
  <2>2. bus' = Append(bus, s) /\ listed' = listed \cup {q} /\ answers' = answers /\ View' = View
    BY <1>2 DEF DeviceAdded, libraryVars, Found
  <2> HIDE DEF s
  <2> SUFFICES ASSUME NEW p \in Path
               PROVE  /\ LastTells(bus', p, p \in listed')
                      /\ (answers' = 1 /\ NoneAbout(bus', p)) => (p \in View' <=> p \in listed')
    BY DEF MirrorConverges
  <2>3. CASE p = q
    BY <2>1, <2>2, <2>3, <1>0, AppendAbout DEF ListSignals
  <2>4. CASE p # q
    <3>1. p \in listed' <=> p \in listed BY <2>2, <2>4
    <3>2. LastTells(bus, p, p \in listed) BY DEF MirrorConverges
    <3>3. LastTells(bus', p, p \in listed) /\ (NoneAbout(bus', p) <=> NoneAbout(bus, p))
      BY <3>2, <2>1, <2>2, <2>4, <1>0, AppendOther
    <3> QED BY <3>1, <3>3, <2>2 DEF MirrorConverges, LastTells
  <2> QED BY <2>3, <2>4
<1>3. ASSUME NEW q \in Path, DeviceRemoved(q) PROVE MirrorConverges'
  <2> DEFINE s == Signalled("DeviceRemoved", q, value[q])
  <2>1. s \in Signal /\ s.sig = "DeviceRemoved" /\ s.path = q
    BY DEF TypeOK, Signal, Signalled, ListSignals
  <2>2. bus' = Append(bus, s) /\ listed' = listed \ {q} /\ answers' = answers /\ View' = View
    BY <1>3 DEF DeviceRemoved, libraryVars, Found
  <2> HIDE DEF s
  <2> SUFFICES ASSUME NEW p \in Path
               PROVE  /\ LastTells(bus', p, p \in listed')
                      /\ (answers' = 1 /\ NoneAbout(bus', p)) => (p \in View' <=> p \in listed')
    BY DEF MirrorConverges
  <2>3. CASE p = q
    <3>1. LastTells(bus', p, s.sig = "DeviceAdded") /\ ~NoneAbout(bus', p)
      BY <2>1, <2>2, <2>3, <1>0, AppendAbout DEF ListSignals
    <3>2. p \notin listed' BY <2>2, <2>3
    <3> QED BY <3>1, <3>2, <2>1 DEF LastTells
  <2>4. CASE p # q
    <3>1. p \in listed' <=> p \in listed BY <2>2, <2>4
    <3>2. LastTells(bus, p, p \in listed) BY DEF MirrorConverges
    <3>3. LastTells(bus', p, p \in listed) /\ (NoneAbout(bus', p) <=> NoneAbout(bus, p))
      BY <3>2, <2>1, <2>2, <2>4, <1>0, AppendOther
    <3> QED BY <3>1, <3>3, <2>2 DEF MirrorConverges, LastTells
  <2> QED BY <2>3, <2>4
<1>4. ASSUME NEW q \in Path, DeviceChanged(q) PROVE MirrorConverges'
  <2> DEFINE v == value[q] + 1
  <2>1. v \in Values BY <1>4, ChangeInValues DEF DeviceChanged
  <2>2. bus' = bus \o Announce(q, v) /\ listed' = listed /\ answers' = answers /\ View' = View
    BY <1>4 DEF DeviceChanged, libraryVars, Found
  <2> HIDE DEF v
  <2> SUFFICES ASSUME NEW p \in Path
               PROVE  /\ LastTells(bus', p, p \in listed')
                      /\ (answers' = 1 /\ NoneAbout(bus', p)) => (p \in View' <=> p \in listed')
    BY DEF MirrorConverges
  <2>3. LastTells(bus, p, p \in listed) BY DEF MirrorConverges
  <2>4. LastTells(bus', p, p \in listed) /\ (NoneAbout(bus', p) <=> NoneAbout(bus, p))
    BY <2>1, <2>2, <2>3, <1>0, AnnounceOther
  <2> QED BY <2>2, <2>4 DEF MirrorConverges
<1>5. ASSUME NEW q \in Path, DeviceRequested(q) PROVE MirrorConverges'
  BY <1>5, <1>a DEF DeviceRequested, libraryVars, Found
<1>6. CASE Enumerate
  <2>1. todo = {} /\ todo' = listed /\ answers' = answers + 1 /\ mirror' = mirror
        /\ bus' = bus /\ listed' = listed
    BY <1>6 DEF Enumerate, Progress, daemonVars
  <2>2. ASSUME answers' = 1, NEW p \in Path PROVE p \in View' <=> p \in listed
    <3>1. answers = 0 BY <2>1, <2>2 DEF TypeOK
    <3>2. mirror[p] = <<>> BY <3>1, <2>1, <1>0 DEF AddedOnce
    <3> QED BY <2>1, <3>2 DEF Found, TypeOK
  <2> QED BY <2>1, <2>2 DEF MirrorConverges, LastTells, NoneAbout, IsAbout
<1>7. ASSUME NEW q \in Path, Subscribe(q) PROVE MirrorConverges'
  BY <1>7, <1>a DEF Subscribe, daemonVars, Found
<1>8. ASSUME NEW q \in Path, Read(q) PROVE MirrorConverges'
  <2>1. PICK v \in Answers(q) : mirror' = [mirror EXCEPT ![q] = Append(@, v)]
    BY <1>8 DEF Read
  <2>2. v \in Values BY DEF TypeOK, Answers
  <2>3. q \in todo /\ todo' = todo \ {q} BY <1>8 DEF Read, TypeOK
  <2>4. mirror'[q] # <<>> /\ \A p \in Path \ {q} : mirror'[p] = mirror[p]
    BY <2>1, <2>2, <1>0, SMTT(30) DEF TypeOK
  <2>5. View' = View BY <2>3, <2>4 DEF Found
  <2> QED BY <2>5, <1>8, <1>a DEF Read, daemonVars
<1>9. CASE Enumerated
  BY <1>9, <1>a DEF Enumerated, daemonVars, Found
<1>10. ASSUME NEW q \in Path, HandleAdded(q) PROVE MirrorConverges'
  <2>1. /\ bus # <<>> /\ bus' = Tail(bus) /\ Head(bus).sig = "DeviceAdded" /\ Head(bus).path = q
        /\ listed' = listed /\ answers' = answers /\ mirror' = mirror
        /\ todo = {} /\ task = "none"
    BY <1>10 DEF HandleAdded, Take, daemonVars, Progress
  <2> SUFFICES ASSUME NEW p \in Path
               PROVE  /\ LastTells(bus', p, p \in listed')
                      /\ (answers' = 1 /\ NoneAbout(bus', p)) => (p \in View' <=> p \in listed')
    BY DEF MirrorConverges
  <2>2. LastTells(bus, p, p \in listed) BY DEF MirrorConverges
  <2>3. Head(bus) = bus[1] BY <2>1, <1>0
  <2>4. LastTells(Tail(bus), p, p \in listed)
    BY <2>1, <2>2, <1>0, TailTells
  <2>5. ASSUME p # q, answers = 1, NoneAbout(Tail(bus), p) PROVE p \in View' <=> p \in listed
    <3>1. ~IsAbout(bus, 1, p) BY <2>1, <2>3, <2>5 DEF IsAbout
    <3>2. NoneAbout(bus, p) BY <3>1, <2>1, <2>2, <2>5, <1>0, TailTells
    <3>3. p \in View <=> p \in listed BY <3>2, <2>5 DEF MirrorConverges
    <3>4. p \in todo' <=> p \in todo BY <1>10, <2>1, <2>5 DEF HandleAdded
    <3> QED BY <3>3, <3>4, <2>1 DEF Found
  <2>6. ASSUME p = q, answers = 1, NoneAbout(Tail(bus), p) PROVE p \in View' <=> p \in listed
    <3>1. IsAbout(bus, 1, p) BY <2>1, <2>3, <2>6 DEF IsAbout, ListSignals
    <3>2. p \in listed BY <3>1, <2>1, <2>2, <2>6, <1>0, TailTells
    <3>3. enumerated BY <2>1, <2>6 DEF Progress
    <3>4. Found(p) \/ todo' = {p} BY <1>10, <3>3, <2>6 DEF HandleAdded
    <3> QED BY <3>2, <3>4, <2>1 DEF Found
  <2> QED BY <2>1, <2>4, <2>5, <2>6
<1>11. ASSUME NEW q \in Path, HandleRemoved(q) PROVE MirrorConverges'
  <2>1. /\ bus # <<>> /\ bus' = Tail(bus) /\ Head(bus).sig = "DeviceRemoved" /\ Head(bus).path = q
        /\ listed' = listed /\ answers' = answers /\ todo' = todo
        /\ todo = {} /\ task = "none"
    BY <1>11 DEF HandleRemoved, Take, daemonVars, Progress
  <2>m. mirror'[q] = Removed(q) /\ \A p \in Path \ {q} : mirror'[p] = mirror[p]
    BY <1>11 DEF HandleRemoved, TypeOK
  <2> SUFFICES ASSUME NEW p \in Path
               PROVE  /\ LastTells(bus', p, p \in listed')
                      /\ (answers' = 1 /\ NoneAbout(bus', p)) => (p \in View' <=> p \in listed')
    BY DEF MirrorConverges
  <2>2. LastTells(bus, p, p \in listed) BY DEF MirrorConverges
  <2>3. Head(bus) = bus[1] BY <2>1, <1>0
  <2>4. LastTells(Tail(bus), p, p \in listed)
    BY <2>1, <2>2, <1>0, TailTells
  <2>5. ASSUME p # q, answers = 1, NoneAbout(Tail(bus), p) PROVE p \in View' <=> p \in listed
    <3>1. ~IsAbout(bus, 1, p) BY <2>1, <2>3, <2>5 DEF IsAbout
    <3>2. NoneAbout(bus, p) BY <3>1, <2>1, <2>2, <2>5, <1>0, TailTells
    <3>3. p \in View <=> p \in listed BY <3>2, <2>5 DEF MirrorConverges
    <3> QED BY <3>3, <2>1, <2>m, <2>5 DEF Found
  <2>6. ASSUME p = q, answers = 1, NoneAbout(Tail(bus), p) PROVE p \in View' <=> p \in listed
    <3>1. IsAbout(bus, 1, p) BY <2>1, <2>3, <2>6 DEF IsAbout, ListSignals
    <3>2. p \notin listed BY <3>1, <2>1, <2>2, <2>6, <1>0, TailTells
    <3>3. enumerated BY <2>1, <2>6 DEF Progress
    <3>4. Len(mirror[p]) <= 1 BY <2>1, <2>6, <1>0 DEF AddedOnce
    <3>5. Removed(p) = <<>> BY <3>3, <3>4, <1>0 DEF Removed, Found
    <3> QED BY <3>2, <3>5, <2>1, <2>m, <2>6 DEF Found
  <2> QED BY <2>1, <2>4, <2>5, <2>6
<1>12. ASSUME NEW q \in Path, HandleChanged(q) PROVE MirrorConverges'
  <2>1. View' = View BY <1>12 DEF HandleChanged, Found
  <2> QED BY <2>1, <1>12, <1>b DEF HandleChanged, Take, daemonVars, ListSignals
<1>13. ASSUME NEW q \in Path, HandleProperties(q) PROVE MirrorConverges'
  <2>1. mirror'[q] = [i \in DOMAIN mirror[q] |-> Head(bus).value]
        /\ \A p \in Path \ {q} : mirror'[p] = mirror[p]
    BY <1>13 DEF HandleProperties, TypeOK
  <2>2. mirror'[q] = <<>> <=> mirror[q] = <<>> BY <2>1, <1>0
  <2>3. View' = View BY <2>1, <2>2, <1>13 DEF HandleProperties, Found
  <2> QED BY <2>3, <1>13, <1>b DEF HandleProperties, Take, daemonVars, ListSignals
<1> QED BY <1>1, <1>2, <1>3, <1>4, <1>5, <1>6, <1>7, <1>8, <1>9, <1>10, <1>11, <1>12, <1>13
        DEF Next, Daemon, Library

-----------------------------------------------------------------------------
LEMMA Initially == Init => IInv
<1> SUFFICES ASSUME Init PROVE IInv
  OBVIOUS
<1>1. TypeOK
  <2>1. 0 \in Values BY ClientAssumption DEF Values
  <2>2. value \in [Path -> Values] /\ mirror \in [Path -> Seq(Values)] /\ bus \in Seq(Signal)
    BY <2>1 DEF Init
  <2> QED BY <2>2 DEF Init, TypeOK, Tasks
<1>2. Progress BY DEF Init, Progress
<1>3. AddedOnce BY DEF Init, AddedOnce
<1>4. MirrorConverges BY DEF Init, MirrorConverges, LastTells
<1> QED BY <1>1, <1>2, <1>3, <1>4 DEF IInv

LEMMA Inductively == IInv /\ [Next]_vars => IInv'
BY TypeStep, ProgressStep, AddedOnceStep, MirrorStep DEF IInv

LEMMA Always == Spec => []IInv
BY Initially, Inductively, PTL DEF Spec

\* The library's and the daemon's variables have their types in every state.
THEOREM ClientTypeCorrect == Spec => []TypeOK
<1>1. IInv => TypeOK BY DEF IInv
<1> QED BY <1>1, Always, PTL

\* However often and whenever a program enumerates, no signal doubles a device
\* in its list (urf_client_device_added).
THEOREM AddedOnceAlways == Spec => []AddedOnce
<1>1. IInv => AddedOnce BY DEF IInv
<1> QED BY <1>1, Always, PTL

\* A program that enumerated once is one queue away from the daemon's list,
\* whatever came and went before, while and after it did (urf_client_proxy_signal_cb,
\* urf_client_enumerate_devices_sync).
THEOREM MirrorConvergesAlways == Spec => []MirrorConverges
<1>1. IInv => MirrorConverges BY DEF IInv
<1> QED BY <1>1, Always, PTL

-----------------------------------------------------------------------------
(***************************************************************************)
(* The cached properties: which of the signals about a path's properties   *)
(* still wait, and what the last one says.                                 *)
(***************************************************************************)
PropsAt(b, i, p) == b[i].sig = "PropertiesChanged" /\ b[i].path = p
Quiet(b, p) == \A i \in DOMAIN b : ~PropsAt(b, i, p)

\* The last of them before place n says v at least; before the end, v.
LastSays(b, p, v) ==
  \A i \in DOMAIN b :
    (PropsAt(b, i, p) /\ \A j \in DOMAIN b : PropsAt(b, j, p) => j <= i) => b[i].value = v
LastBefore(b, p, n, i) ==
  i < n /\ PropsAt(b, i, p) /\ \A j \in DOMAIN b : j < n /\ PropsAt(b, j, p) => j <= i

\* A signal that tells the program of a change of p comes after one with the
\* properties, or the objects m have them already.
Heard(b, p, m) ==
  \A n \in DOMAIN b :
    b[n].sig = "DeviceChanged" /\ b[n].path = p =>
      /\ \A i \in DOMAIN b : LastBefore(b, p, n, i) => b[i].value >= b[n].value
      /\ (\A i \in DOMAIN b : i < n => ~PropsAt(b, i, p))
            => \A k \in DOMAIN m : m[k] >= b[n].value

\* A signal is added that tells no properties of p ...
LEMMA AppendKeepsLast ==
  ASSUME NEW b \in Seq(Signal), NEW s \in Signal, NEW p \in Path,
         ~(s.sig = "PropertiesChanged" /\ s.path = p)
  PROVE  /\ Quiet(Append(b, s), p) <=> Quiet(b, p)
         /\ \A v : LastSays(b, p, v) => LastSays(Append(b, s), p, v)
<1> DEFINE c == Append(b, s)
<1>1. /\ DOMAIN b = 1 .. Len(b) /\ DOMAIN c = 1 .. (Len(b) + 1) /\ Len(b) \in Nat
      /\ c[Len(b) + 1] = s /\ \A i \in 1 .. Len(b) : c[i] = b[i]
  OBVIOUS
<1>2. \A i \in DOMAIN c : PropsAt(c, i, p) => i \in DOMAIN b /\ PropsAt(b, i, p)
  BY <1>1 DEF PropsAt
<1>3. \A i \in DOMAIN b : i \in DOMAIN c /\ (PropsAt(c, i, p) <=> PropsAt(b, i, p))
  BY <1>1 DEF PropsAt
<1>4. Quiet(c, p) <=> Quiet(b, p)
  BY <1>2, <1>3 DEF Quiet
<1>5. ASSUME NEW v, LastSays(b, p, v) PROVE LastSays(c, p, v)
  <2> SUFFICES ASSUME NEW i \in DOMAIN c, PropsAt(c, i, p),
                      \A j \in DOMAIN c : PropsAt(c, j, p) => j <= i
               PROVE  c[i].value = v
    BY DEF LastSays
  <2>1. i \in DOMAIN b /\ PropsAt(b, i, p) /\ \A j \in DOMAIN b : PropsAt(b, j, p) => j <= i
    BY <1>2, <1>3
  <2> QED BY <2>1, <1>5, <1>1 DEF LastSays
<1> QED BY <1>4, <1>5

\* ... or that tells them.
LEMMA AppendSays ==
  ASSUME NEW b \in Seq(Signal), NEW s \in Signal, NEW p \in Path,
         s.sig = "PropertiesChanged", s.path = p
  PROVE  LastSays(Append(b, s), p, s.value) /\ ~Quiet(Append(b, s), p)
<1> DEFINE c == Append(b, s)
<1>1. /\ DOMAIN c = 1 .. (Len(b) + 1) /\ Len(b) \in Nat /\ c[Len(b) + 1] = s
  OBVIOUS
<1>2. Len(b) + 1 \in DOMAIN c /\ PropsAt(c, Len(b) + 1, p)
  BY <1>1 DEF PropsAt
<1>3. ASSUME NEW i \in DOMAIN c, \A j \in DOMAIN c : PropsAt(c, j, p) => j <= i
      PROVE  i = Len(b) + 1
  BY <1>1, <1>2, <1>3
<1> QED BY <1>1, <1>2, <1>3 DEF LastSays, Quiet

\* The program may be told of a change when the last properties are those.
LEMMA AppendHeard ==
  ASSUME NEW b \in Seq(Signal), NEW s \in Signal, NEW p \in Path, NEW m, Heard(b, p, m),
         s.sig = "DeviceChanged" /\ s.path = p =>
            /\ LastSays(b, p, s.value)
            /\ Quiet(b, p) => \A k \in DOMAIN m : m[k] >= s.value
  PROVE  Heard(Append(b, s), p, m)
<1> DEFINE c == Append(b, s)
           e == Len(b) + 1
<1>1. /\ DOMAIN b = 1 .. Len(b) /\ DOMAIN c = 1 .. e /\ Len(b) \in Nat
      /\ c[e] = s /\ \A i \in 1 .. Len(b) : c[i] = b[i]
  OBVIOUS
<1>2. \A i \in DOMAIN b : i \in DOMAIN c /\ (PropsAt(c, i, p) <=> PropsAt(b, i, p))
  BY <1>1 DEF PropsAt
<1> SUFFICES ASSUME NEW n \in DOMAIN c, c[n].sig = "DeviceChanged", c[n].path = p
             PROVE  /\ \A i \in DOMAIN c : LastBefore(c, p, n, i) => c[i].value >= c[n].value
                    /\ (\A i \in DOMAIN c : i < n => ~PropsAt(c, i, p))
                          => \A k \in DOMAIN m : m[k] >= c[n].value
  BY DEF Heard
<1>3. \A i \in DOMAIN c : i < n => i \in DOMAIN b /\ c[i] = b[i]
  BY <1>1
<1>4. \A i \in DOMAIN c : LastBefore(c, p, n, i) =>
         /\ i \in DOMAIN b /\ LastBefore(b, p, n, i)
  BY <1>2, <1>3 DEF LastBefore
<1>5. (\A i \in DOMAIN c : i < n => ~PropsAt(c, i, p))
         => \A i \in DOMAIN b : i < n => ~PropsAt(b, i, p)
  BY <1>2
<1>6. CASE n = e
  <2>1. c[n] = s /\ s.value \in Nat /\ \A i \in DOMAIN b : i < n
    BY <1>1, <1>6 DEF Signal, Values
  <2>2. \A i \in DOMAIN b : LastBefore(b, p, n, i) => b[i].value = s.value
    BY <2>1 DEF LastBefore, LastSays
  <2>3. (\A i \in DOMAIN b : i < n => ~PropsAt(b, i, p)) => Quiet(b, p)
    BY <2>1 DEF Quiet
  <2> QED BY <2>1, <2>2, <2>3, <1>3, <1>4, <1>5 DEF LastBefore
<1>7. CASE n # e
  <2>1. n \in DOMAIN b /\ c[n] = b[n]
    BY <1>1, <1>7
  <2> QED BY <2>1, <1>3, <1>4, <1>5 DEF Heard, LastBefore
<1> QED BY <1>6, <1>7

\* A signal is taken from the head.
LEMMA TailKeeps ==
  ASSUME NEW b \in Seq(Signal), b # <<>>, NEW p \in Path
  PROVE  /\ \A v : LastSays(b, p, v) => LastSays(Tail(b), p, v)
         /\ Quiet(Tail(b), p) /\ ~PropsAt(b, 1, p) => Quiet(b, p)
         /\ \A v : Quiet(Tail(b), p) /\ PropsAt(b, 1, p) /\ LastSays(b, p, v) => Head(b).value = v
         /\ \A m : Heard(b, p, m) /\ ~PropsAt(b, 1, p) => Heard(Tail(b), p, m)
         /\ \A m : Heard(b, p, m) /\ PropsAt(b, 1, p) =>
               Heard(Tail(b), p, [k \in DOMAIN m |-> Head(b).value])
<1> DEFINE c == Tail(b)
<1>1. /\ DOMAIN b = 1 .. Len(b) /\ Len(b) \in Nat /\ Len(b) >= 1
      /\ DOMAIN c = 1 .. (Len(b) - 1) /\ \A i \in 1 .. (Len(b) - 1) : c[i] = b[i + 1]
      /\ Head(b) = b[1]
  OBVIOUS
<1> HIDE DEF c
<1>2. \A i \in DOMAIN c : i + 1 \in DOMAIN b /\ c[i] = b[i + 1] /\ (PropsAt(c, i, p) <=> PropsAt(b, i + 1, p))
  BY <1>1 DEF PropsAt
<1>3. \A i \in DOMAIN b : i # 1 => i - 1 \in DOMAIN c /\ (PropsAt(c, i - 1, p) <=> PropsAt(b, i, p))
  BY <1>1 DEF PropsAt
<1>4. ASSUME NEW v, LastSays(b, p, v) PROVE LastSays(c, p, v)
  <2> SUFFICES ASSUME NEW i \in DOMAIN c, PropsAt(c, i, p),
                      \A j \in DOMAIN c : PropsAt(c, j, p) => j <= i
               PROVE  c[i].value = v
    BY DEF LastSays
  <2>1. i + 1 \in DOMAIN b /\ PropsAt(b, i + 1, p)
    BY <1>2
  <2>2. ASSUME NEW j \in DOMAIN b, PropsAt(b, j, p) PROVE j <= i + 1
    <3>1. CASE j = 1 BY <3>1, <1>1
    <3>2. CASE j # 1
      <4>1. j - 1 \in DOMAIN c /\ PropsAt(c, j - 1, p) BY <3>2, <2>2, <1>3
      <4>2. j - 1 <= i BY <4>1
      <4> QED BY <4>2, <1>1
    <3> QED BY <3>1, <3>2
  <2>3. b[i + 1].value = v
    BY <2>1, <2>2, <1>4 DEF LastSays
  <2> QED BY <2>3, <1>2
<1>5. ASSUME Quiet(c, p), ~PropsAt(b, 1, p) PROVE Quiet(b, p)
  BY <1>5, <1>3 DEF Quiet
<1>6. ASSUME NEW v, Quiet(c, p), PropsAt(b, 1, p), LastSays(b, p, v) PROVE Head(b).value = v
  <2>1. 1 \in DOMAIN b BY <1>1
  <2>2. ASSUME NEW j \in DOMAIN b, PropsAt(b, j, p) PROVE j <= 1
    <3>1. CASE j # 1 BY <3>1, <1>3, <1>6, <2>2 DEF Quiet
    <3> QED BY <3>1
  <2> QED BY <2>1, <2>2, <1>6, <1>1 DEF LastSays
\* What is last before a place of the shorter queue is so in the longer one ...
<1>7. ASSUME NEW n \in DOMAIN c, NEW i \in DOMAIN c, LastBefore(c, p, n, i)
      PROVE  LastBefore(b, p, n + 1, i + 1)
  <2>1. i < n /\ PropsAt(b, i + 1, p) /\ i + 1 < n + 1
    BY <1>1, <1>2, <1>7 DEF LastBefore
  <2>2. ASSUME NEW j \in DOMAIN b, j < n + 1, PropsAt(b, j, p) PROVE j <= i + 1
    <3>1. CASE j = 1 BY <3>1, <1>1
    <3>2. CASE j # 1
      <4>1. j - 1 \in DOMAIN c /\ PropsAt(c, j - 1, p) /\ j - 1 < n
        BY <3>2, <2>2, <1>1, <1>3
      <4>2. j - 1 <= i BY <4>1, <1>7 DEF LastBefore
      <4> QED BY <4>2, <1>1
    <3> QED BY <3>1, <3>2
  <2> QED BY <2>1, <2>2 DEF LastBefore
\* ... and what comes first there was preceded at most by the head.
<1>8. ASSUME NEW n \in DOMAIN c, \A i \in DOMAIN c : i < n => ~PropsAt(c, i, p),
             NEW j \in DOMAIN b, j < n + 1, PropsAt(b, j, p)
      PROVE  j = 1
  <2>1. CASE j # 1
    <3>1. j - 1 \in DOMAIN c /\ PropsAt(c, j - 1, p) /\ j - 1 < n
      BY <2>1, <1>8, <1>1, <1>3
    <3> QED BY <3>1, <1>8
  <2> QED BY <2>1
<1>9. ASSUME NEW m, Heard(b, p, m), ~PropsAt(b, 1, p) PROVE Heard(c, p, m)
  <2> SUFFICES ASSUME NEW n \in DOMAIN c, c[n].sig = "DeviceChanged", c[n].path = p
               PROVE  /\ \A i \in DOMAIN c : LastBefore(c, p, n, i) => c[i].value >= c[n].value
                      /\ (\A i \in DOMAIN c : i < n => ~PropsAt(c, i, p))
                            => \A k \in DOMAIN m : m[k] >= c[n].value
    BY DEF Heard
  <2>1. n + 1 \in DOMAIN b /\ b[n + 1] = c[n]
    BY <1>2
  <2>2. \A i \in DOMAIN c : LastBefore(c, p, n, i) => c[i].value >= c[n].value
    BY <2>1, <1>2, <1>7, <1>9 DEF Heard
  <2>3. ASSUME \A i \in DOMAIN c : i < n => ~PropsAt(c, i, p)
        PROVE  \A k \in DOMAIN m : m[k] >= c[n].value
    <3>1. \A j \in DOMAIN b : j < n + 1 => ~PropsAt(b, j, p)
      BY <2>3, <1>8, <1>9
    <3> QED BY <3>1, <2>1, <1>9 DEF Heard
  <2> QED BY <2>2, <2>3
<1>10. ASSUME NEW m, Heard(b, p, m), PropsAt(b, 1, p)
       PROVE  Heard(c, p, [k \in DOMAIN m |-> Head(b).value])
  <2> DEFINE m2 == [k \in DOMAIN m |-> Head(b).value]
  <2> SUFFICES ASSUME NEW n \in DOMAIN c, c[n].sig = "DeviceChanged", c[n].path = p
               PROVE  /\ \A i \in DOMAIN c : LastBefore(c, p, n, i) => c[i].value >= c[n].value
                      /\ (\A i \in DOMAIN c : i < n => ~PropsAt(c, i, p))
                            => \A k \in DOMAIN m2 : m2[k] >= c[n].value
    BY DEF Heard
  <2>1. n + 1 \in DOMAIN b /\ b[n + 1] = c[n] /\ 1 \in DOMAIN b /\ 1 < n + 1
    BY <1>1, <1>2
  <2>2. \A i \in DOMAIN c : LastBefore(c, p, n, i) => c[i].value >= c[n].value
    BY <2>1, <1>2, <1>7, <1>10 DEF Heard
  <2>3. ASSUME \A i \in DOMAIN c : i < n => ~PropsAt(c, i, p)
        PROVE  Head(b).value >= c[n].value
    <3>1. \A j \in DOMAIN b : j < n + 1 /\ PropsAt(b, j, p) => j <= 1
      BY <2>3, <1>8
    <3>2. LastBefore(b, p, n + 1, 1)
      BY <2>1, <3>1, <1>10 DEF LastBefore
    <3> QED BY <3>2, <2>1, <1>1, <1>10 DEF Heard
  <2> QED BY <2>2, <2>3
<1> QED BY <1>4, <1>5, <1>6, <1>9, <1>10 DEF c

(***************************************************************************)
(* What is known of one path: nothing waits about one that was never used; *)
(* one that the daemon lists has no removal on the way; unless the library *)
(* is subscribed to it, it has no object and no properties on the way; the *)
(* last properties that wait, or the objects, are the daemon's, unless a   *)
(* change was not told.                                                    *)
(***************************************************************************)
Unused(p) ==
  /\ p \notin listed \cup watched \cup todo \cup silent /\ mirror[p] = <<>>
  /\ \A i \in DOMAIN bus : bus[i].path # p

Followed(p) ==
  /\ \A i \in DOMAIN bus :
        bus[i].path = p => bus[i].sig # "DeviceRemoved" /\ bus[i].value <= value[p]
  /\ p \notin watched => mirror[p] = <<>> /\ p \notin opening /\ Quiet(bus, p)
  /\ p \notin silent =>
        /\ LastSays(bus, p, value[p])
        /\ Quiet(bus, p) => \A k \in DOMAIN mirror[p] : mirror[p][k] = value[p]
  /\ Heard(bus, p, mirror[p])

PathInv == \A p \in Path : (p \notin used => Unused(p)) /\ (p \in listed => Followed(p))

\* What a signal that is added must be, so that a listed path is still followed.
LEMMA FollowedAppend ==
  ASSUME TypeOK, NEW p \in Path, Followed(p), NEW s \in Signal, bus' = Append(bus, s),
         s.path = p => s.sig # "DeviceRemoved" /\ s.sig # "PropertiesChanged" /\ s.sig # "DeviceChanged"
                         /\ s.value <= value[p],
         UNCHANGED <<value, mirror, watched, opening, silent>>
  PROVE  Followed(p)'
<1>0. bus \in Seq(Signal) BY DEF TypeOK
<1>1. \A i \in DOMAIN bus' : bus'[i] = s \/ (i \in DOMAIN bus /\ bus'[i] = bus[i])
  BY <1>0
<1>2. /\ Quiet(bus', p) <=> Quiet(bus, p)
      /\ \A v : LastSays(bus, p, v) => LastSays(bus', p, v)
  BY <1>0, AppendKeepsLast
<1>3. Heard(bus', p, mirror[p])
  BY <1>0, AppendHeard DEF Followed
<1> QED BY <1>1, <1>2, <1>3 DEF Followed

\* A change that is told: first to those who are subscribed, then to all.
LEMMA FollowedChange ==
  ASSUME TypeOK, NEW p \in Path, Followed(p), NEW q \in Path, DeviceChanged(q)
  PROVE  Followed(p)'
<1> DEFINE v == value[q] + 1
           P == Signalled("PropertiesChanged", q, v)
           D == Signalled("DeviceChanged", q, v)
<1>0. bus \in Seq(Signal) /\ v \in Values /\ value[q] \in Nat /\ v \in Nat /\ value[p] \in Nat
  BY ChangeInValues DEF TypeOK, DeviceChanged, Values
<1>1. /\ P \in Signal /\ P.sig = "PropertiesChanged" /\ P.path = q /\ P.value = v
      /\ D \in Signal /\ D.sig = "DeviceChanged" /\ D.path = q /\ D.value = v
  BY <1>0 DEF Signal, Signalled, ListSignals
<1>2. /\ value' = [value EXCEPT ![q] = v] /\ silent' = silent \ {q}
      /\ UNCHANGED <<mirror, watched, opening>>
      /\ bus' = bus \o Announce(q, v)
  BY DEF DeviceChanged, libraryVars
<1> DEFINE b == IF q \in watched THEN Append(bus, P) ELSE bus
<1> HIDE DEF P, D, v
<1>3. bus' = Append(b, D) /\ b \in Seq(Signal)
  <2>1. bus \o Announce(q, v) = IF q \in watched THEN Append(Append(bus, P), D)
                                                 ELSE Append(bus, D)
    BY <1>0, <1>1 DEF Announce, P, D
  <2>2. Append(bus, P) \in Seq(Signal)
    BY <1>0, <1>1
  <2> QED BY <2>1, <2>2, <1>0, <1>2
<1>4. value'[p] \in Nat /\ value'[p] >= value[p] /\ (p = q => value'[p] = v /\ v >= value[p])
      /\ (p # q => value'[p] = value[p])
  BY <1>0, <1>2 DEF TypeOK, v
<1>5. \A i \in DOMAIN bus' : bus'[i] = P \/ bus'[i] = D \/ (i \in DOMAIN bus /\ bus'[i] = bus[i])
  <2>1. \A i \in DOMAIN bus' : bus'[i] = D \/ (i \in DOMAIN b /\ bus'[i] = b[i])
    BY <1>3
  <2>2. \A i \in DOMAIN b : b[i] = P \/ (i \in DOMAIN bus /\ b[i] = bus[i])
    BY <1>0
  <2> QED BY <2>1, <2>2
<1>6. \A i \in DOMAIN bus' :
         bus'[i].path = p => bus'[i].sig # "DeviceRemoved" /\ bus'[i].value <= value'[p]
  <2> SUFFICES ASSUME NEW i \in DOMAIN bus', bus'[i].path = p
               PROVE  bus'[i].sig # "DeviceRemoved" /\ bus'[i].value <= value'[p]
    OBVIOUS
  <2>1. CASE bus'[i] = P \/ bus'[i] = D
    BY <2>1, <1>1, <1>4
  <2>2. CASE i \in DOMAIN bus /\ bus'[i] = bus[i]
    <3>1. bus[i].value \in Nat
      <4>1. bus[i] \in Signal
        BY <2>2, <1>0
      <4>2. bus[i].value \in Values
        BY <4>1 DEF Signal
      <4> QED BY <4>2, ClientAssumption DEF Values
    <3> QED BY <2>2, <3>1, <1>0, <1>4 DEF Followed
  <2> QED BY <2>1, <2>2, <1>5
<1>7. CASE p # q
  <2>1. /\ Quiet(b, p) <=> Quiet(bus, p)
        /\ \A x : LastSays(bus, p, x) => LastSays(b, p, x)
    BY <1>0, <1>1, <1>7, AppendKeepsLast
  <2>2. /\ Quiet(bus', p) <=> Quiet(b, p)
        /\ \A x : LastSays(b, p, x) => LastSays(bus', p, x)
    BY <1>1, <1>3, <1>7, AppendKeepsLast
  <2>3. Heard(b, p, mirror[p])
    BY <1>0, <1>1, <1>7, AppendHeard DEF Followed
  <2>4. Heard(bus', p, mirror[p])
    BY <1>1, <1>3, <1>7, <2>3, AppendHeard
  <2> QED BY <1>2, <1>4, <1>6, <1>7, <2>1, <2>2, <2>4 DEF Followed
<1>8. CASE p = q /\ q \in watched
  <2>1. LastSays(b, p, v) /\ ~Quiet(b, p)
    BY <1>0, <1>1, <1>8, AppendSays
  <2>2. LastSays(bus', p, v) /\ ~Quiet(bus', p)
    BY <1>1, <1>3, <2>1, AppendKeepsLast
  <2>3. Heard(b, p, mirror[p])
    BY <1>0, <1>1, <1>8, AppendHeard DEF Followed
  <2>4. Heard(bus', p, mirror[p])
    BY <1>1, <1>3, <2>1, <2>3, AppendHeard
  <2> QED BY <1>2, <1>4, <1>6, <1>8, <2>2, <2>4 DEF Followed
<1>9. CASE p = q /\ q \notin watched
  <2>1. b = bus /\ mirror[p] = <<>> /\ p \notin opening /\ Quiet(bus, p)
    BY <1>9 DEF Followed
  <2>2. Quiet(bus', p)
    BY <1>1, <1>3, <2>1, AppendKeepsLast
  <2>3. LastSays(bus, p, v) /\ LastSays(bus', p, v)
    BY <2>1, <2>2 DEF LastSays, Quiet
  <2>4. Heard(bus', p, mirror[p])
    BY <1>1, <1>3, <2>1, <2>3, AppendHeard DEF Followed
  <2> QED BY <1>2, <1>4, <1>6, <1>9, <2>1, <2>2, <2>3, <2>4 DEF Followed
<1> QED BY <1>7, <1>8, <1>9

\* A signal is taken: one with the properties of p brings them to its objects.
LEMMA FollowedTail ==
  ASSUME TypeOK, NEW p \in Path, Followed(p), bus # <<>>, bus' = Tail(bus),
         mirror'[p] = IF PropsAt(bus, 1, p) THEN [k \in DOMAIN mirror[p] |-> Head(bus).value]
                                            ELSE mirror[p],
         p \in watched' <=> p \in watched, UNCHANGED <<value, opening, silent>>
  PROVE  Followed(p)'
<1>0. bus \in Seq(Signal) /\ mirror[p] \in Seq(Values)
  BY DEF TypeOK
<1>1. \A i \in DOMAIN bus' : i + 1 \in DOMAIN bus /\ bus'[i] = bus[i + 1]
  BY <1>0
<1>2. /\ \A v : LastSays(bus, p, v) => LastSays(bus', p, v)
      /\ Quiet(bus', p) /\ ~PropsAt(bus, 1, p) => Quiet(bus, p)
      /\ \A v : Quiet(bus', p) /\ PropsAt(bus, 1, p) /\ LastSays(bus, p, v) => Head(bus).value = v
      /\ \A m : Heard(bus, p, m) /\ ~PropsAt(bus, 1, p) => Heard(bus', p, m)
      /\ \A m : Heard(bus, p, m) /\ PropsAt(bus, 1, p) =>
            Heard(bus', p, [k \in DOMAIN m |-> Head(bus).value])
  BY <1>0, TailKeeps
<1>3. Heard(bus', p, mirror'[p])
  BY <1>2 DEF Followed
<1>4. Quiet(bus, p) => Quiet(bus', p) /\ ~PropsAt(bus, 1, p)
  <2>1. 1 \in DOMAIN bus BY <1>0
  <2> QED BY <2>1, <1>1 DEF Quiet, PropsAt
<1>5. p \notin silent => /\ LastSays(bus', p, value[p])
                         /\ Quiet(bus', p) => \A k \in DOMAIN mirror'[p] : mirror'[p][k] = value[p]
  BY <1>2 DEF Followed
<1> QED BY <1>1, <1>3, <1>4, <1>5 DEF Followed

LEMMA PathStep == ASSUME TypeOK, Progress, PathInv, [Next]_vars PROVE PathInv'
<1> SUFFICES ASSUME NEW p \in Path
             PROVE  /\ p \notin used' => Unused(p)'
                    /\ p \in listed' => Followed(p)'
  BY DEF PathInv
<1>0. /\ p \notin used => Unused(p)
      /\ p \in listed => Followed(p) /\ p \in used
      /\ bus \in Seq(Signal) /\ mirror \in [Path -> Seq(Values)] /\ value \in [Path -> Values]
      /\ listed \subseteq used
  BY DEF PathInv, TypeOK
<1>1. CASE UNCHANGED vars
  BY <1>0, <1>1 DEF vars, Unused, Followed
<1>2. ASSUME NEW q \in Path, DeviceAdded(q)
      PROVE  (p \notin used' => Unused(p)') /\ (p \in listed' => Followed(p)')
  <2> DEFINE s == Signalled("DeviceAdded", q, value[q])
  <2>1. s \in Signal /\ s.sig = "DeviceAdded" /\ s.path = q /\ s.value = value[q] /\ value[q] \in Nat
    BY <1>0, ClientAssumption DEF Signal, Signalled, ListSignals, Values
  <2>2. /\ q \notin used /\ listed' = listed \cup {q} /\ used' = used \cup {q}
        /\ bus' = Append(bus, s)
        /\ UNCHANGED <<value, silent, watched, mirror, todo, opening>>
    BY <1>2 DEF DeviceAdded, libraryVars
  <2> HIDE DEF s
  <2>3. \A i \in DOMAIN bus' : bus'[i] = s \/ (i \in DOMAIN bus /\ bus'[i] = bus[i])
    BY <1>0, <2>2
  <2>4. ASSUME p \notin used' PROVE Unused(p)'
    BY <1>0, <2>1, <2>2, <2>3, <2>4 DEF Unused
  <2>5. ASSUME p \in listed, p # q PROVE Followed(p)'
    BY <1>0, <2>1, <2>2, <2>5, FollowedAppend
  <2>6. ASSUME p = q PROVE Followed(p)'
    <3>1. Unused(p) /\ \A i \in DOMAIN bus' : bus'[i].path = p => bus'[i] = s
      BY <1>0, <2>2, <2>3, <2>6 DEF Unused
    <3>2. p \notin watched' /\ mirror'[p] = <<>> /\ p \notin opening' /\ p \notin silent'
      BY <2>2, <3>1 DEF Unused, TypeOK
    <3>3. Quiet(bus', p) /\ LastSays(bus', p, value'[p]) /\ Heard(bus', p, mirror'[p])
      BY <2>1, <3>1 DEF Quiet, LastSays, Heard, PropsAt
    <3>4. \A i \in DOMAIN bus' :
             bus'[i].path = p => bus'[i].sig # "DeviceRemoved" /\ bus'[i].value <= value'[p]
      BY <2>1, <2>2, <2>6, <3>1
    <3>5. \A k \in DOMAIN mirror'[p] : mirror'[p][k] = value'[p]
      BY <3>2
    <3> QED BY <3>2, <3>3, <3>4, <3>5 DEF Followed
  <2> QED BY <2>2, <2>4, <2>5, <2>6
<1>3. ASSUME NEW q \in Path, DeviceRemoved(q)
      PROVE  (p \notin used' => Unused(p)') /\ (p \in listed' => Followed(p)')
  <2> DEFINE s == Signalled("DeviceRemoved", q, value[q])
  <2>1. s \in Signal /\ s.path = q
    BY <1>0 DEF Signal, Signalled, ListSignals
  <2>2. /\ q \in listed /\ listed' = listed \ {q} /\ used' = used
        /\ bus' = Append(bus, s)
        /\ UNCHANGED <<value, silent, watched, mirror, todo, opening>>
    BY <1>3 DEF DeviceRemoved, libraryVars
  <2> HIDE DEF s
  <2>3. \A i \in DOMAIN bus' : bus'[i] = s \/ (i \in DOMAIN bus /\ bus'[i] = bus[i])
    BY <1>0, <2>2
  <2>4. ASSUME p \notin used' PROVE Unused(p)'
    BY <1>0, <2>1, <2>2, <2>3, <2>4 DEF Unused
  <2>5. ASSUME p \in listed, p # q PROVE Followed(p)'
    BY <1>0, <2>1, <2>2, <2>5, FollowedAppend
  <2> QED BY <2>2, <2>4, <2>5
<1>4. ASSUME NEW q \in Path, DeviceChanged(q)
      PROVE  (p \notin used' => Unused(p)') /\ (p \in listed' => Followed(p)')
  <2>1. /\ q \in listed /\ UNCHANGED <<listed, used, watched, mirror, todo>>
        /\ silent' = silent \ {q} /\ bus' = bus \o Announce(q, value[q] + 1)
    BY <1>4 DEF DeviceChanged, libraryVars
  <2>2. ASSUME p \notin used' PROVE Unused(p)'
    <3>1. \A i \in DOMAIN bus' : bus'[i].path = q \/ (i \in DOMAIN bus /\ bus'[i] = bus[i])
      <4> DEFINE v == value[q] + 1
                 P == Signalled("PropertiesChanged", q, v)
                 D == Signalled("DeviceChanged", q, v)
      <4>1. v \in Values
        BY <1>4, ChangeInValues DEF DeviceChanged
      <4>2. P \in Signal /\ P.path = q /\ D \in Signal /\ D.path = q
        BY <4>1 DEF Signal, Signalled, ListSignals
      <4>3. bus \o Announce(q, v) = IF q \in watched THEN Append(Append(bus, P), D)
                                                     ELSE Append(bus, D)
        BY <1>0, <4>2 DEF Announce
      <4> HIDE DEF P, D, v
      <4>4. bus' = IF q \in watched THEN Append(Append(bus, P), D) ELSE Append(bus, D)
        BY <2>1, <4>3 DEF v
      <4>5. \A i \in DOMAIN bus' : bus'[i] = P \/ bus'[i] = D \/ (i \in DOMAIN bus /\ bus'[i] = bus[i])
        BY <1>0, <4>2, <4>4
      <4> QED BY <4>2, <4>5
    <3> QED BY <1>0, <2>1, <2>2, <3>1 DEF Unused
  <2> QED BY <1>0, <1>4, <2>1, <2>2, FollowedChange
<1>5. ASSUME NEW q \in Path, DeviceRequested(q)
      PROVE  (p \notin used' => Unused(p)') /\ (p \in listed' => Followed(p)')
  <2>1. /\ q \in listed /\ value' = [value EXCEPT ![q] = @ + 1] /\ silent' = silent \cup {q}
        /\ UNCHANGED <<listed, used, bus, watched, mirror, todo, opening>>
    BY <1>5 DEF DeviceRequested, libraryVars
  <2>2. ASSUME p \in listed, p = q PROVE Followed(p)'
    <3>1. \A i \in DOMAIN bus : bus[i].value \in Nat
      <4>1. \A i \in DOMAIN bus : bus[i] \in Signal BY <1>0
      <4>2. \A i \in DOMAIN bus : bus[i].value \in Values BY <4>1 DEF Signal
      <4> QED BY <4>2, ClientAssumption DEF Values
    <3>2. value[p] \in Nat /\ value'[p] = value[p] + 1
      BY <1>0, <2>1, <2>2, ClientAssumption DEF Values
    <3> QED BY <1>0, <2>1, <2>2, <3>1, <3>2 DEF Followed
  <2>3. ASSUME p \in listed, p # q PROVE Followed(p)'
    BY <1>0, <2>1, <2>3 DEF Followed
  <2>4. ASSUME p \notin used PROVE Unused(p)'
    BY <1>0, <2>1, <2>4 DEF Unused
  <2> QED BY <2>1, <2>2, <2>3, <2>4
<1>6. CASE Enumerate
  BY <1>0, <1>6 DEF Enumerate, daemonVars, Unused, Followed
<1>7. ASSUME NEW q \in Path, Subscribe(q)
      PROVE  (p \notin used' => Unused(p)') /\ (p \in listed' => Followed(p)')
  BY <1>0, <1>7 DEF Subscribe, daemonVars, Unused, Followed
<1>8. ASSUME NEW q \in Path, Read(q)
      PROVE  (p \notin used' => Unused(p)') /\ (p \in listed' => Followed(p)')
  <2>1. PICK v \in Answers(q) : mirror' = [mirror EXCEPT ![q] = Append(@, v)]
    BY <1>8 DEF Read
  <2>2. /\ opening = {q} /\ opening' = {} /\ todo' = todo \ {q} /\ q \in todo
        /\ UNCHANGED <<listed, used, value, silent, bus, watched>>
    BY <1>8 DEF Read, daemonVars, TypeOK
  <2>3. ASSUME p \notin used PROVE Unused(p)'
    BY <1>0, <2>1, <2>2, <2>3 DEF Unused
  <2>4. ASSUME p \in listed, p # q PROVE Followed(p)'
    BY <1>0, <2>1, <2>2, <2>4 DEF Followed
  <2>5. ASSUME p \in listed, p = q PROVE Followed(p)'
    <3>1. v = value[p] /\ p \in watched /\ mirror'[p] = Append(mirror[p], v)
      BY <1>0, <2>1, <2>2, <2>5 DEF Answers, Followed
    <3>2. \A k \in DOMAIN mirror'[p] :
             mirror'[p][k] = v \/ (k \in DOMAIN mirror[p] /\ mirror'[p][k] = mirror[p][k])
      BY <1>0, <3>1
    <3>3. \A n \in DOMAIN bus : bus[n].path = p => value[p] >= bus[n].value
      <4>1. \A i \in DOMAIN bus : bus[i] \in Signal BY <1>0
      <4>2. \A i \in DOMAIN bus : bus[i].value \in Values BY <4>1 DEF Signal
      <4> QED BY <4>2, <1>0, <2>5, ClientAssumption DEF Values, Followed
    <3>4. Heard(bus, p, mirror'[p])
      BY <1>0, <2>5, <3>1, <3>2, <3>3 DEF Heard, Followed
    <3> QED BY <1>0, <2>2, <2>5, <3>1, <3>2, <3>4 DEF Followed
  <2> QED BY <2>2, <2>3, <2>4, <2>5
<1>9. CASE Enumerated
  BY <1>0, <1>9 DEF Enumerated, daemonVars, Unused, Followed
\* A signal about q is taken from the queue.
<1>10. ASSUME NEW q \in Path, bus # <<>>, bus' = Tail(bus), Head(bus).path = q,
              UNCHANGED <<listed, used, value, silent, opening>>,
              p # q => p \in watched' <=> p \in watched, p # q => mirror'[p] = mirror[p],
              p \in todo' => p = q \/ p \in todo,
              p = q /\ p \in listed =>
                 /\ p \in watched' <=> p \in watched
                 /\ mirror'[p] = IF Head(bus).sig = "PropertiesChanged"
                                 THEN [k \in DOMAIN mirror[p] |-> Head(bus).value]
                                 ELSE mirror[p]
       PROVE  (p \notin used' => Unused(p)') /\ (p \in listed' => Followed(p)')
  <2>1. /\ 1 \in DOMAIN bus /\ bus[1] = Head(bus)
        /\ \A i \in DOMAIN bus' : i + 1 \in DOMAIN bus /\ bus'[i] = bus[i + 1]
    BY <1>0, <1>10
  <2>2. ASSUME p \notin used PROVE Unused(p)'
    BY <1>0, <1>10, <2>1, <2>2 DEF Unused
  <2>3. ASSUME p \in listed PROVE Followed(p)'
    <3>1. mirror'[p] = IF PropsAt(bus, 1, p) THEN [k \in DOMAIN mirror[p] |-> Head(bus).value]
                                             ELSE mirror[p]
      BY <1>10, <2>1, <2>3 DEF PropsAt
    <3>2. p \in watched' <=> p \in watched
      BY <1>10, <2>3
    <3> QED BY <1>0, <1>10, <2>3, <3>1, <3>2, FollowedTail
  <2> QED BY <1>10, <2>2, <2>3
<1>11. ASSUME NEW q \in Path, HandleAdded(q)
       PROVE  (p \notin used' => Unused(p)') /\ (p \in listed' => Followed(p)')
  BY <1>10, <1>11 DEF HandleAdded, Take, daemonVars
<1>12. ASSUME NEW q \in Path, HandleRemoved(q)
       PROVE  (p \notin used' => Unused(p)') /\ (p \in listed' => Followed(p)')
  <2>1. /\ bus # <<>> /\ bus' = Tail(bus) /\ Head(bus).path = q /\ Head(bus).sig = "DeviceRemoved"
        /\ mirror' = [mirror EXCEPT ![q] = Removed(q)]
        /\ watched' = IF Removed(q) = <<>> THEN watched \ {q} ELSE watched
        /\ UNCHANGED <<listed, used, value, silent, opening, todo>>
    BY <1>12 DEF HandleRemoved, Take, daemonVars
  <2>2. p = q => p \notin listed
    <3>1. 1 \in DOMAIN bus /\ bus[1] = Head(bus)
      BY <1>0, <2>1
    <3> QED BY <1>0, <2>1, <3>1 DEF Followed
  <2>3. p # q => mirror'[p] = mirror[p] /\ (p \in watched' <=> p \in watched)
    BY <1>0, <2>1
  <2> QED BY <1>10, <2>1, <2>2, <2>3
<1>13. ASSUME NEW q \in Path, HandleChanged(q)
       PROVE  (p \notin used' => Unused(p)') /\ (p \in listed' => Followed(p)')
  BY <1>10, <1>13 DEF HandleChanged, Take, daemonVars
<1>14. ASSUME NEW q \in Path, HandleProperties(q)
       PROVE  (p \notin used' => Unused(p)') /\ (p \in listed' => Followed(p)')
  <2>1. /\ bus # <<>> /\ bus' = Tail(bus) /\ Head(bus).path = q
        /\ Head(bus).sig = "PropertiesChanged"
        /\ mirror' = [mirror EXCEPT ![q] = [i \in DOMAIN @ |-> Head(bus).value]]
        /\ UNCHANGED <<listed, used, value, silent, opening, todo, watched>>
    BY <1>14 DEF HandleProperties, Take, daemonVars
  <2>2. /\ p # q => mirror'[p] = mirror[p]
        /\ p = q => mirror'[p] = [k \in DOMAIN mirror[p] |-> Head(bus).value]
    BY <1>0, <2>1
  <2> QED BY <1>10, <2>1, <2>2
<1> QED
  BY <1>1, <1>2, <1>3, <1>4, <1>5, <1>6, <1>7, <1>8, <1>9, <1>11, <1>12, <1>13, <1>14
     DEF Next, Daemon, Library

LEMMA PathAlways == Spec => [](IInv /\ PathInv)
<1>1. Init => PathInv
  <2> SUFFICES ASSUME Init, NEW p \in Path
               PROVE  (p \notin used => Unused(p)) /\ (p \in listed => Followed(p))
    BY DEF PathInv
  <2>1. /\ listed = used /\ bus = <<>> /\ watched = {} /\ mirror[p] = <<>> /\ todo = {}
        /\ opening = {} /\ silent = {} /\ DOMAIN bus = {} /\ DOMAIN mirror[p] = {}
    BY DEF Init
  <2> QED BY <2>1 DEF Unused, Followed, Quiet, LastSays, Heard
<1>2. IInv /\ PathInv /\ [Next]_vars => PathInv'
  BY PathStep DEF IInv
<1> QED BY <1>1, <1>2, Always, PTL DEF Spec

\* A program that is told of a change finds it in its objects, however many
\* objects of the path it has and whenever they were read: the order in which
\* the daemon sends the two signals is what this takes
\* (src/src/urf-device-kernel.c:142-146).
THEOREM ChangeIsSeenAlways == Spec => []ChangeIsSeen
<1>1. IInv /\ PathInv => ChangeIsSeen
  <2> SUFFICES ASSUME IInv, PathInv, bus # <<>>, Head(bus).sig = "DeviceChanged",
                      Head(bus).path \in listed,
                      NEW k \in DOMAIN mirror[Head(bus).path]
               PROVE  mirror[Head(bus).path][k] >= Head(bus).value
    BY DEF ChangeIsSeen
  <2> DEFINE p == Head(bus).path
  <2>1. p \in Path /\ 1 \in DOMAIN bus /\ bus[1] = Head(bus) /\ \A i \in DOMAIN bus : i >= 1
    BY DEF IInv, TypeOK
  <2>2. Heard(bus, p, mirror[p])
    BY <2>1 DEF PathInv, Followed
  <2>3. \A i \in DOMAIN bus : ~(i < 1)
    BY <2>1 DEF IInv, TypeOK
  <2> QED BY <2>1, <2>2, <2>3 DEF Heard
<1> QED BY <1>1, PathAlways, PTL

\* When no signal waits, what a program reads of a device is what the daemon
\* has, unless the daemon told nobody of the last change.
THEOREM CacheCurrentAlways == Spec => []CacheCurrent
<1>1. IInv /\ PathInv => CacheCurrent
  <2> SUFFICES ASSUME IInv, PathInv, bus = <<>>, NEW p \in listed \ silent,
                      NEW k \in DOMAIN mirror[p]
               PROVE  mirror[p][k] = value[p]
    BY DEF CacheCurrent
  <2>1. p \in Path /\ Quiet(bus, p)
    BY DEF IInv, TypeOK, Quiet
  <2> QED BY <2>1 DEF PathInv, Followed
<1> QED BY <1>1, PathAlways, PTL
=============================================================================
