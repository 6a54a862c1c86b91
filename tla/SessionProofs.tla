--------------------------- MODULE SessionProofs ---------------------------
(***************************************************************************)
(* Proofs about SessionChecker: the types, with one inhibitor per cookie   *)
(* and per client, the end of the inhibitors of clients that have left,    *)
(* and the decision that key presses read.                                 *)
(***************************************************************************)
EXTENDS SessionChecker, SequenceTheorems, TLAPS

\* A message that is sent comes last and moves no other.
LEMMA SendEffect ==
  ASSUME bus \in Seq(Message), NEW m \in Message, Send(m)
  PROVE  /\ bus' \in Seq(Message)
         /\ DOMAIN bus \subseteq DOMAIN bus'
         /\ \A n \in DOMAIN bus : bus'[n] = bus[n]
         /\ Len(bus) + 1 \in DOMAIN bus' /\ bus'[Len(bus) + 1] = m
         /\ \A n \in DOMAIN bus' : n \in DOMAIN bus \/ n = Len(bus) + 1
         /\ \A n \in DOMAIN bus : n \in Nat /\ n <= Len(bus)
         /\ Len(bus) \in Nat
<1>1. /\ bus' \in Seq(Message) /\ Len(bus) \in Nat /\ Len(bus') = Len(bus) + 1
      /\ DOMAIN bus = 1..Len(bus) /\ DOMAIN bus' = 1..Len(bus')
      /\ bus'[Len(bus) + 1] = m /\ \A n \in 1..Len(bus) : bus'[n] = bus[n]
  BY AppendProperties, LenProperties DEF Send
<1> QED
  BY <1>1

\* Reading takes the first message away and keeps the others.
LEMMA ReceiveEffect ==
  ASSUME bus \in Seq(Message), NEW kind, Receive(kind)
  PROVE  /\ bus' \in Seq(Message)
         /\ Head(bus) \in Message /\ Head(bus).kind = kind
         /\ 1 \in DOMAIN bus /\ Head(bus) = bus[1]
         /\ \A n \in DOMAIN bus : n # 1 => n - 1 \in DOMAIN bus' /\ bus'[n - 1] = bus[n]
         /\ \A n \in DOMAIN bus' : n + 1 \in DOMAIN bus /\ bus'[n] = bus[n + 1]
         /\ DOMAIN bus \subseteq Nat /\ DOMAIN bus' \subseteq Nat
<1>1. bus # <<>> /\ Head(bus).kind = kind /\ bus' = Tail(bus)
  BY DEF Receive
<1>2. /\ Head(bus) \in Message /\ Tail(bus) \in Seq(Message)
      /\ Len(bus) \in Nat /\ Len(bus) # 0 /\ DOMAIN bus = 1..Len(bus)
  BY <1>1, HeadTailProperties, EmptySeq, LenProperties
<1>3. Head(bus) = bus[1] /\ 1 \in DOMAIN bus
  BY <1>1, <1>2
<1>4. /\ Len(Tail(bus)) = Len(bus) - 1 /\ DOMAIN Tail(bus) = 1..Len(Tail(bus))
      /\ \A n \in 1..(Len(bus) - 1) : Tail(bus)[n] = bus[n + 1]
  BY <1>1, <1>2, HeadTailProperties, LenProperties
<1>5. ASSUME NEW n \in DOMAIN bus, n # 1
      PROVE  n - 1 \in DOMAIN Tail(bus) /\ Tail(bus)[n - 1] = bus[n]
  <2>1. n - 1 \in 1..Len(Tail(bus)) /\ (n - 1) + 1 = n
    BY <1>2, <1>4, <1>5
  <2> QED
    BY <1>4, <2>1
<1>6. \A n \in DOMAIN Tail(bus) : n + 1 \in DOMAIN bus /\ Tail(bus)[n] = bus[n + 1]
  BY <1>2, <1>4
<1> QED
  BY <1>1, <1>2, <1>3, <1>4, <1>5, <1>6

\* So does the removal of a seat, but it leaves the seat's messages unheard.
LEMMA RemovedEffect ==
  ASSUME bus \in Seq(Message), HandleSeatRemoved
  PROVE  /\ bus' \in Seq(Message)
         /\ Head(bus) \in Message /\ Head(bus).kind = "SeatRemoved"
         /\ 1 \in DOMAIN bus /\ Head(bus) = bus[1]
         /\ \A n \in DOMAIN bus : n # 1 =>
               /\ n - 1 \in DOMAIN bus'
               /\ bus'[n - 1] = IF bus[n].kind = "Active" /\ bus[n].seat = Head(bus).seat
                                THEN [kind |-> "Unheard"] ELSE bus[n]
         /\ \A n \in DOMAIN bus' :
               /\ n + 1 \in DOMAIN bus
               /\ bus'[n] = IF bus[n + 1].kind = "Active"
                               /\ bus[n + 1].seat = Head(bus).seat
                            THEN [kind |-> "Unheard"] ELSE bus[n + 1]
         /\ DOMAIN bus \subseteq Nat /\ DOMAIN bus' \subseteq Nat
<1> DEFINE tail == Tail(bus)
           s == Head(bus).seat
           Heard(m) == IF m.kind = "Active" /\ m.seat = s THEN [kind |-> "Unheard"] ELSE m
<1>1. bus # <<>> /\ Head(bus).kind = "SeatRemoved" /\ bus' = Unheard(s, tail)
  BY DEF HandleSeatRemoved
<1>2. /\ Head(bus) \in Message /\ tail \in Seq(Message)
      /\ Len(bus) \in Nat /\ Len(bus) # 0 /\ DOMAIN bus = 1..Len(bus)
  BY <1>1, HeadTailProperties, EmptySeq, LenProperties
<1>3. Head(bus) = bus[1] /\ 1 \in DOMAIN bus
  BY <1>1, <1>2
<1>4. /\ Len(tail) = Len(bus) - 1 /\ DOMAIN tail = 1..Len(tail)
      /\ \A n \in 1..(Len(bus) - 1) : tail[n] = bus[n + 1]
  BY <1>1, <1>2, HeadTailProperties, LenProperties
<1>5. bus' = [n \in 1..(Len(bus) - 1) |-> Heard(tail[n])]
  BY <1>1, <1>4 DEF Unheard
<1>6. \A m \in Message : Heard(m) \in Message
  BY DEF Message
<1>7. \A n \in 1..(Len(bus) - 1) : tail[n] \in Message
  BY <1>2, <1>4, ElementOfSeq
<1> HIDE DEF Heard, tail
<1>8. bus' \in [1..(Len(bus) - 1) -> Message]
  BY <1>5, <1>6, <1>7
<1>9. bus' \in Seq(Message) /\ DOMAIN bus' = 1..(Len(bus) - 1)
  <2>1. Len(bus) - 1 \in Nat
    BY <1>2
  <2> QED
    BY <1>8, <2>1, SeqDef
<1>10. \A n \in DOMAIN bus' : n + 1 \in DOMAIN bus /\ bus'[n] = Heard(bus[n + 1])
  BY <1>2, <1>4, <1>5, <1>9
<1>11. ASSUME NEW n \in DOMAIN bus, n # 1
       PROVE  n - 1 \in DOMAIN bus' /\ bus'[n - 1] = Heard(bus[n])
  <2>1. n - 1 \in DOMAIN bus' /\ (n - 1) + 1 = n
    BY <1>2, <1>9, <1>11
  <2> QED
    BY <1>10, <2>1
<1> QED
  BY <1>1, <1>2, <1>3, <1>9, <1>10, <1>11 DEF Heard

\* The messages of each kind carry what their handler reads.
LEMMA MessageFields ==
  ASSUME NEW m \in Message
  PROVE  /\ m.kind \in {"Inhibit", "Gone", "Released"} => m.client \in Client
         /\ m.kind = "Uninhibit" => m.client \in Client /\ m.cookie \in Cookie
         /\ m.kind \in {"SeatNew", "SeatRemoved", "Active"} => m.seat \in Seat
         /\ m.kind = "Active" => m.session \in Session \cup {NoSession}
  BY DEF Message

LEMMA ElementOfBus == ASSUME TypeOK PROVE \A n \in DOMAIN bus : bus[n] \in Message
  BY ElementOfSeq, LenProperties DEF TypeOK

\* What each message is made of.
LEMMA MessageMade ==
  /\ \A c \in Client, x \in {"Inhibit", "Gone", "Released"} :
        [kind |-> x, client |-> c] \in Message
  /\ \A c \in Client, k \in Cookie :
        [kind |-> "Uninhibit", client |-> c, cookie |-> k] \in Message
  /\ \A s \in Seat, x \in {"SeatNew", "SeatRemoved"} : [kind |-> x, seat |-> s] \in Message
  /\ \A s \in Seat, sid \in Session \cup {NoSession} :
        [kind |-> "Active", seat |-> s, session |-> sid] \in Message
  BY DEF Message

LEMMA StimulusType ==
  ASSUME stimuli \in 0..MaxStimuli, Stimulus
  PROVE  stimuli' \in 0..MaxStimuli
  BY SessionAssumption DEF Stimulus

\* The decision is a Boolean, whatever it is made from.
LEMMA DecisionType ==
  ASSUME NEW inh, NEW ss, NEW act
  PROVE  IsInhibited(inh, ss, act) \in BOOLEAN
  BY DEF IsInhibited

\* The parts of TypeOK that the requests and the login manager change.
LEMMA OutsideTypes == ASSUME TypeOK, Outside PROVE TypeOK'
<1> USE DEF outsideVars, checkerVars
<1>1. ASSUME NEW c \in Client, AskInhibit(c) PROVE TypeOK'
  BY <1>1, MessageMade, SendEffect, StimulusType DEF TypeOK, AskInhibit
<1>2. ASSUME NEW c \in Client, AskUninhibit(c) PROVE TypeOK'
  <2>1. given[c] \in Cookie
    BY <1>2 DEF TypeOK, AskUninhibit
  <2>2. bus' \in Seq(Message)
    BY <1>2, <2>1, MessageMade, SendEffect DEF TypeOK, AskUninhibit
  <2> QED
    BY <1>2, <2>2, StimulusType DEF TypeOK, AskUninhibit
<1>3. ASSUME NEW c \in Client, Disconnect(c) PROVE TypeOK'
  BY <1>3, MessageMade, SendEffect, StimulusType DEF TypeOK, Disconnect
<1>4. ASSUME NEW c \in Client, ReleaseName(c) PROVE TypeOK'
  BY <1>4, MessageMade, SendEffect, StimulusType DEF TypeOK, ReleaseName
<1>5. ASSUME NEW s \in Seat, NEW sid \in Session \cup {NoSession}, SeatAppears(s, sid)
      PROVE  TypeOK'
  BY <1>5, MessageMade, SendEffect, StimulusType DEF TypeOK, SeatAppears
<1>6. ASSUME NEW s \in Seat, SeatVanishes(s) PROVE TypeOK'
  BY <1>6, MessageMade, SendEffect, StimulusType DEF TypeOK, SeatVanishes
<1>7. ASSUME NEW s \in Seat, NEW sid \in Session \cup {NoSession}, SwitchSession(s, sid)
      PROVE  TypeOK'
  <2>1. bus' \in Seq(Message)
    BY <1>7, MessageMade, SendEffect DEF TypeOK, SwitchSession
  <2> QED
    BY <1>7, <2>1, StimulusType DEF TypeOK, SwitchSession
<1> QED
  BY <1>1, <1>2, <1>3, <1>4, <1>5, <1>6, <1>7 DEF Outside

\* Taking inhibitors off the list leaves one per cookie and per client.
LEMMA RemoveTypes ==
  ASSUME TypeOK, NEW gone, Remove(gone)
  PROVE  /\ inhibitors' \subseteq inhibitors
         /\ inhibit' \in BOOLEAN /\ stale' \in BOOLEAN
  BY DecisionType DEF TypeOK, Remove, Decide

LEMMA HandleTypes == ASSUME TypeOK, Handle PROVE TypeOK'
<1> USE DEF outsideVars, checkerVars
<1>1. ASSUME HandleInhibit PROVE TypeOK'
  <2> DEFINE c == Head(bus).client
  <2>1. bus' \in Seq(Message) /\ c \in Client
    BY <1>1, ReceiveEffect, MessageFields DEF TypeOK, HandleInhibit
  <2>2. CASE InhibitorsOf(c) # {} \/ FindSession(c) = NoSession
    <3>1. InhibitorsOf(c) # {} =>
             (CHOOSE i \in InhibitorsOf(c) : TRUE).cookie \in Cookie
      BY DEF TypeOK, InhibitorsOf, Inhibitor
    <3>2. given' \in [Client -> Cookie \cup {NoCookie}]
      BY <1>1, <2>1, <2>2, <3>1 DEF TypeOK, HandleInhibit
    <3> QED
      BY <1>1, <2>1, <2>2, <3>2 DEF TypeOK, HandleInhibit
  <2>3. CASE InhibitorsOf(c) = {} /\ FindSession(c) # NoSession
    <3>1. PICK k \in FreeCookies :
             /\ Decide(inhibitors \cup
                          {[cookie |-> k, session |-> FindSession(c), client |-> c]},
                       active)
             /\ given' = [given EXCEPT ![c] = k]
      BY <1>1, <2>3 DEF HandleInhibit
    <3> DEFINE new == [cookie |-> k, session |-> FindSession(c), client |-> c]
    <3>2. k \in Cookie /\ new \in Inhibitor
      BY <2>1, <2>3, SessionAssumption DEF FreeCookies, FindSession, Inhibitor
    <3>3. \A i \in inhibitors : i.cookie # k /\ i.client # c
      BY <2>3 DEF FreeCookies, InhibitorsOf
    <3>4. \A i, j \in inhibitors \cup {new} :
             i.cookie = j.cookie \/ i.client = j.client => i = j
      BY <3>3 DEF TypeOK
    <3>5. /\ inhibitors' = inhibitors \cup {new}
          /\ inhibit' \in BOOLEAN /\ stale' \in BOOLEAN
      BY <3>1, DecisionType DEF Decide
    <3> HIDE DEF new
    <3> QED
      BY <1>1, <2>1, <3>1, <3>2, <3>4, <3>5 DEF TypeOK, HandleInhibit
  <2> QED
    BY <2>2, <2>3
<1>2. ASSUME HandleUninhibit PROVE TypeOK'
  BY <1>2, ReceiveEffect, RemoveTypes DEF TypeOK, HandleUninhibit
<1>3. ASSUME HandleOwnerChanged PROVE TypeOK'
  <2>1. bus' \in Seq(Message)
    BY <1>3, ReceiveEffect DEF TypeOK, HandleOwnerChanged
  <2>2. inhibitors' \subseteq inhibitors /\ inhibit' \in BOOLEAN /\ stale' \in BOOLEAN
    BY <1>3, RemoveTypes DEF HandleOwnerChanged
  <2>3. lost' \subseteq Cookie
    BY <1>3 DEF TypeOK, HandleOwnerChanged, Inhibitor
  <2> QED
    BY <1>3, <2>1, <2>2, <2>3 DEF TypeOK, HandleOwnerChanged
<1>4. ASSUME HandleSeatNew PROVE TypeOK'
  <2>1. bus' \in Seq(Message) /\ Head(bus).seat \in Seat
    BY <1>4, ReceiveEffect, MessageFields DEF TypeOK, HandleSeatNew
  <2>2. /\ seats' \subseteq Seat /\ stale' \in BOOLEAN
        /\ active' \in [Seat -> Session \cup {NoSession}]
    BY <1>4, <2>1 DEF TypeOK, HandleSeatNew
  <2> QED
    BY <1>4, <2>1, <2>2 DEF TypeOK, HandleSeatNew
<1>5. ASSUME HandleSeatRemoved PROVE TypeOK'
  <2>1. bus' \in Seq(Message) /\ Head(bus).seat \in Seat
    BY <1>5, RemovedEffect, MessageFields DEF TypeOK
  <2>2. /\ seats' \subseteq Seat /\ stale' \in BOOLEAN
        /\ active' \in [Seat -> Session \cup {NoSession}]
    BY <1>5, <2>1 DEF TypeOK, HandleSeatRemoved
  <2> QED
    BY <1>5, <2>1, <2>2 DEF TypeOK, HandleSeatRemoved
<1>6. ASSUME HandleActive PROVE TypeOK'
  <2>1. /\ bus' \in Seq(Message) /\ Head(bus).seat \in Seat
        /\ Head(bus).session \in Session \cup {NoSession}
    BY <1>6, ReceiveEffect, MessageFields DEF TypeOK, HandleActive
  <2>2. /\ active' \in [Seat -> Session \cup {NoSession}]
        /\ inhibit' \in BOOLEAN /\ stale' \in BOOLEAN
        /\ inhibitors' = inhibitors /\ seats' = seats
    BY <1>6, <2>1, DecisionType, ZenonT(60) DEF TypeOK, HandleActive, Decide
  <2> QED
    BY <1>6, <2>1, <2>2 DEF TypeOK, HandleActive
<1>7. ASSUME HandleUnheard PROVE TypeOK'
  BY <1>7, ReceiveEffect DEF TypeOK, HandleUnheard
<1> QED
  BY <1>1, <1>2, <1>3, <1>4, <1>5, <1>6, <1>7 DEF Handle

\* Every variable of the session checker keeps its type, and no cookie and no
\* client ever has two inhibitors (generate_unique_cookie and
\* find_inhibitor_by_bus_name of urf_session_checker_inhibit).
THEOREM SessionTypeCorrect == Spec => []TypeOK
<1>1. ASSUME Init PROVE TypeOK
  <2>1. bus \in Seq(Message)
    BY <1>1, EmptySeq DEF Init
  <2>2. stimuli \in 0..MaxStimuli
    BY <1>1, SessionAssumption DEF Init
  <2>3. given \in [Client -> Cookie \cup {NoCookie}]
    BY <1>1 DEF Init
  <2>4. active \in [Seat -> Session \cup {NoSession}]
    BY <1>1 DEF Init
  <2> QED
    BY <1>1, <2>1, <2>2, <2>3, <2>4 DEF Init, TypeOK
<1>2. TypeOK /\ UNCHANGED svars => TypeOK'
  BY DEF TypeOK, svars, outsideVars, checkerVars
<1>3. TypeOK /\ [Next]_svars => TypeOK'
  BY <1>2, OutsideTypes, HandleTypes DEF Next
<1> QED
  BY <1>1, <1>3, PTL DEF Spec

\* A message about c that is received, and is not that c has left, leaves what
\* says that c has left where it can be found.
LEMMA LeavingKept ==
  ASSUME TypeOK, NEW kind, Receive(kind), NEW c \in Client, LeavingOf(c) # {},
         kind = "Gone" => Head(bus).client # c
  PROVE  LeavingOf(c)' # {}
<1>1. PICK n \in DOMAIN bus : bus[n].kind = "Gone" /\ bus[n].client = c
  BY DEF LeavingOf
<1>2. n # 1
  BY <1>1, ReceiveEffect DEF TypeOK
<1>3. n - 1 \in DOMAIN bus' /\ bus'[n - 1] = bus[n]
  BY <1>2, ReceiveEffect DEF TypeOK
<1> QED
  BY <1>1, <1>3 DEF LeavingOf

\* Sending keeps it too.
LEMMA LeavingSent ==
  ASSUME TypeOK, NEW m \in Message, Send(m), NEW c \in Client
  PROVE  /\ LeavingOf(c) # {} => LeavingOf(c)' # {}
         /\ m.kind = "Gone" /\ m.client = c => LeavingOf(c)' # {}
<1>1. /\ DOMAIN bus \subseteq DOMAIN bus'
      /\ \A n \in DOMAIN bus : bus'[n] = bus[n]
      /\ Len(bus) + 1 \in DOMAIN bus' /\ bus'[Len(bus) + 1] = m
  BY SendEffect DEF TypeOK
<1> QED
  BY <1>1 DEF LeavingOf

\* What the clients and the login manager do leaves the inhibitors as they are,
\* and a client that leaves says so.
LEMMA OutsideReleases ==
  ASSUME TypeOK, GoneClientsRelease, Outside
  PROVE  GoneClientsRelease'
<1> USE DEF outsideVars, checkerVars
<1> SUFFICES ASSUME NEW i \in inhibitors'
             PROVE  i.client \in alive' \/ LeavingOf(i.client)' # {}
  BY DEF GoneClientsRelease
<1>1. inhibitors' = inhibitors
  BY DEF Outside, AskInhibit, AskUninhibit, Disconnect, ReleaseName, SeatAppears,
         SeatVanishes, SwitchSession
<1>2. i.client \in Client /\ (i.client \in alive \/ LeavingOf(i.client) # {})
  BY <1>1 DEF TypeOK, Inhibitor, GoneClientsRelease
<1>3. ASSUME NEW m \in Message, Send(m), alive' = alive
      PROVE  i.client \in alive' \/ LeavingOf(i.client)' # {}
  BY <1>2, <1>3, LeavingSent
<1>4. ASSUME NEW c \in Client, AskInhibit(c)
      PROVE  i.client \in alive' \/ LeavingOf(i.client)' # {}
  BY <1>3, <1>4, MessageMade DEF AskInhibit
<1>5. ASSUME NEW c \in Client, AskUninhibit(c)
      PROVE  i.client \in alive' \/ LeavingOf(i.client)' # {}
  <2>1. given[c] \in Cookie
    BY <1>5 DEF TypeOK, AskUninhibit
  <2> QED
    BY <1>3, <1>5, <2>1, MessageMade DEF AskUninhibit
<1>6. ASSUME NEW c \in Client, Disconnect(c)
      PROVE  i.client \in alive' \/ LeavingOf(i.client)' # {}
  <2> DEFINE m == [kind |-> "Gone", client |-> c]
  <2>1. m \in Message /\ Send(m) /\ m.kind = "Gone" /\ m.client = c
    BY <1>6, MessageMade DEF Disconnect
  <2> HIDE DEF m
  <2>2. CASE i.client = c
    BY <1>2, <2>1, <2>2, LeavingSent
  <2>3. CASE i.client # c
    BY <1>2, <1>6, <2>1, <2>3, LeavingSent DEF Disconnect
  <2> QED
    BY <2>2, <2>3
<1>7. ASSUME NEW c \in Client, ReleaseName(c)
      PROVE  i.client \in alive' \/ LeavingOf(i.client)' # {}
  BY <1>3, <1>7, MessageMade DEF ReleaseName
<1>8. ASSUME NEW s \in Seat, NEW sid \in Session \cup {NoSession}, SeatAppears(s, sid)
      PROVE  i.client \in alive' \/ LeavingOf(i.client)' # {}
  BY <1>3, <1>8, MessageMade DEF SeatAppears
<1>9. ASSUME NEW s \in Seat, SeatVanishes(s)
      PROVE  i.client \in alive' \/ LeavingOf(i.client)' # {}
  BY <1>3, <1>9, MessageMade DEF SeatVanishes
<1>10. ASSUME NEW s \in Seat, NEW sid \in Session \cup {NoSession}, SwitchSession(s, sid)
       PROVE  i.client \in alive' \/ LeavingOf(i.client)' # {}
  <2>1. CASE s \in seats
    BY <1>3, <1>10, <2>1, MessageMade DEF SwitchSession
  <2>2. CASE s \notin seats
    BY <1>2, <1>10, <2>2 DEF SwitchSession, LeavingOf
  <2> QED
    BY <2>1, <2>2
<1> QED
  BY <1>4, <1>5, <1>6, <1>7, <1>8, <1>9, <1>10 DEF Outside

\* A handler leaves every inhibitor with a client that is there or whose leaving
\* is still to be read.
LEMMA HandleReleases ==
  ASSUME TypeOK, GoneClientsRelease, Handle
  PROVE  GoneClientsRelease'
<1> USE DEF outsideVars, checkerVars
<1>1. alive' = alive
  BY DEF Handle, HandleInhibit, HandleUninhibit, HandleOwnerChanged, HandleSeatNew,
         HandleSeatRemoved, HandleActive, HandleUnheard
<1>2. ASSUME NEW kind, Receive(kind), NEW i \in inhibitors,
             kind = "Gone" => Head(bus).client # i.client
      PROVE  i.client \in alive' \/ LeavingOf(i.client)' # {}
  BY <1>1, <1>2, LeavingKept DEF TypeOK, Inhibitor, GoneClientsRelease
<1>3. ASSUME HandleInhibit PROVE GoneClientsRelease'
  <2>1. \A i \in inhibitors : i.client \in alive' \/ LeavingOf(i.client)' # {}
    BY <1>2, <1>3 DEF HandleInhibit
  <2>2. ASSUME NEW i \in inhibitors', i \notin inhibitors
        PROVE  i.client \in alive'
    <3> DEFINE c == Head(bus).client
    <3>1. InhibitorsOf(c) = {} /\ FindSession(c) # NoSession
      BY <1>3, <2>2 DEF HandleInhibit
    <3>2. PICK k \in FreeCookies : Decide(inhibitors \cup
             {[cookie |-> k, session |-> FindSession(c), client |-> c]}, active)
      BY <1>3, <3>1 DEF HandleInhibit
    <3>3. i.client = c
      BY <2>2, <3>2 DEF Decide
    <3> QED
      BY <1>1, <3>1, <3>3 DEF FindSession
  <2> QED
    BY <2>1, <2>2 DEF GoneClientsRelease
<1>4. ASSUME HandleUninhibit PROVE GoneClientsRelease'
  BY <1>2, <1>4, RemoveTypes DEF HandleUninhibit, GoneClientsRelease
<1>5. ASSUME HandleOwnerChanged PROVE GoneClientsRelease'
  <2>1. CASE Receive("Gone")
    <3>1. Head(bus).kind = "Gone"
      BY <2>1 DEF Receive
    <3>2. inhibitors' \subseteq inhibitors \ InhibitorsOf(Head(bus).client)
      BY <1>5, <3>1 DEF HandleOwnerChanged, OwnerLost, Remove, Decide
    <3>3. \A i \in inhibitors' : i \in inhibitors /\ i.client # Head(bus).client
      BY <3>2 DEF InhibitorsOf
    <3> QED
      BY <1>2, <2>1, <3>3 DEF GoneClientsRelease
  <2>2. CASE Receive("Released")
    BY <1>2, <1>5, <2>2, RemoveTypes DEF HandleOwnerChanged, GoneClientsRelease
  <2> QED
    BY <1>5, <2>1, <2>2 DEF HandleOwnerChanged
<1>6. ASSUME HandleSeatNew PROVE GoneClientsRelease'
  BY <1>2, <1>6 DEF HandleSeatNew, GoneClientsRelease
<1>7. ASSUME HandleSeatRemoved PROVE GoneClientsRelease'
  <2>1. inhibitors' = inhibitors
    BY <1>7 DEF HandleSeatRemoved
  <2>2. ASSUME NEW c \in Client, LeavingOf(c) # {} PROVE LeavingOf(c)' # {}
    <3>1. PICK n \in DOMAIN bus : bus[n].kind = "Gone" /\ bus[n].client = c
      BY <2>2 DEF LeavingOf
    <3>2. n # 1 /\ n - 1 \in DOMAIN bus' /\ bus'[n - 1] = bus[n]
      BY <1>7, <3>1, RemovedEffect DEF TypeOK
    <3> QED
      BY <3>1, <3>2 DEF LeavingOf
  <2> QED
    BY <1>1, <2>1, <2>2 DEF GoneClientsRelease, TypeOK, Inhibitor
<1>8. ASSUME HandleActive PROVE GoneClientsRelease'
  BY <1>2, <1>8 DEF HandleActive, Decide, GoneClientsRelease
<1>9. ASSUME HandleUnheard PROVE GoneClientsRelease'
  BY <1>2, <1>9 DEF HandleUnheard, GoneClientsRelease
<1> QED
  BY <1>3, <1>4, <1>5, <1>6, <1>7, <1>8, <1>9 DEF Handle

\* No inhibitor outlives its client for longer than the message that says so
\* waits, whatever the order of the requests (bus_owner_changed, and
\* get_session_id for a client that left while its request waited).
THEOREM GoneClientsReleaseAlways == Spec => []GoneClientsRelease
<1>1. Init => GoneClientsRelease
  BY DEF Init, GoneClientsRelease
<1>2. TypeOK /\ GoneClientsRelease /\ [Next]_svars => GoneClientsRelease'
  <2>1. ASSUME GoneClientsRelease, UNCHANGED svars PROVE GoneClientsRelease'
    BY <2>1 DEF svars, outsideVars, checkerVars, GoneClientsRelease, LeavingOf
  <2> QED
    BY <2>1, OutsideReleases, HandleReleases DEF Next
<1> QED
  BY <1>1, <1>2, SessionTypeCorrect, PTL DEF Spec

\* A key press reads the decision that follows from the list of inhibitors and
\* from the daemon's seats: every handler that changes the list or a seat's
\* active session makes it again (urf_session_checker_inhibit, remove_inhibitor,
\* urf_session_checker_seat_active_changed), and one that changes the set of
\* seats marks it stale.
THEOREM DecisionFreshAlways == Spec => []DecisionFresh
<1> USE DEF outsideVars, checkerVars
<1>1. Init => DecisionFresh
  BY DEF Init, DecisionFresh, IsInhibited
<1>2. ASSUME NEW inh, Decide(inh, active), UNCHANGED <<seats, active>>
      PROVE  DecisionFresh'
  BY <1>2 DEF Decide, DecisionFresh, IsInhibited
<1>3. ASSUME DecisionFresh, UNCHANGED checkerVars PROVE DecisionFresh'
  BY <1>3 DEF DecisionFresh, IsInhibited
<1>4. ASSUME TypeOK, DecisionFresh, Outside PROVE DecisionFresh'
  <2>1. UNCHANGED checkerVars
    BY <1>4 DEF Outside, AskInhibit, AskUninhibit, Disconnect, ReleaseName,
               SeatAppears, SeatVanishes, SwitchSession
  <2> QED
    BY <1>3, <1>4, <2>1
<1>5. ASSUME DecisionFresh, NEW gone, Remove(gone), UNCHANGED <<seats, active>>
      PROVE  DecisionFresh'
  BY <1>2, <1>3, <1>5 DEF Remove
<1>6. ASSUME TypeOK, DecisionFresh, Handle PROVE DecisionFresh'
  <2>1. CASE HandleInhibit
    <3>1. \/ UNCHANGED checkerVars
          \/ /\ \E inh : Decide(inh, active)
             /\ UNCHANGED <<seats, active>>
      BY <2>1 DEF HandleInhibit
    <3> QED
      BY <1>2, <1>3, <1>6, <3>1
  <2>2. CASE HandleUninhibit
    BY <1>5, <1>6, <2>2 DEF HandleUninhibit
  <2>3. CASE HandleOwnerChanged
    BY <1>5, <1>6, <2>3 DEF HandleOwnerChanged
  <2>4. CASE HandleSeatNew
    BY <1>3, <1>6, <2>4 DEF HandleSeatNew, DecisionFresh
  <2>5. CASE HandleSeatRemoved
    <3>1. CASE Head(bus).seat \in seats
      BY <2>5, <3>1 DEF HandleSeatRemoved, DecisionFresh
    <3>2. CASE Head(bus).seat \notin seats
      <4>1. seats' = seats /\ \A s \in seats : active'[s] = active[s]
        BY <1>6, <2>5, <3>2 DEF HandleSeatRemoved, TypeOK
      <4>2. inhibitors' = inhibitors /\ inhibit' = inhibit /\ stale' = stale
        BY <1>6, <2>5, <3>2 DEF HandleSeatRemoved, TypeOK
      <4> QED
        BY <1>6, <4>1, <4>2 DEF DecisionFresh, IsInhibited
    <3> QED
      BY <3>1, <3>2
  <2>6. CASE HandleActive
    BY <1>3, <1>6, <2>6 DEF HandleActive, Decide, DecisionFresh, IsInhibited
  <2>7. CASE HandleUnheard
    BY <1>3, <1>6, <2>7 DEF HandleUnheard
  <2> QED
    BY <1>6, <2>1, <2>2, <2>3, <2>4, <2>5, <2>6, <2>7 DEF Handle
<1>7. TypeOK /\ DecisionFresh /\ [Next]_svars => DecisionFresh'
  BY <1>3, <1>4, <1>6 DEF Next, svars
<1> QED
  BY <1>1, <1>7, SessionTypeCorrect, PTL DEF Spec
(***************************************************************************)
(* The decision against the login manager's sessions.                      *)
(***************************************************************************)
IsActive(n, s) == bus[n].kind = "Active" /\ bus[n].seat = s
IsRemoval(n, s) == bus[n].kind = "SeatRemoved" /\ bus[n].seat = s

\* For a seat that the daemon has and that is not about to be removed, the last
\* message about its active session, or else the daemon's copy, is the login
\* manager's; no message waits for a seat that the daemon does not have.
SeatFollows(s) ==
  /\ s \in seats =>
       \/ \E n \in DOMAIN bus : IsRemoval(n, s)
       \/ /\ s \in present
          /\ \A n \in DOMAIN bus :
               IsActive(n, s) /\ (\A m \in DOMAIN bus : IsActive(m, s) => m <= n)
                 => bus[n].session = foremost[s]
          /\ (\A n \in DOMAIN bus : ~IsActive(n, s)) => active[s] = foremost[s]
  /\ s \notin seats => \A n \in DOMAIN bus : ~IsActive(n, s)

\* A message that does not tell the seat's session changes nothing, if the seat
\* goes on to be there with that session, or is about to be removed.
LEMMA SentAside ==
  ASSUME TypeOK, NEW s \in Seat, SeatFollows(s), NEW m \in Message, Send(m),
         ~(m.kind = "Active" /\ m.seat = s), UNCHANGED <<seats, active>>,
         \/ foremost'[s] = foremost[s] /\ (s \in present => s \in present')
         \/ m.kind = "SeatRemoved" /\ m.seat = s
         \/ s \notin present
  PROVE  SeatFollows(s)'
<1>1. /\ \A n \in DOMAIN bus : n \in DOMAIN bus' /\ bus'[n] = bus[n]
      /\ Len(bus) + 1 \in DOMAIN bus' /\ bus'[Len(bus) + 1] = m
      /\ \A n \in DOMAIN bus' : n \in DOMAIN bus \/ n = Len(bus) + 1
  BY SendEffect DEF TypeOK
<1>2. \A n \in DOMAIN bus' : IsActive(n, s)' <=> n \in DOMAIN bus /\ IsActive(n, s)
  BY <1>1 DEF IsActive
<1>3. s \notin seats' => \A n \in DOMAIN bus' : ~IsActive(n, s)'
  BY <1>2 DEF SeatFollows
<1>4. CASE \E n \in DOMAIN bus : IsRemoval(n, s)
  <2>1. \E n \in DOMAIN bus' : IsRemoval(n, s)'
    BY <1>1, <1>4 DEF IsRemoval
  <2> QED
    BY <1>3, <2>1 DEF SeatFollows
<1>5. CASE m.kind = "SeatRemoved" /\ m.seat = s
  <2>1. \E n \in DOMAIN bus' : IsRemoval(n, s)'
    BY <1>1, <1>5 DEF IsRemoval
  <2> QED
    BY <1>3, <2>1 DEF SeatFollows
<1>6. CASE /\ \A n \in DOMAIN bus : ~IsRemoval(n, s)
           /\ foremost'[s] = foremost[s] /\ (s \in present => s \in present')
  <2> SUFFICES ASSUME s \in seats
               PROVE  /\ s \in present'
                      /\ \A n \in DOMAIN bus' :
                           /\ IsActive(n, s)'
                           /\ \A k \in DOMAIN bus' : IsActive(k, s)' => k <= n
                           => bus'[n].session = foremost'[s]
                      /\ (\A n \in DOMAIN bus' : ~IsActive(n, s)') => active'[s] = foremost'[s]
    BY <1>3 DEF SeatFollows
  <2>1. /\ s \in present
        /\ \A n \in DOMAIN bus :
             IsActive(n, s) /\ (\A k \in DOMAIN bus : IsActive(k, s) => k <= n)
               => bus[n].session = foremost[s]
        /\ (\A n \in DOMAIN bus : ~IsActive(n, s)) => active[s] = foremost[s]
    BY <1>6 DEF SeatFollows
  <2> QED
    BY <1>1, <1>2, <1>6, <2>1
<1>7. CASE s \notin present /\ \A n \in DOMAIN bus : ~IsRemoval(n, s)
  BY <1>3, <1>7 DEF SeatFollows
<1> QED
  BY <1>4, <1>5, <1>6, <1>7

\* A message about the session of a seat that the daemon has is the last one.
LEMMA SentActive ==
  ASSUME TypeOK, NEW s \in Seat, SeatFollows(s), s \in seats, s \in present,
         Send([kind |-> "Active", seat |-> s, session |-> foremost'[s]]),
         foremost' \in [Seat -> Session \cup {NoSession}],
         UNCHANGED <<seats, active, present>>
  PROVE  SeatFollows(s)'
<1> DEFINE m == [kind |-> "Active", seat |-> s, session |-> foremost'[s]]
<1>1. m \in Message /\ m.kind = "Active" /\ m.seat = s /\ m.session = foremost'[s]
  BY MessageMade
<1> HIDE DEF m
<1>2. Send(m)
  BY DEF m
<1>3. PICK last \in Nat : last = Len(bus) + 1
  BY LenProperties DEF TypeOK
<1>4. /\ \A n \in DOMAIN bus : n \in Nat /\ n < last
      /\ last \in DOMAIN bus' /\ bus'[last] = m
      /\ \A n \in DOMAIN bus' : n \in DOMAIN bus \/ n = last
  BY <1>1, <1>2, <1>3, SendEffect DEF TypeOK
<1>5. IsActive(last, s)'
  BY <1>1, <1>4 DEF IsActive
<1>6. ASSUME NEW n \in DOMAIN bus',
             \A k \in DOMAIN bus' : IsActive(k, s)' => k <= n
      PROVE  bus'[n].session = foremost'[s]
  <2>1. last <= n
    BY <1>4, <1>5, <1>6
  <2>2. n = last
    BY <1>3, <1>4, <2>1
  <2> QED
    BY <1>1, <1>4, <2>2
<1> QED
  BY <1>4, <1>5, <1>6 DEF SeatFollows

\* What the clients and the login manager do.
LEMMA OutsideFollows ==
  ASSUME TypeOK, Outside, NEW s \in Seat, SeatFollows(s)
  PROVE  SeatFollows(s)'
<1> USE DEF outsideVars, checkerVars
<1>1. ASSUME NEW c \in Client, AskInhibit(c) PROVE SeatFollows(s)'
  <2>1. [kind |-> "Inhibit", client |-> c] \in Message
    BY MessageMade
  <2> QED
    BY <1>1, <2>1, SentAside DEF AskInhibit
<1>2. ASSUME NEW c \in Client, AskUninhibit(c) PROVE SeatFollows(s)'
  <2>1. given[c] \in Cookie
    BY <1>2 DEF TypeOK, AskUninhibit
  <2>2. [kind |-> "Uninhibit", client |-> c, cookie |-> given[c]] \in Message
    BY <2>1, MessageMade
  <2> QED
    BY <1>2, <2>2, SentAside DEF AskUninhibit
<1>3. ASSUME NEW c \in Client, Disconnect(c) PROVE SeatFollows(s)'
  <2>1. [kind |-> "Gone", client |-> c] \in Message
    BY MessageMade
  <2> QED
    BY <1>3, <2>1, SentAside DEF Disconnect
<1>4. ASSUME NEW c \in Client, ReleaseName(c) PROVE SeatFollows(s)'
  <2>1. [kind |-> "Released", client |-> c] \in Message
    BY MessageMade
  <2> QED
    BY <1>4, <2>1, SentAside DEF ReleaseName
<1>5. ASSUME NEW x \in Seat, NEW sid \in Session \cup {NoSession}, SeatAppears(x, sid)
      PROVE  SeatFollows(s)'
  <2>1. [kind |-> "SeatNew", seat |-> x] \in Message
    BY MessageMade
  <2>2. \/ foremost'[s] = foremost[s] /\ (s \in present => s \in present')
        \/ s \notin present
    BY <1>5 DEF SeatAppears, TypeOK
  <2> QED
    BY <1>5, <2>1, <2>2, SentAside DEF SeatAppears
<1>6. ASSUME NEW x \in Seat, SeatVanishes(x) PROVE SeatFollows(s)'
  <2> DEFINE m == [kind |-> "SeatRemoved", seat |-> x]
  <2>1. m \in Message /\ m.kind = "SeatRemoved" /\ m.seat = x
    BY MessageMade
  <2>2. \/ foremost'[s] = foremost[s] /\ (s \in present => s \in present')
        \/ m.kind = "SeatRemoved" /\ m.seat = s
    BY <1>6 DEF SeatVanishes, TypeOK
  <2>3. Send(m) /\ UNCHANGED <<seats, active>>
    BY <1>6 DEF SeatVanishes
  <2> HIDE DEF m
  <2> QED
    BY <2>1, <2>2, <2>3, SentAside
<1>7. ASSUME NEW x \in Seat, NEW sid \in Session \cup {NoSession}, SwitchSession(x, sid)
      PROVE  SeatFollows(s)'
  <2>1. foremost' \in [Seat -> Session \cup {NoSession}] /\ foremost'[x] = sid
    BY <1>7 DEF SwitchSession, TypeOK
  <2>2. CASE x \notin seats
    <3>1. bus' = bus /\ UNCHANGED <<seats, active, present>>
      BY <1>7, <2>2 DEF SwitchSession
    <3>2. s # x => foremost'[s] = foremost[s]
      BY <1>7 DEF SwitchSession, TypeOK
    <3> QED
      BY <2>2, <3>1, <3>2 DEF SeatFollows, IsActive, IsRemoval
  <2>3. CASE x \in seats /\ s = x
    BY <1>7, <2>1, <2>3, SentActive DEF SwitchSession
  <2>4. CASE x \in seats /\ s # x
    <3> DEFINE m == [kind |-> "Active", seat |-> x, session |-> sid]
    <3>1. m \in Message /\ m.kind = "Active" /\ m.seat = x
      BY MessageMade
    <3>2. Send(m) /\ UNCHANGED <<seats, active, present>> /\ foremost'[s] = foremost[s]
      BY <1>7, <2>4 DEF SwitchSession, TypeOK
    <3> HIDE DEF m
    <3> QED
      BY <2>4, <3>1, <3>2, SentAside
  <2> QED
    BY <2>2, <2>3, <2>4
<1> QED
  BY <1>1, <1>2, <1>3, <1>4, <1>5, <1>6, <1>7 DEF Outside

\* A message that is read and is not about the seat's session or its removal.
LEMMA ReadAside ==
  ASSUME TypeOK, NEW s \in Seat, SeatFollows(s), NEW kind, Receive(kind),
         ~IsActive(1, s), ~IsRemoval(1, s),
         UNCHANGED <<present, foremost>>, active'[s] = active[s],
         s \in seats' <=> s \in seats
  PROVE  SeatFollows(s)'
<1>1. /\ 1 \in DOMAIN bus
      /\ \A n \in DOMAIN bus : n # 1 => n - 1 \in DOMAIN bus' /\ bus'[n - 1] = bus[n]
      /\ \A n \in DOMAIN bus' : n + 1 \in DOMAIN bus /\ bus'[n] = bus[n + 1]
      /\ DOMAIN bus \subseteq Nat /\ DOMAIN bus' \subseteq Nat
  BY ReceiveEffect DEF TypeOK
<1>2. \A n \in DOMAIN bus' : IsActive(n, s)' <=> IsActive(n + 1, s)
  BY <1>1 DEF IsActive
<1>3. \A n \in DOMAIN bus : IsActive(n, s) =>
         n \in Nat /\ n - 1 \in DOMAIN bus' /\ IsActive(n - 1, s)' /\ n - 1 \in Nat
  BY <1>1 DEF IsActive
<1>4. s \notin seats' => \A n \in DOMAIN bus' : ~IsActive(n, s)'
  BY <1>1, <1>2 DEF SeatFollows
<1>5. CASE \E n \in DOMAIN bus : IsRemoval(n, s)
  <2>1. PICK n \in DOMAIN bus : IsRemoval(n, s)
    BY <1>5
  <2>2. n - 1 \in DOMAIN bus' /\ IsRemoval(n - 1, s)'
    BY <1>1, <2>1 DEF IsRemoval
  <2> QED
    BY <1>4, <2>2 DEF SeatFollows
<1>6. CASE \A n \in DOMAIN bus : ~IsRemoval(n, s)
  <2> SUFFICES ASSUME s \in seats
               PROVE  /\ s \in present
                      /\ \A n \in DOMAIN bus' :
                           /\ IsActive(n, s)'
                           /\ \A k \in DOMAIN bus' : IsActive(k, s)' => k <= n
                           => bus'[n].session = foremost[s]
                      /\ (\A n \in DOMAIN bus' : ~IsActive(n, s)') => active[s] = foremost[s]
    BY <1>4 DEF SeatFollows
  <2>1. /\ s \in present
        /\ \A n \in DOMAIN bus :
             IsActive(n, s) /\ (\A k \in DOMAIN bus : IsActive(k, s) => k <= n)
               => bus[n].session = foremost[s]
        /\ (\A n \in DOMAIN bus : ~IsActive(n, s)) => active[s] = foremost[s]
    BY <1>6 DEF SeatFollows
  <2>2. ASSUME NEW n \in DOMAIN bus', IsActive(n, s)',
               \A k \in DOMAIN bus' : IsActive(k, s)' => k <= n
        PROVE  bus'[n].session = foremost[s]
    <3>1. n \in Nat /\ n + 1 \in DOMAIN bus /\ IsActive(n + 1, s) /\ bus'[n] = bus[n + 1]
      BY <1>1, <1>2, <2>2
    <3>2. ASSUME NEW k \in DOMAIN bus, IsActive(k, s) PROVE k <= n + 1
      <4>1. k \in Nat /\ k - 1 \in Nat /\ k - 1 <= n
        BY <1>3, <2>2, <3>2
      <4> QED
        BY <3>1, <4>1
    <3> QED
      BY <2>1, <3>1, <3>2
  <2>3. (\A n \in DOMAIN bus' : ~IsActive(n, s)') => \A n \in DOMAIN bus : ~IsActive(n, s)
    BY <1>3
  <2> QED
    BY <2>1, <2>2, <2>3
<1> QED
  BY <1>5, <1>6

\* Every handler keeps the seats' copies as new as their messages.
LEMMA HandleFollows ==
  ASSUME TypeOK, FollowsActive, Handle, NEW s \in Seat, SeatFollows(s)
  PROVE  SeatFollows(s)'
<1> USE DEF outsideVars, checkerVars
<1>1. ASSUME NEW kind, Receive(kind)
      PROVE  bus[1].kind = kind /\ 1 \in DOMAIN bus /\ Head(bus) = bus[1]
  BY <1>1, ReceiveEffect DEF TypeOK
<1>2. CASE HandleInhibit
  <2>1. UNCHANGED <<seats, active, present, foremost>> /\ Receive("Inhibit")
    BY <1>2 DEF HandleInhibit, Decide
  <2> QED
    BY <1>1, <2>1, ReadAside DEF IsActive, IsRemoval
<1>3. CASE HandleUninhibit
  <2>1. UNCHANGED <<seats, active, present, foremost>> /\ Receive("Uninhibit")
    BY <1>3 DEF HandleUninhibit
  <2> QED
    BY <1>1, <2>1, ReadAside DEF IsActive, IsRemoval
<1>4. CASE HandleOwnerChanged
  <2>1. /\ UNCHANGED <<seats, active, present, foremost>>
        /\ Receive("Gone") \/ Receive("Released")
    BY <1>4 DEF HandleOwnerChanged
  <2> QED
    BY <1>1, <2>1, ReadAside DEF IsActive, IsRemoval
<1>5. CASE HandleUnheard
  <2>1. UNCHANGED <<seats, active, present, foremost>> /\ Receive("Unheard")
    BY <1>5 DEF HandleUnheard
  <2> QED
    BY <1>1, <2>1, ReadAside DEF IsActive, IsRemoval
<1>6. CASE HandleSeatNew
  <2> DEFINE x == Head(bus).seat
  <2>1. Receive("SeatNew") /\ UNCHANGED <<present, foremost>> /\ x \in Seat
    BY <1>6, ReceiveEffect, MessageFields DEF HandleSeatNew, TypeOK
  <2>2. CASE UNCHANGED <<seats, active>>
    BY <1>1, <2>1, <2>2, ReadAside DEF IsActive, IsRemoval
  <2>3. CASE /\ x \notin seats /\ x \in present
             /\ seats' = seats \cup {x}
             /\ active' = [active EXCEPT ![x] = foremost[x]]
    <3>1. CASE s = x
      <4>1. \A n \in DOMAIN bus : ~IsActive(n, s)
        BY <2>3, <3>1 DEF SeatFollows
      <4>2. \A n \in DOMAIN bus' : ~IsActive(n, s)'
        BY <2>1, <4>1, ReceiveEffect DEF IsActive, TypeOK
      <4>3. active'[s] = foremost'[s] /\ s \in present' /\ s \in seats'
        BY <2>1, <2>3, <3>1 DEF TypeOK
      <4> QED
        BY <4>2, <4>3 DEF SeatFollows
    <3>2. CASE s # x
      <4>1. active'[s] = active[s] /\ (s \in seats' <=> s \in seats)
        BY <2>3, <3>2 DEF TypeOK
      <4> QED
        BY <1>1, <2>1, <4>1, ReadAside DEF IsActive, IsRemoval
    <3> QED
      BY <3>1, <3>2
  <2>4. \/ UNCHANGED <<seats, active>>
        \/ /\ x \notin seats /\ x \in present
           /\ seats' = seats \cup {x}
           /\ active' = [active EXCEPT ![x] = foremost[x]]
    BY <1>6 DEF HandleSeatNew, SeatAnswers
  <2> QED
    BY <2>2, <2>3, <2>4
<1>7. CASE HandleActive
  <2> DEFINE m == Head(bus)
  <2>1. /\ Receive("Active") /\ UNCHANGED <<seats, present, foremost>>
        /\ m.seat \in Seat /\ m = bus[1] /\ 1 \in DOMAIN bus /\ m.kind = "Active"
        /\ m.session \in Session \cup {NoSession}
    BY <1>7, ReceiveEffect, MessageFields DEF HandleActive, TypeOK
  <2>2. CASE s # m.seat
    <3>1. active'[s] = active[s]
      BY <1>7, <2>1, <2>2 DEF HandleActive, TypeOK
    <3> QED
      BY <2>1, <2>2, <3>1, ReadAside DEF IsActive, IsRemoval
  <2>3. CASE s = m.seat
    <3>1. IsActive(1, s) /\ s \in seats
      BY <2>1, <2>3 DEF IsActive, SeatFollows
    <3>2. active'[s] = bus[1].session
      BY <1>7, <2>1, <2>3, <3>1 DEF HandleActive, TypeOK
    <3>3. /\ \A n \in DOMAIN bus : n # 1 => n - 1 \in DOMAIN bus' /\ bus'[n - 1] = bus[n]
          /\ \A n \in DOMAIN bus' : n + 1 \in DOMAIN bus /\ bus'[n] = bus[n + 1]
          /\ DOMAIN bus \subseteq Nat /\ DOMAIN bus' \subseteq Nat
      BY <2>1, ReceiveEffect DEF TypeOK
    <3>4. CASE \E n \in DOMAIN bus : IsRemoval(n, s)
      <4>1. PICK n \in DOMAIN bus : IsRemoval(n, s)
        BY <3>4
      <4>2. n # 1 /\ n - 1 \in DOMAIN bus' /\ IsRemoval(n - 1, s)'
        BY <2>1, <3>3, <4>1 DEF IsRemoval
      <4> QED
        BY <2>1, <3>1, <4>2 DEF SeatFollows
    <3>5. CASE \A n \in DOMAIN bus : ~IsRemoval(n, s)
      <4>1. /\ s \in present
            /\ \A n \in DOMAIN bus :
                 IsActive(n, s) /\ (\A k \in DOMAIN bus : IsActive(k, s) => k <= n)
                   => bus[n].session = foremost[s]
        BY <3>1, <3>5 DEF SeatFollows
      <4>2. ASSUME NEW n \in DOMAIN bus', IsActive(n, s)',
                   \A k \in DOMAIN bus' : IsActive(k, s)' => k <= n
            PROVE  bus'[n].session = foremost'[s]
        <5>1. n \in Nat /\ n + 1 \in DOMAIN bus /\ IsActive(n + 1, s) /\ bus'[n] = bus[n + 1]
          BY <3>3, <4>2 DEF IsActive
        <5>2. ASSUME NEW k \in DOMAIN bus, IsActive(k, s), k # 1 PROVE k <= n + 1
          <6>1. k \in Nat /\ k - 1 \in DOMAIN bus' /\ IsActive(k - 1, s)'
            BY <3>3, <5>2 DEF IsActive
          <6>2. k - 1 <= n
            BY <4>2, <6>1
          <6> QED
            BY <5>1, <6>1, <6>2
        <5>3. 1 <= n + 1
          BY <5>1
        <5> QED
          BY <2>1, <4>1, <5>1, <5>2, <5>3
      <4>3. ASSUME \A n \in DOMAIN bus' : ~IsActive(n, s)'
            PROVE  active'[s] = foremost'[s]
        <5>1. ASSUME NEW k \in DOMAIN bus, IsActive(k, s) PROVE k <= 1
          <6>1. k # 1 => k - 1 \in DOMAIN bus' /\ IsActive(k - 1, s)'
            BY <3>3, <5>1 DEF IsActive
          <6> QED
            BY <3>3, <4>3, <6>1
        <5> QED
          BY <2>1, <3>1, <3>2, <4>1, <5>1
      <4> QED
        BY <2>1, <3>1, <4>1, <4>2, <4>3 DEF SeatFollows
    <3> QED
      BY <3>4, <3>5
  <2> QED
    BY <2>2, <2>3
<1>8. CASE HandleSeatRemoved
  <2> DEFINE x == Head(bus).seat
  <2>1. /\ x \in Seat /\ 1 \in DOMAIN bus /\ bus[1].kind = "SeatRemoved" /\ bus[1].seat = x
        /\ \A n \in DOMAIN bus : n # 1 =>
              /\ n - 1 \in DOMAIN bus'
              /\ bus'[n - 1] = IF bus[n].kind = "Active" /\ bus[n].seat = x
                               THEN [kind |-> "Unheard"] ELSE bus[n]
        /\ \A n \in DOMAIN bus' :
              /\ n + 1 \in DOMAIN bus
              /\ bus'[n] = IF bus[n + 1].kind = "Active" /\ bus[n + 1].seat = x
                           THEN [kind |-> "Unheard"] ELSE bus[n + 1]
        /\ DOMAIN bus \subseteq Nat /\ DOMAIN bus' \subseteq Nat
    BY <1>8, RemovedEffect, MessageFields DEF TypeOK
  <2>2. /\ seats' = seats \ {x} /\ active' = [active EXCEPT ![x] = NoSession]
        /\ UNCHANGED <<present, foremost>>
    BY <1>8 DEF HandleSeatRemoved
  <2> HIDE DEF x
  <2>3. CASE s = x
    <3>1. \A n \in DOMAIN bus' : ~IsActive(n, s)'
      BY <2>1, <2>3 DEF IsActive
    <3> QED
      BY <2>2, <2>3, <3>1 DEF SeatFollows
  <2>4. CASE s # x
    <3>1. \A n \in DOMAIN bus' : IsActive(n, s)' =>
             /\ n \in Nat /\ n + 1 \in DOMAIN bus /\ IsActive(n + 1, s)
             /\ bus'[n] = bus[n + 1]
      BY <2>1, <2>4 DEF IsActive
    <3>2. \A n \in DOMAIN bus : IsActive(n, s) =>
             n \in Nat /\ n - 1 \in DOMAIN bus' /\ IsActive(n - 1, s)' /\ n - 1 \in Nat
      BY <2>1, <2>4 DEF IsActive
    <3>3. active'[s] = active[s] /\ (s \in seats' <=> s \in seats)
      BY <2>2, <2>4 DEF TypeOK
    <3>4. s \notin seats' => \A n \in DOMAIN bus' : ~IsActive(n, s)'
      BY <3>1, <3>3 DEF SeatFollows
    <3>5. CASE \E n \in DOMAIN bus : IsRemoval(n, s)
      <4>1. PICK n \in DOMAIN bus : IsRemoval(n, s)
        BY <3>5
      <4>2. n # 1 /\ n - 1 \in DOMAIN bus' /\ IsRemoval(n - 1, s)'
        BY <2>1, <2>4, <4>1 DEF IsRemoval
      <4> QED
        BY <3>4, <4>2 DEF SeatFollows
    <3>6. CASE s \in seats /\ \A n \in DOMAIN bus : ~IsRemoval(n, s)
      <4>1. /\ s \in present
            /\ \A n \in DOMAIN bus :
                 IsActive(n, s) /\ (\A k \in DOMAIN bus : IsActive(k, s) => k <= n)
                   => bus[n].session = foremost[s]
            /\ (\A n \in DOMAIN bus : ~IsActive(n, s)) => active[s] = foremost[s]
        BY <3>6 DEF SeatFollows
      <4>2. ASSUME NEW n \in DOMAIN bus', IsActive(n, s)',
                   \A k \in DOMAIN bus' : IsActive(k, s)' => k <= n
            PROVE  bus'[n].session = foremost'[s]
        <5>1. n \in Nat /\ n + 1 \in DOMAIN bus /\ IsActive(n + 1, s) /\ bus'[n] = bus[n + 1]
          BY <3>1, <4>2
        <5>2. ASSUME NEW k \in DOMAIN bus, IsActive(k, s) PROVE k <= n + 1
          <6>1. k \in Nat /\ k - 1 \in Nat /\ k - 1 <= n
            BY <3>2, <4>2, <5>2
          <6> QED
            BY <5>1, <6>1
        <5> QED
          BY <2>2, <4>1, <5>1, <5>2
      <4>3. (\A n \in DOMAIN bus' : ~IsActive(n, s)') => active'[s] = foremost'[s]
        BY <2>2, <3>2, <3>3, <4>1
      <4> QED
        BY <2>2, <3>4, <4>1, <4>2, <4>3 DEF SeatFollows
    <3> QED
      BY <3>3, <3>4, <3>5, <3>6 DEF SeatFollows
  <2> QED
    BY <2>3, <2>4
<1> QED
  BY <1>2, <1>3, <1>4, <1>5, <1>6, <1>7, <1>8 DEF Handle

\* With a callback that recognises a change (ConsoleKit's), keys are inhibited
\* exactly while the session of an inhibitor is the active one of a seat that the
\* daemon knows, once it has read its messages (seat_active_changed, seat_added
\* and seat_removed of the session checker, urf_seat_proxy_signal_cb).
THEOREM DecisionCurrentAlways ==
  ASSUME FollowsActive
  PROVE  Spec => []DecisionCurrent
<1> DEFINE SeatsFollow == \A s \in Seat : SeatFollows(s)
<1>1. Init => SeatsFollow
  BY DEF Init, SeatFollows
<1>2. TypeOK /\ SeatsFollow /\ [Next]_svars => SeatsFollow'
  <2> SUFFICES ASSUME TypeOK, SeatsFollow, [Next]_svars, NEW s \in Seat
               PROVE  SeatFollows(s)'
    OBVIOUS
  <2>1. CASE Next
    BY <2>1, OutsideFollows, HandleFollows DEF Next
  <2>2. CASE UNCHANGED svars
    BY <2>2 DEF svars, outsideVars, checkerVars, SeatFollows, IsActive, IsRemoval
  <2> QED
    BY <2>1, <2>2
<1>3. TypeOK /\ SeatsFollow /\ DecisionFresh => DecisionCurrent
  <2> SUFFICES ASSUME TypeOK, SeatsFollow, DecisionFresh, bus = <<>>, ~stale
               PROVE  inhibit <=> IsInhibited(inhibitors, seats, foremost)
    BY DEF DecisionCurrent
  <2>1. DOMAIN bus = {}
    OBVIOUS
  <2>2. \A s \in seats : active[s] = foremost[s]
    BY <2>1 DEF SeatFollows, TypeOK
  <2> QED
    BY <2>2 DEF DecisionFresh, IsInhibited, TypeOK
<1> QED
  BY <1>1, <1>2, <1>3, SessionTypeCorrect, DecisionFreshAlways, PTL DEF Spec

(***************************************************************************)
(* The cookies that clients count on.                                      *)
(***************************************************************************)
\* A client that has left is not on the bus, and gives no cookie back after it
\* has left, nor while it waits for the next one.
BusOrder ==
  /\ \A n \in DOMAIN bus : bus[n].kind = "Gone" => bus[n].client \notin alive
  /\ \A n, m \in DOMAIN bus :
       (/\ bus[m].kind = "Uninhibit" /\ bus[n].kind \in {"Inhibit", "Gone"}
        /\ bus[n].client = bus[m].client) => m < n

\* A cookie that is on its way back, unless lost, is on its way once, is that of
\* its client's inhibitor, and no client counts on it any more.
Returned ==
  \A n \in DOMAIN bus : bus[n].kind = "Uninhibit" =>
    /\ \A i \in inhibitors : i.client = bus[n].client => i.cookie = bus[n].cookie
    /\ bus[n].cookie \notin lost =>
         /\ \A m \in DOMAIN bus :
              bus[m].kind = "Uninhibit" /\ bus[m].cookie = bus[n].cookie => m = n
         /\ \E i \in inhibitors : i.cookie = bus[n].cookie /\ i.client = bus[n].client
         /\ \A c \in alive : given[c] # bus[n].cookie

\* What a client counts on against the inhibitors that it has.
Counted ==
  \A c \in alive :
    /\ given[c] \notin lost \cup {NoCookie} =>
         \E i \in inhibitors : i.cookie = given[c] /\ i.client = c
    /\ \A i \in inhibitors : i.client = c =>
         /\ given[c] # NoCookie => i.cookie = given[c]
         /\ \/ given[c] # NoCookie
            \/ \E n \in DOMAIN bus : bus[n].kind = "Uninhibit" /\ bus[n].client = c

OwnSessions == \A i \in inhibitors : i.session = SessionOf[i.client]

\* Every handler reads the first message and keeps the others, but for those of
\* a seat that nobody hears any more.
LEMMA HandleShifts ==
  ASSUME TypeOK, Handle
  PROVE  /\ 1 \in DOMAIN bus /\ Head(bus) = bus[1] /\ bus[1] \in Message
         /\ DOMAIN bus \subseteq Nat /\ DOMAIN bus' \subseteq Nat
         /\ \A n \in DOMAIN bus : n # 1 /\ bus[n].kind # "Active" =>
               n - 1 \in DOMAIN bus' /\ bus'[n - 1] = bus[n]
         /\ \A n \in DOMAIN bus' :
               /\ n + 1 \in DOMAIN bus
               /\ bus'[n].kind # "Unheard" => bus'[n] = bus[n + 1]
<1>1. CASE HandleSeatRemoved
  BY <1>1, RemovedEffect DEF TypeOK
<1>2. CASE \E kind : Receive(kind)
  <2>1. PICK kind : Receive(kind)
    BY <1>2
  <2> QED
    BY <2>1, ReceiveEffect DEF TypeOK
<1> QED
  BY <1>1, <1>2 DEF Handle, HandleInhibit, HandleUninhibit, HandleOwnerChanged,
                    HandleSeatNew, HandleActive, HandleUnheard

LEMMA HandleKeepsAlive == ASSUME Handle PROVE alive' = alive
  BY DEF Handle, HandleInhibit, HandleUninhibit, HandleOwnerChanged, HandleSeatNew,
         HandleSeatRemoved, HandleActive, HandleUnheard, outsideVars

LEMMA HandleOrder == ASSUME TypeOK, Handle, BusOrder PROVE BusOrder'
<1>1. /\ DOMAIN bus \subseteq Nat /\ DOMAIN bus' \subseteq Nat
      /\ \A n \in DOMAIN bus' :
            /\ n + 1 \in DOMAIN bus
            /\ bus'[n].kind # "Unheard" => bus'[n] = bus[n + 1]
  BY HandleShifts
<1>2. ASSUME NEW n \in DOMAIN bus', bus'[n].kind = "Gone"
      PROVE  bus'[n].client \notin alive'
  BY <1>1, <1>2, HandleKeepsAlive DEF BusOrder
<1>3. ASSUME NEW n \in DOMAIN bus', NEW m \in DOMAIN bus',
             bus'[m].kind = "Uninhibit", bus'[n].kind \in {"Inhibit", "Gone"},
             bus'[n].client = bus'[m].client
      PROVE  m < n
  <2>1. m + 1 < n + 1
    BY <1>1, <1>3 DEF BusOrder
  <2> QED
    BY <1>1, <2>1
<1> QED
  BY <1>2, <1>3 DEF BusOrder

\* A message is sent.
LEMMA SentOrder ==
  ASSUME TypeOK, BusOrder, NEW m \in Message, Send(m), alive' \subseteq alive,
         m.kind = "Gone" => m.client \notin alive',
         m.kind = "Uninhibit" =>
            \A n \in DOMAIN bus : bus[n].kind \in {"Inhibit", "Gone"} => bus[n].client # m.client
  PROVE  BusOrder'
<1>1. PICK last \in Nat : last = Len(bus) + 1
  BY LenProperties DEF TypeOK
<1>2. /\ \A n \in DOMAIN bus : n \in Nat /\ n < last /\ bus'[n] = bus[n]
      /\ last \in DOMAIN bus' /\ bus'[last] = m
      /\ \A n \in DOMAIN bus' : n \in DOMAIN bus \/ n = last
  BY <1>1, SendEffect DEF TypeOK
<1>3. ASSUME NEW n \in DOMAIN bus', bus'[n].kind = "Gone"
      PROVE  bus'[n].client \notin alive'
  BY <1>2, <1>3 DEF BusOrder
<1>4. ASSUME NEW n \in DOMAIN bus', NEW k \in DOMAIN bus',
             bus'[k].kind = "Uninhibit", bus'[n].kind \in {"Inhibit", "Gone"},
             bus'[n].client = bus'[k].client
      PROVE  k < n
  <2>1. CASE k = last
    BY <1>2, <1>4, <2>1
  <2>2. CASE k # last /\ n = last
    BY <1>2, <2>2
  <2>3. CASE k # last /\ n # last
    BY <1>2, <1>4, <2>3 DEF BusOrder
  <2> QED
    BY <2>1, <2>2, <2>3
<1> QED
  BY <1>3, <1>4 DEF BusOrder

LEMMA BusPositions == ASSUME TypeOK PROVE \A n \in DOMAIN bus : n \in Nat /\ 1 <= n
<1>1. DOMAIN bus = 1..Len(bus) /\ Len(bus) \in Nat
  BY LenProperties DEF TypeOK
<1> QED
  BY <1>1

Accounts == Returned /\ Counted /\ OwnSessions

\* ... that gives no cookie back, and nobody counts on another one.
LEMMA SentAccounts ==
  ASSUME TypeOK, Accounts, NEW m \in Message, Send(m), m.kind # "Uninhibit",
         alive' \subseteq alive, \A c \in alive' : given'[c] = given[c],
         UNCHANGED <<inhibitors, lost>>
  PROVE  Accounts'
<1>1. /\ \A n \in DOMAIN bus : n \in DOMAIN bus' /\ bus'[n] = bus[n]
      /\ \A n \in DOMAIN bus' : bus'[n].kind = "Uninhibit" =>
            n \in DOMAIN bus /\ bus'[n] = bus[n]
  BY SendEffect DEF TypeOK
<1>2. Returned'
  BY <1>1 DEF Accounts, Returned
<1>3. Counted'
  BY <1>1 DEF Accounts, Counted
<1>4. OwnSessions'
  BY DEF Accounts, OwnSessions
<1> QED
  BY <1>2, <1>3, <1>4 DEF Accounts

\* A client gives the cookie back that it counts on.
LEMMA AskUninhibitAccounts ==
  ASSUME TypeOK, Accounts, NEW c \in Client, AskUninhibit(c)
  PROVE  Accounts'
<1> USE DEF outsideVars, checkerVars
<1> DEFINE k == given[c]
           m == [kind |-> "Uninhibit", client |-> c, cookie |-> k]
<1>1. /\ c \in alive /\ k \in Cookie /\ k # NoCookie
      /\ given' = [given EXCEPT ![c] = NoCookie]
      /\ UNCHANGED <<alive, inhibitors, lost>>
  BY DEF AskUninhibit, TypeOK
<1>2. m \in Message /\ Send(m) /\ m.kind = "Uninhibit" /\ m.client = c /\ m.cookie = k
  BY <1>1, MessageMade DEF AskUninhibit
<1> HIDE DEF m
<1>3. PICK last \in Nat : last = Len(bus) + 1
  BY LenProperties DEF TypeOK
<1>4. /\ \A n \in DOMAIN bus : n \in DOMAIN bus' /\ n # last /\ bus'[n] = bus[n]
      /\ last \in DOMAIN bus' /\ bus'[last] = m
      /\ \A n \in DOMAIN bus' : n \in DOMAIN bus \/ n = last
  BY <1>2, <1>3, SendEffect DEF TypeOK
<1>5. /\ given'[c] = NoCookie
      /\ \A x \in alive : given[x] \in Cookie \cup {NoCookie}
      /\ \A x \in alive : x # c => given'[x] = given[x]
  BY <1>1 DEF TypeOK
<1>6. k \notin lost => \E i \in inhibitors : i.cookie = k /\ i.client = c
  BY <1>1 DEF Accounts, Counted
<1>7. \A i \in inhibitors : i.client = c => i.cookie = k
  BY <1>1 DEF Accounts, Counted
\* No other client has the cookie, and no other message brings it.
<1>8. ASSUME k \notin lost, NEW x \in alive, x # c PROVE given[x] # k
  <2>1. ASSUME given[x] = k PROVE FALSE
    <3>1. PICK i \in inhibitors : i.cookie = k /\ i.client = c
      BY <1>6, <1>8
    <3>2. PICK j \in inhibitors : j.cookie = k /\ j.client = x
      BY <1>1, <1>8, <2>1 DEF Accounts, Counted
    <3>3. i = j
      BY <3>1, <3>2 DEF TypeOK
    <3> QED
      BY <1>8, <3>1, <3>2, <3>3
  <2> QED
    BY <2>1
<1>9. ASSUME k \notin lost, NEW n \in DOMAIN bus, bus[n].kind = "Uninhibit"
      PROVE  bus[n].cookie # k
  BY <1>1, <1>9 DEF Accounts, Returned
<1>10. NoCookie \notin Cookie
  BY SessionAssumption
<1>11. Returned'
  <2> SUFFICES ASSUME NEW n \in DOMAIN bus', bus'[n].kind = "Uninhibit"
               PROVE  /\ \A i \in inhibitors :
                           i.client = bus'[n].client => i.cookie = bus'[n].cookie
                      /\ bus'[n].cookie \notin lost =>
                           /\ \A j \in DOMAIN bus' :
                                bus'[j].kind = "Uninhibit" /\ bus'[j].cookie = bus'[n].cookie
                                  => j = n
                           /\ \E i \in inhibitors :
                                i.cookie = bus'[n].cookie /\ i.client = bus'[n].client
                           /\ \A x \in alive : given'[x] # bus'[n].cookie
    BY <1>1 DEF Returned
  <2>1. CASE n = last
    <3>1. bus'[n].cookie = k /\ bus'[n].client = c
      BY <1>2, <1>4, <2>1
    <3>2. \A i \in inhibitors : i.client = bus'[n].client => i.cookie = bus'[n].cookie
      BY <1>7, <3>1
    <3>3. ASSUME k \notin lost
          PROVE  /\ \A j \in DOMAIN bus' :
                      bus'[j].kind = "Uninhibit" /\ bus'[j].cookie = k => j = n
                 /\ \E i \in inhibitors : i.cookie = k /\ i.client = c
                 /\ \A x \in alive : given'[x] # k
      <4>1. \A j \in DOMAIN bus' :
              bus'[j].kind = "Uninhibit" /\ bus'[j].cookie = k => j = n
        BY <1>4, <1>9, <2>1, <3>3
      <4>2. \A x \in alive : given'[x] # k
        BY <1>1, <1>5, <1>8, <1>10, <3>3
      <4> QED
        BY <1>6, <3>3, <4>1, <4>2
    <3> QED
      BY <3>1, <3>2, <3>3
  <2>2. CASE n \in DOMAIN bus
    <3>1. bus'[n] = bus[n] /\ bus[n].cookie \in Cookie
      BY <1>4, <2>2, MessageFields, ElementOfBus DEF TypeOK
    <3>2. \A i \in inhibitors : i.client = bus'[n].client => i.cookie = bus'[n].cookie
      BY <2>2, <3>1 DEF Accounts, Returned
    <3>3. ASSUME bus[n].cookie \notin lost
          PROVE  /\ \A j \in DOMAIN bus' :
                      bus'[j].kind = "Uninhibit" /\ bus'[j].cookie = bus[n].cookie => j = n
                 /\ \E i \in inhibitors : i.cookie = bus[n].cookie /\ i.client = bus[n].client
                 /\ \A x \in alive : given'[x] # bus[n].cookie
      <4>1. /\ \A j \in DOMAIN bus :
                 bus[j].kind = "Uninhibit" /\ bus[j].cookie = bus[n].cookie => j = n
            /\ \E i \in inhibitors : i.cookie = bus[n].cookie /\ i.client = bus[n].client
            /\ \A x \in alive : given[x] # bus[n].cookie
        BY <2>2, <3>1, <3>3 DEF Accounts, Returned
      <4>2. \A j \in DOMAIN bus' :
              bus'[j].kind = "Uninhibit" /\ bus'[j].cookie = bus[n].cookie => j = n
        BY <1>1, <1>2, <1>4, <4>1
      <4>3. \A x \in alive : given'[x] # bus[n].cookie
        BY <1>5, <1>10, <3>1, <4>1
      <4> QED
        BY <4>1, <4>2, <4>3
    <3> QED
      BY <3>1, <3>2, <3>3
  <2> QED
    BY <1>4, <2>1, <2>2
<1>12. Counted'
  <2> SUFFICES ASSUME NEW x \in alive
               PROVE  /\ given'[x] \notin lost \cup {NoCookie} =>
                           \E i \in inhibitors : i.cookie = given'[x] /\ i.client = x
                      /\ \A i \in inhibitors : i.client = x =>
                           /\ given'[x] # NoCookie => i.cookie = given'[x]
                           /\ \/ given'[x] # NoCookie
                              \/ \E n \in DOMAIN bus' :
                                   bus'[n].kind = "Uninhibit" /\ bus'[n].client = x
    BY <1>1 DEF Counted
  <2>1. CASE x = c
    BY <1>2, <1>4, <1>5, <2>1
  <2>2. CASE x # c
    BY <1>4, <1>5, <2>2 DEF Accounts, Counted
  <2> QED
    BY <2>1, <2>2
<1>13. OwnSessions'
  BY <1>1 DEF Accounts, OwnSessions
<1> QED
  BY <1>11, <1>12, <1>13 DEF Accounts

LEMMA OutsideCookies ==
  ASSUME TypeOK, Outside, BusOrder, Accounts
  PROVE  BusOrder' /\ Accounts'
<1> USE DEF outsideVars, checkerVars
<1>1. ASSUME NEW m \in Message, Send(m), m.kind \notin {"Gone", "Uninhibit"},
             UNCHANGED <<alive, given, inhibitors, lost>>
      PROVE  BusOrder' /\ Accounts'
  BY <1>1, SentOrder, SentAccounts
<1>2. ASSUME NEW c \in Client, AskInhibit(c) PROVE BusOrder' /\ Accounts'
  <2>1. [kind |-> "Inhibit", client |-> c] \in Message
    BY MessageMade
  <2> QED
    BY <1>1, <1>2, <2>1 DEF AskInhibit
<1>3. ASSUME NEW c \in Client, AskUninhibit(c) PROVE BusOrder' /\ Accounts'
  <2> DEFINE m == [kind |-> "Uninhibit", client |-> c, cookie |-> given[c]]
  <2>1. given[c] \in Cookie /\ c \in alive /\ alive' = alive /\ ~Waiting(c)
    BY <1>3 DEF TypeOK, AskUninhibit
  <2>2. m \in Message /\ Send(m) /\ m.kind = "Uninhibit" /\ m.client = c
    BY <1>3, <2>1, MessageMade DEF AskUninhibit
  <2> HIDE DEF m
  <2>3. \A n \in DOMAIN bus : bus[n].kind \in {"Inhibit", "Gone"} => bus[n].client # m.client
    BY <2>1, <2>2 DEF BusOrder, Waiting
  <2>4. BusOrder'
    BY <2>1, <2>2, <2>3, SentOrder
  <2> QED
    BY <1>3, <2>4, AskUninhibitAccounts
<1>4. ASSUME NEW c \in Client, Disconnect(c) PROVE BusOrder' /\ Accounts'
  <2> DEFINE m == [kind |-> "Gone", client |-> c]
  <2>1. m \in Message /\ Send(m) /\ m.kind = "Gone" /\ m.client = c
    BY <1>4, MessageMade DEF Disconnect
  <2>2. /\ alive' = alive \ {c} /\ UNCHANGED <<inhibitors, lost>>
        /\ \A x \in alive' : given'[x] = given[x]
    BY <1>4 DEF Disconnect, TypeOK
  <2> HIDE DEF m
  <2>3. BusOrder'
    BY <2>1, <2>2, SentOrder
  <2>4. Accounts'
    BY <2>1, <2>2, SentAccounts
  <2> QED
    BY <2>3, <2>4
<1>5. ASSUME NEW c \in Client, ReleaseName(c) PROVE BusOrder' /\ Accounts'
  <2>1. [kind |-> "Released", client |-> c] \in Message
    BY MessageMade
  <2> QED
    BY <1>1, <1>5, <2>1 DEF ReleaseName
<1>6. ASSUME NEW s \in Seat, NEW sid \in Session \cup {NoSession}, SeatAppears(s, sid)
      PROVE  BusOrder' /\ Accounts'
  <2>1. [kind |-> "SeatNew", seat |-> s] \in Message
    BY MessageMade
  <2> QED
    BY <1>1, <1>6, <2>1 DEF SeatAppears
<1>7. ASSUME NEW s \in Seat, SeatVanishes(s) PROVE BusOrder' /\ Accounts'
  <2>1. [kind |-> "SeatRemoved", seat |-> s] \in Message
    BY MessageMade
  <2> QED
    BY <1>1, <1>7, <2>1 DEF SeatVanishes
<1>8. ASSUME NEW s \in Seat, NEW sid \in Session \cup {NoSession}, SwitchSession(s, sid)
      PROVE  BusOrder' /\ Accounts'
  <2>1. CASE s \in seats
    <3>1. [kind |-> "Active", seat |-> s, session |-> sid] \in Message
      BY MessageMade
    <3> QED
      BY <1>1, <1>8, <2>1, <3>1 DEF SwitchSession
  <2>2. CASE s \notin seats
    BY <1>8, <2>2 DEF SwitchSession, BusOrder, Accounts, Returned, Counted, OwnSessions
  <2> QED
    BY <2>1, <2>2
<1> QED
  BY <1>2, <1>3, <1>4, <1>5, <1>6, <1>7, <1>8 DEF Outside

\* A message that is read and is none of a client.
LEMMA ReadAccounts ==
  ASSUME TypeOK, Handle, Accounts, bus[1].kind # "Uninhibit",
         UNCHANGED <<given, inhibitors, lost>>
  PROVE  Accounts'
<1>1. alive' = alive
  BY HandleKeepsAlive
<1>2. /\ DOMAIN bus \subseteq Nat /\ DOMAIN bus' \subseteq Nat
      /\ \A n \in DOMAIN bus : bus[n].kind = "Uninhibit" =>
            n - 1 \in DOMAIN bus' /\ bus'[n - 1] = bus[n]
      /\ \A n \in DOMAIN bus' : bus'[n].kind = "Uninhibit" =>
            n + 1 \in DOMAIN bus /\ bus'[n] = bus[n + 1]
  BY HandleShifts
<1>3. Returned'
  <2> SUFFICES ASSUME NEW n \in DOMAIN bus', bus'[n].kind = "Uninhibit"
               PROVE  /\ \A i \in inhibitors :
                           i.client = bus'[n].client => i.cookie = bus'[n].cookie
                      /\ bus'[n].cookie \notin lost =>
                           /\ \A j \in DOMAIN bus' :
                                bus'[j].kind = "Uninhibit" /\ bus'[j].cookie = bus'[n].cookie
                                  => j = n
                           /\ \E i \in inhibitors :
                                i.cookie = bus'[n].cookie /\ i.client = bus'[n].client
                           /\ \A x \in alive : given[x] # bus'[n].cookie
    BY <1>1 DEF Returned
  <2>1. n \in Nat /\ n + 1 \in DOMAIN bus /\ bus'[n] = bus[n + 1]
    BY <1>2
  <2>2. ASSUME bus[n + 1].cookie \notin lost,
               NEW j \in DOMAIN bus', bus'[j].kind = "Uninhibit",
               bus'[j].cookie = bus'[n].cookie
        PROVE  j = n
    <3>1. j \in Nat /\ j + 1 \in DOMAIN bus /\ bus'[j] = bus[j + 1]
      BY <1>2, <2>2
    <3>2. j + 1 = n + 1
      BY <2>1, <2>2, <3>1 DEF Accounts, Returned
    <3> QED
      BY <2>1, <3>1, <3>2
  <2> QED
    BY <2>1, <2>2 DEF Accounts, Returned
<1>4. Counted'
  BY <1>1, <1>2 DEF Accounts, Counted
<1>5. OwnSessions'
  BY DEF Accounts, OwnSessions
<1> QED
  BY <1>3, <1>4, <1>5 DEF Accounts

\* The answer to Inhibit: the client has no cookie on its way back.
LEMMA HandleInhibitAccounts ==
  ASSUME TypeOK, BusOrder, Accounts, HandleInhibit
  PROVE  Accounts'
<1> DEFINE c == Head(bus).client
<1> USE DEF outsideVars
<1>1. /\ Receive("Inhibit") /\ c \in Client /\ bus[1].kind = "Inhibit" /\ bus[1].client = c
      /\ 1 \in DOMAIN bus /\ UNCHANGED <<alive, lost>>
  BY ReceiveEffect, MessageFields DEF HandleInhibit, TypeOK
<1>2. /\ DOMAIN bus \subseteq Nat /\ DOMAIN bus' \subseteq Nat
      /\ \A n \in DOMAIN bus : bus[n].kind = "Uninhibit" =>
            n - 1 \in DOMAIN bus' /\ bus'[n - 1] = bus[n]
      /\ \A n \in DOMAIN bus' : n + 1 \in DOMAIN bus /\ bus'[n] = bus[n + 1]
  BY <1>1, ReceiveEffect DEF TypeOK
<1>3. \A n \in DOMAIN bus : bus[n].kind = "Uninhibit" => bus[n].client # c
  BY <1>1, <1>2 DEF BusOrder
<1> HIDE DEF c
<1>4. /\ \A x \in Client : x # c => given'[x] = given[x]
      /\ inhibitors \subseteq inhibitors'
      /\ \A i \in inhibitors' : i \in inhibitors \/ (i.client = c /\ i.session = SessionOf[c])
      /\ c \in alive => \A i \in inhibitors' : i.client = c => i.cookie = given'[c]
      /\ given'[c] = NoCookie \/ \E i \in inhibitors' : i.cookie = given'[c] /\ i.client = c
      /\ c \in alive /\ given'[c] = NoCookie => \A i \in inhibitors' : i.client # c
      /\ \A i, j \in inhibitors' : i.cookie = j.cookie => i = j
      /\ given'[c] \in Cookie \cup {NoCookie}
  <2>1. CASE InhibitorsOf(c) # {}
    <3> DEFINE i == CHOOSE x \in InhibitorsOf(c) : TRUE
    <3>1. i \in inhibitors /\ i.client = c
      BY <2>1 DEF InhibitorsOf
    <3>2. /\ given' = [given EXCEPT ![c] = IF c \in alive THEN i.cookie ELSE NoCookie]
          /\ inhibitors' = inhibitors
      BY <2>1 DEF HandleInhibit, c
    <3> HIDE DEF i
    <3>3. \A j \in inhibitors : j.client = c => j = i
      BY <3>1 DEF TypeOK
    <3>4. i.cookie \in Cookie /\ i.cookie # NoCookie
      BY <3>1, SessionAssumption DEF TypeOK, Inhibitor
    <3>5. /\ given'[c] = IF c \in alive THEN i.cookie ELSE NoCookie
          /\ \A x \in Client : x # c => given'[x] = given[x]
      BY <1>1, <3>2 DEF TypeOK
    <3> QED
      BY <3>1, <3>2, <3>3, <3>4, <3>5 DEF TypeOK
  <2>2. CASE InhibitorsOf(c) = {} /\ FindSession(c) = NoSession
    <3>1. given' = [given EXCEPT ![c] = NoCookie] /\ inhibitors' = inhibitors
      BY <2>2 DEF HandleInhibit, c
    <3>2. given'[c] = NoCookie /\ \A x \in Client : x # c => given'[x] = given[x]
      BY <1>1, <3>1 DEF TypeOK
    <3>3. \A i \in inhibitors : i.client # c
      BY <2>2 DEF InhibitorsOf
    <3> QED
      BY <3>1, <3>2, <3>3 DEF TypeOK
  <2>3. CASE InhibitorsOf(c) = {} /\ FindSession(c) # NoSession
    <3>1. PICK k \in FreeCookies :
            /\ inhibitors' = inhibitors \cup
                  {[cookie |-> k, session |-> FindSession(c), client |-> c]}
            /\ given' = [given EXCEPT ![c] = k]
      BY <2>3 DEF HandleInhibit, Decide, c
    <3> DEFINE new == [cookie |-> k, session |-> FindSession(c), client |-> c]
    <3>2. new.cookie = k /\ new.session = SessionOf[c] /\ new.client = c
      BY <2>3 DEF FindSession
    <3>3. k \in Cookie /\ k # NoCookie /\ \A i \in inhibitors : i.cookie # k /\ i.client # c
      BY <2>3, SessionAssumption DEF FreeCookies, InhibitorsOf
    <3>4. inhibitors' = inhibitors \cup {new}
      BY <3>1
    <3> HIDE DEF new
    <3>5. given'[c] = k /\ \A x \in Client : x # c => given'[x] = given[x]
      BY <1>1, <3>1 DEF TypeOK
    <3> QED
      BY <3>2, <3>3, <3>4, <3>5 DEF TypeOK
  <2> QED
    BY <2>1, <2>2, <2>3
<1>5. \A x \in alive : x \in Client
  BY DEF TypeOK
<1>6. Returned'
  <2> SUFFICES ASSUME NEW n \in DOMAIN bus', bus'[n].kind = "Uninhibit"
               PROVE  /\ \A i \in inhibitors' :
                           i.client = bus'[n].client => i.cookie = bus'[n].cookie
                      /\ bus'[n].cookie \notin lost =>
                           /\ \A j \in DOMAIN bus' :
                                bus'[j].kind = "Uninhibit" /\ bus'[j].cookie = bus'[n].cookie
                                  => j = n
                           /\ \E i \in inhibitors' :
                                i.cookie = bus'[n].cookie /\ i.client = bus'[n].client
                           /\ \A x \in alive : given'[x] # bus'[n].cookie
    BY <1>1 DEF Returned
  <2>1. n \in Nat /\ n + 1 \in DOMAIN bus /\ bus'[n] = bus[n + 1] /\ bus[n + 1].client # c
        /\ bus[n + 1].cookie \in Cookie
    BY <1>2, <1>3, ElementOfBus, MessageFields
  <2>2. \A i \in inhibitors' : i.client = bus'[n].client => i.cookie = bus'[n].cookie
    BY <1>4, <2>1 DEF Accounts, Returned
  <2>3. ASSUME bus[n + 1].cookie \notin lost
        PROVE  /\ \A j \in DOMAIN bus' :
                    bus'[j].kind = "Uninhibit" /\ bus'[j].cookie = bus'[n].cookie => j = n
               /\ \E i \in inhibitors' :
                    i.cookie = bus'[n].cookie /\ i.client = bus'[n].client
               /\ \A x \in alive : given'[x] # bus'[n].cookie
    <3>1. ASSUME NEW j \in DOMAIN bus', bus'[j].kind = "Uninhibit",
                 bus'[j].cookie = bus'[n].cookie
          PROVE  j = n
      <4>1. j \in Nat /\ j + 1 \in DOMAIN bus /\ bus'[j] = bus[j + 1]
        BY <1>2
      <4>2. j + 1 = n + 1
        BY <2>1, <2>3, <3>1, <4>1 DEF Accounts, Returned
      <4> QED
        BY <2>1, <4>1, <4>2
    <3>2. PICK i \in inhibitors : i.cookie = bus'[n].cookie /\ i.client = bus'[n].client
      BY <2>1, <2>3 DEF Accounts, Returned
    <3>3. \A x \in alive : given[x] # bus'[n].cookie
      BY <2>1, <2>3 DEF Accounts, Returned
    <3>4. given'[c] # bus'[n].cookie
      <4>1. ASSUME given'[c] = bus'[n].cookie PROVE FALSE
        <5>1. bus'[n].cookie # NoCookie
          BY <2>1, SessionAssumption
        <5>2. PICK j \in inhibitors' : j.cookie = given'[c] /\ j.client = c
          BY <1>4, <4>1, <5>1
        <5>3. i \in inhibitors' /\ i = j
          BY <1>4, <3>2, <4>1, <5>2
        <5> QED
          BY <2>1, <3>2, <5>2, <5>3
      <4> QED
        BY <4>1
    <3> QED
      BY <1>4, <1>5, <3>1, <3>2, <3>3, <3>4
  <2> QED
    BY <2>1, <2>2, <2>3
<1>7. Counted'
  <2> SUFFICES ASSUME NEW x \in alive
               PROVE  /\ given'[x] \notin lost \cup {NoCookie} =>
                           \E i \in inhibitors' : i.cookie = given'[x] /\ i.client = x
                      /\ \A i \in inhibitors' : i.client = x =>
                           /\ given'[x] # NoCookie => i.cookie = given'[x]
                           /\ \/ given'[x] # NoCookie
                              \/ \E n \in DOMAIN bus' :
                                   bus'[n].kind = "Uninhibit" /\ bus'[n].client = x
    BY <1>1 DEF Counted
  <2>1. CASE x = c
    BY <1>4, <2>1
  <2>2. CASE x # c
    BY <1>2, <1>4, <1>5, <2>2 DEF Accounts, Counted
  <2> QED
    BY <2>1, <2>2
<1>8. OwnSessions'
  BY <1>4 DEF Accounts, OwnSessions
<1> QED
  BY <1>6, <1>7, <1>8 DEF Accounts

\* Inhibitors that go, with the message that takes them away: none of them is
\* one that a client counts on or that another message will take away, unless it
\* is lost.
LEMMA RemoveAccounts ==
  ASSUME TypeOK, Handle, Accounts, NEW gone \in SUBSET inhibitors,
         inhibitors' = inhibitors \ gone,
         given' = given, lost \subseteq lost',
         \A i \in gone, x \in alive :
            i.client = x /\ given[x] = i.cookie => i.cookie \in lost',
         \A i \in gone, n \in DOMAIN bus :
            n # 1 /\ bus[n].kind = "Uninhibit" /\ bus[n].cookie = i.cookie => i.cookie \in lost',
         bus[1].kind = "Uninhibit" =>
            \A i \in inhibitors : i.client = bus[1].client => i \in gone
  PROVE  Accounts'
<1>1. alive' = alive
  BY HandleKeepsAlive
<1>2. /\ DOMAIN bus \subseteq Nat /\ DOMAIN bus' \subseteq Nat
      /\ \A n \in DOMAIN bus : bus[n].kind = "Uninhibit" /\ n # 1 =>
            n - 1 \in DOMAIN bus' /\ bus'[n - 1] = bus[n]
      /\ \A n \in DOMAIN bus' : bus'[n].kind = "Uninhibit" =>
            n + 1 \in DOMAIN bus /\ bus'[n] = bus[n + 1]
  BY HandleShifts
<1>3. Returned'
  <2> SUFFICES ASSUME NEW n \in DOMAIN bus', bus'[n].kind = "Uninhibit"
               PROVE  /\ \A i \in inhibitors' :
                           i.client = bus'[n].client => i.cookie = bus'[n].cookie
                      /\ bus'[n].cookie \notin lost' =>
                           /\ \A j \in DOMAIN bus' :
                                bus'[j].kind = "Uninhibit" /\ bus'[j].cookie = bus'[n].cookie
                                  => j = n
                           /\ \E i \in inhibitors' :
                                i.cookie = bus'[n].cookie /\ i.client = bus'[n].client
                           /\ \A x \in alive : given[x] # bus'[n].cookie
    BY <1>1 DEF Returned
  <2>1. n \in Nat /\ n + 1 \in DOMAIN bus /\ bus'[n] = bus[n + 1] /\ n + 1 # 1
    <3>1. n \in Nat /\ n + 1 \in DOMAIN bus /\ bus'[n] = bus[n + 1]
      BY <1>2
    <3>2. bus' \in Seq(Message)
      BY HandleTypes DEF TypeOK
    <3>3. DOMAIN bus' = 1..Len(bus') /\ Len(bus') \in Nat
      BY <3>2, LenProperties
    <3> QED
      BY <3>1, <3>3
  <2>2. \A i \in inhibitors' : i.client = bus'[n].client => i.cookie = bus'[n].cookie
    BY <2>1 DEF Accounts, Returned
  <2>3. ASSUME bus'[n].cookie \notin lost'
        PROVE  /\ \A j \in DOMAIN bus' :
                    bus'[j].kind = "Uninhibit" /\ bus'[j].cookie = bus'[n].cookie => j = n
               /\ \E i \in inhibitors' :
                    i.cookie = bus'[n].cookie /\ i.client = bus'[n].client
               /\ \A x \in alive : given[x] # bus'[n].cookie
    <3>1. ASSUME NEW j \in DOMAIN bus', bus'[j].kind = "Uninhibit",
                 bus'[j].cookie = bus'[n].cookie
          PROVE  j = n
      <4>1. j \in Nat /\ j + 1 \in DOMAIN bus /\ bus'[j] = bus[j + 1]
        BY <1>2, <3>1
      <4>2. j + 1 = n + 1
        BY <2>1, <2>3, <3>1, <4>1 DEF Accounts, Returned
      <4> QED
        BY <2>1, <4>1, <4>2
    <3>2. PICK i \in inhibitors : i.cookie = bus'[n].cookie /\ i.client = bus'[n].client
      BY <2>1, <2>3 DEF Accounts, Returned
    <3>3. i \notin gone
      BY <2>1, <2>3, <3>2
    <3>4. \A x \in alive : given[x] # bus'[n].cookie
      BY <2>1, <2>3 DEF Accounts, Returned
    <3> QED
      BY <3>1, <3>2, <3>3, <3>4
  <2> QED
    BY <2>2, <2>3
<1>4. Counted'
  <2> SUFFICES ASSUME NEW x \in alive
               PROVE  /\ given[x] \notin lost' \cup {NoCookie} =>
                           \E i \in inhibitors' : i.cookie = given[x] /\ i.client = x
                      /\ \A i \in inhibitors' : i.client = x =>
                           /\ given[x] # NoCookie => i.cookie = given[x]
                           /\ \/ given[x] # NoCookie
                              \/ \E n \in DOMAIN bus' :
                                   bus'[n].kind = "Uninhibit" /\ bus'[n].client = x
    BY <1>1 DEF Counted
  <2>1. ASSUME given[x] \notin lost' \cup {NoCookie}
        PROVE  \E i \in inhibitors' : i.cookie = given[x] /\ i.client = x
    BY <2>1 DEF Accounts, Counted
  <2>2. ASSUME NEW i \in inhibitors', i.client = x, given[x] = NoCookie
        PROVE  \E n \in DOMAIN bus' : bus'[n].kind = "Uninhibit" /\ bus'[n].client = x
    <3>1. PICK n \in DOMAIN bus : bus[n].kind = "Uninhibit" /\ bus[n].client = x
      BY <2>2 DEF Accounts, Counted
    <3>2. n # 1
      BY <2>2, <3>1
    <3> QED
      BY <1>2, <3>1, <3>2
  <2> QED
    BY <2>1, <2>2 DEF Accounts, Counted
<1>5. OwnSessions'
  BY DEF Accounts, OwnSessions
<1> QED
  BY <1>3, <1>4, <1>5 DEF Accounts

LEMMA HandleCookies ==
  ASSUME TypeOK, Handle, BusOrder, Accounts
  PROVE  Accounts'
<1> USE DEF outsideVars, checkerVars
<1>1. /\ 1 \in DOMAIN bus /\ Head(bus) = bus[1] /\ bus[1] \in Message
      /\ DOMAIN bus \subseteq Nat
  BY HandleShifts
<1>2. CASE HandleInhibit
  BY <1>2, HandleInhibitAccounts
<1>3. CASE HandleUninhibit
  <2> DEFINE gone == {i \in inhibitors : i.cookie = Head(bus).cookie}
  <2>1. /\ bus[1].kind = "Uninhibit" /\ given' = given /\ lost' = lost
        /\ inhibitors' = inhibitors \ gone /\ gone \in SUBSET inhibitors
    BY <1>1, <1>3 DEF HandleUninhibit, Receive, Remove, Decide
  <2>2. \A i \in gone : i \in inhibitors /\ i.cookie = bus[1].cookie
    BY <1>1
  <2>3. ASSUME NEW i \in gone, NEW x \in alive, given[x] = i.cookie
        PROVE  i.cookie \in lost'
    BY <1>1, <2>1, <2>2, <2>3 DEF Accounts, Returned
  <2>4. ASSUME NEW i \in gone, NEW n \in DOMAIN bus, n # 1, bus[n].kind = "Uninhibit",
               bus[n].cookie = i.cookie
        PROVE  i.cookie \in lost'
    BY <1>1, <2>1, <2>2, <2>4 DEF Accounts, Returned
  <2>5. \A i \in inhibitors : i.client = bus[1].client => i \in gone
    BY <1>1, <2>1 DEF Accounts, Returned
  <2> HIDE DEF gone
  <2> QED
    BY <2>1, <2>3, <2>4, <2>5, RemoveAccounts
<1>4. CASE HandleOwnerChanged
  <2> DEFINE c == Head(bus).client
             gone == InhibitorsOf(c)
  <2>1. /\ bus[1].kind \in {"Gone", "Released"} /\ given' = given
        /\ inhibitors' = inhibitors \ gone /\ gone \in SUBSET inhibitors
        /\ lost' = IF bus[1].kind = "Released"
                   THEN lost \cup {i.cookie : i \in inhibitors \ inhibitors'} ELSE lost
    BY <1>1, <1>4 DEF HandleOwnerChanged, Receive, OwnerLost, Remove, Decide, InhibitorsOf
  <2>2. bus[1].client = c /\ \A i \in gone : i \in inhibitors /\ i.client = c
    BY <1>1 DEF InhibitorsOf
  <2> HIDE DEF c, gone
  <2>3. CASE bus[1].kind = "Released"
    <3>1. \A i \in gone : i.cookie \in lost'
      BY <2>1, <2>2, <2>3
    <3>2. lost \subseteq lost' /\ bus[1].kind # "Uninhibit"
      BY <2>1, <2>3
    <3> QED
      BY <2>1, <3>1, <3>2, RemoveAccounts
  <2>4. CASE bus[1].kind = "Gone"
    <3>1. c \notin alive /\ lost' = lost /\ bus[1].kind # "Uninhibit"
      BY <1>1, <2>1, <2>2, <2>4 DEF BusOrder
    <3>2. ASSUME NEW i \in gone, NEW n \in DOMAIN bus, n # 1, bus[n].kind = "Uninhibit",
                 bus[n].cookie = i.cookie
          PROVE  i.cookie \in lost
      <4>1. ASSUME i.cookie \notin lost PROVE FALSE
        <5>1. PICK j \in inhibitors : j.cookie = bus[n].cookie /\ j.client = bus[n].client
          BY <3>2, <4>1 DEF Accounts, Returned
        <5>2. j = i
          BY <2>2, <3>2, <5>1 DEF TypeOK
        <5>3. n < 1
          BY <1>1, <2>2, <2>4, <3>2, <5>1, <5>2 DEF BusOrder
        <5> QED
          BY <3>2, <5>3, BusPositions
      <4> QED
        BY <4>1
    <3> QED
      BY <2>1, <2>2, <3>1, <3>2, RemoveAccounts
  <2> QED
    BY <2>1, <2>3, <2>4
<1>5. CASE HandleSeatNew
  BY <1>1, <1>5, ReadAccounts DEF HandleSeatNew, Receive
<1>6. CASE HandleSeatRemoved
  BY <1>1, <1>6, ReadAccounts DEF HandleSeatRemoved
<1>7. CASE HandleActive
  BY <1>1, <1>7, ReadAccounts DEF HandleActive, Receive, Decide
<1>8. CASE HandleUnheard
  BY <1>1, <1>8, ReadAccounts DEF HandleUnheard, Receive
<1> QED
  BY <1>2, <1>3, <1>4, <1>5, <1>6, <1>7, <1>8 DEF Handle

\* The cookie that a client was given and has not given back is that of its only
\* inhibitor, for its own session, unless it gave up a well-known name since; and
\* a client with an inhibitor counts on it or is about to give it back
\* (urf_session_checker_inhibit, _uninhibit and bus_owner_changed).
THEOREM CookieCountsAlways == Spec => []CookieCounts
<1> DEFINE CookieInv == BusOrder /\ Accounts
<1>1. Init => CookieInv
  <2> SUFFICES ASSUME Init PROVE CookieInv
    OBVIOUS
  <2>1. DOMAIN bus = {} /\ inhibitors = {} /\ \A c \in Client : given[c] = NoCookie
    BY DEF Init
  <2>2. alive \subseteq Client
    BY DEF Init
  <2> QED
    BY <2>1, <2>2 DEF BusOrder, Accounts, Returned, Counted, OwnSessions
<1>2. TypeOK /\ CookieInv /\ [Next]_svars => CookieInv'
  <2>1. ASSUME CookieInv, UNCHANGED svars PROVE CookieInv'
    BY <2>1 DEF svars, outsideVars, checkerVars, BusOrder, Accounts, Returned, Counted,
                OwnSessions
  <2> QED
    BY <2>1, OutsideCookies, HandleOrder, HandleCookies DEF Next
<1>3. TypeOK /\ CookieInv => CookieCounts
  <2> SUFFICES ASSUME TypeOK, CookieInv, NEW c \in alive
               PROVE  /\ given[c] \notin lost \cup {NoCookie} =>
                           InhibitorsOf(c) = {[cookie |-> given[c], session |-> SessionOf[c],
                                               client |-> c]}
                      /\ InhibitorsOf(c) # {} =>
                           \/ given[c] # NoCookie
                           \/ \E n \in DOMAIN bus :
                                bus[n].kind = "Uninhibit" /\ bus[n].client = c
    BY DEF CookieCounts
  <2>1. ASSUME given[c] \notin lost \cup {NoCookie}
        PROVE  InhibitorsOf(c) = {[cookie |-> given[c], session |-> SessionOf[c],
                                   client |-> c]}
    <3>1. PICK i \in inhibitors : i.cookie = given[c] /\ i.client = c
      BY <2>1 DEF Accounts, Counted
    <3>2. i \in Inhibitor /\ i.session = SessionOf[c]
      BY <3>1 DEF Accounts, OwnSessions, TypeOK
    <3>3. i = [cookie |-> given[c], session |-> SessionOf[c], client |-> c]
      BY <3>1, <3>2 DEF Inhibitor
    <3>4. \A j \in inhibitors : j.client = c => j = i
      BY <3>1 DEF TypeOK
    <3> QED
      BY <3>1, <3>3, <3>4 DEF InhibitorsOf
  <2> QED
    BY <2>1 DEF Accounts, Counted, InhibitorsOf
<1> QED
  BY <1>1, <1>2, <1>3, SessionTypeCorrect, PTL DEF Spec
=============================================================================
