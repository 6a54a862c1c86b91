-------------------------- MODULE OfonoBlockProofs --------------------------
(***************************************************************************)
(* Proofs about OfonoManager, for every set of modems and every bound: a block*)
(* that is asked for reaches the modem, and the state that the daemon tells of*)
(* a modem is the modem's own.                                             *)
(***************************************************************************)
EXTENDS OfonoProofs

(***************************************************************************)
(* The inductive invariant of the newest objects                           *)
(*                                                                         *)
(* For a modem that oFono has and that no signal is on its way about, the  *)
(* newest of its objects goes through stages: its proxy is asked for, its proxy*)
(* is on its way, the properties of the modem are asked for, and from then on*)
(* it follows the modem; unless an error for the proxy ends it before.  Other objects of the same modem are in the way only*)
(* while something of theirs is behind.                                    *)
(***************************************************************************)
\* All objects ever made for the path p; b is the newest, and it is in the list.
WithPath(p) == {a \in Ids : objects[a].path = p}
Leads(b, S, p) == S = WithPath(p) /\ b \in For(p) /\ \A a \in S : a <= b

\* The calls of the objects A, and what they are sent.
ConnectsOf(A) == [call : {"Connect"}, id : A]
AsksOf(A) == [call : {"GetProperties"}, id : A]
Sets(A, V) == [call : {"SetProperty"}, id : A, online : V]
ConnectedOf(A) == [msg : {"connected"}, id : A]
Powers(A) == [msg : {"properties"}, id : A, powered : {TRUE}, online : BOOLEAN]

\* What tells b of Online, with a value of V; what makes b, or any of S, send
\* what it wants; and all that S hears and asks.
Tells(b, p, V) == [msg : {"changed"}, path : {p}, name : {"Online"}, value : V]
                    \union [msg : {"properties"}, id : {b}, powered : BOOLEAN, online : V]
Triggers(b, p) == [msg : {"changed"}, path : {p}, name : {"Powered"}, value : {TRUE}]
                    \union Powers({b})
Urges(b, S, p) == Triggers(b, p) \union Powers(S \ {b})
Heard(S, p) == ConnectedOf(S) \union [msg : {"properties"}, id : S, powered : BOOLEAN, online : BOOLEAN]
                 \union [msg : {"changed"}, path : {p}, name : {"Online", "Powered"}, value : BOOLEAN]
Asked(S) == ConnectsOf(S) \union AsksOf(S) \union Sets(S, BOOLEAN)

\* The stages of b.
Asking(b, S) == After(calls, ConnectsOf({b}), ConnectsOf(S \ {b}))
Reaching(b, S) == /\ None(calls, ConnectsOf(S \ {b}))
                  /\ After(inbox, ConnectedOf({b}), ConnectedOf(S \ {b}))
Old(b, S) == /\ objects[b].proxy
             /\ None(calls, ConnectsOf(S \ {b}))
             /\ None(inbox, ConnectedOf(S \ {b}))
Reading(b, S) == Old(b, S) /\ After(calls, AsksOf({b}), AsksOf(S \ {b}))

\* The last that b is told of Online is true, and if nothing is on its way that
\* tells of it then b has the truth.
Knows(b, p) ==
  /\ After(inbox, Tells(b, p, {TRUE}), Tells(b, p, {FALSE})) => ofono.modems[p].online
  /\ After(inbox, Tells(b, p, {FALSE}), Tells(b, p, {TRUE})) => ~ofono.modems[p].online
  /\ None(inbox, Tells(b, p, BOOLEAN)) => objects[b].online = AsOnline(ofono.modems[p].online)

\* The last that is asked for the modem is what b wants, and if nothing is asked
\* for then the modem has it or has turned it down.
LastWord(b, S, p) ==
  /\ After(calls, Sets(S, {TRUE}), Sets(S, {FALSE})) => ~objects[b].soft
  /\ After(calls, Sets(S, {FALSE}), Sets(S, {TRUE})) => objects[b].soft
  /\ None(calls, Sets(S, BOOLEAN)) => (ofono.modems[p].online <=> ~objects[b].soft) \/ p \in refused

\* If b alone is in the list, b has the last word or is about to.
Obeys(b, S, p) ==
  For(p) = {b} /\ ofono.modems[p].powered =>
      /\ ~After(inbox, Powers(S \ {b}), Triggers(b, p))
      /\ None(inbox, Triggers(b, p)) => LastWord(b, S, p)

\* ... as far as no error keeps it from that.
Follows(b, S, p) ==
  /\ Old(b, S) /\ None(calls, AsksOf(S \ {b}))
  /\ b \in unread \/ Knows(b, p)
  /\ b \in missed \/ Obeys(b, S, p)
Current(b, S, p) ==
  b \in deaf \/ Asking(b, S) \/ Reaching(b, S) \/ Reading(b, S) \/ Follows(b, S, p)
NewestInv ==
  manager = "listed" =>
    \A p \in Paths : ofono.modems[p].present /\ None(inbox, Signals(p)) =>
      \E b, S : Leads(b, S, p) /\ Current(b, S, p)

\* What the objects of the list want is what is stored.
StoredInv == Persist => \A id \in ToSet(devices) : id \notin byIndex => (objects[id].soft <=> stored)

LEMMA ObjectSorts ==
    ASSUME NEW m \in Message, NEW A, NEW b, NEW p
    PROVE  /\ m \in ConnectedOf(A) <=> m.msg = "connected" /\ m.id \in A
           /\ m \in Powers(A) <=> m.msg = "properties" /\ m.id \in A /\ m.powered
           /\ m \in Tells(b, p, {TRUE})
                <=> \/ m.msg = "changed" /\ m.path = p /\ m.name = "Online" /\ m.value
                    \/ m.msg = "properties" /\ m.id = b /\ m.online
           /\ m \in Tells(b, p, {FALSE})
                <=> \/ m.msg = "changed" /\ m.path = p /\ m.name = "Online" /\ ~m.value
                    \/ m.msg = "properties" /\ m.id = b /\ ~m.online
           /\ m \in Tells(b, p, BOOLEAN)
                <=> \/ m.msg = "changed" /\ m.path = p /\ m.name = "Online"
                    \/ m.msg = "properties" /\ m.id = b
           /\ m \in Triggers(b, p)
                <=> \/ m.msg = "changed" /\ m.path = p /\ m.name = "Powered" /\ m.value
                    \/ m.msg = "properties" /\ m.id = b /\ m.powered
           /\ m \in Heard(A, p)
                <=> \/ m.msg \in {"connected", "properties"} /\ m.id \in A
                    \/ m.msg = "changed" /\ m.path = p
<1>1. m \in ConnectedOf(A) <=> m.msg = "connected" /\ m.id \in A
  BY MessageShape DEF ConnectedOf
<1>2. ASSUME NEW B, NEW PW \in {{TRUE}, BOOLEAN}, NEW V \in {{TRUE}, {FALSE}, BOOLEAN}
      PROVE  m \in [msg : {"properties"}, id : B, powered : PW, online : V]
               <=> m.msg = "properties" /\ m.id \in B /\ m.powered \in PW /\ m.online \in V
  <2>1. ASSUME m.msg = "properties", m.id \in B, m.powered \in PW, m.online \in V
        PROVE  m \in [msg : {"properties"}, id : B, powered : PW, online : V]
    <3>1. m = [msg |-> "properties", id |-> m.id, powered |-> m.powered, online |-> m.online]
      BY <2>1, MessageShape
    <3>2. \A x \in B, y \in PW, z \in V : [msg |-> "properties", id |-> x, powered |-> y, online |-> z]
                              \in [msg : {"properties"}, id : B, powered : PW, online : V]
      OBVIOUS
    <3>3. QED
      BY <2>1, <3>1, <3>2
  <2>2. QED
    BY <2>1
<1>3. ASSUME NEW N \in {{"Online"}, {"Powered"}, {"Online", "Powered"}}, NEW V \in {{TRUE}, {FALSE}, BOOLEAN}
      PROVE  m \in [msg : {"changed"}, path : {p}, name : N, value : V]
               <=> m.msg = "changed" /\ m.path = p /\ m.name \in N /\ m.value \in V
  <2>1. ASSUME m.msg = "changed", m.path = p, m.name \in N, m.value \in V
        PROVE  m \in [msg : {"changed"}, path : {p}, name : N, value : V]
    <3>1. m = [msg |-> "changed", path |-> m.path, name |-> m.name, value |-> m.value]
      BY <2>1, MessageShape
    <3>2. \A y \in N, z \in V : [msg |-> "changed", path |-> p, name |-> y, value |-> z]
                              \in [msg : {"changed"}, path : {p}, name : N, value : V]
      OBVIOUS
    <3>3. QED
      BY <2>1, <3>1, <3>2
  <2>2. QED
    BY <2>1
<1>4. /\ m.msg = "properties" => /\ m.powered \in BOOLEAN /\ m.online \in BOOLEAN
                                 /\ m.powered \in {TRUE} <=> m.powered
                                 /\ m.online \in {TRUE} <=> m.online
                                 /\ m.online \in {FALSE} <=> ~m.online
      /\ m.msg = "changed" => /\ m.value \in BOOLEAN /\ m.name \in {"Online", "Powered"}
                              /\ m.value \in {TRUE} <=> m.value
                              /\ m.value \in {FALSE} <=> ~m.value
                              /\ m.name \in {"Online"} <=> m.name = "Online"
                              /\ m.name \in {"Powered"} <=> m.name = "Powered"
  <2>1. \A x \in BOOLEAN : (x \in {TRUE} <=> x) /\ (x \in {FALSE} <=> ~x)
    OBVIOUS
  <2>2. m.msg = "properties" => m.powered \in BOOLEAN /\ m.online \in BOOLEAN
    BY MessageShape
  <2>3. m.msg = "changed" => m.value \in BOOLEAN /\ m.name \in {"Online", "Powered"}
    BY MessageShape
  <2>4. QED
    BY <2>1, <2>2, <2>3
<1>5. \A B : m \in Powers(B) <=> m.msg = "properties" /\ m.id \in B /\ m.powered
  BY <1>2, <1>4 DEF Powers
<1>6. \A V \in {{TRUE}, {FALSE}, BOOLEAN} : m \in Tells(b, p, V)
        <=> \/ m.msg = "changed" /\ m.path = p /\ m.name = "Online" /\ m.value \in V
            \/ m.msg = "properties" /\ m.id = b /\ m.online \in V
  BY <1>2, <1>3, <1>4 DEF Tells
<1>7. m \in Triggers(b, p)
                <=> \/ m.msg = "changed" /\ m.path = p /\ m.name = "Powered" /\ m.value
                    \/ m.msg = "properties" /\ m.id = b /\ m.powered
  <2>1. m \in [msg : {"changed"}, path : {p}, name : {"Powered"}, value : {TRUE}]
          <=> m.msg = "changed" /\ m.path = p /\ m.name \in {"Powered"} /\ m.value \in {TRUE}
    BY <1>3
  <2>2. m \in Powers({b}) <=> m.msg = "properties" /\ m.id = b /\ m.powered
    BY <1>5
  <2>3. QED
    BY <2>1, <2>2, <1>4 DEF Triggers
<1>8. m \in Heard(A, p)
                <=> \/ m.msg \in {"connected", "properties"} /\ m.id \in A
                    \/ m.msg = "changed" /\ m.path = p
  BY <1>1, <1>2, <1>3, <1>4 DEF Heard
<1>9. QED
  BY <1>1, <1>4, <1>5, <1>6, <1>7, <1>8

LEMMA ObjectCallSorts ==
    ASSUME NEW c \in Call, NEW A
    PROVE  /\ c \in ConnectsOf(A) <=> c.call = "Connect" /\ c.id \in A
           /\ c \in AsksOf(A) <=> c.call = "GetProperties" /\ c.id \in A
           /\ c \in Sets(A, {TRUE}) <=> c.call = "SetProperty" /\ c.id \in A /\ c.online
           /\ c \in Sets(A, {FALSE}) <=> c.call = "SetProperty" /\ c.id \in A /\ ~c.online
           /\ c \in Sets(A, BOOLEAN) <=> c.call = "SetProperty" /\ c.id \in A
           /\ c \in Asked(A) <=> c.call \in {"Connect", "GetProperties", "SetProperty"} /\ c.id \in A
<1>1. /\ c \in ConnectsOf(A) <=> c.call = "Connect" /\ c.id \in A
      /\ c \in AsksOf(A) <=> c.call = "GetProperties" /\ c.id \in A
  BY CallShape DEF ConnectsOf, AsksOf
<1>2. ASSUME NEW V \in {{TRUE}, {FALSE}, BOOLEAN}
      PROVE  c \in Sets(A, V) <=> c.call = "SetProperty" /\ c.id \in A /\ c.online \in V
  <2>1. ASSUME c.call = "SetProperty", c.id \in A, c.online \in V
        PROVE  c \in [call : {"SetProperty"}, id : A, online : V]
    <3>1. c = [call |-> "SetProperty", id |-> c.id, online |-> c.online]
      BY <2>1, CallShape
    <3>2. \A x \in A, z \in V : [call |-> "SetProperty", id |-> x, online |-> z]
                              \in [call : {"SetProperty"}, id : A, online : V]
      OBVIOUS
    <3>3. QED
      BY <2>1, <3>1, <3>2
  <2>2. QED
    BY <2>1 DEF Sets
<1>3. c.call = "SetProperty" => /\ c.online \in BOOLEAN
                                /\ c.online \in {TRUE} <=> c.online
                                /\ c.online \in {FALSE} <=> ~c.online
  <2>1. \A x \in BOOLEAN : (x \in {TRUE} <=> x) /\ (x \in {FALSE} <=> ~x)
    OBVIOUS
  <2>2. c.call = "SetProperty" => c.online \in BOOLEAN
    BY CallShape
  <2>3. QED
    BY <2>1, <2>2
<1>4. QED
  BY <1>1, <1>2, <1>3 DEF Asked

\* The same for one object b of S, and for the others.
LEMMA SortsOf ==
    ASSUME NEW m \in Message, NEW S, NEW b \in S, NEW p
    PROVE  /\ m \in ConnectedOf({b}) <=> m.msg = "connected" /\ m.id = b
           /\ m \in ConnectedOf(S \ {b}) <=> m.msg = "connected" /\ m.id \in S /\ m.id # b
           /\ m \in Powers(S \ {b}) <=> m.msg = "properties" /\ m.id \in S /\ m.id # b /\ m.powered
           /\ m \in Urges(b, S, p)
                <=> \/ m.msg = "changed" /\ m.path = p /\ m.name = "Powered" /\ m.value
                    \/ m.msg = "properties" /\ m.id \in S /\ m.powered
<1>1. m \in ConnectedOf({b}) <=> m.msg = "connected" /\ m.id \in {b}
  BY ObjectSorts
<1>2. m \in ConnectedOf(S \ {b}) <=> m.msg = "connected" /\ m.id \in S \ {b}
  BY ObjectSorts
<1>3. m \in Powers(S \ {b}) <=> m.msg = "properties" /\ m.id \in S \ {b} /\ m.powered
  BY ObjectSorts
<1>4. m \in Triggers(b, p)
        <=> \/ m.msg = "changed" /\ m.path = p /\ m.name = "Powered" /\ m.value
            \/ m.msg = "properties" /\ m.id = b /\ m.powered
  BY ObjectSorts
<1>5. QED
  BY <1>1, <1>2, <1>3, <1>4 DEF Urges

LEMMA CallSortsOf ==
    ASSUME NEW c \in Call, NEW S, NEW b \in S
    PROVE  /\ c \in ConnectsOf({b}) <=> c.call = "Connect" /\ c.id = b
           /\ c \in ConnectsOf(S \ {b}) <=> c.call = "Connect" /\ c.id \in S /\ c.id # b
           /\ c \in AsksOf({b}) <=> c.call = "GetProperties" /\ c.id = b
           /\ c \in AsksOf(S \ {b}) <=> c.call = "GetProperties" /\ c.id \in S /\ c.id # b
<1>1. /\ c \in ConnectsOf({b}) <=> c.call = "Connect" /\ c.id \in {b}
      /\ c \in AsksOf({b}) <=> c.call = "GetProperties" /\ c.id \in {b}
  BY ObjectCallSorts
<1>2. /\ c \in ConnectsOf(S \ {b}) <=> c.call = "Connect" /\ c.id \in S \ {b}
      /\ c \in AsksOf(S \ {b}) <=> c.call = "GetProperties" /\ c.id \in S \ {b}
  BY ObjectCallSorts
<1>3. QED
  BY <1>1, <1>2

LEMMA ObjectSets ==
    ASSUME NEW S, NEW b \in S, NEW p
    PROVE  /\ ConnectedOf({b}) \subseteq ConnectedOf(S) /\ ConnectedOf(S \ {b}) \subseteq ConnectedOf(S)
           /\ ConnectedOf(S) \subseteq Heard(S, p) /\ Tells(b, p, BOOLEAN) \subseteq Heard(S, p)
           /\ Tells(b, p, {TRUE}) \subseteq Tells(b, p, BOOLEAN)
           /\ Tells(b, p, {FALSE}) \subseteq Tells(b, p, BOOLEAN)
           /\ Triggers(b, p) \subseteq Heard(S, p) /\ Powers(S \ {b}) \subseteq Heard(S, p)
           /\ Urges(b, S, p) \subseteq Heard(S, p)
           /\ ConnectsOf({b}) \subseteq ConnectsOf(S) /\ ConnectsOf(S \ {b}) \subseteq ConnectsOf(S)
           /\ AsksOf({b}) \subseteq AsksOf(S) /\ AsksOf(S \ {b}) \subseteq AsksOf(S)
           /\ ConnectsOf(S) \subseteq Asked(S) /\ AsksOf(S) \subseteq Asked(S)
           /\ Sets(S, BOOLEAN) \subseteq Asked(S)
           /\ Sets(S, {TRUE}) \subseteq Sets(S, BOOLEAN) /\ Sets(S, {FALSE}) \subseteq Sets(S, BOOLEAN)
<1>1. /\ ConnectedOf({b}) \subseteq ConnectedOf(S) /\ ConnectedOf(S \ {b}) \subseteq ConnectedOf(S)
      /\ ConnectsOf({b}) \subseteq ConnectsOf(S) /\ ConnectsOf(S \ {b}) \subseteq ConnectsOf(S)
      /\ AsksOf({b}) \subseteq AsksOf(S) /\ AsksOf(S \ {b}) \subseteq AsksOf(S)
  BY DEF ConnectedOf, ConnectsOf, AsksOf
<1>2. /\ Sets(S, {TRUE}) \subseteq Sets(S, BOOLEAN) /\ Sets(S, {FALSE}) \subseteq Sets(S, BOOLEAN)
  BY DEF Sets
<1>3. /\ ConnectsOf(S) \subseteq Asked(S) /\ AsksOf(S) \subseteq Asked(S)
      /\ Sets(S, BOOLEAN) \subseteq Asked(S) /\ ConnectedOf(S) \subseteq Heard(S, p)
  BY DEF Asked, Heard
<1>4. /\ Tells(b, p, {TRUE}) \subseteq Tells(b, p, BOOLEAN)
      /\ Tells(b, p, {FALSE}) \subseteq Tells(b, p, BOOLEAN)
  BY DEF Tells
<1>5. Tells(b, p, BOOLEAN) \subseteq Heard(S, p)
  BY DEF Tells, Heard
<1>6. Triggers(b, p) \subseteq Heard(S, p) /\ Powers(S \ {b}) \subseteq Heard(S, p)
  BY DEF Triggers, Powers, Heard
<1>7. Urges(b, S, p) \subseteq Heard(S, p)
  BY <1>6 DEF Urges
<1>8. QED
  BY <1>1, <1>2, <1>3, <1>4, <1>5, <1>6, <1>7

(***************************************************************************)
(* Steps that change nothing of what the stages are about.                 *)
(***************************************************************************)
LEMMA ConnectFrame ==
    ASSUME NEW S, NEW b \in S, objects'[b].proxy <=> objects[b].proxy,
           Alike(inbox', inbox, ConnectedOf(S)), Alike(calls', calls, ConnectsOf(S))
    PROVE  /\ Asking(b, S) => Asking(b, S)'
           /\ Reaching(b, S) => Reaching(b, S)'
           /\ Old(b, S) => Old(b, S)'
<1>1. /\ ConnectedOf({b}) \in SUBSET ConnectedOf(S) /\ ConnectedOf(S \ {b}) \in SUBSET ConnectedOf(S)
      /\ ConnectsOf({b}) \in SUBSET ConnectsOf(S) /\ ConnectsOf(S \ {b}) \in SUBSET ConnectsOf(S)
  BY ObjectSets
<1>2. /\ None(calls, ConnectsOf(S \ {b})) <=> None(calls', ConnectsOf(S \ {b}))
      /\ After(calls, ConnectsOf({b}), ConnectsOf(S \ {b})) <=> After(calls', ConnectsOf({b}), ConnectsOf(S \ {b}))
      /\ None(inbox, ConnectedOf(S \ {b})) <=> None(inbox', ConnectedOf(S \ {b}))
      /\ After(inbox, ConnectedOf({b}), ConnectedOf(S \ {b})) <=> After(inbox', ConnectedOf({b}), ConnectedOf(S \ {b}))
  BY <1>1 DEF Alike
<1>3. QED
  BY <1>2 DEF Asking, Reaching, Old

LEMMA EarlyFrame ==
    ASSUME NEW S, NEW b \in S, objects'[b].proxy <=> objects[b].proxy,
           Alike(inbox', inbox, ConnectedOf(S)), Alike(calls', calls, ConnectsOf(S) \union AsksOf(S))
    PROVE  /\ Asking(b, S) => Asking(b, S)'
           /\ Reaching(b, S) => Reaching(b, S)'
           /\ Reading(b, S) => Reading(b, S)'
           /\ Old(b, S) => Old(b, S)'
           /\ None(calls, AsksOf(S \ {b})) => None(calls', AsksOf(S \ {b}))
<1>1. /\ AsksOf({b}) \in SUBSET (ConnectsOf(S) \union AsksOf(S))
      /\ AsksOf(S \ {b}) \in SUBSET (ConnectsOf(S) \union AsksOf(S))
  BY ObjectSets
<1>2. /\ None(calls, AsksOf(S \ {b})) <=> None(calls', AsksOf(S \ {b}))
      /\ After(calls, AsksOf({b}), AsksOf(S \ {b})) <=> After(calls', AsksOf({b}), AsksOf(S \ {b}))
  BY <1>1 DEF Alike
<1>3. Alike(calls', calls, ConnectsOf(S))
  BY AlikeLaws
<1>4. QED
  BY <1>2, <1>3, ConnectFrame DEF Reading

LEMMA KnowsFrame ==
    ASSUME NEW b, NEW p, Knows(b, p), objects'[b].online = objects[b].online,
           ofono'.modems[p].online = ofono.modems[p].online,
           Alike(inbox', inbox, Tells(b, p, BOOLEAN))
    PROVE  Knows(b, p)'
<1>1. /\ Tells(b, p, {TRUE}) \in SUBSET Tells(b, p, BOOLEAN)
      /\ Tells(b, p, {FALSE}) \in SUBSET Tells(b, p, BOOLEAN)
      /\ Tells(b, p, BOOLEAN) \in SUBSET Tells(b, p, BOOLEAN)
  BY DEF Tells
<1>2. /\ None(inbox, Tells(b, p, BOOLEAN)) <=> None(inbox', Tells(b, p, BOOLEAN))
      /\ After(inbox, Tells(b, p, {TRUE}), Tells(b, p, {FALSE}))
           <=> After(inbox', Tells(b, p, {TRUE}), Tells(b, p, {FALSE}))
      /\ After(inbox, Tells(b, p, {FALSE}), Tells(b, p, {TRUE}))
           <=> After(inbox', Tells(b, p, {FALSE}), Tells(b, p, {TRUE}))
  BY <1>1 DEF Alike
<1>3. QED
  BY <1>2 DEF Knows

LEMMA LastWordFrame ==
    ASSUME NEW b, NEW S, NEW p, LastWord(b, S, p), objects'[b].soft <=> objects[b].soft,
           ofono'.modems[p].online <=> ofono.modems[p].online, p \in refused => p \in refused',
           Alike(calls', calls, Sets(S, BOOLEAN))
    PROVE  LastWord(b, S, p)'
<1>1. /\ Sets(S, {TRUE}) \in SUBSET Sets(S, BOOLEAN) /\ Sets(S, {FALSE}) \in SUBSET Sets(S, BOOLEAN)
      /\ Sets(S, BOOLEAN) \in SUBSET Sets(S, BOOLEAN)
  BY DEF Sets
<1>2. /\ None(calls, Sets(S, BOOLEAN)) <=> None(calls', Sets(S, BOOLEAN))
      /\ After(calls, Sets(S, {TRUE}), Sets(S, {FALSE})) <=> After(calls', Sets(S, {TRUE}), Sets(S, {FALSE}))
      /\ After(calls, Sets(S, {FALSE}), Sets(S, {TRUE})) <=> After(calls', Sets(S, {FALSE}), Sets(S, {TRUE}))
  BY <1>1 DEF Alike
<1>3. QED
  BY <1>2 DEF LastWord

LEMMA ObeysFrame ==
    ASSUME NEW S, NEW b \in S, NEW p, Obeys(b, S, p), For(p)' = {b} => For(p) = {b},
           ofono'.modems[p].powered <=> ofono.modems[p].powered,
           objects'[b].soft <=> objects[b].soft,
           ofono'.modems[p].online <=> ofono.modems[p].online, p \in refused => p \in refused',
           Alike(calls', calls, Sets(S, BOOLEAN)), Alike(inbox', inbox, Urges(b, S, p))
    PROVE  Obeys(b, S, p)'
<1>1. Triggers(b, p) \in SUBSET Urges(b, S, p) /\ Powers(S \ {b}) \in SUBSET Urges(b, S, p)
  BY DEF Urges
<1>2. /\ None(inbox, Triggers(b, p)) <=> None(inbox', Triggers(b, p))
      /\ After(inbox, Powers(S \ {b}), Triggers(b, p)) <=> After(inbox', Powers(S \ {b}), Triggers(b, p))
  BY <1>1 DEF Alike
<1>3. LastWord(b, S, p) => LastWord(b, S, p)'
  BY LastWordFrame
<1>4. QED
  BY <1>2, <1>3 DEF Obeys

LEMMA CurrentFrame ==
    ASSUME NEW S, NEW b \in S, NEW p, Current(b, S, p), For(p)' = {b} => For(p) = {b},
           objects'[b] = objects[b],
           ofono'.modems[p].powered <=> ofono.modems[p].powered,
           ofono'.modems[p].online = ofono.modems[p].online, p \in refused => p \in refused',
           b \in deaf => b \in deaf', b \in unread => b \in unread', b \in missed => b \in missed',
           Alike(calls', calls, Asked(S)), Alike(inbox', inbox, Heard(S, p))
    PROVE  Current(b, S, p)'
<1>1. /\ Alike(inbox', inbox, ConnectedOf(S)) /\ Alike(inbox', inbox, Tells(b, p, BOOLEAN))
      /\ Alike(inbox', inbox, Urges(b, S, p))
      /\ Alike(calls', calls, ConnectsOf(S) \union AsksOf(S)) /\ Alike(calls', calls, Sets(S, BOOLEAN))
  <2>1. /\ ConnectedOf(S) \subseteq Heard(S, p) /\ Tells(b, p, BOOLEAN) \subseteq Heard(S, p)
        /\ Urges(b, S, p) \subseteq Heard(S, p)
        /\ ConnectsOf(S) \union AsksOf(S) \subseteq Asked(S) /\ Sets(S, BOOLEAN) \subseteq Asked(S)
    BY ObjectSets
  <2>2. QED
    BY <2>1, AlikeLaws
<1>2. /\ Asking(b, S) => Asking(b, S)'
      /\ Reaching(b, S) => Reaching(b, S)'
      /\ Reading(b, S) => Reading(b, S)'
      /\ Old(b, S) => Old(b, S)'
      /\ None(calls, AsksOf(S \ {b})) => None(calls', AsksOf(S \ {b}))
  BY <1>1, EarlyFrame
<1>3. Knows(b, p) => Knows(b, p)'
  BY <1>1, KnowsFrame
<1>4. Obeys(b, S, p) => Obeys(b, S, p)'
  BY <1>1, ObeysFrame
<1>5. QED
  BY <1>2, <1>3, <1>4 DEF Current, Follows

LEMMA LeadsTypes ==
    ASSUME TypeInv, NEW p \in Paths, NEW b, NEW S, Leads(b, S, p)
    PROVE  /\ b \in S /\ S \subseteq Ids /\ \A a \in Ids : a \in S <=> objects[a].path = p
           /\ b \in Nat /\ S \subseteq Nat
           /\ objects[b] \in Device /\ objects[b].path = p
           /\ b \in ToSet(devices)
<1>1. For(p) \subseteq Ids /\ b \in For(p) /\ S = WithPath(p)
  BY ObjectTypes DEF Leads
<1>2. b \in Ids /\ objects[b].path = p /\ b \in ToSet(devices)
  BY <1>1 DEF For
<1>3. QED
  BY <1>1, <1>2, ObjectTypes DEF WithPath

LEMMA LeadsSame ==
    ASSUME TypeInv, NEW p \in Paths, NEW b, NEW S, Leads(b, S, p), UNCHANGED devices, Ids' = Ids,
           \A id \in Ids : objects'[id].path = objects[id].path
    PROVE  Leads(b, S, p)' /\ For(p)' = For(p)
<1>1. For(p)' = For(p)
  BY ForSame
<1>2. WithPath(p)' = WithPath(p)
  BY DEF WithPath
<1>3. QED
  BY <1>1, <1>2 DEF Leads

\* Messages and calls that are about something else.
LEMMA HeardNot ==
    ASSUME NEW m \in Message, NEW S, NEW p,
           m.msg \in {"connected", "properties"} => m.id \notin S,
           m.msg = "changed" => m.path # p
    PROVE  m \notin Heard(S, p)
<1>1. m \in Heard(S, p) <=> \/ m.msg \in {"connected", "properties"} /\ m.id \in S
                            \/ m.msg = "changed" /\ m.path = p
  BY ObjectSorts
<1>2. QED
  BY <1>1

LEMMA AskedNot ==
    ASSUME NEW c \in Call, NEW S,
           c.call \in {"Connect", "GetProperties", "SetProperty"} => c.id \notin S
    PROVE  c \notin Asked(S)
BY ObjectCallSorts

(***************************************************************************)
(* oFono and the bus.                                                      *)
(***************************************************************************)
\* What oFono tells when a modem gets or loses power.
LEMMA PoweredTells ==
    ASSUME TypeInv, NEW q \in Paths, ModemPowered(q)
    PROVE  LET off == Changed(q, "Online", FALSE)
               power == Changed(q, "Powered", ~ofono.modems[q].powered)
           IN  /\ off \in Message /\ power \in Message
               /\ \E s \in Seq(Message) :
                    /\ inbox' = Append(s, power)
                    /\ ofono.modems[q].online => s = Append(inbox, off)
                    /\ ~ofono.modems[q].online => s = inbox
<1> DEFINE off == Changed(q, "Online", FALSE)
           power == Changed(q, "Powered", ~ofono.modems[q].powered)
           s == inbox \o (IF ofono.modems[q].online THEN <<off>> ELSE <<>>)
<1>1. ofono.modems[q].powered \in BOOLEAN /\ inbox \in Seq(Message)
  BY QueueTypes DEF Modem
<1>2. off \in Message /\ power \in Message
  BY <1>1, Messages DEF Changed
<1>3. inbox' = s \o <<power>>
  BY DEF ModemPowered
<1> HIDE DEF off, power
<1>4. /\ ofono.modems[q].online => s = Append(inbox, off)
      /\ ~ofono.modems[q].online => s = inbox
  BY <1>1, <1>2, AppendIsConcat, ConcatEmptySeq
<1>5. s \in Seq(Message)
  BY <1>1, <1>2, <1>4, AppendProperties
<1> HIDE DEF s
<1>6. inbox' = Append(s, power)
  BY <1>2, <1>3, <1>5, AppendIsConcat
<1>7. QED
  BY <1>2, <1>4, <1>5, <1>6 DEF off, power

LEMMA CurrentPowered ==
    ASSUME TypeInv, NEW p \in Paths, NEW b, NEW S, Leads(b, S, p), Current(b, S, p), ModemPowered(p)
    PROVE  Current(b, S, p)'
<1> DEFINE off == Changed(p, "Online", FALSE)
           power == Changed(p, "Powered", ~ofono.modems[p].powered)
<1>1. /\ off \in Message /\ off.msg = "changed" /\ off.path = p /\ off.name = "Online" /\ ~off.value
      /\ power \in Message /\ power.msg = "changed" /\ power.path = p /\ power.name = "Powered"
      /\ ofono'.modems[p].powered => power.value
  BY PoweredTells, PoweredModems DEF Changed
<1>2. PICK s \in Seq(Message) :
        /\ inbox' = Append(s, power)
        /\ ofono.modems[p].online => s = Append(inbox, off)
        /\ ~ofono.modems[p].online => s = inbox
  BY PoweredTells
<1> HIDE DEF off, power
<1>3. /\ inbox \in Seq(Message) /\ UNCHANGED <<calls, objects, devices, refused, deaf>>
      /\ ~ofono'.modems[p].online /\ b \in S
      /\ ofono.modems[p].online \in BOOLEAN /\ ofono'.modems[p].online \in BOOLEAN
  BY QueueTypes, PoweredModems, LeadsTypes, ZenonT(60) DEF ModemPowered, daemonVars, Modem
<1>11. b \in unread => b \in unread' \/ ofono.modems[p].online
  BY DEF ModemPowered
<1>4. /\ off \notin ConnectedOf(S) /\ power \notin ConnectedOf(S)
      /\ power \notin Tells(b, p, BOOLEAN) /\ power \notin Powers(S \ {b})
      /\ power \notin Tells(b, p, {TRUE}) /\ power \notin Tells(b, p, {FALSE})
      /\ off \in Tells(b, p, {FALSE}) /\ off \notin Tells(b, p, {TRUE})
      /\ off \in Tells(b, p, BOOLEAN)
      /\ ofono'.modems[p].powered => power \in Triggers(b, p)
  BY <1>1, ObjectSorts
<1>5. Alike(inbox', inbox, ConnectedOf(S))
  <2>1. Alike(inbox', s, ConnectedOf(S))
    BY <1>1, <1>2, <1>4, AlikeAppend
  <2>2. Alike(Append(inbox, off), inbox, ConnectedOf(S)) /\ Alike(inbox, inbox, ConnectedOf(S))
    BY <1>1, <1>3, <1>4, AlikeAppend, AlikeLaws
  <2>3. QED
    BY <1>2, <1>3, <2>1, <2>2, AlikeLaws
<1>6. Alike(calls', calls, ConnectsOf(S) \union AsksOf(S))
  BY <1>3, AlikeLaws
<1>7. b \in unread \/ Knows(b, p) => b \in unread' \/ Knows(b, p)'
  <2>1. Alike(inbox', s, Tells(b, p, BOOLEAN))
    BY <1>1, <1>2, <1>4, AlikeAppend
  <2>2. CASE ofono.modems[p].online
    <3> DEFINE r == Append(inbox, off)
    <3>0. s = r /\ r = Append(inbox, off)
      BY <1>2, <2>2
    <3> HIDE DEF r
    <3>1. /\ ~After(r, Tells(b, p, {TRUE}), Tells(b, p, {FALSE}))
          /\ ~None(r, Tells(b, p, BOOLEAN))
      BY <1>1, <1>3, <1>4, <3>0, AfterAppend, NoneAppend
    <3>2. /\ ~After(Append(s, power), Tells(b, p, {TRUE}), Tells(b, p, {FALSE}))
          /\ ~None(Append(s, power), Tells(b, p, BOOLEAN))
      <4>1. ~After(s, Tells(b, p, {TRUE}), Tells(b, p, {FALSE})) /\ ~None(s, Tells(b, p, BOOLEAN))
        BY <3>0, <3>1
      <4>2. ~After(Append(s, power), Tells(b, p, {TRUE}), Tells(b, p, {FALSE}))
        BY <1>1, <1>4, <4>1, AfterAppend
      <4>3. QED
        BY <1>1, <4>1, <4>2, NoneAppend
    <3>3. QED
      BY <1>2, <1>3, <3>2 DEF Knows
  <2>3. CASE ~ofono.modems[p].online
    <3>1. ofono'.modems[p].online = ofono.modems[p].online /\ objects'[b].online = objects[b].online
          /\ Alike(inbox', inbox, Tells(b, p, BOOLEAN))
      BY <1>2, <1>3, <2>1, <2>3
    <3>2. QED
      BY <1>11, <2>3, <3>1, KnowsFrame
  <2>4. QED
    BY <2>2, <2>3
<1>8. Obeys(b, S, p)'
  <2> SUFFICES ASSUME ofono'.modems[p].powered
               PROVE  /\ ~After(inbox', Powers(S \ {b}), Triggers(b, p))
                      /\ ~None(inbox', Triggers(b, p))
    BY DEF Obeys
  <2>1. QED
    BY <1>1, <1>2, <1>4, AfterAppend, NoneAppend
<1>9. /\ Asking(b, S) => Asking(b, S)'
      /\ Reaching(b, S) => Reaching(b, S)'
      /\ Reading(b, S) => Reading(b, S)'
      /\ Old(b, S) => Old(b, S)'
      /\ None(calls, AsksOf(S \ {b})) => None(calls', AsksOf(S \ {b}))
  BY <1>3, <1>5, <1>6, EarlyFrame
<1>10. QED
  BY <1>3, <1>7, <1>8, <1>9 DEF Current, Follows

LEMMA CurrentOutside ==
    ASSUME TypeInv, NEW p \in Paths, NEW b, NEW S, Leads(b, S, p), Current(b, S, p), Outside,
           None(inbox', Signals(p))
    PROVE  Current(b, S, p)' /\ Leads(b, S, p)'
<1>1. /\ UNCHANGED <<objects, devices>>
      /\ inbox \in Seq(Message) /\ b \in S
      /\ OfonoStop \/ calls' = calls
  BY QueueTypes, LeadsTypes DEF Outside, OfonoStart, OfonoStop, ModemAdded, ModemRemoved, ModemPowered, daemonVars
<1>2. Leads(b, S, p)' /\ For(p)' = For(p)
  BY <1>1, LeadsSame DEF Ids
<1>3. ASSUME NEW m \in Message, m \notin Heard(S, p), inbox' = Append(inbox, m), calls' = calls,
             ofono'.modems[p] = ofono.modems[p], p \in refused => p \in refused',
             UNCHANGED <<deaf, unread, missed>>
      PROVE  Current(b, S, p)'
  <2>1. Alike(inbox', inbox, Heard(S, p)) /\ Alike(calls', calls, Asked(S))
    BY <1>1, <1>3, AlikeAppend, AlikeLaws
  <2>2. QED
    BY <1>1, <1>2, <1>3, <2>1, CurrentFrame
<1>4. CASE OfonoStart
  <2> DEFINE m == [msg |-> "appeared"]
  <2>1. m \in Message /\ m.msg = "appeared" /\ inbox' = Append(inbox, m)
    BY <1>4, Messages DEF OfonoStart
  <2>2. ofono'.modems = ofono.modems /\ UNCHANGED <<calls, refused, deaf, unread, missed>>
    BY <1>4 DEF OfonoStart, TypeInv, TypeOK, failures
  <2> HIDE DEF m
  <2>3. QED
    <3>1. m \notin Heard(S, p)
      BY <2>1, HeardNot
    <3>2. Current(b, S, p)'
      BY <1>3, <2>1, <2>2, <3>1
    <3>3. QED
      BY <1>2, <3>2
<1>5. CASE OfonoStop
  <2> DEFINE m == [msg |-> "vanished"]
  <2>1. m \in Message /\ m.msg = "vanished" /\ Alike(inbox', Append(inbox, m), ListMessages)
    BY <1>5, Stopped
  <2>2. m \in Signals(p)
    BY <2>1, Sorts
  <2> HIDE DEF m
  <2>3. ~None(Append(inbox, m), Signals(p))
    BY <1>1, <2>1, <2>2, TellAppend
  <2>4. QED
    BY <2>1, <2>3, QueueAlike
<1>6. ASSUME NEW q \in Paths, ModemAdded(q) \/ ModemRemoved(q)
      PROVE  Current(b, S, p)'
  <2>1. PICK m \in Message : m.msg \in {"added", "removed"} /\ m.path = q /\ inbox' = Append(inbox, m)
    BY <1>6, Messages DEF ModemAdded, ModemRemoved
  <2>2. p # q
    <3>1. m \in Signals(p) <=> p = q
      BY <2>1, Sorts
    <3>2. QED
      BY <1>1, <2>1, <3>1, TellAppend
  <2>3. calls' = calls /\ (p \in refused => p \in refused') /\ UNCHANGED <<deaf, unread, missed>>
    BY <1>6, <2>2 DEF ModemAdded, ModemRemoved, failures
  <2>4. ofono'.modems[p] = ofono.modems[p]
    <3>1. ofono \in [up : BOOLEAN, modems : [Paths -> Modem]]
      BY DEF TypeInv, TypeOK
    <3>2. QED
      BY <1>6, <2>2, <3>1 DEF ModemAdded, ModemRemoved
  <2>5. QED
    BY <1>3, <2>1, <2>3, <2>4, HeardNot
<1>7. ASSUME NEW q \in Paths, ModemPowered(q)
      PROVE  Current(b, S, p)'
  <2>1. CASE q = p
    BY <1>7, <2>1, CurrentPowered
  <2>2. CASE q # p
    <3> DEFINE off == Changed(q, "Online", FALSE)
               power == Changed(q, "Powered", ~ofono.modems[q].powered)
    <3>1. /\ off \in Message /\ off.msg = "changed" /\ off.path = q
          /\ power \in Message /\ power.msg = "changed" /\ power.path = q
      BY <1>7, PoweredTells DEF Changed
    <3>2. PICK s \in Seq(Message) : /\ inbox' = Append(s, power)
                                    /\ s = Append(inbox, off) \/ s = inbox
      BY <1>7, PoweredTells
    <3> HIDE DEF off, power
    <3>3. off \notin Heard(S, p) /\ power \notin Heard(S, p)
      BY <2>2, <3>1, HeardNot
    <3>4. Alike(inbox', inbox, Heard(S, p))
      <4>1. Alike(inbox', s, Heard(S, p))
        BY <3>1, <3>2, <3>3, AlikeAppend
      <4>2. Alike(Append(inbox, off), inbox, Heard(S, p)) /\ Alike(inbox, inbox, Heard(S, p))
        BY <1>1, <3>1, <3>3, AlikeAppend, AlikeLaws, SMTT(30)
      <4>3. QED
        BY <3>2, <4>1, <4>2, AlikeLaws
    <3>5. ofono'.modems[p] = ofono.modems[p] /\ UNCHANGED <<calls, refused, deaf>>
      BY <1>7, <2>2, PoweredModems DEF ModemPowered
    <3>6. b \notin Hearers(q)
      BY <2>2, LeadsTypes DEF Hearers
    <3>7. (b \in unread => b \in unread') /\ (b \in missed => b \in missed')
      BY <1>7, <3>6 DEF ModemPowered
    <3>8. QED
      BY <1>1, <1>2, <3>4, <3>5, <3>7, AlikeLaws, CurrentFrame
  <2>3. QED
    BY <2>1, <2>2
<1>8. QED
  BY <1>2, <1>4, <1>5, <1>6, <1>7 DEF Outside

\* The last message tells Online.
LEMMA ToldKnows ==
    ASSUME NEW s \in Seq(Message), NEW m \in Message, inbox' = Append(s, m), NEW b, NEW p,
           m \in Tells(b, p, BOOLEAN),
           m \in Tells(b, p, {TRUE}) <=> ofono'.modems[p].online,
           m \in Tells(b, p, {FALSE}) <=> ~ofono'.modems[p].online
    PROVE  Knows(b, p)'
<1>1. /\ ~After(Append(s, m), Tells(b, p, {TRUE}), Tells(b, p, {FALSE})) \/ ofono'.modems[p].online
      /\ ~After(Append(s, m), Tells(b, p, {FALSE}), Tells(b, p, {TRUE})) \/ ~ofono'.modems[p].online
  BY AfterAppend
<1>2. ~None(Append(s, m), Tells(b, p, BOOLEAN))
  BY NoneAppend
<1>3. QED
  BY <1>1, <1>2 DEF Knows

\* The last message makes the object send what it remembers.
LEMMA UrgedObeys ==
    ASSUME NEW s \in Seq(Message), NEW m \in Message, inbox' = Append(s, m), NEW b, NEW S, NEW p,
           ofono'.modems[p].powered => m \in Triggers(b, p) /\ m \notin Powers(S \ {b})
    PROVE  Obeys(b, S, p)'
<1> SUFFICES ASSUME ofono'.modems[p].powered
             PROVE  /\ ~After(inbox', Powers(S \ {b}), Triggers(b, p))
                    /\ ~None(inbox', Triggers(b, p))
  BY DEF Obeys
<1>1. QED
  BY AfterAppend, NoneAppend

(***************************************************************************)
(* Answers.                                                                *)
(***************************************************************************)
LEMMA CurrentAnswerConnect ==
    ASSUME TypeInv, NEW p \in Paths, NEW b, NEW S, Leads(b, S, p), Current(b, S, p),
           calls # <<>>, calls' = Tail(calls), AnswerConnect(Head(calls)), UNCHANGED daemonVars,
           Head(calls).id \in S, inbox' # inbox
    PROVE  Current(b, S, p)'
<1> DEFINE c == Head(calls) m == [msg |-> "connected", id |-> c.id]
<1>1. /\ c \in Call /\ c.call = "Connect" /\ c.id \in S /\ c = Head(calls)
      /\ m \in Message /\ m.msg = "connected" /\ m.id = c.id /\ inbox' = Append(inbox, m)
      /\ UNCHANGED <<ofono, refused, deaf, unread, missed, objects, devices>>
      /\ inbox \in Seq(Message) /\ calls \in Seq(Call) /\ b \in S
  BY HeadCall, CallShape, Messages, QueueTypes, LeadsTypes DEF AnswerConnect, Fail, daemonVars
<1>2. For(p)' = For(p)
  BY <1>1 DEF For
<1> HIDE DEF c, m
<1>3. /\ c.id = b => c \in ConnectsOf({b})
      /\ c.id # b => c \in ConnectsOf(S \ {b})
      /\ c \notin AsksOf({b}) /\ c \notin AsksOf(S \ {b}) /\ c \notin Sets(S, BOOLEAN)
  BY <1>1, ObjectCallSorts
<1>4. /\ c.id = b => m \in ConnectedOf({b}) /\ m \notin ConnectedOf(S \ {b})
      /\ m \notin Tells(b, p, BOOLEAN) /\ m \notin Triggers(b, p) /\ m \notin Powers(S \ {b})
  <2>1. m \notin Tells(b, p, BOOLEAN) /\ m \notin Triggers(b, p)
    BY <1>1, ObjectSorts
  <2>2. QED
    BY <1>1, <2>1, SortsOf
<1>5. /\ None(calls, ConnectsOf(S \ {b})) => c.id = b /\ None(calls', ConnectsOf(S \ {b}))
      /\ None(calls, AsksOf(S \ {b})) => None(calls', AsksOf(S \ {b}))
      /\ After(calls, AsksOf({b}), AsksOf(S \ {b})) => After(calls', AsksOf({b}), AsksOf(S \ {b}))
      /\ After(calls, ConnectsOf({b}), ConnectsOf(S \ {b}))
           => \/ After(calls', ConnectsOf({b}), ConnectsOf(S \ {b}))
              \/ c.id = b /\ None(calls', ConnectsOf(S \ {b}))
  <2>1. c.id # b => c \notin ConnectsOf({b})
    BY <1>1, ObjectCallSorts
  <2>2. QED
    BY <1>1, <1>3, <2>1, NoneTail, AfterTail
<1>6. /\ c.id = b => After(inbox', ConnectedOf({b}), ConnectedOf(S \ {b}))
      /\ c.id = b /\ None(inbox, ConnectedOf(S \ {b})) => None(inbox', ConnectedOf(S \ {b}))
  BY <1>1, <1>4, NoneAppend, AfterAppend
<1>7. Asking(b, S) => Asking(b, S)' \/ Reaching(b, S)'
  BY <1>5, <1>6 DEF Asking, Reaching
<1>8. Reaching(b, S) => Reaching(b, S)'
  BY <1>5, <1>6 DEF Reaching
<1>9. Old(b, S) => Old(b, S)'
  BY <1>1, <1>5, <1>6 DEF Old
<1>10. Knows(b, p) => Knows(b, p)'
  <2>1. Alike(inbox', inbox, Tells(b, p, BOOLEAN))
    BY <1>1, <1>4, AlikeAppend
  <2>2. QED
    BY <1>1, <2>1, KnowsFrame
<1>11. Obeys(b, S, p) => Obeys(b, S, p)'
  <2>1. m \notin Urges(b, S, p)
    BY <1>4 DEF Urges
  <2>2. Alike(inbox', inbox, Urges(b, S, p))
    BY <1>1, <2>1, AlikeAppend
  <2>3. Alike(calls', calls, Sets(S, BOOLEAN))
    BY <1>1, <1>3, AlikeTail
  <2>4. QED
    BY <1>1, <1>2, <2>2, <2>3, ObeysFrame
<1>12. QED
  BY <1>1, <1>5, <1>7, <1>8, <1>9, <1>10, <1>11 DEF Current, Reading, Follows

LEMMA CurrentAnswerGetProperties ==
    ASSUME TypeInv, NEW p \in Paths, NEW b, NEW S, Leads(b, S, p), Current(b, S, p),
           calls # <<>>, calls' = Tail(calls), AnswerGetProperties(Head(calls)), UNCHANGED daemonVars,
           Head(calls).id \in S, ofono.modems[p].present, inbox' # inbox
    PROVE  Current(b, S, p)'
<1> DEFINE c == Head(calls)
           m == [msg |-> "properties", id |-> c.id,
                 powered |-> ofono.modems[p].powered, online |-> ofono.modems[p].online]
<1>0. ofono.modems[p].powered \in BOOLEAN /\ ofono.modems[p].online \in BOOLEAN
  BY QueueTypes DEF Modem
<1>1. /\ c \in Call /\ c.call = "GetProperties" /\ c.id \in S /\ c = Head(calls)
      /\ m \in Message /\ m.msg = "properties" /\ m.id = c.id
      /\ m.powered = ofono.modems[p].powered /\ m.online = ofono.modems[p].online
      /\ inbox' = Append(inbox, m)
      /\ UNCHANGED <<ofono, refused, deaf, unread, missed, objects, devices>>
      /\ inbox \in Seq(Message) /\ calls \in Seq(Call) /\ b \in S
  <2>1. /\ c \in Call /\ c.call = "GetProperties" /\ c.id \in S /\ c.id \in Ids
        /\ objects[c.id].path = p
    BY HeadCall, CallShape, LeadsTypes DEF AnswerGetProperties
  <2>2. m \in Message
    BY <1>0, <2>1, Messages
  <2>3. QED
    BY <2>1, <2>2, QueueTypes, LeadsTypes, SMTT(30) DEF AnswerGetProperties, Fail, daemonVars
<1> HIDE DEF c, m
<1>2. /\ c.id = b => c \in AsksOf({b})
      /\ c.id # b => c \notin AsksOf({b}) /\ c \in AsksOf(S \ {b})
      /\ c \notin ConnectsOf(S)
  BY <1>1, ObjectCallSorts
<1>3. /\ None(calls, AsksOf(S \ {b})) => c.id = b /\ None(calls', AsksOf(S \ {b}))
      /\ After(calls, AsksOf({b}), AsksOf(S \ {b}))
           => \/ After(calls', AsksOf({b}), AsksOf(S \ {b}))
              \/ c.id = b /\ None(calls', AsksOf(S \ {b}))
  BY <1>1, <1>2, NoneTail, AfterTail
<1>4. /\ Asking(b, S) => Asking(b, S)'
      /\ Reaching(b, S) => Reaching(b, S)'
      /\ Old(b, S) => Old(b, S)'
  <2>1. m \notin ConnectedOf(S)
    BY <1>1, ObjectSorts
  <2>2. Alike(inbox', inbox, ConnectedOf(S)) /\ Alike(calls', calls, ConnectsOf(S))
    BY <1>1, <1>2, <2>1, AlikeAppend, AlikeTail
  <2>3. QED
    BY <1>1, <2>2, ConnectFrame
<1>5. c.id = b => Knows(b, p)' /\ Obeys(b, S, p)'
  <2> SUFFICES ASSUME c.id = b PROVE Knows(b, p)' /\ Obeys(b, S, p)'
    OBVIOUS
  <2>1. /\ m \in Tells(b, p, BOOLEAN)
        /\ m \in Tells(b, p, {TRUE}) <=> m.online
        /\ m \in Tells(b, p, {FALSE}) <=> ~m.online
        /\ m \in Triggers(b, p) <=> m.powered
    BY <1>1, ObjectSorts
  <2>0. m \notin Powers(S \ {b})
    BY <1>1, SortsOf
  <2>2. ofono'.modems[p].online = m.online /\ ofono'.modems[p].powered = m.powered
    BY <1>1
  <2>3. Knows(b, p)'
    BY <1>1, <2>1, <2>2, ToldKnows
  <2>4. Obeys(b, S, p)'
    BY <1>1, <2>0, <2>1, <2>2, UrgedObeys
  <2>5. QED
    BY <2>3, <2>4
<1>6. QED
  BY <1>1, <1>3, <1>4, <1>5 DEF Current, Reading, Follows

\* An error: an object that has no proxy yet gets none, and one that asked for the
\* properties last is only excused.
LEMMA CurrentUnanswered ==
    ASSUME TypeInv, NEW p \in Paths, NEW b, NEW S, Leads(b, S, p), Current(b, S, p),
           calls # <<>>, calls' = Tail(calls), UNCHANGED daemonVars, inbox' = inbox,
           AnswerConnect(Head(calls)) \/ AnswerGetProperties(Head(calls)),
           ofono.modems[p].present
    PROVE  Current(b, S, p)'
<1> DEFINE c == Head(calls)
<1>1. /\ c \in Call /\ c.call \in {"Connect", "GetProperties"} /\ c = Head(calls) /\ c.id \in Ids
      /\ UNCHANGED <<ofono, refused, objects, devices>>
      /\ inbox \in Seq(Message) /\ calls \in Seq(Call) /\ b \in S
      /\ \A a \in Ids : a \in S <=> objects[a].path = p
  BY HeadCall, QueueTypes, LeadsTypes DEF AnswerConnect, AnswerGetProperties, daemonVars
<1>2. /\ deaf \subseteq deaf' /\ unread \subseteq unread' /\ missed \subseteq missed'
      /\ c.call = "Connect" => c.id \in deaf'
      /\ c.call = "GetProperties" /\ c.id = b => b \in unread' /\ b \in missed'
  <2>1. Append(inbox, [msg |-> "connected", id |-> c.id]) # inbox
    BY <1>1, Messages, AppendProperties
  <2>2. CASE AnswerConnect(c)
    BY <2>1, <2>2, SMTT(30) DEF AnswerConnect
  <2>3. CASE AnswerGetProperties(c)
    <3> DEFINE m == [msg |-> "properties", id |-> c.id, powered |-> ofono.modems[objects[c.id].path].powered,
                     online |-> ofono.modems[objects[c.id].path].online]
    <3>1. m \in Message
      <4>1. ofono.modems[objects[c.id].path] \in Modem
        BY <1>1, ObjectTypes, QueueTypes
      <4>2. QED
        BY <1>1, <4>1, Messages DEF Modem
    <3>2. Append(inbox, m) # inbox
      <4> HIDE DEF m
      <4>1. QED
        BY <1>1, <3>1, AppendProperties
    <3>3. c.id = b => ofono.modems[objects[c.id].path].present
      BY <1>1
    <3>4. QED
      BY <2>3, <3>2, <3>3 DEF AnswerGetProperties
  <2>4. QED
    BY <1>1, <2>2, <2>3
<1> HIDE DEF c
<1>3. For(p)' = For(p)
  BY <1>1 DEF For
<1>4. CASE c.id = b /\ c.call = "Connect"
  BY <1>2, <1>4 DEF Current
<1>5. CASE c.id = b /\ c.call = "GetProperties"
  <2>1. /\ c \in AsksOf({b}) /\ c \notin ConnectsOf(S)
        /\ c \notin AsksOf(S \ {b})
    BY <1>1, <1>5, ObjectCallSorts
  <2>2. Alike(inbox', inbox, ConnectedOf(S)) /\ Alike(calls', calls, ConnectsOf(S))
    BY <1>1, <2>1, AlikeTail, AlikeLaws
  <2>3. /\ Asking(b, S) => Asking(b, S)'
        /\ Reaching(b, S) => Reaching(b, S)'
        /\ Old(b, S) => Old(b, S)'
    BY <1>1, <2>2, ConnectFrame
  <2>4. /\ None(calls, AsksOf(S \ {b})) => None(calls', AsksOf(S \ {b}))
        /\ After(calls, AsksOf({b}), AsksOf(S \ {b}))
             => \/ After(calls', AsksOf({b}), AsksOf(S \ {b}))
                \/ None(calls', AsksOf(S \ {b}))
    BY <1>1, <2>1, NoneTail, AfterTail
  <2>5. b \in unread' /\ b \in missed' /\ deaf \subseteq deaf'
    BY <1>2, <1>5
  <2>6. QED
    BY <2>3, <2>4, <2>5 DEF Current, Reading, Follows
<1>6. CASE c.id # b /\ c.id \in S
  <2>1. /\ c \notin ConnectsOf({b}) /\ c \notin AsksOf({b}) /\ c \notin Sets(S, BOOLEAN)
    BY <1>1, <1>6, ObjectCallSorts
  <2>2. /\ After(calls, ConnectsOf({b}), ConnectsOf(S \ {b})) => After(calls', ConnectsOf({b}), ConnectsOf(S \ {b}))
        /\ None(calls, ConnectsOf(S \ {b})) => None(calls', ConnectsOf(S \ {b}))
        /\ After(calls, AsksOf({b}), AsksOf(S \ {b})) => After(calls', AsksOf({b}), AsksOf(S \ {b}))
        /\ None(calls, AsksOf(S \ {b})) => None(calls', AsksOf(S \ {b}))
    BY <1>1, <2>1, NoneTail, AfterTail
  <2>3. Knows(b, p) => Knows(b, p)'
    BY <1>1, AlikeLaws, KnowsFrame
  <2>4. Obeys(b, S, p) => Obeys(b, S, p)'
    <3>1. Alike(calls', calls, Sets(S, BOOLEAN))
      BY <1>1, <2>1, AlikeTail
    <3>2. QED
      BY <1>1, <1>3, <3>1, AlikeLaws, ObeysFrame
  <2>5. /\ Asking(b, S) => Asking(b, S)'
        /\ Reaching(b, S) => Reaching(b, S)'
        /\ Old(b, S) => Old(b, S)'
    BY <1>1, <2>2 DEF Asking, Reaching, Old
  <2>6. QED
    BY <1>2, <2>2, <2>3, <2>4, <2>5 DEF Current, Reading, Follows
<1>7. CASE c.id \notin S
  <2>1. Alike(inbox', inbox, Heard(S, p)) /\ Alike(calls', calls, Asked(S))
    BY <1>1, <1>7, AskedNot, AlikeTail, AlikeLaws
  <2>2. QED
    BY <1>1, <1>2, <1>3, <2>1, CurrentFrame
<1>8. QED
  BY <1>1, <1>4, <1>5, <1>6, <1>7, SMTT(30)

LEMMA CurrentAnswerSetProperty ==
    ASSUME TypeInv, NEW p \in Paths, NEW b, NEW S, Leads(b, S, p), Current(b, S, p),
           calls # <<>>, calls' = Tail(calls), AnswerSetProperty(Head(calls)), UNCHANGED daemonVars,
           Head(calls).id \in S
    PROVE  Current(b, S, p)'
<1> DEFINE c == Head(calls) v == c.online m == Changed(p, "Online", v)
<1>1. /\ c \in Call /\ c.call = "SetProperty" /\ c.id \in S /\ c.id \in Ids /\ c = Head(calls)
      /\ v \in BOOLEAN /\ objects[c.id].path = p
      /\ UNCHANGED <<objects, devices>> /\ For(p)' = For(p)
      /\ inbox \in Seq(Message) /\ calls \in Seq(Call) /\ b \in S
      /\ ofono.modems[p] \in Modem /\ ofono.modems[p].online \in BOOLEAN
      /\ ofono.modems[p].powered \in BOOLEAN /\ UNCHANGED <<deaf, missed>>
  <2>1. c \in Call /\ c.call = "SetProperty" /\ c.id \in S /\ c.id \in Ids /\ v \in BOOLEAN
    BY HeadCall, CallShape DEF AnswerSetProperty
  <2>2. objects[c.id].path = p /\ b \in S
    BY <2>1, LeadsTypes
  <2>3. /\ ofono.modems[p] \in Modem /\ ofono.modems[p].online \in BOOLEAN
        /\ ofono.modems[p].powered \in BOOLEAN
    BY QueueTypes, SMTT(30) DEF Modem
  <2>4. UNCHANGED <<objects, devices, deaf, missed>> /\ For(p)' = For(p)
    BY DEF daemonVars, For, AnswerSetProperty
  <2>5. QED
    BY <2>1, <2>2, <2>3, <2>4, QueueTypes, SMTT(30)
<1>2. /\ m \in Message /\ m.msg = "changed" /\ m.path = p /\ m.name = "Online" /\ m.value = v
  BY <1>1, Messages DEF Changed
\* What oFono does of it.
<1>3. /\ ofono'.modems[p].powered = ofono.modems[p].powered
      /\ p \in refused => p \in refused' \/ ofono'.modems[p].online = v
      /\ \/ /\ ofono.modems[p].powered
            /\ ofono'.modems[p].online = v
            /\ inbox' = IF ofono.modems[p].online = v THEN inbox ELSE Append(inbox, m)
            /\ ofono.modems[p].online = v => unread' = unread
         \/ /\ ~ofono.modems[p].powered
            /\ UNCHANGED <<ofono, inbox, unread>>
         \/ /\ ofono.modems[p].powered /\ p \in refused'
            /\ UNCHANGED <<ofono, inbox, unread>>
  <2>1. CASE ofono.modems[p].powered /\ UNCHANGED left
    <3>1. /\ ofono' = [ofono EXCEPT !.modems[p] =
                         [present |-> ofono.modems[p].present, powered |-> TRUE, online |-> v]]
          /\ inbox' = IF ofono.modems[p].online = v THEN inbox ELSE Append(inbox, m)
          /\ ofono.modems[p].online = v => unread' = unread
      BY <1>1, <2>1, SMTT(30) DEF AnswerSetProperty, Spend, TypeInv, TypeOK, Kinds
    <3>2. ofono'.modems[p].powered /\ ofono'.modems[p].online = v
      BY <1>1, <2>1, <3>1, SetModems
    <3>3. QED
      BY <1>1, <2>1, <3>1, <3>2
  <2>2. CASE ~ofono.modems[p].powered
    <3>1. UNCHANGED <<ofono, inbox, refused, unread>>
      BY <1>1, <2>2 DEF AnswerSetProperty
    <3>2. QED
      BY <2>2, <3>1
  <2>3. CASE ofono.modems[p].powered /\ left' # left
    <3>1. UNCHANGED <<ofono, inbox, unread>> /\ refused' = refused \union {p}
      BY <1>1, <2>3 DEF AnswerSetProperty
    <3>2. QED
      BY <2>3, <3>1
  <2>4. QED
    BY <2>1, <2>2, <2>3
<1> HIDE DEF c, v, m
<1>4. /\ c \notin ConnectsOf(S) \union AsksOf(S)
      /\ c \in Sets(S, BOOLEAN)
      /\ c \in Sets(S, {TRUE}) <=> v
      /\ c \in Sets(S, {FALSE}) <=> ~v
  BY <1>1, ObjectCallSorts DEF v
<1>5. /\ m \notin ConnectedOf(S) /\ m \notin Urges(b, S, p)
      /\ m \in Tells(b, p, BOOLEAN)
      /\ m \in Tells(b, p, {TRUE}) <=> v
      /\ m \in Tells(b, p, {FALSE}) <=> ~v
  <2>1. m \notin ConnectedOf(S)
    BY <1>2, ObjectSorts
  <2>2. m \notin Triggers(b, p)
    BY <1>2, ObjectSorts, ZenonT(60)
  <2>3. m \notin Powers(S \ {b})
    BY <1>2, ObjectSorts
  <2>4. m \in Tells(b, p, BOOLEAN)
    BY <1>2, ObjectSorts
  <2>5. m \in Tells(b, p, {TRUE}) <=> v
    BY <1>2, ObjectSorts, ZenonT(60)
  <2>6. m \in Tells(b, p, {FALSE}) <=> ~v
    BY <1>2, ObjectSorts, ZenonT(60)
  <2>7. QED
    BY <2>1, <2>2, <2>3, <2>4, <2>5, <2>6 DEF Urges
<1>6. inbox' = inbox \/ inbox' = Append(inbox, m)
  BY <1>3
<1>7. /\ Asking(b, S) => Asking(b, S)'
      /\ Reaching(b, S) => Reaching(b, S)'
      /\ Reading(b, S) => Reading(b, S)'
      /\ Old(b, S) => Old(b, S)'
      /\ None(calls, AsksOf(S \ {b})) => None(calls', AsksOf(S \ {b}))
  <2>1. Alike(Append(inbox, m), inbox, ConnectedOf(S)) /\ Alike(inbox, inbox, ConnectedOf(S))
    BY <1>1, <1>2, <1>5, AlikeAppend, AlikeLaws
  <2>2. Alike(calls', calls, ConnectsOf(S) \union AsksOf(S))
    BY <1>1, <1>4, AlikeTail
  <2>3. QED
    BY <1>1, <1>6, <2>1, <2>2, EarlyFrame
<1>8. b \in unread \/ Knows(b, p) => b \in unread' \/ Knows(b, p)'
  <2>1. CASE inbox' = inbox
    <3>1. ofono'.modems[p].online = ofono.modems[p].online /\ unread' = unread
      <4>1. Append(inbox, m) # inbox
        BY <1>1, <1>2, AppendProperties
      <4>2. QED
        BY <1>3, <2>1, <4>1
    <3>2. QED
      BY <1>1, <2>1, <3>1, AlikeLaws, KnowsFrame
  <2>2. CASE inbox' # inbox
    <3>1. inbox' = Append(inbox, m) /\ ofono'.modems[p].online = v
      BY <1>3, <2>2
    <3>2. QED
      BY <1>1, <1>2, <1>5, <3>1, ToldKnows
  <2>3. QED
    BY <2>1, <2>2
<1>9. ofono'.modems[p].powered /\ LastWord(b, S, p) => LastWord(b, S, p)'
  <2> SUFFICES ASSUME ofono'.modems[p].powered, LastWord(b, S, p) PROVE LastWord(b, S, p)'
    OBVIOUS
  <2>1. /\ After(calls', Sets(S, {TRUE}), Sets(S, {FALSE})) => After(calls, Sets(S, {TRUE}), Sets(S, {FALSE}))
        /\ After(calls', Sets(S, {FALSE}), Sets(S, {TRUE})) => After(calls, Sets(S, {FALSE}), Sets(S, {TRUE}))
        /\ v /\ None(calls', Sets(S, {FALSE})) => After(calls, Sets(S, {TRUE}), Sets(S, {FALSE}))
        /\ ~v /\ None(calls', Sets(S, {TRUE})) => After(calls, Sets(S, {FALSE}), Sets(S, {TRUE}))
    BY <1>1, <1>4, AfterTail
  <2>2. None(calls', Sets(S, BOOLEAN)) => None(calls', Sets(S, {TRUE})) /\ None(calls', Sets(S, {FALSE}))
    BY <1>1, ObjectSets DEF None
  <2>3. None(calls', Sets(S, BOOLEAN)) => (v <=> ~objects[b].soft)
    BY <1>1, <2>1, <2>2 DEF LastWord
  <2>4. ofono'.modems[p].online = v \/ p \in refused'
    BY <1>3
  <2>5. QED
    BY <1>1, <2>1, <2>3, <2>4 DEF LastWord
<1>10. Obeys(b, S, p) => Obeys(b, S, p)'
  <2>1. Alike(Append(inbox, m), inbox, Urges(b, S, p)) /\ Alike(inbox, inbox, Urges(b, S, p))
    BY <1>1, <1>2, <1>5, AlikeAppend, AlikeLaws
  <2>2. Alike(inbox', inbox, Urges(b, S, p))
    BY <1>6, <2>1
  <2>3. Triggers(b, p) \in SUBSET Urges(b, S, p) /\ Powers(S \ {b}) \in SUBSET Urges(b, S, p)
    BY DEF Urges
  <2>4. /\ None(inbox, Triggers(b, p)) <=> None(inbox', Triggers(b, p))
        /\ After(inbox, Powers(S \ {b}), Triggers(b, p)) <=> After(inbox', Powers(S \ {b}), Triggers(b, p))
    BY <2>2, <2>3 DEF Alike
  <2>5. QED
    BY <1>1, <1>3, <1>9, <2>4 DEF Obeys
<1>11. QED
  BY <1>1, <1>7, <1>8, <1>10 DEF Current, Follows

LEMMA CurrentAnswer ==
    ASSUME TypeInv, NEW p \in Paths, NEW b, NEW S, Leads(b, S, p), Current(b, S, p), Answer,
           ofono.modems[p].present
    PROVE  Current(b, S, p)' /\ Leads(b, S, p)'
<1> DEFINE c == Head(calls)
<1>1. /\ calls # <<>> /\ calls' = Tail(calls) /\ UNCHANGED daemonVars /\ c = Head(calls)
      /\ c \in Call /\ calls \in Seq(Call) /\ inbox \in Seq(Message) /\ b \in S
      /\ UNCHANGED <<objects, devices>> /\ S \subseteq Ids
      /\ \A a \in Ids : a \in S <=> objects[a].path = p
  BY HeadCall, QueueTypes, LeadsTypes DEF Answer, daemonVars
<1>2. Leads(b, S, p)' /\ For(p)' = For(p)
  BY <1>1, LeadsSame DEF Ids
<1> SUFFICES Current(b, S, p)'
  BY <1>2
<1> HIDE DEF c
<1>3. ASSUME c \notin Asked(S), ofono'.modems[p] = ofono.modems[p], p \in refused => p \in refused',
             b \in deaf => b \in deaf', b \in unread => b \in unread', b \in missed => b \in missed',
             inbox' = inbox \/ \E m \in Message : m \notin Heard(S, p) /\ inbox' = Append(inbox, m)
      PROVE  Current(b, S, p)'
  <2>1. \A m \in Message : m \notin Heard(S, p) => Alike(Append(inbox, m), inbox, Heard(S, p))
    BY <1>1, AlikeAppend
  <2>2. Alike(inbox', inbox, Heard(S, p))
    BY <1>3, <2>1, AlikeLaws
  <2>3. Alike(calls', calls, Asked(S))
    BY <1>1, <1>3, AlikeTail
  <2>4. QED
    BY <1>1, <1>2, <1>3, <2>2, <2>3, CurrentFrame
<1>4. CASE AnswerManagerConnect(c) \/ AnswerGetModems(c)
  <2>1. c.call \in {"ManagerConnect", "GetModems"} /\ UNCHANGED <<ofono, refused, deaf, unread, missed>>
    BY <1>4 DEF AnswerManagerConnect, AnswerGetModems, failures
  <2>2. c \notin Asked(S)
    BY <1>1, <2>1, AskedNot
  <2>3. inbox' = inbox \/ \E m \in Message : m.msg \in {"managerConnected", "modems"} /\ inbox' = Append(inbox, m)
    <3>1. CASE AnswerManagerConnect(c)
      BY <3>1, Messages DEF AnswerManagerConnect, Fail
    <3>2. CASE AnswerGetModems(c)
      <4>1. CASE \E list \in Bijection(1 .. Cardinality(Present), Present) :
                   inbox' = Append(inbox, [msg |-> "modems", ok |-> TRUE, paths |-> list])
        BY <4>1, Listing, Messages
      <4>2. CASE inbox' = Append(inbox, [msg |-> "modems", ok |-> FALSE, paths |-> <<>>])
        BY <4>2, EmptySeq, Messages
      <4>3. QED
        BY <3>2, <4>1, <4>2 DEF AnswerGetModems
    <3>3. QED
      BY <1>4, <3>1, <3>2
  <2>4. inbox' = inbox \/ \E m \in Message : m \notin Heard(S, p) /\ inbox' = Append(inbox, m)
    BY <2>3, HeardNot
  <2>5. QED
    BY <1>3, <2>1, <2>2, <2>4
<1>5. CASE AnswerConnect(c)
  <2>0. CASE inbox' = inbox
    BY <1>1, <1>5, <2>0, CurrentUnanswered
  <2>1. CASE c.id \in S /\ inbox' # inbox
    BY <1>1, <1>5, <2>1, CurrentAnswerConnect
  <2>2. CASE c.id \notin S /\ inbox' # inbox
    <3> DEFINE m == [msg |-> "connected", id |-> c.id]
    <3>1. /\ m \in Message /\ m.msg = "connected" /\ m.id = c.id /\ c.call = "Connect"
          /\ inbox' = Append(inbox, m) /\ UNCHANGED <<ofono, refused, deaf, unread, missed>>
      BY <1>1, <1>5, <2>2, CallShape, Messages DEF AnswerConnect, Fail
    <3> HIDE DEF m
    <3>2. c \notin Asked(S) /\ m \notin Heard(S, p)
      BY <1>1, <2>2, <3>1, AskedNot, HeardNot
    <3>3. QED
      BY <1>3, <3>1, <3>2
  <2>3. QED
    BY <2>0, <2>1, <2>2
<1>6. CASE AnswerGetProperties(c)
  <2>0. CASE inbox' = inbox
    BY <1>1, <1>6, <2>0, CurrentUnanswered
  <2>1. CASE c.id \in S /\ inbox' # inbox
    BY <1>1, <1>6, <2>1, CurrentAnswerGetProperties
  <2>2. CASE c.id \notin S /\ inbox' # inbox
    <3>1. /\ c.call = "GetProperties" /\ UNCHANGED <<ofono, refused, deaf, unread, missed>>
          /\ \/ inbox' = inbox
             \/ inbox' = Append(inbox, [msg |-> "properties", id |-> c.id,
                                        powered |-> ofono.modems[objects[c.id].path].powered,
                                        online |-> ofono.modems[objects[c.id].path].online])
      BY <1>6, <2>2 DEF AnswerGetProperties, Fail
    <3>2. c.id \in Ids /\ ofono.modems[objects[c.id].path] \in Modem
      BY <1>1, <3>1, HeadCall
    <3>3. inbox' = inbox \/ \E m \in Message : m.msg = "properties" /\ m.id = c.id /\ inbox' = Append(inbox, m)
      BY <3>1, <3>2, Messages DEF Modem
    <3>4. inbox' = inbox \/ \E m \in Message : m \notin Heard(S, p) /\ inbox' = Append(inbox, m)
      BY <2>2, <3>3, HeardNot
    <3>5. c \notin Asked(S)
      BY <1>1, <2>2, AskedNot
    <3>6. QED
      BY <1>3, <3>1, <3>4, <3>5
  <2>3. QED
    BY <2>0, <2>1, <2>2
<1>7. CASE AnswerSetProperty(c)
  <2>1. CASE c.id \in S
    BY <1>1, <1>7, <2>1, CurrentAnswerSetProperty
  <2>2. CASE c.id \notin S
    <3> DEFINE q == objects[c.id].path
    <3>1. c.call = "SetProperty" /\ c.id \in Ids /\ q \in Paths /\ q # p /\ c.online \in BOOLEAN
      BY <1>1, <1>7, <2>2, HeadCall, CallShape DEF AnswerSetProperty
    <3>2. /\ ofono'.modems[p] = ofono.modems[p]
          /\ p \in refused => p \in refused'
          /\ inbox' = inbox \/ inbox' = Append(inbox, Changed(q, "Online", c.online))
      <4>1. CASE ofono' = ofono
        BY <1>7, <3>1, <4>1 DEF AnswerSetProperty
      <4>2. CASE ofono' # ofono
        <5>1. /\ ofono.modems[q].powered
              /\ ofono' = [ofono EXCEPT !.modems[q] =
                             [present |-> ofono.modems[q].present, powered |-> TRUE, online |-> c.online]]
              /\ inbox' = inbox \/ inbox' = Append(inbox, Changed(q, "Online", c.online))
              /\ refused' = refused \ {q}
          BY <1>7, <4>2, SMTT(30) DEF AnswerSetProperty
        <5>2. ofono'.modems[p] = ofono.modems[p]
          BY <3>1, <5>1, SetModems
        <5>3. QED
          BY <3>1, <5>1, <5>2, SMTT(30)
      <4>3. QED
        BY <4>1, <4>2, SMTT(30)
    <3>7. b \notin Hearers(q)
      BY <1>1, <3>1, SMTT(30) DEF Hearers
    <3>8. /\ b \in deaf => b \in deaf'
          /\ b \in unread => b \in unread'
          /\ b \in missed => b \in missed'
      BY <1>7, <3>7 DEF AnswerSetProperty
    <3> HIDE DEF q
    <3>3. inbox' = inbox \/ \E m \in Message : m.msg = "changed" /\ m.path = q /\ inbox' = Append(inbox, m)
      BY <3>1, <3>2, Messages DEF Changed
    <3>4. inbox' = inbox \/ \E m \in Message : m \notin Heard(S, p) /\ inbox' = Append(inbox, m)
      BY <3>1, <3>3, HeardNot
    <3>5. c \notin Asked(S)
      BY <1>1, <2>2, AskedNot
    <3>6. QED
      BY <1>3, <3>2, <3>4, <3>5, <3>8, SMTT(30)
  <2>3. QED
    BY <2>1, <2>2
<1>8. QED
  BY <1>1, <1>4, <1>5, <1>6, <1>7 DEF Answer, c

(***************************************************************************)
(* What the objects are told.                                              *)
(***************************************************************************)
\* The last call is what the object remembers.
LEMMA SaidLast ==
    ASSUME NEW r \in Seq(Call), NEW c \in Call, calls' = Append(r, c), NEW b, NEW S, NEW p,
           c \in Sets(S, BOOLEAN),
           c \in Sets(S, {TRUE}) <=> ~objects'[b].soft,
           c \in Sets(S, {FALSE}) <=> objects'[b].soft
    PROVE  LastWord(b, S, p)'
<1>1. /\ ~After(Append(r, c), Sets(S, {TRUE}), Sets(S, {FALSE})) \/ ~objects'[b].soft
      /\ ~After(Append(r, c), Sets(S, {FALSE}), Sets(S, {TRUE})) \/ objects'[b].soft
  BY AfterAppend
<1>2. ~None(Append(r, c), Sets(S, BOOLEAN))
  BY NoneAppend
<1>3. QED
  BY <1>1, <1>2 DEF LastWord

\* The message that was taken told Online, or it did not.
LEMMA ReadKnows ==
    ASSUME NEW b, NEW p, inbox \in Seq(Message), inbox # <<>>, inbox' = Tail(inbox),
           NEW m \in Message, m = Head(inbox), UNCHANGED ofono, NEW on \in BOOLEAN,
           m \in Tells(b, p, BOOLEAN),
           m \in Tells(b, p, {TRUE}) <=> on, m \in Tells(b, p, {FALSE}) <=> ~on,
           objects'[b].online = AsOnline(on), ofono.modems[p].online \in BOOLEAN, Knows(b, p)
    PROVE  Knows(b, p)'
<1>1. /\ After(inbox', Tells(b, p, {TRUE}), Tells(b, p, {FALSE})) => After(inbox, Tells(b, p, {TRUE}), Tells(b, p, {FALSE}))
      /\ After(inbox', Tells(b, p, {FALSE}), Tells(b, p, {TRUE})) => After(inbox, Tells(b, p, {FALSE}), Tells(b, p, {TRUE}))
      /\ on /\ None(inbox', Tells(b, p, {FALSE})) => After(inbox, Tells(b, p, {TRUE}), Tells(b, p, {FALSE}))
      /\ ~on /\ None(inbox', Tells(b, p, {TRUE})) => After(inbox, Tells(b, p, {FALSE}), Tells(b, p, {TRUE}))
  BY AfterTail
<1>2. None(inbox', Tells(b, p, BOOLEAN)) => None(inbox', Tells(b, p, {TRUE})) /\ None(inbox', Tells(b, p, {FALSE}))
  BY DEF None, Tells
<1>3. None(inbox', Tells(b, p, BOOLEAN)) => ofono'.modems[p].online = on
  BY <1>1, <1>2 DEF Knows
<1>4. QED
  BY <1>1, <1>3 DEF Knows

LEMMA CurrentConnected ==
    ASSUME TypeInv, NEW p \in Paths, NEW b, NEW S, Leads(b, S, p), Current(b, S, p), HandleConnected
    PROVE  Current(b, S, p)'
<1> DEFINE m == Head(inbox) a == m.id c == [call |-> "GetProperties", id |-> a]
<1>1. /\ inbox # <<>> /\ inbox' = Tail(inbox) /\ m = Head(inbox) /\ m \in Message /\ a = m.id
      /\ m.msg = "connected" /\ a \in Ids /\ c \in Call /\ c.call = "GetProperties" /\ c.id = a
      /\ inbox \in Seq(Message) /\ calls \in Seq(Call) /\ b \in S /\ b \in Ids
      /\ UNCHANGED <<ofono, refused, deaf, unread, missed, devices>>
  <2>1. m \in Message /\ m.msg = "connected" /\ a \in Ids
    BY HeadMessage, MessageShape DEF HandleConnected, Take
  <2>2. c \in Call
    BY <2>1, Calls
  <2>3. QED
    BY <2>1, <2>2, QueueTypes, LeadsTypes DEF HandleConnected, Take, failures
<1>2. calls' = Append(calls, c)
  <2>1. calls' = calls \o <<c>>
    BY <1>1 DEF HandleConnected, ProxyReadyCalls
  <2>2. QED
    BY <1>1, <2>1, AppendIsConcat
<1>3. /\ objects' \in [Ids -> Device] /\ objects'[a] = ProxyReady(objects[a])
      /\ \A x \in Ids : x # a => objects'[x] = objects[x]
  <2>1. objects' = [objects EXCEPT ![a] = ProxyReady(objects[a])] /\ ProxyReady(objects[a]) \in Device
    BY <1>1, ObjectTypes, DeviceTypes DEF HandleConnected
  <2>2. QED
    BY <1>1, <2>1, OneObject
<1> HIDE DEF c, m, a
<1>4. For(p)' = For(p) /\ (a = b => objects'[b].proxy)
  <2>1. objects[a] \in Device
    BY <1>1, ObjectTypes
  <2>2. ProxyReady(objects[a]).path = objects[a].path /\ ProxyReady(objects[a]).proxy
    BY <2>1, DeviceTypes
  <2>3. \A x \in Ids : objects'[x].path = objects[x].path
    BY <1>1, <1>3, <2>2
  <2>4. QED
    BY <1>1, <1>3, <2>2, <2>3, ForSame
<1>5. CASE a \notin S
  <2>1. m \notin Heard(S, p) /\ c \notin Asked(S)
    BY <1>1, <1>5, HeardNot, AskedNot
  <2>2. Alike(inbox', inbox, Heard(S, p)) /\ Alike(calls', calls, Asked(S))
    BY <1>1, <1>2, <2>1, AlikeTail, AlikeAppend
  <2>3. objects'[b] = objects[b]
    BY <1>1, <1>3, <1>5
  <2>4. QED
    BY <1>1, <1>4, <2>2, <2>3, CurrentFrame
<1>6. CASE a \in S
  <2>1. /\ a = b => m \notin ConnectedOf(S \ {b})
        /\ a # b => m \notin ConnectedOf({b}) /\ m \in ConnectedOf(S \ {b})
        /\ c \notin ConnectsOf({b}) /\ c \notin ConnectsOf(S \ {b})
        /\ a = b => c \in AsksOf({b})
    <3>1. /\ m \in ConnectedOf({b}) <=> a = b
          /\ m \in ConnectedOf(S \ {b}) <=> a # b
      <4>1. /\ m \in ConnectedOf({b}) <=> m.msg = "connected" /\ m.id = b
            /\ m \in ConnectedOf(S \ {b}) <=> m.msg = "connected" /\ m.id \in S /\ m.id # b
        BY <1>1, SortsOf
      <4>2. QED
        BY <1>1, <1>6, <4>1
    <3>2. /\ c \notin ConnectsOf({b}) /\ c \notin ConnectsOf(S \ {b})
          /\ c \in AsksOf({b}) <=> a = b
      BY <1>1, <1>6, CallSortsOf
    <3>3. QED
      BY <3>1, <3>2
  <2>2. /\ After(calls, ConnectsOf({b}), ConnectsOf(S \ {b})) => After(calls', ConnectsOf({b}), ConnectsOf(S \ {b}))
        /\ None(calls, ConnectsOf(S \ {b})) => None(calls', ConnectsOf(S \ {b}))
        /\ a = b => After(calls', AsksOf({b}), AsksOf(S \ {b}))
    BY <1>1, <1>2, <2>1, AfterAppend, NoneAppend
  <2>3. /\ None(inbox, ConnectedOf(S \ {b})) => a = b /\ None(inbox', ConnectedOf(S \ {b}))
        /\ After(inbox, ConnectedOf({b}), ConnectedOf(S \ {b}))
             => \/ After(inbox', ConnectedOf({b}), ConnectedOf(S \ {b}))
                \/ a = b /\ None(inbox', ConnectedOf(S \ {b}))
    BY <1>1, <2>1, NoneTail, AfterTail
  <2>4. a = b => objects'[b].proxy
    BY <1>4
  <2>5. Asking(b, S) => Asking(b, S)'
    BY <2>2 DEF Asking
  <2>6. Reaching(b, S) => Reaching(b, S)' \/ Reading(b, S)'
    BY <2>2, <2>3, <2>4 DEF Reaching, Reading, Old
  <2>7. Old(b, S) => Reading(b, S)'
    BY <2>2, <2>3, <2>4 DEF Reading, Old
  <2>8. QED
    BY <1>1, <2>5, <2>6, <2>7 DEF Current, Reading, Follows
<1>7. QED
  BY <1>5, <1>6

LEMMA CurrentProperties ==
    ASSUME TypeInv, NEW p \in Paths, NEW b, NEW S, Leads(b, S, p), Current(b, S, p), HandleProperties
    PROVE  Current(b, S, p)'
<1> DEFINE m == Head(inbox) a == m.id t == PropertiesCalls(objects[a], a, m.powered)
           c == [call |-> "SetProperty", id |-> a, online |-> ~objects[a].soft]
<1>1. /\ inbox # <<>> /\ inbox' = Tail(inbox) /\ m = Head(inbox) /\ m \in Message /\ a = m.id
      /\ m.msg = "properties" /\ a \in Ids /\ m.powered \in BOOLEAN /\ m.online \in BOOLEAN
      /\ inbox \in Seq(Message) /\ calls \in Seq(Call) /\ b \in S /\ b \in Ids
      /\ UNCHANGED <<ofono, refused, deaf, unread, missed, devices>> /\ calls' = calls \o t
      /\ ofono.modems[p].online \in BOOLEAN
  <2>1. m \in Message /\ m.msg = "properties" /\ a \in Ids /\ m.powered \in BOOLEAN /\ m.online \in BOOLEAN
    BY HeadMessage, MessageShape DEF HandleProperties, Take
  <2>2. QED
    BY <2>1, QueueTypes, LeadsTypes DEF HandleProperties, Take, Modem, failures
<1>2. /\ objects' \in [Ids -> Device] /\ objects'[a] = PropertiesRead(objects[a], m.online)
      /\ \A x \in Ids : x # a => objects'[x] = objects[x]
  <2>1. /\ objects' = [objects EXCEPT ![a] = PropertiesRead(objects[a], m.online)]
        /\ PropertiesRead(objects[a], m.online) \in Device
    BY <1>1, ObjectTypes, DeviceTypes DEF HandleProperties
  <2>2. QED
    BY <1>1, <2>1, OneObject
<1>5. /\ objects[a].soft \in BOOLEAN /\ c \in Call
      /\ c.call = "SetProperty" /\ c.id = a /\ c.online = ~objects[a].soft
      /\ m.powered /\ objects[a].proxy => t = <<c>>
      /\ ~(m.powered /\ objects[a].proxy) => t = <<>>
  BY <1>1, ObjectTypes, Calls, PoweredCallsType DEF PropertiesCalls
<1>6. /\ m.powered /\ objects[a].proxy => calls' = Append(calls, c)
      /\ ~(m.powered /\ objects[a].proxy) => calls' = calls
  <2>1. calls \o <<c>> = Append(calls, c) /\ calls \o <<>> = calls
    BY <1>1, <1>5, AppendIsConcat, ConcatEmptySeq
  <2>2. QED
    BY <1>1, <1>5, <2>1
<1> HIDE DEF t, c, m, a
<1>3. /\ \A x \in Ids : /\ objects'[x].path = objects[x].path
                        /\ objects'[x].soft = objects[x].soft /\ objects'[x].proxy = objects[x].proxy
      /\ a = b => objects'[b].online = AsOnline(m.online)
  <2>1. objects[a] \in Device
    BY <1>1, ObjectTypes
  <2>2. /\ PropertiesRead(objects[a], m.online).path = objects[a].path
        /\ PropertiesRead(objects[a], m.online).soft = objects[a].soft
        /\ PropertiesRead(objects[a], m.online).proxy = objects[a].proxy
        /\ PropertiesRead(objects[a], m.online).online = AsOnline(m.online)
    BY <2>1, DeviceTypes
  <2>3. QED
    BY <1>1, <1>2, <2>2
<1>4. For(p)' = For(p)
  BY <1>1, <1>3, ForSame
<1>7. CASE a \notin S
  <2>1. m \notin Heard(S, p) /\ c \notin Asked(S)
    BY <1>1, <1>5, <1>7, HeardNot, AskedNot
  <2>2. Alike(inbox', inbox, Heard(S, p)) /\ Alike(calls, calls, Asked(S)) /\ Alike(Append(calls, c), calls, Asked(S))
    BY <1>1, <1>5, <2>1, AlikeTail, AlikeAppend, AlikeLaws
  <2>3. objects'[b] = objects[b]
    BY <1>1, <1>2, <1>7
  <2>4. QED
    BY <1>1, <1>4, <1>6, <2>2, <2>3, CurrentFrame
<1>8. CASE a \in S
  <2>1. /\ m \notin ConnectedOf(S) /\ c \notin ConnectsOf(S) \union AsksOf(S)
        /\ m \in Tells(b, p, BOOLEAN) <=> a = b
        /\ m \in Tells(b, p, {TRUE}) <=> a = b /\ m.online
        /\ m \in Tells(b, p, {FALSE}) <=> a = b /\ ~m.online
        /\ m \in Triggers(b, p) <=> a = b /\ m.powered
        /\ c \in Sets(S, BOOLEAN)
        /\ c \in Sets(S, {TRUE}) <=> ~objects[a].soft
        /\ c \in Sets(S, {FALSE}) <=> objects[a].soft
    <3>1. /\ m \notin ConnectedOf(S)
          /\ m \in Tells(b, p, BOOLEAN) <=> a = b
          /\ m \in Tells(b, p, {TRUE}) <=> a = b /\ m.online
          /\ m \in Tells(b, p, {FALSE}) <=> a = b /\ ~m.online
          /\ m \in Triggers(b, p) <=> a = b /\ m.powered
      BY <1>1, <1>8, ObjectSorts
    <3>2. /\ c \notin ConnectsOf(S) \union AsksOf(S)
          /\ c \in Sets(S, BOOLEAN)
          /\ c \in Sets(S, {TRUE}) <=> ~objects[a].soft
          /\ c \in Sets(S, {FALSE}) <=> objects[a].soft
      BY <1>5, <1>8, ObjectCallSorts
    <3>3. QED
      BY <3>1, <3>2
  <2>2. m \in Powers(S \ {b}) <=> a # b /\ m.powered
    BY <1>1, <1>8, SortsOf
  <2>3. /\ Asking(b, S) => Asking(b, S)'
        /\ Reaching(b, S) => Reaching(b, S)'
        /\ Reading(b, S) => Reading(b, S)'
        /\ Old(b, S) => Old(b, S)'
        /\ None(calls, AsksOf(S \ {b})) => None(calls', AsksOf(S \ {b}))
    <3>1. /\ Alike(inbox', inbox, ConnectedOf(S))
          /\ Alike(Append(calls, c), calls, ConnectsOf(S) \union AsksOf(S))
          /\ Alike(calls, calls, ConnectsOf(S) \union AsksOf(S))
      BY <1>1, <1>5, <2>1, AlikeTail, AlikeAppend, AlikeLaws
    <3>2. QED
      BY <1>1, <1>3, <1>6, <3>1, EarlyFrame
  <2>4. Knows(b, p) => Knows(b, p)'
    <3>1. CASE a = b
      BY <1>1, <1>3, <2>1, <3>1, ReadKnows
    <3>2. CASE a # b
      <4>1. Alike(inbox', inbox, Tells(b, p, BOOLEAN)) /\ objects'[b].online = objects[b].online
        BY <1>1, <1>2, <2>1, <3>2, AlikeTail
      <4>2. QED
        BY <1>1, <4>1, KnowsFrame
    <3>3. QED
      BY <3>1, <3>2
  <2>5. Old(b, S) /\ Obeys(b, S, p) => Obeys(b, S, p)'
    <3> SUFFICES ASSUME Old(b, S), Obeys(b, S, p), For(p) = {b}, ofono.modems[p].powered
                 PROVE  /\ ~After(inbox', Powers(S \ {b}), Triggers(b, p))
                        /\ None(inbox', Triggers(b, p)) => LastWord(b, S, p)'
      BY <1>1, <1>4 DEF Obeys
    <3>1. /\ ~After(inbox, Powers(S \ {b}), Triggers(b, p))
          /\ None(inbox, Triggers(b, p)) => LastWord(b, S, p)
          /\ objects[b].proxy
      BY DEF Obeys, Old
    <3>2. ~After(inbox', Powers(S \ {b}), Triggers(b, p))
      BY <1>1, <3>1, AfterTail
    <3> SUFFICES ASSUME None(inbox', Triggers(b, p)) PROVE LastWord(b, S, p)'
      BY <3>2
    <3>3. ~(a # b /\ m.powered)
      BY <1>1, <2>2, <3>1, AfterTail
    <3>4. CASE m.powered
      <4>1. a = b /\ calls' = Append(calls, c) /\ objects'[b].soft = objects[a].soft
        BY <1>1, <1>3, <1>6, <3>1, <3>3, <3>4
      <4>2. QED
        BY <1>1, <1>5, <2>1, <4>1, SaidLast
    <3>5. CASE ~m.powered
      <4>1. None(inbox, Triggers(b, p)) /\ calls' = calls
        BY <1>1, <1>6, <2>1, <3>5, NoneTail
      <4>2. LastWord(b, S, p) /\ Alike(calls', calls, Sets(S, BOOLEAN))
        BY <3>1, <4>1, AlikeLaws
      <4>3. QED
        BY <1>1, <1>3, <4>2, LastWordFrame
    <3>6. QED
      BY <1>1, <3>4, <3>5
  <2>6. QED
    BY <1>1, <2>3, <2>4, <2>5 DEF Current, Follows
<1>9. QED
  BY <1>7, <1>8

\* The objects that hear a modem send in the order in which they were made: the
\* newest one is last.
LEMMA SendersParts ==
    ASSUME TypeInv, NEW p
    PROVE  LET s == [id \in Ids |-> id]
           IN  /\ s \in Seq(Ids) /\ DOMAIN s = Ids /\ \A id \in Ids : s[id] = id
               /\ Hearers(p) \subseteq Ids
               /\ Senders(p) \in Seq(Ids) /\ Len(Senders(p)) \in Nat
               /\ DOMAIN Senders(p) = 1 .. Len(Senders(p))
               /\ \A i \in DOMAIN Senders(p) : Senders(p)[i] \in Hearers(p)
               /\ Alike(Senders(p), s, Hearers(p))
<1> DEFINE s == [id \in Ids |-> id] H == Hearers(p) k == Kept(s, H)
<1>1. Ids = 1 .. Len(objects) /\ Len(objects) \in Nat /\ H \subseteq Ids
  BY ObjectTypes DEF Hearers
<1>2. s \in Seq(Ids) /\ DOMAIN s = Ids /\ \A id \in Ids : s[id] = id
  <2>1. s \in [1 .. Len(objects) -> Ids]
    BY <1>1
  <2>2. QED
    BY <1>1, <2>1, FunctionIsSeq
<1>3. Senders(p) = k
  BY DEF Senders
<1> HIDE DEF s, H
<1>4. k \in Seq(Ids) /\ k \in Seq(H) /\ Alike(k, s, H)
  BY <1>2, KeptAlike
<1> HIDE DEF k
<1>5. DOMAIN k = 1 .. Len(k) /\ Len(k) \in Nat /\ \A i \in DOMAIN k : k[i] \in H
  BY <1>4, LenProperties, ElementOfSeq
<1>6. QED
  BY <1>1, <1>2, <1>3, <1>4, <1>5 DEF s, H

LEMMA SendersLast ==
    ASSUME TypeInv, NEW p, NEW b \in Hearers(p), \A a \in Hearers(p) : a <= b
    PROVE  \E i \in DOMAIN Senders(p) :
             Senders(p)[i] = b /\ \A j \in DOMAIN Senders(p) : i < j => Senders(p)[j] = b
<1> DEFINE s == [id \in Ids |-> id] H == Hearers(p) k == Senders(p)
<1>1. /\ s \in Seq(Ids) /\ DOMAIN s = Ids /\ \A id \in Ids : s[id] = id
      /\ H \subseteq Ids /\ Alike(k, s, H) /\ \A i \in DOMAIN k : k[i] \in H
  BY SendersParts
<1>2. b \in H /\ (\A a \in H : a <= b) /\ Ids \subseteq Nat
  BY ObjectTypes
<1> HIDE DEF s, H, k
<1>3. After(s, {b}, H \ {b})
  <2>1. b \in DOMAIN s /\ s[b] \in {b}
    BY <1>1, <1>2
  <2>2. \A j \in DOMAIN s : b < j => s[j] \notin H \ {b}
    <3> SUFFICES ASSUME NEW j \in Ids, b < j, j \in H PROVE FALSE
      BY <1>1
    <3>1. j <= b /\ j \in Nat /\ b \in Nat
      BY <1>1, <1>2
    <3>2. QED
      BY <3>1
  <2>3. QED
    BY <2>1, <2>2 DEF After
<1>4. After(k, {b}, H \ {b})
  <2>1. {b} \in SUBSET H /\ H \ {b} \in SUBSET H
    BY <1>2
  <2>2. QED
    BY <1>1, <1>3, <2>1 DEF Alike
<1>5. \E i \in DOMAIN k : k[i] = b /\ \A j \in DOMAIN k : i < j => k[j] = b
  BY <1>1, <1>4 DEF After
<1>6. QED
  BY <1>5 DEF k

\* Calls of which the last one of S is what the object remembers.
LEMMA SaidAll ==
    ASSUME NEW r \in Seq(Call), NEW t \in Seq(Call), calls' = r \o t, NEW b, NEW S, NEW p,
           NEW v \in BOOLEAN, objects'[b].soft <=> ~v,
           NEW i \in DOMAIN t,
           \A j \in DOMAIN t : i <= j /\ t[j].call = "SetProperty" /\ t[j].id \in S => t[j].online = v,
           t[i].call = "SetProperty", t[i].id \in S
    PROVE  LastWord(b, S, p)'
<1>1. DOMAIN t = 1 .. Len(t) /\ Len(t) \in Nat /\ \A j \in DOMAIN t : t[j] \in Call
  BY LenProperties, ElementOfSeq
<1>2. \A j \in DOMAIN t : /\ t[j] \in Sets(S, BOOLEAN) <=> t[j].call = "SetProperty" /\ t[j].id \in S
                          /\ t[j] \in Sets(S, {TRUE}) <=> t[j].call = "SetProperty" /\ t[j].id \in S /\ t[j].online
                          /\ t[j] \in Sets(S, {FALSE}) <=> t[j].call = "SetProperty" /\ t[j].id \in S /\ ~t[j].online
  BY <1>1, ObjectCallSorts
<1>3. t[i].online = v
  BY <1>1
<1>4. ~None(t, Sets(S, BOOLEAN))
  BY <1>2 DEF None
<1>5. CASE v
  <2>1. t[i] \in Sets(S, {TRUE}) /\ \A j \in DOMAIN t : i <= j => t[j] \notin Sets(S, {FALSE})
    BY <1>2, <1>3, <1>5
  <2>2. ~After(t, Sets(S, {FALSE}), Sets(S, {TRUE})) /\ ~None(t, Sets(S, {TRUE}))
    <3> SUFFICES ASSUME NEW k \in DOMAIN t, t[k] \in Sets(S, {FALSE}),
                        \A j \in DOMAIN t : k < j => t[j] \notin Sets(S, {TRUE})
                 PROVE  FALSE
      BY <2>1 DEF After, None
    <3>1. k < i \/ i <= k
      BY <1>1
    <3>2. QED
      BY <2>1, <3>1
  <2>3. ~After(calls', Sets(S, {FALSE}), Sets(S, {TRUE})) /\ ~None(calls', Sets(S, BOOLEAN))
    BY <1>4, <2>2, AfterConcat, NoneConcat
  <2>4. QED
    BY <1>5, <2>3 DEF LastWord
<1>6. CASE ~v
  <2>1. t[i] \in Sets(S, {FALSE}) /\ \A j \in DOMAIN t : i <= j => t[j] \notin Sets(S, {TRUE})
    BY <1>2, <1>3, <1>6
  <2>2. ~After(t, Sets(S, {TRUE}), Sets(S, {FALSE})) /\ ~None(t, Sets(S, {FALSE}))
    <3> SUFFICES ASSUME NEW k \in DOMAIN t, t[k] \in Sets(S, {TRUE}),
                        \A j \in DOMAIN t : k < j => t[j] \notin Sets(S, {FALSE})
                 PROVE  FALSE
      BY <2>1 DEF After, None
    <3>1. k < i \/ i <= k
      BY <1>1
    <3>2. QED
      BY <2>1, <3>1
  <2>3. ~After(calls', Sets(S, {TRUE}), Sets(S, {FALSE})) /\ ~None(calls', Sets(S, BOOLEAN))
    BY <1>4, <2>2, AfterConcat, NoneConcat
  <2>4. QED
    BY <1>6, <2>3 DEF LastWord
<1>7. QED
  BY <1>5, <1>6

\* Calls that only ask for blocks leave the rest as it is.
LEMMA SaidEarly ==
    ASSUME NEW r \in Seq(Call), NEW t \in Seq(Call), calls' = r \o t, NEW S,
           \A j \in DOMAIN t : t[j].call = "SetProperty"
    PROVE  /\ Alike(calls', r, ConnectsOf(S) \union AsksOf(S))
           /\ (\A j \in DOMAIN t : t[j].id \notin S) => Alike(calls', r, Asked(S))
<1>1. \A j \in DOMAIN t : t[j] \in Call
  BY ElementOfSeq
<1>2. \A j \in DOMAIN t : t[j] \notin ConnectsOf(S) \union AsksOf(S)
  BY <1>1, ObjectCallSorts
<1>3. ASSUME \A j \in DOMAIN t : t[j].id \notin S
      PROVE  \A j \in DOMAIN t : t[j] \notin Asked(S)
  BY <1>1, <1>3, AskedNot
<1>4. None(t, ConnectsOf(S) \union AsksOf(S))
  BY <1>2 DEF None
<1>5. (\A j \in DOMAIN t : t[j].id \notin S) => None(t, Asked(S))
  BY <1>3 DEF None
<1>6. QED
  BY <1>4, <1>5, AlikeConcat

LEMMA CurrentChanged ==
    ASSUME TypeInv, NEW p \in Paths, NEW b, NEW S, Leads(b, S, p), Current(b, S, p), HandleChanged
    PROVE  Current(b, S, p)'
<1> DEFINE m == Head(inbox) q == m.path powers == m.name = "Powered" /\ m.value
           t == [i \in 1 .. Len(Senders(q)) |->
                   [call |-> "SetProperty", id |-> Senders(q)[i], online |-> ~objects[Senders(q)[i]].soft]]
<1>1. /\ inbox # <<>> /\ inbox' = Tail(inbox) /\ m = Head(inbox) /\ m \in Message /\ q = m.path
      /\ m.msg = "changed" /\ q \in Paths /\ m.name \in {"Online", "Powered"} /\ m.value \in BOOLEAN
      /\ inbox \in Seq(Message) /\ calls \in Seq(Call) /\ b \in S /\ b \in Ids /\ S \subseteq Ids
      /\ \A a \in Ids : a \in S <=> objects[a].path = p
      /\ \A a \in S : a <= b
      /\ UNCHANGED <<ofono, refused, deaf, unread, missed, devices>>
      /\ ofono.modems[p].online \in BOOLEAN
      /\ ~powers => calls' = calls
      /\ powers => calls' = calls \o t
  <2>1. /\ m \in Message /\ q \in Paths /\ m.name \in {"Online", "Powered"} /\ m.value \in BOOLEAN
        /\ ~powers => calls' = calls
        /\ powers => calls' = calls \o t
    BY ChangedParts, SMTT(30)
  <2>2. /\ inbox # <<>> /\ inbox' = Tail(inbox) /\ m.msg = "changed"
        /\ UNCHANGED <<ofono, refused, deaf, unread, missed, devices>>
    BY DEF HandleChanged, Take, failures
  <2>3. /\ inbox \in Seq(Message) /\ calls \in Seq(Call) /\ ofono.modems[p].online \in BOOLEAN
    BY QueueTypes DEF Modem
  <2>4. /\ b \in S /\ b \in Ids /\ S \subseteq Ids
        /\ \A a \in Ids : a \in S <=> objects[a].path = p
        /\ \A a \in S : a <= b
    BY LeadsTypes DEF Leads
  <2> HIDE DEF t
  <2>5. QED
    BY <2>1, <2>2, <2>3, <2>4, SMTT(30)
<1>2. /\ objects' \in [Ids -> Device]
      /\ \A id \in Ids : objects'[id] = IF id \in Hearers(q) THEN PropertyChanged(objects[id], m.name, m.value)
                                        ELSE objects[id]
  BY ChangedParts, SMTT(30)
<1>3. /\ t \in Seq(Call) /\ DOMAIN t = DOMAIN Senders(q)
      /\ \A j \in DOMAIN t : /\ t[j].call = "SetProperty" /\ t[j].id = Senders(q)[j]
                            /\ t[j].online = ~objects[t[j].id].soft
                            /\ Senders(q)[j] \in Hearers(q)
  <2>1. /\ Len(Senders(q)) \in Nat /\ DOMAIN Senders(q) = 1 .. Len(Senders(q))
        /\ \A i \in 1 .. Len(Senders(q)) : Senders(q)[i] \in Hearers(q) /\ Senders(q)[i] \in Ids
    BY SendersParts
  <2>2. t \in [1 .. Len(Senders(q)) -> Call]
    BY <2>1, ObjectTypes, Calls
  <2>3. DOMAIN t = DOMAIN Senders(q) /\ t \in Seq(Call)
    BY <2>1, <2>2, FunctionIsSeq
  <2>4. QED
    BY <2>1, <2>3
<1> HIDE DEF t, q, m
<1>4. /\ \A x \in Ids : /\ objects'[x].path = objects[x].path
                        /\ objects'[x].soft = objects[x].soft /\ objects'[x].proxy = objects[x].proxy
      /\ b \in Hearers(q) => objects'[b].online = IF m.name = "Online" THEN AsOnline(m.value)
                                                ELSE objects[b].online
  <2>1. \A x \in Ids : /\ PropertyChanged(objects[x], m.name, m.value).path = objects[x].path
                       /\ PropertyChanged(objects[x], m.name, m.value).soft = objects[x].soft
                       /\ PropertyChanged(objects[x], m.name, m.value).proxy = objects[x].proxy
                       /\ PropertyChanged(objects[x], m.name, m.value).online
                            = IF m.name = "Online" THEN AsOnline(m.value) ELSE objects[x].online
    <3> SUFFICES ASSUME NEW x \in Ids
                 PROVE  /\ PropertyChanged(objects[x], m.name, m.value).path = objects[x].path
                        /\ PropertyChanged(objects[x], m.name, m.value).soft = objects[x].soft
                        /\ PropertyChanged(objects[x], m.name, m.value).proxy = objects[x].proxy
                        /\ PropertyChanged(objects[x], m.name, m.value).online
                             = IF m.name = "Online" THEN AsOnline(m.value) ELSE objects[x].online
      OBVIOUS
    <3>1. objects[x] \in Device
      BY ObjectTypes
    <3>2. QED
      BY <3>1, DeviceTypes
  <2>2. QED
    BY <1>1, <1>2, <2>1
<1>5. For(p)' = For(p)
  BY <1>1, <1>4, ForSame
<1>6. CASE q # p
  <2>1. Hearers(q) \cap S = {}
    BY <1>1, <1>6 DEF Hearers
  <2>2. objects'[b] = objects[b]
    BY <1>1, <1>2, <2>1
  <2>3. m \notin Heard(S, p) /\ Alike(inbox', inbox, Heard(S, p))
    BY <1>1, <1>6, HeardNot, AlikeTail
  <2>4. Alike(calls', calls, Asked(S))
    <3>1. CASE powers
      <4>1. \A j \in DOMAIN t : t[j].id \notin S
        BY <1>3, <2>1
      <4>2. QED
        BY <1>1, <1>3, <3>1, <4>1, SaidEarly
    <3>2. CASE ~powers
      BY <1>1, <3>2, AlikeLaws
    <3>3. QED
      BY <3>1, <3>2
  <2>5. QED
    BY <1>1, <1>5, <2>2, <2>3, <2>4, CurrentFrame
<1>7. CASE q = p
  <2>1. /\ m \notin ConnectedOf(S)
        /\ m \in Tells(b, p, BOOLEAN) <=> m.name = "Online"
        /\ m \in Tells(b, p, {TRUE}) <=> m.name = "Online" /\ m.value
        /\ m \in Tells(b, p, {FALSE}) <=> m.name = "Online" /\ ~m.value
        /\ m \in Triggers(b, p) <=> powers
    BY <1>1, <1>7, ObjectSorts
  <2>2. /\ Asking(b, S) => Asking(b, S)'
        /\ Reaching(b, S) => Reaching(b, S)'
        /\ Reading(b, S) => Reading(b, S)'
        /\ Old(b, S) => Old(b, S)'
        /\ None(calls, AsksOf(S \ {b})) => None(calls', AsksOf(S \ {b}))
    <3>1. Alike(inbox', inbox, ConnectedOf(S))
      BY <1>1, <2>1, AlikeTail
    <3>2. Alike(calls', calls, ConnectsOf(S) \union AsksOf(S))
      BY <1>1, <1>3, SaidEarly, AlikeLaws
    <3>3. QED
      BY <1>1, <1>4, <3>1, <3>2, EarlyFrame
  <2>3. Old(b, S) => b \in Hearers(q)
    BY <1>1, <1>7 DEF Old, Hearers
  <2>4. Old(b, S) /\ Knows(b, p) => Knows(b, p)'
    <3> SUFFICES ASSUME Old(b, S), Knows(b, p) PROVE Knows(b, p)'
      OBVIOUS
    <3>1. CASE m.name = "Online"
      <4>1. objects'[b].online = AsOnline(m.value)
        BY <1>4, <2>3, <3>1
      <4>2. QED
        BY <1>1, <2>1, <3>1, <4>1, ReadKnows
    <3>2. CASE m.name # "Online"
      <4>1. objects'[b].online = objects[b].online
        BY <1>4, <2>3, <3>2
      <4>2. Alike(inbox', inbox, Tells(b, p, BOOLEAN))
        BY <1>1, <2>1, <3>2, AlikeTail
      <4>3. QED
        BY <1>1, <4>1, <4>2, KnowsFrame
    <3>3. QED
      BY <3>1, <3>2
  <2>5. Old(b, S) /\ Obeys(b, S, p) => Obeys(b, S, p)'
    <3> SUFFICES ASSUME Old(b, S), Obeys(b, S, p), For(p) = {b}, ofono.modems[p].powered
                 PROVE  /\ ~After(inbox', Powers(S \ {b}), Triggers(b, p))
                        /\ None(inbox', Triggers(b, p)) => LastWord(b, S, p)'
      BY <1>1, <1>5 DEF Obeys
    <3>1. /\ ~After(inbox, Powers(S \ {b}), Triggers(b, p))
          /\ None(inbox, Triggers(b, p)) => LastWord(b, S, p)
      BY DEF Obeys
    <3>2. ~After(inbox', Powers(S \ {b}), Triggers(b, p))
      BY <1>1, <3>1, AfterTail
    <3> SUFFICES ASSUME None(inbox', Triggers(b, p)) PROVE LastWord(b, S, p)'
      BY <3>2
    <3>3. CASE powers
      <4>1. \A a \in Hearers(q) : a <= b
        BY <1>1, <1>7 DEF Hearers
      <4>2. PICK i \in DOMAIN Senders(q) :
              Senders(q)[i] = b /\ \A j \in DOMAIN Senders(q) : i < j => Senders(q)[j] = b
        BY <2>3, <4>1, SendersLast
      <4>3. i \in Nat /\ DOMAIN Senders(q) \subseteq Nat
        <5>1. DOMAIN Senders(q) = 1 .. Len(Senders(q)) /\ Len(Senders(q)) \in Nat
          BY SendersParts
        <5>2. QED
          BY <4>2, <5>1
      <4>4. \A j \in DOMAIN t : i <= j => Senders(q)[j] = b
        BY <1>3, <4>2, <4>3
      <4> DEFINE v == ~objects[b].soft
      <4>5. \A j \in DOMAIN t : i <= j => t[j].online = v
        BY <1>3, <4>4
      <4>6. v \in BOOLEAN /\ (objects'[b].soft <=> ~v)
        BY <1>1, <1>4, ObjectTypes
      <4>7. i \in DOMAIN t /\ t[i].call = "SetProperty" /\ t[i].id \in S
        BY <1>1, <1>3, <4>2
      <4> HIDE DEF v
      <4>8. QED
        <5>1. \A j \in DOMAIN t : i <= j /\ t[j].call = "SetProperty" /\ t[j].id \in S => t[j].online = v
          BY <4>5
        <5>2. t \in Seq(Call) /\ calls' = calls \o t /\ calls \in Seq(Call)
          BY <1>1, <1>3, <3>3
        <5>3. QED
          BY <4>6, <4>7, <5>1, <5>2, SaidAll
    <3>4. CASE ~powers
      <4>1. None(inbox, Triggers(b, p)) /\ calls' = calls
        BY <1>1, <2>1, <3>4, NoneTail
      <4>2. LastWord(b, S, p) /\ Alike(calls', calls, Sets(S, BOOLEAN))
        BY <3>1, <4>1, AlikeLaws
      <4>3. QED
        BY <1>1, <1>4, <4>2, LastWordFrame
    <3>5. QED
      BY <3>3, <3>4
  <2>6. QED
    BY <1>1, <2>2, <2>4, <2>5 DEF Current, Follows
<1>8. QED
  BY <1>6, <1>7

(***************************************************************************)
(* Requests.                                                               *)
(***************************************************************************)
LEMMA CurrentRequestBlock ==
    ASSUME TypeInv, NEW p \in Paths, NEW b, NEW S, Leads(b, S, p), Current(b, S, p),
           NEW v \in BOOLEAN, RequestBlock(v)
    PROVE  Current(b, S, p)'
<1> DEFINE ids == Reverse(devices) t == SetCalls(ids, v)
<1>1. /\ t \in Seq(Call) /\ calls' = calls \o t /\ calls \in Seq(Call)
      /\ UNCHANGED <<ofono, inbox, refused, deaf, unread, missed, devices>>
      /\ b \in S /\ b \in Ids /\ S \subseteq Ids /\ b \in ToSet(devices)
  BY BlockedParts, QueueTypes, LeadsTypes DEF RequestBlock, failures
<1>2. \A id \in Ids : objects'[id] = IF id \in ToSet(devices) THEN SoftSet(objects[id], v) ELSE objects[id]
  BY BlockedParts
<1>3. ids \in Seq(Ids) /\ ToSet(ids) = ToSet(devices)
  BY ReverseParts DEF TypeInv, TypeOK
<1>4. /\ \A j \in DOMAIN t : t[j].call = "SetProperty" /\ t[j].online = ~v
      /\ objects[b].proxy => \E i \in DOMAIN t : t[i].call = "SetProperty" /\ t[i].id = b /\ t[i].online = ~v
  <2> HIDE DEF ids
  <2>1. /\ \A i \in DOMAIN t : \E id \in ToSet(ids) :
                /\ objects[id].proxy
                /\ t[i] = [call |-> "SetProperty", id |-> id, online |-> ~v]
        /\ \A id \in ToSet(ids) : objects[id].proxy =>
                \E i \in DOMAIN t : t[i] = [call |-> "SetProperty", id |-> id, online |-> ~v]
    BY <1>3, SetCallsParts
  <2> HIDE DEF t
  <2>2. \A j \in DOMAIN t : t[j].call = "SetProperty" /\ t[j].online = ~v
    BY <2>1
  <2>3. b \in ToSet(ids)
    BY <1>1, <1>3
  <2>4. ASSUME objects[b].proxy
        PROVE  \E i \in DOMAIN t : t[i].call = "SetProperty" /\ t[i].id = b /\ t[i].online = ~v
    <3>1. PICK i \in DOMAIN t : t[i] = [call |-> "SetProperty", id |-> b, online |-> ~v]
      BY <2>1, <2>3, <2>4
    <3>2. QED
      BY <3>1
  <2>5. QED
    BY <2>2, <2>4
<1> HIDE DEF t, ids
<1>5. /\ \A x \in Ids : /\ objects'[x].path = objects[x].path
                        /\ objects'[x].online = objects[x].online /\ objects'[x].proxy = objects[x].proxy
      /\ objects'[b].soft = v
  <2>1. \A x \in Ids : /\ SoftSet(objects[x], v).path = objects[x].path
                       /\ SoftSet(objects[x], v).online = objects[x].online
                       /\ SoftSet(objects[x], v).proxy = objects[x].proxy
                       /\ SoftSet(objects[x], v).soft = v
    <3> TAKE x \in Ids
    <3>1. objects[x] \in Device
      BY ObjectTypes
    <3>2. QED
      BY <3>1, DeviceTypes
  <2>2. QED
    BY <1>1, <1>2, <2>1
<1>6. For(p)' = For(p)
  BY <1>1, <1>5, ForSame
<1>7. /\ Asking(b, S) => Asking(b, S)'
      /\ Reaching(b, S) => Reaching(b, S)'
      /\ Reading(b, S) => Reading(b, S)'
      /\ Old(b, S) => Old(b, S)'
      /\ None(calls, AsksOf(S \ {b})) => None(calls', AsksOf(S \ {b}))
  <2>1. Alike(inbox', inbox, ConnectedOf(S)) /\ Alike(calls', calls, ConnectsOf(S) \union AsksOf(S))
    BY <1>1, <1>4, SaidEarly, AlikeLaws
  <2>2. QED
    BY <1>1, <1>5, <2>1, EarlyFrame
<1>8. Knows(b, p) => Knows(b, p)'
  BY <1>1, <1>5, AlikeLaws, KnowsFrame
<1>9. Old(b, S) /\ Obeys(b, S, p) => Obeys(b, S, p)'
  <2> SUFFICES ASSUME Old(b, S), Obeys(b, S, p), For(p) = {b}, ofono.modems[p].powered
               PROVE  /\ ~After(inbox', Powers(S \ {b}), Triggers(b, p))
                      /\ LastWord(b, S, p)'
    BY <1>1, <1>6 DEF Obeys
  <2>1. ~After(inbox', Powers(S \ {b}), Triggers(b, p))
    BY <1>1 DEF Obeys
  <2>2. PICK i \in DOMAIN t : t[i].call = "SetProperty" /\ t[i].id = b /\ t[i].online = ~v
    BY <1>4 DEF Old
  <2> DEFINE w == ~v
  <2>3. w \in BOOLEAN /\ (objects'[b].soft <=> ~w) /\ t[i].id \in S
    BY <1>1, <1>5, <2>2
  <2>4. \A j \in DOMAIN t : i <= j /\ t[j].call = "SetProperty" /\ t[j].id \in S => t[j].online = w
    BY <1>4
  <2> HIDE DEF w
  <2>5. LastWord(b, S, p)'
    BY <1>1, <2>2, <2>3, <2>4, SaidAll, ZenonT(60)
  <2>6. QED
    BY <2>1, <2>5
<1>10. QED
  BY <1>1, <1>7, <1>8, <1>9 DEF Current, Follows

LEMMA CurrentRequestBlockIdx ==
    ASSUME TypeInv, NEW p \in Paths, NEW b, NEW S, Leads(b, S, p), Current(b, S, p),
           NEW v \in BOOLEAN, NEW index, RequestBlockIdx(index, v)
    PROVE  Current(b, S, p)'
<1>1. PICK a \in ToSet(devices) :
        /\ a \in Ids
        /\ objects' \in [Ids -> Device] /\ objects'[a] = SoftSet(objects[a], v)
        /\ \A x \in Ids : x # a => objects'[x] = objects[x]
        /\ SoftCalls(objects[a], a, v) \in Seq(Call)
        /\ calls' = calls \o SoftCalls(objects[a], a, v)
  BY BlockedIdxParts
<1> DEFINE c == [call |-> "SetProperty", id |-> a, online |-> ~v]
<1>2. /\ UNCHANGED <<ofono, inbox, refused, deaf, unread, missed, devices>>
      /\ b \in S /\ b \in Ids /\ S \subseteq Ids /\ b \in ToSet(devices)
      /\ \A x \in Ids : x \in S <=> objects[x].path = p
      /\ calls \in Seq(Call)
      /\ c \in Call /\ c.call = "SetProperty" /\ c.id = a /\ c.online = ~v
  <2>1. UNCHANGED <<ofono, inbox, refused, deaf, unread, missed, devices>>
    BY DEF RequestBlockIdx, failures
  <2>2. b \in S /\ b \in Ids /\ S \subseteq Ids /\ b \in ToSet(devices)
    BY LeadsTypes
  <2>3. \A x \in Ids : x \in S <=> objects[x].path = p
    BY LeadsTypes
  <2>4. calls \in Seq(Call)
    BY QueueTypes
  <2>5. c \in Call
    BY <1>1, Calls
  <2>6. c.call = "SetProperty" /\ c.id = a /\ c.online = ~v
    OBVIOUS
  <2>7. QED
    BY <2>1, <2>2, <2>3, <2>4, <2>5, <2>6
<1>3. /\ objects[a].proxy => calls' = Append(calls, c)
      /\ ~objects[a].proxy => calls' = calls
  <2>1. /\ objects[a].proxy => SoftCalls(objects[a], a, v) = <<c>>
        /\ ~objects[a].proxy => SoftCalls(objects[a], a, v) = <<>>
    BY DEF SoftCalls
  <2>2. calls \o <<c>> = Append(calls, c) /\ calls \o <<>> = calls
    BY <1>2, AppendIsConcat, ConcatEmptySeq
  <2>3. QED
    BY <1>1, <2>1, <2>2
<1> HIDE DEF c
<1>4. /\ \A x \in Ids : /\ objects'[x].path = objects[x].path
                        /\ objects'[x].online = objects[x].online /\ objects'[x].proxy = objects[x].proxy
      /\ objects'[a].soft = v
  <2>1. /\ SoftSet(objects[a], v).path = objects[a].path
        /\ SoftSet(objects[a], v).online = objects[a].online
        /\ SoftSet(objects[a], v).proxy = objects[a].proxy
        /\ SoftSet(objects[a], v).soft = v
    <3>1. objects[a] \in Device
      BY <1>1, ObjectTypes
    <3>2. QED
      BY <3>1, DeviceTypes
  <2>2. QED
    BY <1>1, <2>1
<1>5. For(p)' = For(p)
  BY <1>2, <1>4, ForSame
<1>6. CASE a \notin S
  <2>1. c \notin Asked(S)
    BY <1>2, <1>6, AskedNot
  <2>2. Alike(Append(calls, c), calls, Asked(S)) /\ Alike(calls, calls, Asked(S))
        /\ Alike(inbox', inbox, Heard(S, p))
    BY <1>2, <2>1, AlikeAppend, AlikeLaws
  <2>3. objects'[b] = objects[b]
    BY <1>1, <1>2, <1>6
  <2>4. QED
    BY <1>2, <1>3, <1>5, <2>2, <2>3, CurrentFrame
<1>7. CASE a \in S
  <2>1. /\ c \notin ConnectsOf(S) \union AsksOf(S)
        /\ c \in Sets(S, BOOLEAN)
        /\ c \in Sets(S, {TRUE}) <=> ~v
        /\ c \in Sets(S, {FALSE}) <=> v
    BY <1>2, <1>7, ObjectCallSorts
  <2>2. /\ Asking(b, S) => Asking(b, S)'
        /\ Reaching(b, S) => Reaching(b, S)'
        /\ Reading(b, S) => Reading(b, S)'
        /\ Old(b, S) => Old(b, S)'
        /\ None(calls, AsksOf(S \ {b})) => None(calls', AsksOf(S \ {b}))
    <3>1. /\ Alike(inbox', inbox, ConnectedOf(S))
          /\ Alike(Append(calls, c), calls, ConnectsOf(S) \union AsksOf(S))
          /\ Alike(calls, calls, ConnectsOf(S) \union AsksOf(S))
      BY <1>2, <2>1, AlikeAppend, AlikeLaws
    <3>2. QED
      BY <1>2, <1>3, <1>4, <3>1, EarlyFrame
  <2>3. Knows(b, p) => Knows(b, p)'
    BY <1>2, <1>4, AlikeLaws, KnowsFrame
  <2>4. Old(b, S) /\ Obeys(b, S, p) => Obeys(b, S, p)'
    <3> SUFFICES ASSUME Old(b, S), Obeys(b, S, p), For(p) = {b}, ofono.modems[p].powered
                 PROVE  /\ ~After(inbox', Powers(S \ {b}), Triggers(b, p))
                        /\ LastWord(b, S, p)'
      BY <1>2, <1>5 DEF Obeys
    <3>1. ~After(inbox', Powers(S \ {b}), Triggers(b, p))
      BY <1>2 DEF Obeys
    <3>2. a = b /\ objects[b].proxy
      <4>1. a \in For(p)
        BY <1>1, <1>2, <1>7 DEF For
      <4>2. QED
        BY <4>1 DEF Old
    <3>3. LastWord(b, S, p)'
      BY <1>2, <1>3, <1>4, <2>1, <3>2, SaidLast
    <3>4. QED
      BY <3>1, <3>3
  <2>5. QED
    BY <1>2, <2>2, <2>3, <2>4 DEF Current, Follows
<1>8. QED
  BY <1>6, <1>7

\* What the objects are told or asked for changes no list.
LEMMA CurrentObjects ==
    ASSUME TypeInv, TypeInv', NEW p \in Paths, NEW b, NEW S, Leads(b, S, p), Current(b, S, p),
           \/ HandleConnected \/ HandleProperties \/ HandleChanged
           \/ \E v \in BOOLEAN : RequestBlock(v) \/ \E index : RequestBlockIdx(index, v)
    PROVE  Current(b, S, p)' /\ Leads(b, S, p)'
<1>1. /\ UNCHANGED devices /\ Ids' = Ids
      /\ \A id \in Ids : objects'[id].path = objects[id].path
  BY ObjectsFrame
<1>2. Leads(b, S, p)'
  BY <1>1, LeadsSame
<1>3. Current(b, S, p)'
  BY CurrentConnected, CurrentProperties, CurrentChanged, CurrentRequestBlock, CurrentRequestBlockIdx
<1>4. QED
  BY <1>2, <1>3

(***************************************************************************)
(* The list.                                                               *)
(***************************************************************************)
LEMMA CurrentRemoved ==
    ASSUME TypeInv, NEW p \in Paths, NEW b, NEW S, Leads(b, S, p), Current(b, S, p), HandleRemoved,
           Head(inbox).path # p
    PROVE  Current(b, S, p)' /\ Leads(b, S, p)'
<1> DEFINE m == Head(inbox) q == m.path
<1>1. /\ inbox # <<>> /\ inbox' = Tail(inbox) /\ m = Head(inbox) /\ m \in Message /\ m.msg = "removed"
      /\ q \in Paths /\ q # p /\ inbox \in Seq(Message)
      /\ UNCHANGED <<ofono, refused, deaf, unread, missed, objects, calls>>
      /\ RemoveModem(q) \/ UNCHANGED devices
  BY HeadMessage, MessageShape, QueueTypes DEF HandleRemoved, Take, failures
<1> HIDE DEF m, q
<1>2. For(p)' = For(p)
  <2>1. ToSet(devices') = ToSet(devices) \/ \E id \in For(q) : ToSet(devices') = ToSet(devices) \ {id}
    BY <1>1, Removal
  <2>2. \A id \in For(q) : objects[id].path # p
    BY <1>1 DEF For
  <2>3. QED
    BY <1>1, <2>1, <2>2 DEF For
<1>3. WithPath(p)' = WithPath(p)
  BY <1>1 DEF WithPath, Ids
<1>4. Leads(b, S, p)'
  BY <1>2, <1>3 DEF Leads
<1>5. Alike(inbox', inbox, Heard(S, p)) /\ Alike(calls', calls, Asked(S))
  BY <1>1, HeardNot, AlikeTail, AlikeLaws
<1>6. Current(b, S, p)'
  BY <1>1, <1>2, <1>5, LeadsTypes, CurrentFrame
<1>7. QED
  BY <1>4, <1>6

\* The calls that Register makes.
LEMMA RegisteredAsks ==
    ASSUME TypeInv, NEW paths \in Seq(Paths), PathsFree(Len(paths)), Register(paths)
    PROVE  LET n == Len(objects)
               t == [i \in 1 .. Len(paths) |-> [call |-> "Connect", id |-> n + i]]
           IN  /\ calls \in Seq(Call') /\ t \in Seq(Call') /\ calls' = calls \o t
               /\ DOMAIN t = 1 .. Len(paths) /\ Len(paths) \in Nat
               /\ n \in Nat /\ Ids = 1 .. n
               /\ \A i \in DOMAIN t : t[i].call = "Connect" /\ t[i].id = n + i
<1>1. Len(paths) \in Nat
  BY LenProperties
<1>2. QED
  BY <1>1, RegisteredLists, ObjectTypes

LEMMA CurrentRegistered ==
    ASSUME TypeInv, NEW p \in Paths, NEW b, NEW S, Leads(b, S, p), Current(b, S, p),
           NEW paths \in Seq(Paths), PathsFree(Len(paths)), Register(paths),
           \A i \in 1 .. Len(paths) : paths[i] # p,
           inbox \in Seq(Message), inbox # <<>>, inbox' = Tail(inbox), Head(inbox) \in Message,
           Head(inbox).msg \in {"added", "modems"}, UNCHANGED <<ofono, refused, deaf, unread, missed>>
    PROVE  Current(b, S, p)' /\ Leads(b, S, p)'
<1> DEFINE n == Len(objects) k == Len(paths)
           t == [i \in 1 .. k |-> [call |-> "Connect", id |-> n + i]]
<1>1. /\ calls \in Seq(Call') /\ t \in Seq(Call') /\ calls' = calls \o t
      /\ DOMAIN t = 1 .. k /\ k \in Nat /\ n \in Nat /\ Ids = 1 .. n
      /\ \A i \in DOMAIN t : t[i].call = "Connect" /\ t[i].id = n + i
  BY RegisteredAsks
<1>2. /\ Ids' = 1 .. n + k
      /\ \A id \in Ids : objects'[id] = objects[id]
      /\ \A i \in 1 .. k : objects'[n + i].path = paths[i]
  BY Registered
<1>3. For(p)' = For(p) \union {n + i : i \in {j \in 1 .. k : paths[j] = p}}
  BY ForMore
<1> HIDE DEF t, n, k
<1>4. For(p)' = For(p)
  BY <1>3 DEF k
<1>5. WithPath(p)' = WithPath(p)
  <2>1. \A x \in 1 .. n + k : x \in 1 .. n \/ \E i \in 1 .. k : x = n + i
    <3> SUFFICES ASSUME NEW x \in 1 .. n + k, x \notin 1 .. n PROVE x - n \in 1 .. k /\ x = n + (x - n)
      OBVIOUS
    <3>1. QED
      BY <1>1
  <2>2. 1 .. n \subseteq 1 .. n + k
    BY <1>1
  <2>3. \A x \in Ids' : objects'[x].path = p <=> x \in Ids /\ objects[x].path = p
    <3> SUFFICES ASSUME NEW x \in 1 .. n + k
                 PROVE  objects'[x].path = p <=> x \in 1 .. n /\ objects[x].path = p
      BY <1>1, <1>2
    <3>1. CASE x \in 1 .. n
      BY <1>1, <1>2, <3>1
    <3>2. CASE x \notin 1 .. n
      <4>1. PICK i \in 1 .. k : x = n + i
        BY <2>1, <3>2
      <4>2. objects'[x].path = paths[i] /\ paths[i] # p
        BY <1>2, <4>1 DEF k
      <4>3. QED
        BY <3>2, <4>2
    <3>3. QED
      BY <3>1, <3>2
  <2>4. QED
    BY <1>1, <1>2, <2>2, <2>3 DEF WithPath
<1>6. Leads(b, S, p)'
  BY <1>4, <1>5 DEF Leads
<1>7. S \subseteq Ids /\ b \in S
  BY LeadsTypes
<1>8. None(t, Asked(S))
  <2>1. \A x \in Asked(S) : x.id \in S
    BY DEF Asked, ConnectsOf, AsksOf, Sets
  <2>2. \A i \in DOMAIN t : t[i].id \notin S
    BY <1>1, <1>7
  <2>3. QED
    BY <2>1, <2>2 DEF None
<1>9. Alike(calls', calls, Asked(S))
  BY <1>1, <1>8, AlikeConcat
<1>10. Alike(inbox', inbox, Heard(S, p))
  BY HeardNot, AlikeTail
<1>11. Current(b, S, p)'
  BY <1>2, <1>4, <1>7, <1>9, <1>10, CurrentFrame
<1>12. QED
  BY <1>6, <1>11

\* The new object of a path that is registered once asks for its proxy last.
LEMMA NewLeads ==
    ASSUME TypeInv, TypeInv', NEW paths \in Seq(Paths), IsInjective(paths),
           PathsFree(Len(paths)), Register(paths), NEW i \in 1 .. Len(paths), NEW p, p = paths[i]
    PROVE  \E b, S : Leads(b, S, p)' /\ Current(b, S, p)'
<1> DEFINE n == Len(objects) k == Len(paths)
           t == [j \in 1 .. k |-> [call |-> "Connect", id |-> n + j]]
<1>1. /\ calls \in Seq(Call') /\ t \in Seq(Call') /\ calls' = calls \o t
      /\ DOMAIN t = 1 .. k /\ k \in Nat /\ n \in Nat /\ Ids = 1 .. n
      /\ \A j \in DOMAIN t : t[j].call = "Connect" /\ t[j].id = n + j
      /\ t = [j \in 1 .. k |-> [call |-> "Connect", id |-> n + j]]
  BY RegisteredAsks
<1>2. /\ Ids' = 1 .. n + k
      /\ \A j \in 1 .. k : objects'[n + j].path = paths[j]
  BY Registered
<1>3. /\ p \in Paths
      /\ For(p)' = For(p) \union {n + j : j \in {l \in 1 .. k : paths[l] = p}}
  BY ForMore, ElementOfSeq
<1>4. \A j \in 1 .. k : paths[j] = p => j = i
  BY <1>1, LenProperties DEF IsInjective
<1> HIDE DEF t, n, k
<1>5. i \in 1 .. k
  BY DEF k
<1>6. PICK b : b = n + i
  OBVIOUS
<1>7. PICK S : S = WithPath(p)'
  OBVIOUS
<1>8. b \in For(p)'
  BY <1>3, <1>5, <1>6
<1>9. \A a \in S : a \in 1 .. n + k /\ a <= b
  <2> SUFFICES ASSUME NEW a \in S, ~(a <= b) PROVE FALSE
    BY <1>2, <1>7 DEF WithPath
  <2>1. a \in 1 .. n + k /\ objects'[a].path = p
    BY <1>2, <1>7 DEF WithPath
  <2>2. a - n \in 1 .. k /\ a = n + (a - n) /\ a - n # i
    BY <1>1, <1>5, <1>6, <2>1
  <2>3. QED
    BY <1>2, <1>4, <2>1, <2>2
<1>10. Leads(b, S, p)'
  BY <1>7, <1>8, <1>9 DEF Leads
<1>11. After(t, ConnectsOf({b}), ConnectsOf(S \ {b}))
  <2>1. t[i] \in ConnectsOf({b})
    BY <1>1, <1>5, <1>6 DEF ConnectsOf
  <2>2. ASSUME NEW j \in DOMAIN t, i < j PROVE t[j] \notin ConnectsOf(S \ {b})
    <3>1. t[j].id = n + j /\ n + j # b
      BY <1>1, <1>5, <1>6, <2>2
    <3>2. n + j \notin S
      BY <1>1, <1>5, <1>6, <1>9, <2>2
    <3>3. \A x \in ConnectsOf(S \ {b}) : x.id \in S
      BY DEF ConnectsOf
    <3>4. QED
      BY <3>1, <3>2, <3>3
  <2>3. QED
    BY <1>1, <1>5, <2>1, <2>2 DEF After
<1>12. Asking(b, S)'
  BY <1>1, <1>11, AfterConcat DEF Asking
<1>13. QED
  BY <1>10, <1>12 DEF Current

(***************************************************************************)
(* Every step keeps the newest objects of the modems current.              *)
(***************************************************************************)
LEMMA NewestStays ==
    ASSUME NewestInv, manager' = "listed" => manager = "listed",
           NEW p \in Paths, manager' = "listed", ofono.modems[p].present, None(inbox, Signals(p)),
           \A b, S : Leads(b, S, p) /\ Current(b, S, p) => Leads(b, S, p)' /\ Current(b, S, p)'
    PROVE  \E b, S : Leads(b, S, p)' /\ Current(b, S, p)'
BY DEF NewestInv

LEMMA NewestOfOutside ==
    ASSUME TypeInv, QueueInv, TellInv, NewestInv, Outside \/ Answer
    PROVE  NewestInv'
<1>1. manager' = manager
  BY DEF Outside, OfonoStart, OfonoStop, ModemAdded, ModemRemoved, ModemPowered, Answer, daemonVars
<1>2. ASSUME NEW p \in Paths, manager' = "listed", ofono'.modems[p].present, None(inbox', Signals(p))
      PROVE  \E b, S : Leads(b, S, p)' /\ Current(b, S, p)'
  <2>1. ofono.modems[p].present /\ None(inbox, Signals(p))
    BY <1>2, UnheardOutside, UnheardAnswer
  <2>2. ASSUME NEW b, NEW S, Leads(b, S, p), Current(b, S, p)
        PROVE  Leads(b, S, p)' /\ Current(b, S, p)'
    BY <1>2, <2>1, <2>2, CurrentOutside, CurrentAnswer
  <2>3. QED
    BY <1>1, <1>2, <2>1, <2>2, NewestStays
<1>3. QED
  BY <1>2 DEF NewestInv

LEMMA NewestOfObjects ==
    ASSUME TypeInv, TypeInv', NewestInv,
           \/ HandleConnected \/ HandleProperties \/ HandleChanged
           \/ \E v \in BOOLEAN : RequestBlock(v) \/ \E index : RequestBlockIdx(index, v)
    PROVE  NewestInv'
<1>1. Alike(inbox', inbox, ListMessages) /\ UNCHANGED <<ofono, manager>>
  BY ObjectsFrame
<1>2. ASSUME NEW p \in Paths, manager' = "listed", ofono'.modems[p].present, None(inbox', Signals(p))
      PROVE  \E b, S : Leads(b, S, p)' /\ Current(b, S, p)'
  <2>1. ofono.modems[p].present /\ None(inbox, Signals(p))
    BY <1>1, <1>2, QueueAlike
  <2>2. ASSUME NEW b, NEW S, Leads(b, S, p), Current(b, S, p)
        PROVE  Leads(b, S, p)' /\ Current(b, S, p)'
    BY <2>2, CurrentObjects
  <2>3. QED
    BY <1>1, <1>2, <2>1, <2>2, NewestStays
<1>3. QED
  BY <1>2 DEF NewestInv

LEMMA NewestOfModems ==
    ASSUME TypeInv, TypeInv', QueueInv, TellInv, HandleModems, alive'
    PROVE  NewestInv'
<1> DEFINE m == Head(inbox) paths == m.paths
<1>1. /\ m \in Message /\ m.msg = "modems" /\ m \notin Garbled /\ AddModems(paths)
      /\ ~m.ok => manager' = "unlisted"
      /\ UNCHANGED ofono
  BY HeadMessage DEF HandleModems, Take
<1>2. paths \in Seq(Paths) /\ IsInjective(paths)
  BY <1>1, MessageShape DEF Garbled
<1>3. PathsFree(Len(paths)) /\ Register(paths)
  BY <1>1, <1>2, AddedFront
<1>4. ASSUME NEW p \in Paths, manager' = "listed", ofono'.modems[p].present, None(inbox', Signals(p))
      PROVE  \E b, S : Leads(b, S, p)' /\ Current(b, S, p)'
  <2>1. p \in ToSet(paths)
    BY <1>1, <1>4, HeardModems
  <2>2. PICK i \in 1 .. Len(paths) : p = paths[i]
    BY <1>2, <2>1, LenProperties DEF ToSet
  <2> HIDE DEF m, paths
  <2>3. QED
    BY <1>2, <1>3, <2>2, NewLeads
<1>5. QED
  BY <1>4 DEF NewestInv

LEMMA NewestOfAdded ==
    ASSUME TypeInv, TypeInv', QueueInv, TellInv, NewestInv, HandleAdded, alive'
    PROVE  NewestInv'
<1> DEFINE m == Head(inbox) q == m.path paths == <<q>>
<1>1. /\ m \in Message /\ m.msg = "added" /\ inbox \in Seq(Message) /\ inbox # <<>> /\ inbox' = Tail(inbox)
      /\ m = Head(inbox)
      /\ UNCHANGED <<ofono, manager, refused, deaf, unread, missed>>
      /\ Hears => AddModems(paths)
  BY QueueTypes, HeadMessage DEF HandleAdded, Take, failures
<1>2. ASSUME NEW p \in Paths, manager' = "listed", ofono'.modems[p].present, None(inbox', Signals(p))
      PROVE  \E b, S : Leads(b, S, p)' /\ Current(b, S, p)'
  <2>1. q \in Paths /\ (p # q => None(inbox, Signals(p)))
    BY <1>1, <1>2, HeardSignal
  <2>2. AddModems(paths)
    BY <1>1, <1>2 DEF Hears
  <2>3. /\ paths \in Seq(Paths) /\ Len(paths) = 1 /\ paths[1] = q /\ IsInjective(paths)
    BY <2>1, One DEF IsInjective
  <2> HIDE DEF paths, q
  <2>4. PathsFree(Len(paths)) /\ Register(paths)
    BY <2>2, <2>3, AddedFront
  <2>5. CASE p = q
    <3>1. 1 \in 1 .. Len(paths) /\ p = paths[1]
      BY <2>3, <2>5
    <3>2. QED
      BY <2>3, <2>4, <3>1, NewLeads
  <2>6. CASE p # q
    <3>1. None(inbox, Signals(p)) /\ ofono.modems[p].present /\ \A i \in 1 .. Len(paths) : paths[i] # p
      BY <1>1, <1>2, <2>1, <2>3, <2>6
    <3>2. ASSUME NEW b, NEW S, Leads(b, S, p), Current(b, S, p)
          PROVE  Leads(b, S, p)' /\ Current(b, S, p)'
      <4>1. Head(inbox) \in Message /\ Head(inbox).msg \in {"added", "modems"}
        BY <1>1
      <4>2. QED
        BY <1>1, <2>3, <2>4, <3>1, <3>2, <4>1, CurrentRegistered
    <3>3. QED
      BY <1>1, <1>2, <3>1, <3>2, NewestStays
  <2>7. QED
    BY <2>5, <2>6
<1>3. QED
  BY <1>2 DEF NewestInv

LEMMA NewestOfRemoved ==
    ASSUME TypeInv, TellInv, NewestInv, HandleRemoved
    PROVE  NewestInv'
<1> DEFINE m == Head(inbox)
<1>1. /\ inbox # <<>> /\ inbox' = Tail(inbox) /\ m.msg = "removed"
      /\ UNCHANGED <<ofono, manager>>
  BY DEF HandleRemoved, Take
<1>2. ASSUME NEW p \in Paths, manager' = "listed", ofono'.modems[p].present, None(inbox', Signals(p))
      PROVE  \E b, S : Leads(b, S, p)' /\ Current(b, S, p)'
  <2>1. m.path # p /\ None(inbox, Signals(p)) /\ ofono.modems[p].present
    BY <1>1, <1>2, HeardSignal
  <2>2. ASSUME NEW b, NEW S, Leads(b, S, p), Current(b, S, p)
        PROVE  Leads(b, S, p)' /\ Current(b, S, p)'
    BY <2>1, <2>2, CurrentRemoved
  <2>3. QED
    BY <1>1, <1>2, <2>1, <2>2, NewestStays
<1>3. QED
  BY <1>2 DEF NewestInv

LEMMA NewestStep ==
    ASSUME TypeInv, TypeInv', alive', QueueInv, TellInv, NewestInv, [Next]_vars
    PROVE  NewestInv'
<1>1. CASE Outside \/ Answer
  BY <1>1, NewestOfOutside
<1>2. CASE Request
  BY <1>2, NewestOfObjects DEF Request
<1>3. CASE Handle
  <2>1. CASE HandleAppeared \/ HandleManagerConnected \/ HandleVanished
    <3>1. manager' # "listed"
      BY <2>1 DEF HandleAppeared, HandleManagerConnected, HandleVanished
    <3>2. QED
      BY <3>1 DEF NewestInv
  <2>2. CASE HandleConnected \/ HandleProperties \/ HandleChanged
    BY <2>2, NewestOfObjects
  <2>3. QED
    BY <1>3, <2>1, <2>2, NewestOfModems, NewestOfAdded, NewestOfRemoved DEF Handle
<1>4. CASE UNCHANGED vars
  <2>1. ASSUME NEW p, NEW b, NEW S
        PROVE  /\ Leads(b, S, p)' <=> Leads(b, S, p)
               /\ Current(b, S, p)' <=> Current(b, S, p)
    <3>1. UNCHANGED <<ofono, inbox, calls, objects, devices, refused, deaf, unread, missed>>
      BY <1>4 DEF vars
    <3>2. For(p)' = For(p) /\ WithPath(p)' = WithPath(p)
      BY <3>1 DEF For, WithPath, Ids
    <3>3. QED
      BY <3>1, <3>2 DEF Leads, Current, Asking, Reaching, Reading, Old, Follows, Knows, Obeys, LastWord
  <2>2. UNCHANGED <<ofono, inbox, manager>>
    BY <1>4 DEF vars
  <2>3. QED
    BY <2>1, <2>2 DEF NewestInv
<1>5. QED
  BY <1>1, <1>2, <1>3, <1>4 DEF Next

(***************************************************************************)
(* With persist, the objects of the list want what is stored.              *)
(***************************************************************************)
LEMMA StoredSame ==
    ASSUME TypeInv, StoredInv, UNCHANGED <<stored, byIndex>>, ToSet(devices') \subseteq ToSet(devices),
           \A id \in Ids : objects'[id].soft <=> objects[id].soft
    PROVE  StoredInv'
BY ObjectTypes DEF StoredInv

LEMMA StoredMore ==
    ASSUME TypeInv, StoredInv, NEW paths \in Seq(Paths), PathsFree(Len(paths)), Register(paths),
           UNCHANGED <<stored, byIndex>>
    PROVE  StoredInv'
<1> SUFFICES ASSUME Persist, NEW id \in ToSet(devices'), id \notin byIndex'
             PROVE  objects'[id].soft <=> stored'
  BY DEF StoredInv
<1>1. \/ id \in ToSet(devices)
      \/ \E i \in 1 .. Len(paths) : id = Len(objects) + i
  BY RegisteredLists
<1>2. CASE id \in ToSet(devices)
  <2>1. objects'[id] = objects[id]
    BY <1>2, Registered, ObjectTypes
  <2>2. QED
    BY <1>2, <2>1 DEF StoredInv
<1>3. CASE \E i \in 1 .. Len(paths) : id = Len(objects) + i
  BY <1>3, Registered
<1>4. QED
  BY <1>1, <1>2, <1>3

LEMMA StoredOfHandle ==
    ASSUME TypeInv, TypeInv', StoredInv, Handle, alive'
    PROVE  StoredInv'
<1>1. CASE HandleAppeared \/ HandleManagerConnected \/ HandleVanished
  <2>1. UNCHANGED <<stored, byIndex, devices, objects>>
    BY <1>1 DEF HandleAppeared, HandleManagerConnected, HandleVanished
  <2>2. QED
    BY <2>1, StoredSame
<1>2. CASE HandleModems
  <2> DEFINE m == Head(inbox) paths == m.paths
  <2>1. /\ m \in Message /\ m.msg = "modems" /\ AddModems(paths) /\ UNCHANGED <<stored, byIndex>>
    BY <1>2, HeadMessage DEF HandleModems, Take
  <2>2. paths \in Seq(Paths)
    BY <2>1, MessageShape
  <2> HIDE DEF m, paths
  <2>3. PathsFree(Len(paths)) /\ Register(paths)
    BY <2>1, <2>2, AddedFront
  <2>4. QED
    BY <2>1, <2>2, <2>3, StoredMore
<1>3. CASE HandleAdded
  <2> DEFINE m == Head(inbox) paths == <<m.path>>
  <2>1. /\ m \in Message /\ m.msg = "added" /\ UNCHANGED stored
        /\ Hears => AddModems(paths) /\ UNCHANGED byIndex
        /\ ~Hears => UNCHANGED <<byIndex, devices, objects>>
    BY <1>3, HeadMessage DEF HandleAdded, Take
  <2>2. m.path \in Paths
    BY <2>1, MessageShape
  <2>3. paths \in Seq(Paths)
    BY <2>2, One
  <2> HIDE DEF m, paths
  <2>4. CASE Hears
    <3>1. PathsFree(Len(paths)) /\ Register(paths)
      BY <2>1, <2>3, <2>4, AddedFront
    <3>2. QED
      BY <2>1, <2>3, <2>4, <3>1, StoredMore
  <2>5. CASE ~Hears
    BY <2>1, <2>5, StoredSame
  <2>6. QED
    BY <2>4, <2>5
<1>4. CASE HandleRemoved
  <2> DEFINE m == Head(inbox) q == m.path
  <2>1. /\ m \in Message /\ m.msg = "removed" /\ UNCHANGED <<stored, byIndex, objects>>
        /\ RemoveModem(q) \/ UNCHANGED devices
    BY <1>4, HeadMessage DEF HandleRemoved, Take
  <2>2. q \in Paths
    BY <2>1, MessageShape
  <2> HIDE DEF m, q
  <2>3. ToSet(devices') \subseteq ToSet(devices)
    BY <2>1, <2>2, Removal
  <2>4. QED
    BY <2>1, <2>3, StoredSame
<1>5. CASE HandleConnected
  <2> DEFINE id == Head(inbox).id d == ProxyReady(objects[id])
  <2>1. id \in Ids
    BY <1>5, HeadMessage, MessageShape DEF HandleConnected, Take
  <2>2. objects[id] \in Device
    BY <2>1, ObjectTypes
  <2>3. d \in Device /\ d.soft = objects[id].soft
    BY <2>2, DeviceTypes
  <2>4. objects' = [objects EXCEPT ![id] = d] /\ UNCHANGED <<stored, byIndex, devices>>
    BY <1>5 DEF HandleConnected
  <2> HIDE DEF d, id
  <2>5. \A a \in Ids : objects'[a].soft <=> objects[a].soft
    BY <2>1, <2>3, <2>4, OneObject
  <2>6. QED
    BY <2>4, <2>5, StoredSame
<1>6. CASE HandleProperties
  <2> DEFINE m == Head(inbox) id == m.id d == PropertiesRead(objects[id], m.online)
  <2>1. id \in Ids
    BY <1>6, HeadMessage, MessageShape DEF HandleProperties, Take
  <2>2. objects[id] \in Device
    BY <2>1, ObjectTypes
  <2>3. d \in Device /\ d.soft = objects[id].soft
    BY <2>2, DeviceTypes
  <2>4. objects' = [objects EXCEPT ![id] = d] /\ UNCHANGED <<stored, byIndex, devices>>
    BY <1>6 DEF HandleProperties
  <2> HIDE DEF d, id
  <2>5. \A a \in Ids : objects'[a].soft <=> objects[a].soft
    BY <2>1, <2>3, <2>4, OneObject
  <2>6. QED
    BY <2>4, <2>5, StoredSame
<1>7. CASE HandleChanged
  <2>1. ASSUME NEW a \in Ids PROVE objects'[a].soft <=> objects[a].soft
    <3>1. objects[a] \in Device
      BY ObjectTypes
    <3>2. \A n, v : PropertyChanged(objects[a], n, v).soft = objects[a].soft
      BY <3>1, DeviceTypes, SMTT(30)
    <3>3. QED
      BY <1>7, <3>2, ChangedParts
  <2>2. UNCHANGED <<stored, byIndex, devices>>
    BY <1>7 DEF HandleChanged
  <2>3. QED
    BY <2>1, <2>2, StoredSame
<1>8. QED
  BY <1>1, <1>2, <1>3, <1>4, <1>5, <1>6, <1>7 DEF Handle

LEMMA StoredOfRequest ==
    ASSUME TypeInv, StoredInv, Request
    PROVE  StoredInv'
<1>1. ASSUME NEW v \in BOOLEAN, RequestBlock(v)
      PROVE  StoredInv'
  <2>1. stored' = v /\ UNCHANGED devices
    BY <1>1 DEF RequestBlock
  <2>2. ASSUME NEW id \in ToSet(devices) PROVE objects'[id].soft = v
    <3>1. id \in Ids /\ objects[id] \in Device
      BY ObjectTypes
    <3>2. objects'[id] = SoftSet(objects[id], v)
      BY <1>1, <3>1, BlockedParts
    <3>3. QED
      BY <3>1, <3>2, DeviceTypes
  <2>3. QED
    BY <2>1, <2>2 DEF StoredInv
<1>2. ASSUME NEW v \in BOOLEAN, NEW index, RequestBlockIdx(index, v)
      PROVE  StoredInv'
  <2>1. PICK a \in ToSet(devices) :
          /\ \A x \in Ids : x # a => objects'[x] = objects[x]
          /\ byIndex' = byIndex \union {a}
    BY <1>2, BlockedIdxParts
  <2>2. UNCHANGED <<stored, devices>>
    BY <1>2 DEF RequestBlockIdx
  <2>3. \A id \in ToSet(devices) : id \in Ids
    BY ObjectTypes
  <2>4. QED
    BY <2>1, <2>2, <2>3 DEF StoredInv
<1>3. QED
  BY <1>1, <1>2 DEF Request

LEMMA StoredStep ==
    ASSUME TypeInv, TypeInv', alive', StoredInv, [Next]_vars
    PROVE  StoredInv'
<1>1. CASE Outside \/ Answer \/ UNCHANGED vars
  <2>1. UNCHANGED <<stored, byIndex, devices, objects>>
    BY <1>1 DEF Outside, OfonoStart, OfonoStop, ModemAdded, ModemRemoved, ModemPowered, Answer, daemonVars, vars
  <2>2. QED
    BY <2>1, StoredSame, SMTT(30)
<1>2. QED
  BY <1>1, StoredOfHandle, StoredOfRequest DEF Next

(***************************************************************************)
(* The theorems.                                                           *)
(***************************************************************************)
ObeyInv == FollowInv /\ (alive => NewestInv /\ StoredInv)

LEMMA ObeyInit == Init => ObeyInv
<1> SUFFICES ASSUME Init PROVE NewestInv /\ StoredInv
  BY FollowInit DEF ObeyInv
<1>1. manager = "away" /\ ToSet(devices) = {}
  BY DEF Init, ToSet
<1>2. QED
  BY <1>1 DEF NewestInv, StoredInv

LEMMA ObeyStep == ObeyInv /\ [Next]_vars => ObeyInv'
<1> SUFFICES ASSUME ObeyInv, [Next]_vars PROVE ObeyInv'
  OBVIOUS
<1>1. FollowInv /\ FollowInv' /\ TypeInv /\ TypeInv'
  BY FollowStep DEF ObeyInv, FollowInv
<1>2. alive' => alive
  BY DEF Next, vars
<1>3. ASSUME alive' PROVE NewestInv' /\ StoredInv'
  BY <1>1, <1>2, <1>3, NewestStep, StoredStep DEF ObeyInv, FollowInv
<1>4. QED
  BY <1>1, <1>3 DEF ObeyInv

\* When nothing is on its way, what is current is: the object b of the path p
\* has its proxy, knows its modem and has had its way.
LEMMA SettledFollows ==
    ASSUME ObeyInv, Settled, NEW p \in Present, NEW b, For(p) = {b}
    PROVE  /\ b \in Ids /\ b \in ToSet(devices) /\ objects[b] \in Device
           /\ ofono.modems[p].online \in BOOLEAN
           /\ b \notin deaf \union unread => objects[b].online = AsOnline(ofono.modems[p].online)
           /\ b \notin deaf \union missed /\ ofono.modems[p].powered =>
                (ofono.modems[p].online <=> ~objects[b].soft) \/ p \in refused
<1>1. /\ TypeInv /\ NewestInv /\ manager = "listed" /\ inbox = <<>> /\ calls = <<>>
      /\ p \in Paths /\ ofono.modems[p].present
  BY DEF ObeyInv, FollowInv, Settled, Quiet, Present
<1>2. \A X, Y : /\ None(inbox, X) /\ ~After(inbox, X, Y)
                /\ None(calls, X) /\ ~After(calls, X, Y)
  BY <1>1, NoneOfEmpty
<1>3. PICK c, S : Leads(c, S, p) /\ Current(c, S, p)
  BY <1>1, <1>2 DEF NewestInv
<1>4. c = b
  BY <1>3 DEF Leads
<1>5. /\ b \notin deaf \union unread => Knows(b, p)
      /\ b \notin deaf \union missed => Obeys(b, S, p)
  BY <1>2, <1>3, <1>4 DEF Current, Asking, Reaching, Reading, Follows
<1>6. b \notin deaf \union unread => objects[b].online = AsOnline(ofono.modems[p].online)
  BY <1>2, <1>5 DEF Knows
<1>7. b \notin deaf \union missed /\ ofono.modems[p].powered =>
        (ofono.modems[p].online <=> ~objects[b].soft) \/ p \in refused
  BY <1>2, <1>5 DEF Obeys, LastWord
<1>8. b \in ToSet(devices) /\ b \in Ids /\ objects[b] \in Device
  BY <1>1, <1>3, <1>4, LeadsTypes
<1>9. ofono.modems[p].online \in BOOLEAN
  <2>1. ofono.modems[p] \in Modem
    BY <1>1 DEF TypeInv, TypeOK
  <2>2. QED
    BY <2>1 DEF Modem
<1>10. QED
  BY <1>6, <1>7, <1>8, <1>9

\* When nothing is on its way, a modem that has power and one object is online
\* exactly if it is not blocked: by the last request for its index, or else,
\* with persist, by the block that is stored for modems; unless the modem turned
\* the last write down, the object got an error for its proxy, or it got one for
\* the properties and the modem got no power since
\* (src/src/urf-device-ofono.c, set_soft and its callers).
THEOREM BlockReachesModemAlways == Spec => []BlockReachesModem
<1>1. ObeyInv => BlockReachesModem
  <2> SUFFICES ASSUME ObeyInv, Settled, NEW p \in Present, NEW id \in Ids,
                      ofono.modems[p].powered, For(p) = {id}, p \notin refused, id \notin deaf \union missed
               PROVE  ofono.modems[p].online
                        = ~(IF Persist /\ id \notin byIndex THEN stored ELSE objects[id].soft)
    BY DEF BlockReachesModem
  <2>1. /\ ofono.modems[p].online <=> ~objects[id].soft
        /\ ofono.modems[p].online \in BOOLEAN /\ objects[id] \in Device /\ id \in ToSet(devices)
    BY SettledFollows
  <2>2. Persist /\ id \notin byIndex => (objects[id].soft <=> stored)
    BY <2>1 DEF ObeyInv, StoredInv, Settled
  <2>3. objects[id].soft \in BOOLEAN
    BY <2>1 DEF Device
  <2>4. stored \in BOOLEAN
    BY DEF ObeyInv, FollowInv, TypeInv, TypeOK
  <2>5. QED
    BY <2>1, <2>2, <2>3, <2>4
<1>2. QED
  BY <1>1, ObeyInit, ObeyStep, PTL DEF Spec

\* When nothing is on its way, the state that the daemon tells of a modem that
\* has one object is the modem's own; unless the object got an error for its
\* proxy, or for the properties and heard of no change of Online since
\* (src/src/urf-device-ofono.c, get_soft and get_state).
THEOREM StateIsTheModemsAlways == Spec => []StateIsTheModems
<1>1. ObeyInv => StateIsTheModems
  <2> SUFFICES ASSUME ObeyInv, Settled, NEW p \in Present, NEW id \in Ids, For(p) = {id}, id \notin deaf \union unread
               PROVE  /\ objects[id].online # "absent"
                      /\ SoftOf(objects[id]) = ~ofono.modems[p].online
    BY DEF StateIsTheModems
  <2>1. /\ objects[id].online = AsOnline(ofono.modems[p].online)
        /\ ofono.modems[p].online \in BOOLEAN
    BY SettledFollows
  <2>2. QED
    BY <2>1 DEF SoftOf, AsOnline
<1>2. QED
  BY <1>1, ObeyInit, ObeyStep, PTL DEF Spec

=============================================================================
