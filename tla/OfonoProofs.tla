---------------------------- MODULE OfonoProofs -----------------------------
(***************************************************************************)
(* Proofs about OfonoManager, for every set of modems and every bound: the *)
(* types, with the indices that no two objects share, and that the list of *)
(* the daemon follows the modems of oFono.                                 *)
(***************************************************************************)
EXTENDS OfonoManager, SequenceTheorems, FiniteSetTheorems, WellFoundedInduction, TLAPS

(***************************************************************************)
(* What can be said of a queue: that it holds nothing of X, that some X in *)
(* it has no Y behind it, that it holds at most one X, that every X has a  *)
(* Y in front of it, and that between two of X there is a Y.               *)
(***************************************************************************)
None(s, X) == \A i \in DOMAIN s : s[i] \notin X
After(s, X, Y) == \E i \in DOMAIN s : s[i] \in X /\ \A j \in DOMAIN s : i < j => s[j] \notin Y
Single(s, X) == \A i, j \in DOMAIN s : s[i] \in X /\ s[j] \in X => i = j
Led(s, X, Y) == \A i \in DOMAIN s : s[i] \in X => \E j \in DOMAIN s : j < i /\ s[j] \in Y
Parted(s, X, Y) ==
  \A i, k \in DOMAIN s :
    s[i] \in X /\ s[k] \in X /\ i < k => \E j \in DOMAIN s : i < j /\ j < k /\ s[j] \in Y

\* Two queues that cannot be told apart by what is in S.
Alike(r, s, S) ==
  \A X, Y \in SUBSET S :
    /\ None(r, X) <=> None(s, X)
    /\ After(r, X, Y) <=> After(s, X, Y)
    /\ Single(r, X) <=> Single(s, X)
    /\ Led(r, X, Y) <=> Led(s, X, Y)
    /\ X \cap Y = {} => (Parted(r, X, Y) <=> Parted(s, X, Y))

\* What these say of one more element, one less, and of parts.
LEMMA AppendParts ==
    ASSUME NEW T, NEW s \in Seq(T), NEW m \in T
    PROVE  /\ Append(s, m) \in Seq(T) /\ Len(Append(s, m)) = Len(s) + 1
           /\ DOMAIN s = 1 .. Len(s) /\ Len(s) \in Nat
           /\ DOMAIN Append(s, m) = 1 .. Len(s) + 1
           /\ \A i \in 1 .. Len(s) : Append(s, m)[i] = s[i]
           /\ Append(s, m)[Len(s) + 1] = m
BY AppendProperties, LenProperties

LEMMA NoneAppend ==
    ASSUME NEW T, NEW s \in Seq(T), NEW m \in T, NEW X
    PROVE  None(Append(s, m), X) <=> None(s, X) /\ m \notin X
<1>1. /\ DOMAIN s = 1 .. Len(s) /\ Len(s) \in Nat
      /\ DOMAIN Append(s, m) = 1 .. Len(s) + 1
      /\ \A i \in 1 .. Len(s) : Append(s, m)[i] = s[i]
      /\ Append(s, m)[Len(s) + 1] = m
  BY AppendParts
<1> DEFINE a == Append(s, m) n == Len(s)
<1> HIDE DEF a, n
<1>2. QED
  BY <1>1 DEF None, a, n

LEMMA AfterAppend ==
    ASSUME NEW T, NEW s \in Seq(T), NEW m \in T, NEW X, NEW Y
    PROVE  After(Append(s, m), X, Y) <=> m \in X \/ (After(s, X, Y) /\ m \notin Y)
<1> DEFINE a == Append(s, m) n == Len(s)
<1>1. /\ DOMAIN s = 1 .. n /\ n \in Nat
      /\ DOMAIN a = 1 .. n + 1
      /\ \A i \in 1 .. n : a[i] = s[i]
      /\ a[n + 1] = m
  BY AppendParts
<1> HIDE DEF a, n
<1>2. ASSUME m \in X PROVE After(a, X, Y)
  <2>1. n + 1 \in DOMAIN a /\ \A j \in DOMAIN a : ~(n + 1 < j)
    BY <1>1
  <2>2. QED
    BY <1>1, <1>2, <2>1 DEF After
<1>3. ASSUME After(s, X, Y), m \notin Y PROVE After(a, X, Y)
  <2>1. PICK i \in DOMAIN s : s[i] \in X /\ \A j \in DOMAIN s : i < j => s[j] \notin Y
    BY <1>3 DEF After
  <2>2. i \in DOMAIN a /\ a[i] \in X
    BY <1>1, <2>1
  <2>3. ASSUME NEW j \in DOMAIN a, i < j PROVE a[j] \notin Y
    <3>1. CASE j = n + 1
      BY <1>1, <1>3, <3>1
    <3>2. CASE j # n + 1
      BY <1>1, <2>1, <2>3, <3>2
    <3>3. QED
      BY <3>1, <3>2
  <2>4. QED
    BY <2>2, <2>3 DEF After
<1>4. ASSUME After(a, X, Y), m \notin X PROVE After(s, X, Y) /\ m \notin Y
  <2>1. PICK i \in DOMAIN a : a[i] \in X /\ \A j \in DOMAIN a : i < j => a[j] \notin Y
    BY <1>4 DEF After
  <2>2. i \in DOMAIN s /\ s[i] \in X /\ i < n + 1 /\ n + 1 \in DOMAIN a
    BY <1>1, <1>4, <2>1
  <2>3. \A j \in DOMAIN s : i < j => s[j] \notin Y
    BY <1>1, <2>1
  <2>4. QED
    BY <1>1, <2>1, <2>2, <2>3 DEF After
<1>5. QED
  BY <1>2, <1>3, <1>4 DEF a

LEMMA SingleAppend ==
    ASSUME NEW T, NEW s \in Seq(T), NEW m \in T, NEW X
    PROVE  Single(Append(s, m), X) <=> Single(s, X) /\ (m \in X => None(s, X))
<1> DEFINE a == Append(s, m) n == Len(s)
<1>1. /\ DOMAIN s = 1 .. n /\ n \in Nat
      /\ DOMAIN a = 1 .. n + 1
      /\ \A i \in 1 .. n : a[i] = s[i]
      /\ a[n + 1] = m
  BY AppendParts
<1> HIDE DEF a, n
<1>2. ASSUME Single(a, X) PROVE Single(s, X) /\ (m \in X => None(s, X))
  <2>1. Single(s, X)
    BY <1>1, <1>2 DEF Single
  <2>2. ASSUME m \in X PROVE None(s, X)
    <3>1. n + 1 \in DOMAIN a /\ a[n + 1] \in X
      BY <1>1, <2>2
    <3>2. \A i \in DOMAIN s : i \in DOMAIN a /\ i # n + 1 /\ a[i] = s[i]
      BY <1>1
    <3>3. QED
      BY <1>2, <3>1, <3>2 DEF Single, None
  <2>3. QED
    BY <2>1, <2>2
<1>3. ASSUME Single(s, X), m \in X => None(s, X) PROVE Single(a, X)
  <2>1. \A i \in DOMAIN a : i = n + 1 \/ (i \in DOMAIN s /\ a[i] = s[i])
    BY <1>1
  <2>2. QED
    BY <1>1, <1>3, <2>1 DEF Single, None
<1>4. QED
  BY <1>2, <1>3 DEF a

LEMMA LedAppend ==
    ASSUME NEW T, NEW s \in Seq(T), NEW m \in T, NEW X, NEW Y
    PROVE  Led(Append(s, m), X, Y) <=> Led(s, X, Y) /\ (m \in X => ~None(s, Y))
<1> DEFINE a == Append(s, m) n == Len(s)
<1>1. /\ DOMAIN s = 1 .. n /\ n \in Nat
      /\ DOMAIN a = 1 .. n + 1
      /\ \A i \in 1 .. n : a[i] = s[i]
      /\ a[n + 1] = m
  BY AppendParts
<1> HIDE DEF a, n
<1>2. ASSUME Led(a, X, Y) PROVE Led(s, X, Y) /\ (m \in X => ~None(s, Y))
  <2>1. ASSUME NEW i \in DOMAIN s, s[i] \in X PROVE \E j \in DOMAIN s : j < i /\ s[j] \in Y
    <3>1. PICK j \in DOMAIN a : j < i /\ a[j] \in Y
      BY <1>1, <1>2, <2>1 DEF Led
    <3>2. QED
      BY <1>1, <3>1
  <2>2. ASSUME m \in X PROVE ~None(s, Y)
    <3>1. PICK j \in DOMAIN a : j < n + 1 /\ a[j] \in Y
      BY <1>1, <1>2, <2>2 DEF Led
    <3>2. j \in DOMAIN s /\ s[j] \in Y
      BY <1>1, <3>1
    <3>3. QED
      BY <3>2 DEF None
  <2>3. QED
    BY <2>1, <2>2 DEF Led
<1>3. ASSUME Led(s, X, Y), m \in X => ~None(s, Y) PROVE Led(a, X, Y)
  <2>1. ASSUME NEW i \in DOMAIN a, a[i] \in X PROVE \E j \in DOMAIN a : j < i /\ a[j] \in Y
    <3>1. CASE i = n + 1
      <4>1. PICK j \in DOMAIN s : s[j] \in Y
        BY <1>1, <1>3, <2>1, <3>1 DEF None
      <4>2. QED
        BY <1>1, <3>1, <4>1
    <3>2. CASE i # n + 1
      <4>1. PICK j \in DOMAIN s : j < i /\ s[j] \in Y
        BY <1>1, <1>3, <2>1, <3>2 DEF Led
      <4>2. QED
        BY <1>1, <4>1
    <3>3. QED
      BY <3>1, <3>2
  <2>2. QED
    BY <2>1 DEF Led
<1>4. QED
  BY <1>2, <1>3 DEF a

\* Induction, for a set of numbers.
LEMMA NatSet ==
    ASSUME NEW P, 0 \in P, \A n \in Nat : n \in P => n + 1 \in P
    PROVE  Nat \subseteq P
<1> DEFINE Bad == Nat \ P
<1> SUFFICES ASSUME Bad # {}
             PROVE  FALSE
  OBVIOUS
<1>1. PICK n \in Bad : \A m \in Bad : ~ (<<m, n>> \in OpToRel(<, Nat))
  <2>1. Bad \subseteq Nat
    OBVIOUS
  <2> HIDE DEF Bad
  <2>2. QED
    BY <2>1, WFMin, NatLessThanWellFounded
<1>2. n \in Nat /\ n # 0 /\ n - 1 \in Nat
  OBVIOUS
<1>3. <<n - 1, n>> \in OpToRel(<, Nat)
  BY <1>2 DEF OpToRel
<1>4. n - 1 \in P
  <2>1. n - 1 \notin Bad
    <3> HIDE DEF Bad
    <3>1. QED
      BY <1>1, <1>3
  <2>2. QED
    BY <1>2, <2>1
<1>5. (n - 1) + 1 \in P /\ (n - 1) + 1 = n
  BY <1>2, <1>4
<1>6. QED
  BY <1>5

LEMMA FrontParts ==
    ASSUME NEW T, NEW s \in Seq(T)
    PROVE  /\ SubSeq(s, 1, 0) = <<>>
           /\ SubSeq(s, 1, Len(s)) = s
           /\ \A n \in Nat : n < Len(s) =>
                /\ s[n + 1] \in T
                /\ SubSeq(s, 1, n) \in Seq(T)
                /\ SubSeq(s, 1, n + 1) = Append(SubSeq(s, 1, n), s[n + 1])
<1>1. Len(s) \in Nat /\ \A i \in 1 .. Len(s) : s[i] \in T
  BY ElementOfSeq, LenProperties
<1>2. SubSeq(s, 1, 0) = <<>> /\ SubSeq(s, 1, Len(s)) = s
  BY <1>1, SubSeqEmpty, SubSeqFull
<1>3. ASSUME NEW n \in Nat, n < Len(s)
      PROVE  /\ s[n + 1] \in T
             /\ SubSeq(s, 1, n) \in Seq(T)
             /\ SubSeq(s, 1, n + 1) = Append(SubSeq(s, 1, n), s[n + 1])
  <2>1. s[n + 1] \in T
    BY <1>1, <1>3
  <2>2. SubSeq(s, 1, n) \in Seq(T) /\ Len(SubSeq(s, 1, n)) = n
        /\ SubSeq(s, 1, n + 1) \in Seq(T) /\ Len(SubSeq(s, 1, n + 1)) = n + 1
    BY <1>1, <1>3, SubSeqProperties
  <2>3. QED
    BY <1>1, <1>3, <2>1, <2>2, SubSeqRecursiveSecond
<1>4. QED
  BY <1>2, <1>3

LEMMA NoneOfEmpty ==
    ASSUME NEW X, NEW Y
    PROVE  /\ None(<<>>, X) /\ ~After(<<>>, X, Y) /\ Single(<<>>, X)
           /\ Led(<<>>, X, Y) /\ Parted(<<>>, X, Y)
BY DEF None, After, Single, Led, Parted

LEMMA One ==
    ASSUME NEW T, NEW m \in T, NEW X, NEW Y
    PROVE  /\ <<m>> \in Seq(T)
           /\ None(<<m>>, X) <=> m \notin X
           /\ After(<<m>>, X, Y) <=> m \in X
<1> DEFINE s == <<m>>
<1>1. s \in Seq(T) /\ DOMAIN s = {1} /\ s[1] = m
  OBVIOUS
<1> HIDE DEF s
<1>2. None(s, X) <=> m \notin X
  BY <1>1 DEF None
<1>3. After(s, X, Y) <=> m \in X
  BY <1>1 DEF After
<1>4. QED
  BY <1>1, <1>2, <1>3 DEF s

\* Something of X is last.
LEMMA SomeLast ==
    ASSUME NEW T, NEW s \in Seq(T), NEW X
    PROVE  None(s, X) \/ After(s, X, X)
<1> DEFINE Short(n) == SubSeq(s, 1, n)
           P == {n \in Nat : n <= Len(s) => (None(Short(n), X) \/ After(Short(n), X, X))}
<1>1. Len(s) \in Nat
  BY LenProperties
<1>2. 0 \in P
  BY <1>1, FrontParts, NoneOfEmpty, ZenonT(60)
<1>3. ASSUME NEW n \in Nat, n \in P
      PROVE  n + 1 \in P
  <2>1. CASE n + 1 <= Len(s)
    <3>1. /\ s[n + 1] \in T /\ Short(n) \in Seq(T)
          /\ Short(n + 1) = Append(Short(n), s[n + 1])
      BY <1>1, <2>1, FrontParts
    <3>2. None(Short(n), X) \/ After(Short(n), X, X)
      BY <1>1, <1>3, <2>1
    <3>3. None(Short(n + 1), X) \/ After(Short(n + 1), X, X)
      <4> HIDE DEF Short
      <4>1. None(Append(Short(n), s[n + 1]), X) <=> None(Short(n), X) /\ s[n + 1] \notin X
        BY <3>1, NoneAppend
      <4>2. After(Append(Short(n), s[n + 1]), X, X)
              <=> s[n + 1] \in X \/ (After(Short(n), X, X) /\ s[n + 1] \notin X)
        BY <3>1, AfterAppend
      <4>3. QED
        BY <3>1, <3>2, <4>1, <4>2
    <3>4. QED
      BY <3>3
  <2>2. CASE ~(n + 1 <= Len(s))
    BY <2>2
  <2>3. QED
    BY <2>1, <2>2
<1>4. Nat \subseteq P
  <2> HIDE DEF P
  <2>1. QED
    BY <1>2, <1>3, NatSet
<1>5. Len(s) \in P
  BY <1>1, <1>4
<1>6. None(SubSeq(s, 1, Len(s)), X) \/ After(SubSeq(s, 1, Len(s)), X, X)
  BY <1>1, <1>5
<1>7. SubSeq(s, 1, Len(s)) = s
  BY FrontParts
<1>8. QED
  BY <1>6, <1>7

LEMMA PartedAppend ==
    ASSUME NEW T, NEW s \in Seq(T), NEW m \in T, NEW X, NEW Y, X \cap Y = {}
    PROVE  Parted(Append(s, m), X, Y)
             <=> Parted(s, X, Y) /\ (m \in X => (None(s, X) \/ After(s, Y, X)))
<1> DEFINE a == Append(s, m) n == Len(s)
<1>1. /\ DOMAIN s = 1 .. n /\ n \in Nat
      /\ DOMAIN a = 1 .. n + 1
      /\ \A i \in 1 .. n : a[i] = s[i]
      /\ a[n + 1] = m
  BY AppendParts
<1>0. None(s, X) \/ After(s, X, X)
  BY SomeLast
<1> HIDE DEF a, n
<1>2. ASSUME Parted(a, X, Y)
      PROVE  Parted(s, X, Y) /\ (m \in X => (None(s, X) \/ After(s, Y, X)))
  <2>1. ASSUME NEW i \in DOMAIN s, NEW k \in DOMAIN s, s[i] \in X, s[k] \in X, i < k
        PROVE  \E j \in DOMAIN s : i < j /\ j < k /\ s[j] \in Y
    <3>1. PICK j \in DOMAIN a : i < j /\ j < k /\ a[j] \in Y
      BY <1>1, <1>2, <2>1 DEF Parted
    <3>2. QED
      BY <1>1, <2>1, <3>1
  <2>2. ASSUME m \in X, ~None(s, X) PROVE After(s, Y, X)
    <3>1. PICK i \in DOMAIN s : s[i] \in X /\ \A j \in DOMAIN s : i < j => s[j] \notin X
      BY <1>0, <2>2 DEF After
    <3>2. PICK j \in DOMAIN a : i < j /\ j < n + 1 /\ a[j] \in Y
      BY <1>1, <1>2, <2>2, <3>1 DEF Parted
    <3>3. j \in DOMAIN s /\ s[j] \in Y
      BY <1>1, <3>2
    <3>4. \A k \in DOMAIN s : j < k => s[k] \notin X
      BY <1>1, <3>1, <3>2
    <3>5. QED
      BY <3>3, <3>4 DEF After
  <2>3. QED
    BY <2>1, <2>2 DEF Parted
<1>3. ASSUME Parted(s, X, Y), m \in X => (None(s, X) \/ After(s, Y, X))
      PROVE  Parted(a, X, Y)
  <2>1. ASSUME NEW i \in DOMAIN a, NEW k \in DOMAIN a, a[i] \in X, a[k] \in X, i < k
        PROVE  \E j \in DOMAIN a : i < j /\ j < k /\ a[j] \in Y
    <3>1. i \in DOMAIN s /\ s[i] \in X
      BY <1>1, <2>1
    <3>2. CASE k = n + 1
      <4>1. After(s, Y, X)
        BY <1>1, <1>3, <2>1, <3>1, <3>2 DEF None
      <4>2. PICK j \in DOMAIN s : s[j] \in Y /\ \A l \in DOMAIN s : j < l => s[l] \notin X
        BY <4>1 DEF After
      <4>3. i # j /\ ~(j < i)
        BY <3>1, <4>2
      <4>4. QED
        BY <1>1, <3>1, <3>2, <4>2, <4>3
    <3>3. CASE k # n + 1
      <4>1. k \in DOMAIN s /\ s[k] \in X
        BY <1>1, <2>1, <3>3
      <4>2. PICK j \in DOMAIN s : i < j /\ j < k /\ s[j] \in Y
        BY <1>3, <2>1, <3>1, <4>1 DEF Parted
      <4>3. QED
        BY <1>1, <4>2
    <3>4. QED
      BY <3>2, <3>3
  <2>2. QED
    BY <2>1 DEF Parted
<1>4. QED
  BY <1>2, <1>3 DEF a

LEMMA TailParts ==
    ASSUME NEW T, NEW s \in Seq(T), s # <<>>
    PROVE  /\ Tail(s) \in Seq(T) /\ Head(s) \in T /\ Head(s) = s[1]
           /\ Len(s) \in Nat /\ Len(s) # 0
           /\ DOMAIN s = 1 .. Len(s)
           /\ DOMAIN Tail(s) = 1 .. Len(s) - 1
           /\ \A i \in 1 .. Len(s) - 1 : Tail(s)[i] = s[i + 1]
BY HeadTailProperties, LenProperties, EmptySeq

LEMMA NoneTail ==
    ASSUME NEW T, NEW s \in Seq(T), s # <<>>, NEW X
    PROVE  None(s, X) <=> Head(s) \notin X /\ None(Tail(s), X)
<1> DEFINE t == Tail(s) h == Head(s) n == Len(s)
<1>1. /\ DOMAIN s = 1 .. n /\ n \in Nat /\ n # 0
      /\ DOMAIN t = 1 .. n - 1
      /\ \A i \in 1 .. n - 1 : t[i] = s[i + 1]
      /\ h = s[1]
  BY TailParts
<1> HIDE DEF t, h, n
<1>2. ASSUME None(s, X) PROVE h \notin X /\ None(t, X)
  BY <1>1, <1>2 DEF None
<1>3. ASSUME h \notin X, None(t, X) PROVE None(s, X)
  <2>1. ASSUME NEW i \in DOMAIN s PROVE s[i] \notin X
    <3>1. CASE i = 1
      BY <1>1, <1>3, <3>1
    <3>2. CASE i # 1
      <4>1. i - 1 \in DOMAIN t /\ t[i - 1] = s[i]
        BY <1>1, <3>2
      <4>2. QED
        BY <1>3, <4>1 DEF None
    <3>3. QED
      BY <3>1, <3>2
  <2>2. QED
    BY <2>1 DEF None
<1>4. QED
  BY <1>2, <1>3 DEF t, h

LEMMA AfterTail ==
    ASSUME NEW T, NEW s \in Seq(T), s # <<>>, NEW X, NEW Y
    PROVE  After(s, X, Y) <=> After(Tail(s), X, Y) \/ (Head(s) \in X /\ None(Tail(s), Y))
<1> DEFINE t == Tail(s) h == Head(s) n == Len(s)
<1>1. /\ DOMAIN s = 1 .. n /\ n \in Nat /\ n # 0
      /\ DOMAIN t = 1 .. n - 1
      /\ \A i \in 1 .. n - 1 : t[i] = s[i + 1]
      /\ h = s[1]
  BY TailParts
<1> HIDE DEF t, h, n
<1>2. ASSUME NEW i \in DOMAIN s, i # 1
      PROVE  i - 1 \in DOMAIN t /\ t[i - 1] = s[i] /\ i - 1 < i
  BY <1>1, <1>2
<1>3. ASSUME After(s, X, Y), ~After(t, X, Y) PROVE h \in X /\ None(t, Y)
  <2>1. PICK i \in DOMAIN s : s[i] \in X /\ \A j \in DOMAIN s : i < j => s[j] \notin Y
    BY <1>3 DEF After
  <2>2. i = 1
    <3>1. SUFFICES ASSUME i # 1 PROVE FALSE
      OBVIOUS
    <3>2. i - 1 \in DOMAIN t /\ t[i - 1] \in X
      BY <1>2, <2>1, <3>1
    <3>3. \A j \in DOMAIN t : i - 1 < j => t[j] \notin Y
      BY <1>1, <2>1, SMTT(30)
    <3>4. QED
      BY <1>3, <3>2, <3>3 DEF After
  <2>3. \A j \in DOMAIN t : t[j] = s[j + 1] /\ j + 1 \in DOMAIN s /\ 1 < j + 1
    BY <1>1
  <2>4. QED
    BY <1>1, <2>1, <2>2, <2>3 DEF None
<1>4. ASSUME After(t, X, Y) PROVE After(s, X, Y)
  <2>1. PICK i \in DOMAIN t : t[i] \in X /\ \A j \in DOMAIN t : i < j => t[j] \notin Y
    BY <1>4 DEF After
  <2>2. i + 1 \in DOMAIN s /\ s[i + 1] \in X
    BY <1>1, <2>1
  <2>3. ASSUME NEW j \in DOMAIN s, i + 1 < j PROVE s[j] \notin Y
    <3>1. j - 1 \in DOMAIN t /\ t[j - 1] = s[j] /\ i < j - 1
      BY <1>1, <2>1, <2>3
    <3>2. QED
      BY <2>1, <3>1
  <2>4. QED
    BY <2>2, <2>3 DEF After
<1>5. ASSUME h \in X, None(t, Y) PROVE After(s, X, Y)
  <2>1. ASSUME NEW j \in DOMAIN s, 1 < j PROVE s[j] \notin Y
    <3>1. j - 1 \in DOMAIN t /\ t[j - 1] = s[j]
      BY <1>1, <2>1
    <3>2. QED
      BY <1>5, <3>1 DEF None
  <2>2. 1 \in DOMAIN s /\ s[1] \in X
    BY <1>1, <1>5
  <2>3. QED
    BY <2>1, <2>2 DEF After
<1>6. QED
  BY <1>3, <1>4, <1>5 DEF t, h

LEMMA SingleTail ==
    ASSUME NEW T, NEW s \in Seq(T), s # <<>>, NEW X
    PROVE  Single(s, X) <=> Single(Tail(s), X) /\ (Head(s) \in X => None(Tail(s), X))
<1> DEFINE t == Tail(s) h == Head(s) n == Len(s)
<1>1. /\ DOMAIN s = 1 .. n /\ n \in Nat /\ n # 0
      /\ DOMAIN t = 1 .. n - 1
      /\ \A i \in 1 .. n - 1 : t[i] = s[i + 1]
      /\ h = s[1]
  BY TailParts
<1> HIDE DEF t, h, n
<1>2. ASSUME Single(s, X) PROVE Single(t, X) /\ (h \in X => None(t, X))
  <2>1. \A i \in DOMAIN t : i + 1 \in DOMAIN s /\ t[i] = s[i + 1] /\ i + 1 # 1 /\ i \in Nat
    BY <1>1
  <2>2. Single(t, X)
    BY <1>2, <2>1 DEF Single
  <2>3. ASSUME h \in X PROVE None(t, X)
    BY <1>1, <1>2, <2>1, <2>3 DEF Single, None
  <2>4. QED
    BY <2>2, <2>3
<1>3. ASSUME Single(t, X), h \in X => None(t, X) PROVE Single(s, X)
  <2>1. \A i \in DOMAIN s : i # 1 => i - 1 \in DOMAIN t /\ t[i - 1] = s[i] /\ i \in Nat
    BY <1>1
  <2>2. ASSUME NEW i \in DOMAIN s, NEW j \in DOMAIN s, s[i] \in X, s[j] \in X PROVE i = j
    <3>1. CASE i = 1 \/ j = 1
      BY <1>1, <1>3, <2>1, <2>2, <3>1 DEF None
    <3>2. CASE i # 1 /\ j # 1
      <4>1. i - 1 = j - 1
        BY <1>3, <2>1, <2>2, <3>2 DEF Single
      <4>2. QED
        BY <2>1, <3>2, <4>1
    <3>3. QED
      BY <3>1, <3>2
  <2>3. QED
    BY <2>2 DEF Single
<1>4. QED
  BY <1>2, <1>3 DEF t, h

LEMMA LedTail ==
    ASSUME NEW T, NEW s \in Seq(T), s # <<>>, NEW X, NEW Y
    PROVE  /\ Led(s, X, Y) => Head(s) \notin X
           /\ Head(s) \notin X /\ Led(Tail(s), X, Y) => Led(s, X, Y)
           /\ Head(s) \notin Y /\ Led(s, X, Y) => Led(Tail(s), X, Y)
<1> DEFINE t == Tail(s) h == Head(s) n == Len(s)
<1>1. /\ DOMAIN s = 1 .. n /\ n \in Nat /\ n # 0
      /\ DOMAIN t = 1 .. n - 1
      /\ \A i \in 1 .. n - 1 : t[i] = s[i + 1]
      /\ h = s[1]
  BY TailParts
<1> HIDE DEF t, h, n
<1>2. ASSUME Led(s, X, Y) PROVE h \notin X
  BY <1>1, <1>2 DEF Led
<1>3. ASSUME h \notin X, Led(t, X, Y) PROVE Led(s, X, Y)
  <2>1. ASSUME NEW i \in DOMAIN s, s[i] \in X PROVE \E j \in DOMAIN s : j < i /\ s[j] \in Y
    <3>1. i - 1 \in DOMAIN t /\ t[i - 1] = s[i]
      BY <1>1, <1>3, <2>1
    <3>2. PICK j \in DOMAIN t : j < i - 1 /\ t[j] \in Y
      BY <1>3, <2>1, <3>1 DEF Led
    <3>3. j + 1 \in DOMAIN s /\ s[j + 1] \in Y /\ j + 1 < i
      BY <1>1, <3>2
    <3>4. QED
      BY <3>3
  <2>2. QED
    BY <2>1 DEF Led
<1>4. ASSUME h \notin Y, Led(s, X, Y) PROVE Led(t, X, Y)
  <2>1. ASSUME NEW i \in DOMAIN t, t[i] \in X PROVE \E j \in DOMAIN t : j < i /\ t[j] \in Y
    <3>1. i + 1 \in DOMAIN s /\ t[i] = s[i + 1]
      BY <1>1, <2>1
    <3>2. PICK j \in DOMAIN s : j < i + 1 /\ s[j] \in Y
      BY <1>4, <2>1, <3>1 DEF Led
    <3>3. j - 1 \in DOMAIN t /\ t[j - 1] \in Y /\ j - 1 < i
      BY <1>1, <1>4, <3>2
    <3>4. QED
      BY <3>3
  <2>2. QED
    BY <2>1 DEF Led
<1>5. QED
  BY <1>2, <1>3, <1>4 DEF t, h

LEMMA PartedTail ==
    ASSUME NEW T, NEW s \in Seq(T), s # <<>>, NEW X, NEW Y
    PROVE  Parted(s, X, Y) <=> Parted(Tail(s), X, Y) /\ (Head(s) \in X => Led(Tail(s), X, Y))
<1> DEFINE t == Tail(s) h == Head(s) n == Len(s)
<1>1. /\ DOMAIN s = 1 .. n /\ n \in Nat /\ n # 0
      /\ DOMAIN t = 1 .. n - 1
      /\ \A i \in 1 .. n - 1 : t[i] = s[i + 1]
      /\ h = s[1]
  BY TailParts
<1> HIDE DEF t, h, n
<1>2. ASSUME Parted(s, X, Y) PROVE Parted(t, X, Y) /\ (h \in X => Led(t, X, Y))
  <2>1. ASSUME NEW i \in DOMAIN t, NEW k \in DOMAIN t, t[i] \in X, t[k] \in X, i < k
        PROVE  \E j \in DOMAIN t : i < j /\ j < k /\ t[j] \in Y
    <3>1. /\ i + 1 \in DOMAIN s /\ t[i] = s[i + 1]
          /\ k + 1 \in DOMAIN s /\ t[k] = s[k + 1] /\ i + 1 < k + 1
      BY <1>1, <2>1
    <3>2. PICK j \in DOMAIN s : i + 1 < j /\ j < k + 1 /\ s[j] \in Y
      BY <1>2, <2>1, <3>1 DEF Parted
    <3>3. j - 1 \in DOMAIN t /\ t[j - 1] \in Y /\ i < j - 1 /\ j - 1 < k
      BY <1>1, <2>1, <3>2
    <3>4. QED
      BY <3>3
  <2>2. ASSUME h \in X, NEW k \in DOMAIN t, t[k] \in X
        PROVE  \E j \in DOMAIN t : j < k /\ t[j] \in Y
    <3>1. 1 \in DOMAIN s /\ k + 1 \in DOMAIN s /\ t[k] = s[k + 1] /\ 1 < k + 1
      BY <1>1, <2>2
    <3>2. PICK j \in DOMAIN s : 1 < j /\ j < k + 1 /\ s[j] \in Y
      BY <1>1, <1>2, <2>2, <3>1 DEF Parted
    <3>3. j - 1 \in DOMAIN t /\ t[j - 1] \in Y /\ j - 1 < k
      BY <1>1, <2>2, <3>2
    <3>4. QED
      BY <3>3
  <2>3. QED
    BY <2>1, <2>2 DEF Parted, Led
<1>3. ASSUME Parted(t, X, Y), h \in X => Led(t, X, Y) PROVE Parted(s, X, Y)
  <2>1. ASSUME NEW i \in DOMAIN s, NEW k \in DOMAIN s, s[i] \in X, s[k] \in X, i < k
        PROVE  \E j \in DOMAIN s : i < j /\ j < k /\ s[j] \in Y
    <3>1. k - 1 \in DOMAIN t /\ t[k - 1] = s[k]
      BY <1>1, <2>1
    <3>2. CASE i = 1
      <4>1. PICK j \in DOMAIN t : j < k - 1 /\ t[j] \in Y
        BY <1>1, <1>3, <2>1, <3>1, <3>2 DEF Led
      <4>2. j + 1 \in DOMAIN s /\ s[j + 1] \in Y /\ i < j + 1 /\ j + 1 < k
        BY <1>1, <2>1, <3>2, <4>1
      <4>3. QED
        BY <4>2
    <3>3. CASE i # 1
      <4>1. i - 1 \in DOMAIN t /\ t[i - 1] = s[i] /\ i - 1 < k - 1
        BY <1>1, <2>1, <3>3
      <4>2. PICK j \in DOMAIN t : i - 1 < j /\ j < k - 1 /\ t[j] \in Y
        BY <1>3, <2>1, <3>1, <4>1 DEF Parted
      <4>3. j + 1 \in DOMAIN s /\ s[j + 1] \in Y /\ i < j + 1 /\ j + 1 < k
        BY <1>1, <2>1, <4>2
      <4>4. QED
        BY <4>3
    <3>4. QED
      BY <3>2, <3>3
  <2>2. QED
    BY <2>1 DEF Parted
<1>4. QED
  BY <1>2, <1>3 DEF t, h

LEMMA AlikeLaws ==
    ASSUME NEW q, NEW r, NEW s, NEW S, NEW R
    PROVE  /\ Alike(s, s, S)
           /\ Alike(q, r, S) /\ Alike(r, s, S) => Alike(q, s, S)
           /\ Alike(r, s, S) /\ R \subseteq S => Alike(r, s, R)
<1>1. Alike(s, s, S)
  BY DEF Alike
<1>2. ASSUME Alike(q, r, S), Alike(r, s, S) PROVE Alike(q, s, S)
  BY <1>2 DEF Alike
<1>3. ASSUME Alike(r, s, S), R \subseteq S PROVE Alike(r, s, R)
  <2>1. \A X \in SUBSET R : X \in SUBSET S
    BY <1>3
  <2>2. QED
    BY <1>3, <2>1 DEF Alike
<1>4. QED
  BY <1>1, <1>2, <1>3

LEMMA AlikeAppend ==
    ASSUME NEW T, NEW s \in Seq(T), NEW m \in T, NEW S, m \notin S
    PROVE  Alike(Append(s, m), s, S)
<1> SUFFICES ASSUME NEW X \in SUBSET S, NEW Y \in SUBSET S
             PROVE  /\ None(Append(s, m), X) <=> None(s, X)
                    /\ After(Append(s, m), X, Y) <=> After(s, X, Y)
                    /\ Single(Append(s, m), X) <=> Single(s, X)
                    /\ Led(Append(s, m), X, Y) <=> Led(s, X, Y)
                    /\ X \cap Y = {} => (Parted(Append(s, m), X, Y) <=> Parted(s, X, Y))
  BY DEF Alike
<1>1. m \notin X /\ m \notin Y
  OBVIOUS
<1>2. None(Append(s, m), X) <=> None(s, X)
  BY <1>1, NoneAppend
<1>3. After(Append(s, m), X, Y) <=> After(s, X, Y)
  BY <1>1, AfterAppend
<1>4. Single(Append(s, m), X) <=> Single(s, X)
  BY <1>1, SingleAppend
<1>5. Led(Append(s, m), X, Y) <=> Led(s, X, Y)
  BY <1>1, LedAppend
<1>6. X \cap Y = {} => (Parted(Append(s, m), X, Y) <=> Parted(s, X, Y))
  BY <1>1, PartedAppend
<1>7. QED
  BY <1>2, <1>3, <1>4, <1>5, <1>6

LEMMA AlikeTail ==
    ASSUME NEW T, NEW s \in Seq(T), s # <<>>, NEW S, Head(s) \notin S
    PROVE  Alike(Tail(s), s, S)
<1> SUFFICES ASSUME NEW X \in SUBSET S, NEW Y \in SUBSET S
             PROVE  /\ None(Tail(s), X) <=> None(s, X)
                    /\ After(Tail(s), X, Y) <=> After(s, X, Y)
                    /\ Single(Tail(s), X) <=> Single(s, X)
                    /\ Led(Tail(s), X, Y) <=> Led(s, X, Y)
                    /\ X \cap Y = {} => (Parted(Tail(s), X, Y) <=> Parted(s, X, Y))
  BY DEF Alike
<1>1. Head(s) \notin X /\ Head(s) \notin Y
  OBVIOUS
<1>2. None(Tail(s), X) <=> None(s, X)
  BY <1>1, NoneTail
<1>3. After(Tail(s), X, Y) <=> After(s, X, Y)
  BY <1>1, AfterTail
<1>4. Single(Tail(s), X) <=> Single(s, X)
  BY <1>1, SingleTail
<1>5. Led(Tail(s), X, Y) <=> Led(s, X, Y)
  BY <1>1, LedTail
<1>6. Parted(Tail(s), X, Y) <=> Parted(s, X, Y)
  BY <1>1, PartedTail
<1>7. QED
  BY <1>2, <1>3, <1>4, <1>5, <1>6

LEMMA AlikeBoth ==
    ASSUME NEW T, NEW r \in Seq(T), NEW s \in Seq(T), NEW m \in T, NEW S, Alike(r, s, S)
    PROVE  Alike(Append(r, m), Append(s, m), S)
<1> SUFFICES ASSUME NEW X \in SUBSET S, NEW Y \in SUBSET S
             PROVE  /\ None(Append(r, m), X) <=> None(Append(s, m), X)
                    /\ After(Append(r, m), X, Y) <=> After(Append(s, m), X, Y)
                    /\ Single(Append(r, m), X) <=> Single(Append(s, m), X)
                    /\ Led(Append(r, m), X, Y) <=> Led(Append(s, m), X, Y)
                    /\ X \cap Y = {} => (Parted(Append(r, m), X, Y) <=> Parted(Append(s, m), X, Y))
  BY DEF Alike
<1>1. /\ None(r, X) <=> None(s, X)
      /\ None(r, Y) <=> None(s, Y)
      /\ After(r, X, Y) <=> After(s, X, Y)
      /\ After(r, Y, X) <=> After(s, Y, X)
      /\ Single(r, X) <=> Single(s, X)
      /\ Led(r, X, Y) <=> Led(s, X, Y)
      /\ X \cap Y = {} => (Parted(r, X, Y) <=> Parted(s, X, Y))
  BY DEF Alike
<1>2. None(Append(r, m), X) <=> None(Append(s, m), X)
  BY <1>1, NoneAppend
<1>3. After(Append(r, m), X, Y) <=> After(Append(s, m), X, Y)
  BY <1>1, AfterAppend
<1>4. Single(Append(r, m), X) <=> Single(Append(s, m), X)
  BY <1>1, SingleAppend
<1>5. Led(Append(r, m), X, Y) <=> Led(Append(s, m), X, Y)
  BY <1>1, LedAppend
<1>6. X \cap Y = {} => (Parted(Append(r, m), X, Y) <=> Parted(Append(s, m), X, Y))
  BY <1>1, PartedAppend
<1>7. QED
  BY <1>2, <1>3, <1>4, <1>5, <1>6

LEMMA ConcatParts ==
    ASSUME NEW T, NEW s \in Seq(T), NEW t \in Seq(T)
    PROVE  /\ s \o t \in Seq(T)
           /\ DOMAIN s = 1 .. Len(s) /\ Len(s) \in Nat
           /\ DOMAIN t = 1 .. Len(t) /\ Len(t) \in Nat
           /\ DOMAIN (s \o t) = 1 .. Len(s) + Len(t)
           /\ \A i \in 1 .. Len(s) : (s \o t)[i] = s[i]
           /\ \A i \in 1 .. Len(t) : (s \o t)[Len(s) + i] = t[i]
           /\ \A i \in 1 .. Len(s) + Len(t) : i > Len(s) => i - Len(s) \in 1 .. Len(t)
<1>1. /\ s \o t \in Seq(T) /\ Len(s) \in Nat /\ Len(t) \in Nat
      /\ Len(s \o t) = Len(s) + Len(t)
      /\ \A i \in 1 .. Len(s) + Len(t) : (s \o t)[i] = IF i <= Len(s) THEN s[i] ELSE t[i - Len(s)]
  BY ConcatProperties, LenProperties
<1>2. DOMAIN s = 1 .. Len(s) /\ DOMAIN t = 1 .. Len(t) /\ DOMAIN (s \o t) = 1 .. Len(s \o t)
  BY <1>1, LenProperties
<1>3. \A i \in 1 .. Len(s) : i \in 1 .. Len(s) + Len(t) /\ i <= Len(s)
  BY <1>1
<1>4. \A i \in 1 .. Len(t) : /\ Len(s) + i \in 1 .. Len(s) + Len(t) /\ ~(Len(s) + i <= Len(s))
                             /\ Len(s) + i - Len(s) = i
  BY <1>1
<1>5. \A i \in 1 .. Len(s) + Len(t) : i > Len(s) => i - Len(s) \in 1 .. Len(t)
  BY <1>1
<1>6. QED
  BY <1>1, <1>2, <1>3, <1>4, <1>5

LEMMA NoneConcat ==
    ASSUME NEW T, NEW s \in Seq(T), NEW t \in Seq(T), NEW X
    PROVE  None(s \o t, X) <=> None(s, X) /\ None(t, X)
<1> DEFINE a == s \o t n == Len(s) k == Len(t)
<1>1. /\ DOMAIN s = 1 .. n /\ n \in Nat /\ DOMAIN t = 1 .. k /\ k \in Nat
      /\ DOMAIN a = 1 .. n + k
      /\ \A i \in 1 .. n : a[i] = s[i]
      /\ \A i \in 1 .. k : a[n + i] = t[i]
      /\ \A i \in 1 .. n + k : i > n => i - n \in 1 .. k
  BY ConcatParts
<1> HIDE DEF a, n, k
<1>2. ASSUME None(a, X) PROVE None(s, X) /\ None(t, X)
  <2>1. None(s, X)
    BY <1>1, <1>2 DEF None
  <2>2. \A i \in 1 .. k : n + i \in DOMAIN a
    BY <1>1
  <2>3. None(t, X)
    BY <1>1, <1>2, <2>2 DEF None
  <2>4. QED
    BY <2>1, <2>3
<1>3. ASSUME None(s, X), None(t, X) PROVE None(a, X)
  <2>1. ASSUME NEW i \in DOMAIN a PROVE a[i] \notin X
    <3>1. CASE i <= n
      BY <1>1, <1>3, <3>1 DEF None
    <3>2. CASE i > n
      <4>1. i - n \in DOMAIN t /\ a[i] = t[i - n]
        <5>1. i - n \in 1 .. k /\ n + (i - n) = i
          BY <1>1, <3>2
        <5>2. QED
          BY <1>1, <5>1
      <4>2. QED
        BY <1>3, <4>1 DEF None
    <3>3. QED
      BY <1>1, <3>1, <3>2
  <2>2. QED
    BY <2>1 DEF None
<1>4. QED
  BY <1>2, <1>3 DEF a

LEMMA AfterConcat ==
    ASSUME NEW T, NEW s \in Seq(T), NEW t \in Seq(T), NEW X, NEW Y
    PROVE  After(s \o t, X, Y) <=> After(t, X, Y) \/ (After(s, X, Y) /\ None(t, Y))
<1> DEFINE a == s \o t n == Len(s) k == Len(t)
<1>1. /\ DOMAIN s = 1 .. n /\ n \in Nat /\ DOMAIN t = 1 .. k /\ k \in Nat
      /\ DOMAIN a = 1 .. n + k
      /\ \A i \in 1 .. n : a[i] = s[i]
      /\ \A i \in 1 .. k : a[n + i] = t[i]
      /\ \A i \in 1 .. n + k : i > n => i - n \in 1 .. k
  BY ConcatParts
<1> HIDE DEF a, n, k
<1>2. ASSUME NEW i \in DOMAIN a, i > n
      PROVE  i - n \in DOMAIN t /\ a[i] = t[i - n]
  <2>1. i - n \in 1 .. k /\ n + (i - n) = i
    BY <1>1, <1>2
  <2>2. QED
    BY <1>1, <2>1
<1>3. \A i \in DOMAIN t : n + i \in DOMAIN a /\ a[n + i] = t[i] /\ n + i > n /\ i \in Nat
  BY <1>1
<1>4. \A i \in DOMAIN s : i \in DOMAIN a /\ a[i] = s[i] /\ i \in Nat /\ i <= n
  BY <1>1
<1>5. ASSUME After(t, X, Y) PROVE After(a, X, Y)
  <2>1. PICK i \in DOMAIN t : t[i] \in X /\ \A j \in DOMAIN t : i < j => t[j] \notin Y
    BY <1>5 DEF After
  <2>2. ASSUME NEW j \in DOMAIN a, n + i < j PROVE a[j] \notin Y
    <3>1. j > n /\ i < j - n
      BY <1>1, <1>3, <2>2
    <3>2. QED
      BY <1>2, <2>1, <3>1
  <2>3. QED
    BY <1>3, <2>1, <2>2 DEF After
<1>6. ASSUME After(s, X, Y), None(t, Y) PROVE After(a, X, Y)
  <2>1. PICK i \in DOMAIN s : s[i] \in X /\ \A j \in DOMAIN s : i < j => s[j] \notin Y
    BY <1>6 DEF After
  <2>2. ASSUME NEW j \in DOMAIN a, i < j PROVE a[j] \notin Y
    <3>1. CASE j > n
      BY <1>2, <1>6, <3>1 DEF None
    <3>2. CASE ~(j > n)
      <4>1. j \in DOMAIN s
        BY <1>1, <3>2
      <4>2. QED
        BY <1>4, <2>1, <2>2, <4>1
    <3>3. QED
      BY <3>1, <3>2
  <2>3. QED
    BY <1>4, <2>1, <2>2 DEF After
<1>7. ASSUME After(a, X, Y) PROVE After(t, X, Y) \/ (After(s, X, Y) /\ None(t, Y))
  <2>1. PICK i \in DOMAIN a : a[i] \in X /\ \A j \in DOMAIN a : i < j => a[j] \notin Y
    BY <1>7 DEF After
  <2>2. CASE i > n
    <3>1. i - n \in DOMAIN t /\ t[i - n] \in X
      BY <1>2, <2>1, <2>2
    <3>2. ASSUME NEW j \in DOMAIN t, i - n < j PROVE t[j] \notin Y
      <4>1. i < n + j
        BY <1>1, <3>2
      <4>2. QED
        BY <1>3, <2>1, <4>1
    <3>3. QED
      BY <3>1, <3>2 DEF After
  <2>3. CASE ~(i > n)
    <3>1. i \in DOMAIN s /\ s[i] \in X
      BY <1>1, <2>1, <2>3
    <3>2. \A j \in DOMAIN s : i < j => s[j] \notin Y
      BY <1>4, <2>1
    <3>3. ASSUME NEW j \in DOMAIN t PROVE t[j] \notin Y
      <4>1. n + j \in DOMAIN a /\ a[n + j] = t[j] /\ i < n + j
        BY <1>1, <1>3, <2>3
      <4>2. QED
        BY <2>1, <4>1
    <3>4. QED
      BY <3>1, <3>2, <3>3 DEF After, None
  <2>4. QED
    BY <2>2, <2>3
<1>8. QED
  BY <1>5, <1>6, <1>7 DEF a

LEMMA AlikeConcat ==
    ASSUME NEW T, NEW s \in Seq(T), NEW t \in Seq(T), NEW S, None(t, S)
    PROVE  Alike(s \o t, s, S)
<1> DEFINE Short(n) == SubSeq(t, 1, n)
           P == {n \in Nat : n <= Len(t) => Alike(s \o Short(n), s, S)}
<1>1. Len(t) \in Nat /\ DOMAIN t = 1 .. Len(t)
  BY LenProperties
<1>2. 0 \in P
  <2>1. Short(0) = <<>> /\ s \o <<>> = s
    BY FrontParts, ConcatEmptySeq
  <2>2. Alike(s, s, S)
    BY AlikeLaws
  <2>3. QED
    BY <2>1, <2>2
<1>3. ASSUME NEW n \in Nat, n \in P
      PROVE  n + 1 \in P
  <2>1. CASE n + 1 <= Len(t)
    <3>1. /\ t[n + 1] \in T /\ Short(n) \in Seq(T)
          /\ Short(n + 1) = Append(Short(n), t[n + 1])
      BY <1>1, <2>1, FrontParts
    <3>2. Alike(s \o Short(n), s, S) /\ t[n + 1] \notin S
      <4>1. n + 1 \in DOMAIN t
        BY <1>1, <2>1
      <4>2. QED
        BY <1>1, <1>3, <2>1, <4>1 DEF None
    <3> HIDE DEF Short
    <3>3. s \o Short(n) \in Seq(T)
      BY <3>1, ConcatProperties
    <3>4. s \o Short(n + 1) = Append(s \o Short(n), t[n + 1])
      <4> DEFINE e == t[n + 1] r == Short(n)
      <4>1. e \in T /\ r \in Seq(T) /\ <<e>> \in Seq(T)
        BY <3>1
      <4>2. Append(r, e) = r \o <<e>> /\ Append(s \o r, e) = (s \o r) \o <<e>>
        BY <3>3, <4>1, AppendIsConcat
      <4>3. (s \o r) \o <<e>> = s \o (r \o <<e>>)
        <5> HIDE DEF e, r
        <5>1. QED
          BY <4>1, ConcatAssociative, SMTT(30)
      <4>4. QED
        BY <3>1, <4>2, <4>3
    <3>5. Alike(Append(s \o Short(n), t[n + 1]), s \o Short(n), S)
      BY <3>1, <3>2, <3>3, AlikeAppend
    <3>6. Alike(s \o Short(n + 1), s, S)
      BY <3>2, <3>4, <3>5, AlikeLaws
    <3>7. QED
      BY <3>6
  <2>2. CASE ~(n + 1 <= Len(t))
    BY <2>2
  <2>3. QED
    BY <2>1, <2>2
<1>4. Nat \subseteq P
  <2> HIDE DEF P
  <2>1. QED
    BY <1>2, <1>3, NatSet
<1>5. Alike(s \o SubSeq(t, 1, Len(t)), s, S)
  BY <1>1, <1>4
<1>6. SubSeq(t, 1, Len(t)) = t
  BY FrontParts
<1>7. QED
  BY <1>5, <1>6

\* The recursive function that Kept defines.
KeptUpTo(s, S, f, n) ==
  f = [i \in 0 .. n |-> IF i = 0 THEN <<>>
                        ELSE IF s[i] \in S THEN Append(f[i - 1], s[i]) ELSE f[i - 1]]

LEMMA KeptExists ==
    ASSUME NEW s, NEW S
    PROVE  \A n \in Nat : \E f : KeptUpTo(s, S, f, n)
<1> DEFINE P == {n \in Nat : \E f : KeptUpTo(s, S, f, n)}
<1>1. 0 \in P
  <2> DEFINE f == [i \in 0 .. 0 |-> <<>>]
  <2>1. KeptUpTo(s, S, f, 0)
    <3>1. \A i \in 0 .. 0 : i = 0
      OBVIOUS
    <3>2. f = [i \in 0 .. 0 |-> IF i = 0 THEN <<>>
                        ELSE IF s[i] \in S THEN Append(f[i - 1], s[i]) ELSE f[i - 1]]
      BY <3>1
    <3>3. QED
      BY <3>2 DEF KeptUpTo
  <2>2. QED
    BY <2>1
<1>2. ASSUME NEW n \in Nat, n \in P
      PROVE  n + 1 \in P
  <2>1. PICK f : KeptUpTo(s, S, f, n)
    BY <1>2
  <2> DEFINE last == IF s[n + 1] \in S THEN Append(f[n], s[n + 1]) ELSE f[n]
             g == [i \in 0 .. n + 1 |-> IF i = n + 1 THEN last ELSE f[i]]
  <2>2. ASSUME NEW i \in 0 .. n + 1
        PROVE  g[i] = IF i = 0 THEN <<>>
                      ELSE IF s[i] \in S THEN Append(g[i - 1], s[i]) ELSE g[i - 1]
    <3>1. CASE i = n + 1
      <4>1. i # 0 /\ i - 1 = n /\ n \in 0 .. n + 1 /\ n # n + 1
        BY <3>1
      <4>2. g[n] = f[n] /\ g[i] = last
        BY <3>1, <4>1
      <4>3. QED
        BY <3>1, <4>1, <4>2
    <3>2. CASE i # n + 1
      <4>1. i \in 0 .. n /\ g[i] = f[i]
        BY <3>2
      <4>2. i # 0 => i - 1 \in 0 .. n + 1 /\ i - 1 # n + 1
        BY <4>1
      <4>3. i # 0 => g[i - 1] = f[i - 1]
        BY <4>2
      <4>4. f[i] = IF i = 0 THEN <<>>
                   ELSE IF s[i] \in S THEN Append(f[i - 1], s[i]) ELSE f[i - 1]
        BY <2>1, <4>1 DEF KeptUpTo
      <4>5. QED
        BY <4>1, <4>3, <4>4
    <3>3. QED
      BY <3>1, <3>2
  <2>3. KeptUpTo(s, S, g, n + 1)
    <3>1. g = [i \in 0 .. n + 1 |-> g[i]]
      OBVIOUS
    <3> HIDE DEF g
    <3>2. QED
      BY <2>2, <3>1 DEF KeptUpTo
  <2>4. QED
    <3> HIDE DEF g
    <3>1. QED
      BY <2>3
<1>3. Nat \subseteq P
  <2> HIDE DEF P
  <2>1. QED
    BY <1>1, <1>2, NatSet
<1>4. QED
  BY <1>3

\* Kept leaves what is in S, in its order.
LEMMA KeptAlike ==
    ASSUME NEW T, NEW s \in Seq(T), NEW S
    PROVE  /\ Kept(s, S) \in Seq(T) /\ Kept(s, S) \in Seq(S)
           /\ Alike(Kept(s, S), s, S)
<1>1. Len(s) \in Nat
  BY LenProperties
<1>2. PICK f : KeptUpTo(s, S, f, Len(s)) /\ Kept(s, S) = f[Len(s)]
  <2> DEFINE f == CHOOSE f : KeptUpTo(s, S, f, Len(s))
  <2>1. KeptUpTo(s, S, f, Len(s))
    BY <1>1, KeptExists
  <2>2. Kept(s, S) = f[Len(s)]
    BY DEF Kept, KeptUpTo
  <2>3. QED
    BY <2>1, <2>2
<1>3. /\ f[0] = <<>>
      /\ \A n \in Nat : n < Len(s) =>
           f[n + 1] = IF s[n + 1] \in S THEN Append(f[n], s[n + 1]) ELSE f[n]
  <2>1. f[0] = <<>>
    BY <1>1, <1>2 DEF KeptUpTo
  <2>2. ASSUME NEW n \in Nat, n < Len(s)
        PROVE  f[n + 1] = IF s[n + 1] \in S THEN Append(f[n], s[n + 1]) ELSE f[n]
    <3>1. n + 1 \in 0 .. Len(s) /\ n + 1 # 0 /\ (n + 1) - 1 = n
      BY <1>1, <2>2
    <3>2. f[n + 1] = IF n + 1 = 0 THEN <<>>
                     ELSE IF s[n + 1] \in S THEN Append(f[(n + 1) - 1], s[n + 1]) ELSE f[(n + 1) - 1]
      BY <1>2, <3>1 DEF KeptUpTo
    <3>3. QED
      BY <3>1, <3>2
  <2>3. QED
    BY <2>1, <2>2
<1> DEFINE Short(n) == SubSeq(s, 1, n)
           P == {n \in Nat : n <= Len(s) =>
                    f[n] \in Seq(T) /\ f[n] \in Seq(S) /\ Alike(f[n], Short(n), S)}
<1>4. 0 \in P
  <2>1. Short(0) = <<>> /\ <<>> \in Seq(T) /\ <<>> \in Seq(S)
    BY FrontParts, EmptySeq
  <2>2. Alike(<<>>, <<>>, S)
    BY AlikeLaws
  <2>3. QED
    BY <1>3, <2>1, <2>2
<1>5. ASSUME NEW n \in Nat, n \in P
      PROVE  n + 1 \in P
  <2>1. CASE n + 1 <= Len(s)
    <3>1. /\ s[n + 1] \in T /\ Short(n) \in Seq(T)
          /\ Short(n + 1) = Append(Short(n), s[n + 1])
      BY <1>1, <2>1, FrontParts
    <3>2. /\ f[n] \in Seq(T) /\ f[n] \in Seq(S) /\ Alike(f[n], Short(n), S)
          /\ f[n + 1] = IF s[n + 1] \in S THEN Append(f[n], s[n + 1]) ELSE f[n]
      BY <1>1, <1>3, <1>5, <2>1
    <3> DEFINE fn == f[n] e == s[n + 1] r == Short(n)
    <3> HIDE DEF Short, fn, e, r
    <3>3. CASE e \in S
      <4>1. f[n + 1] = Append(fn, e)
        BY <3>2, <3>3 DEF fn, e
      <4>2. Append(fn, e) \in Seq(T) /\ Append(fn, e) \in Seq(S)
        BY <3>1, <3>2, <3>3, AppendProperties DEF fn, e
      <4>3. Alike(Append(fn, e), Append(r, e), S)
        BY <3>1, <3>2, AlikeBoth DEF fn, e, r
      <4>4. f[n + 1] \in Seq(T) /\ f[n + 1] \in Seq(S) /\ Alike(f[n + 1], Short(n + 1), S)
        BY <3>1, <4>1, <4>2, <4>3 DEF e, r
      <4>5. QED
        BY <4>4
    <3>4. CASE e \notin S
      <4>1. f[n + 1] = fn
        BY <3>2, <3>4 DEF fn, e
      <4>2. Alike(Append(r, e), r, S)
        BY <3>1, <3>4, AlikeAppend DEF e, r
      <4>3. Alike(r, Append(r, e), S)
        BY <4>2 DEF Alike
      <4>4. Alike(fn, Append(r, e), S)
        BY <3>2, <4>3, AlikeLaws DEF fn, r
      <4>5. f[n + 1] \in Seq(T) /\ f[n + 1] \in Seq(S) /\ Alike(f[n + 1], Short(n + 1), S)
        BY <3>1, <3>2, <4>1, <4>4 DEF fn, e, r
      <4>6. QED
        BY <4>5
    <3>5. QED
      BY <3>3, <3>4
  <2>2. CASE ~(n + 1 <= Len(s))
    BY <2>2
  <2>3. QED
    BY <2>1, <2>2
<1>6. Nat \subseteq P
  <2> HIDE DEF P
  <2>1. QED
    BY <1>4, <1>5, NatSet
<1>7. f[Len(s)] \in Seq(T) /\ f[Len(s)] \in Seq(S) /\ Alike(f[Len(s)], SubSeq(s, 1, Len(s)), S)
  BY <1>1, <1>6
<1>8. SubSeq(s, 1, Len(s)) = s
  BY FrontParts
<1>9. QED
  BY <1>2, <1>7, <1>8

LEMMA RemoveAtParts ==
    ASSUME NEW T, NEW s \in Seq(T), NEW i \in DOMAIN s
    PROVE  /\ RemoveAt(s, i) \in Seq(T)
           /\ DOMAIN RemoveAt(s, i) = 1 .. Len(s) - 1
           /\ \A j \in 1 .. Len(s) - 1 :
                RemoveAt(s, i)[j] = IF j < i THEN s[j] ELSE s[j + 1]
<1> DEFINE a == SubSeq(s, 1, i - 1) b == SubSeq(s, i + 1, Len(s)) r == RemoveAt(s, i)
<1>1. Len(s) \in Nat /\ DOMAIN s = 1 .. Len(s) /\ i \in 1 .. Len(s)
  BY LenProperties
<1>2. a \in Seq(T) /\ Len(a) = i - 1 /\ \A j \in 1 .. i - 1 : a[j] = s[j]
  <2>1. 1 \in 1 .. Len(s) + 1 /\ i - 1 \in 0 .. Len(s)
    BY <1>1
  <2>2. QED
    BY <1>1, <2>1, SubSeqProperties
<1>3. b \in Seq(T) /\ Len(b) = Len(s) - i /\ \A j \in 1 .. Len(s) - i : b[j] = s[i + j]
  <2>1. i + 1 \in 1 .. Len(s) + 1 /\ Len(s) \in i + 1 - 1 .. Len(s)
    BY <1>1
  <2>2. QED
    BY <1>1, <2>1, SubSeqProperties, SMTT(30)
<1>4. r = a \o b
  BY DEF RemoveAt
<1> HIDE DEF a, b, r
<1>5. /\ r \in Seq(T) /\ Len(r) = Len(s) - 1
      /\ \A j \in 1 .. Len(s) - 1 : r[j] = IF j <= i - 1 THEN a[j] ELSE b[j - (i - 1)]
  <2>1. /\ r \in Seq(T) /\ Len(r) = Len(a) + Len(b)
        /\ \A j \in 1 .. Len(a) + Len(b) : r[j] = IF j <= Len(a) THEN a[j] ELSE b[j - Len(a)]
    BY <1>2, <1>3, <1>4, ConcatProperties
  <2>2. Len(a) + Len(b) = Len(s) - 1 /\ Len(a) = i - 1
    BY <1>1, <1>2, <1>3
  <2>3. QED
    BY <2>1, <2>2
<1>6. ASSUME NEW j \in 1 .. Len(s) - 1
      PROVE  r[j] = IF j < i THEN s[j] ELSE s[j + 1]
  <2>1. CASE j < i
    BY <1>1, <1>2, <1>5, <2>1
  <2>2. CASE ~(j < i)
    <3>1. j - (i - 1) \in 1 .. Len(s) - i /\ i + (j - (i - 1)) = j + 1 /\ ~(j <= i - 1)
      BY <1>1, <2>2
    <3>2. b[j - (i - 1)] = s[i + (j - (i - 1))]
      BY <1>3, <3>1
    <3>3. QED
      BY <1>5, <2>2, <3>1, <3>2
  <2>3. QED
    BY <2>1, <2>2
<1>7. QED
  BY <1>1, <1>5, <1>6, LenProperties DEF r

LEMMA RemoveAtSet ==
    ASSUME NEW T, NEW s \in Seq(T), NEW i \in DOMAIN s, IsInjective(s)
    PROVE  /\ IsInjective(RemoveAt(s, i))
           /\ ToSet(RemoveAt(s, i)) = ToSet(s) \ {s[i]}
<1> DEFINE r == RemoveAt(s, i) n == Len(s)
           At(j) == IF j < i THEN j ELSE j + 1
<1>1. n \in Nat /\ DOMAIN s = 1 .. n /\ i \in 1 .. n
  BY LenProperties
<1>2. DOMAIN r = 1 .. n - 1 /\ \A j \in 1 .. n - 1 : r[j] = IF j < i THEN s[j] ELSE s[j + 1]
  BY RemoveAtParts
<1> HIDE DEF r, n
<1>3. \A j \in DOMAIN r : At(j) \in DOMAIN s /\ At(j) # i /\ r[j] = s[At(j)] /\ j \in Nat
  BY <1>1, <1>2
<1>4. \A j, k \in DOMAIN r : At(j) = At(k) => j = k
  BY <1>1, <1>2
<1>5. \A k \in DOMAIN s : k # i => \E j \in DOMAIN r : At(j) = k
  <2>1. ASSUME NEW k \in DOMAIN s, k # i PROVE \E j \in DOMAIN r : At(j) = k
    <3>1. CASE k < i
      <4>1. k \in DOMAIN r /\ At(k) = k
        BY <1>1, <1>2, <3>1
      <4>2. QED
        BY <4>1
    <3>2. CASE ~(k < i)
      <4>1. k - 1 \in DOMAIN r /\ At(k - 1) = k
        BY <1>1, <1>2, <2>1, <3>2
      <4>2. QED
        BY <4>1
    <3>3. QED
      BY <3>1, <3>2
  <2>2. QED
    BY <2>1
<1> HIDE DEF At
<1>6. IsInjective(r)
  BY <1>3, <1>4 DEF IsInjective
<1>7. ToSet(r) \subseteq ToSet(s) \ {s[i]}
  BY <1>3 DEF IsInjective, ToSet
<1>8. ToSet(s) \ {s[i]} \subseteq ToSet(r)
  <2>1. ASSUME NEW k \in DOMAIN s, s[k] # s[i] PROVE s[k] \in ToSet(r)
    <3>1. PICK j \in DOMAIN r : At(j) = k
      BY <1>5, <2>1
    <3>2. QED
      BY <1>3, <3>1 DEF ToSet
  <2>2. QED
    BY <2>1 DEF ToSet
<1>9. QED
  BY <1>6, <1>7, <1>8 DEF r

(***************************************************************************)
(* Types                                                                   *)
(***************************************************************************)
LEMMA MessageShape ==
    ASSUME NEW m \in Message
    PROVE  /\ m.msg \in {"appeared", "vanished", "managerConnected", "added", "removed",
                         "modems", "connected", "properties", "changed"}
           /\ m.msg \in {"appeared", "vanished", "managerConnected"} => m = [msg |-> m.msg]
           /\ m.msg \in {"added", "removed"} =>
                m.path \in Paths /\ m = [msg |-> m.msg, path |-> m.path]
           /\ m.msg = "modems" =>
                /\ m.ok \in BOOLEAN /\ m.paths \in Seq(Paths)
                /\ m = [msg |-> "modems", ok |-> m.ok, paths |-> m.paths]
           /\ m.msg = "connected" => m.id \in Ids /\ m = [msg |-> "connected", id |-> m.id]
           /\ m.msg = "properties" =>
                /\ m.id \in Ids /\ m.powered \in BOOLEAN /\ m.online \in BOOLEAN
                /\ m = [msg |-> "properties", id |-> m.id, powered |-> m.powered,
                        online |-> m.online]
           /\ m.msg = "changed" =>
                /\ m.path \in Paths /\ m.name \in {"Online", "Powered"} /\ m.value \in BOOLEAN
                /\ m = [msg |-> "changed", path |-> m.path, name |-> m.name, value |-> m.value]
BY DEF Message

LEMMA CallShape ==
    ASSUME NEW c \in Call
    PROVE  /\ c.call \in {"ManagerConnect", "GetModems", "Connect", "GetProperties", "SetProperty"}
           /\ c.call \in {"ManagerConnect", "GetModems"} => c = [call |-> c.call]
           /\ c.call \in {"Connect", "GetProperties"} =>
                c.id \in Ids /\ c = [call |-> c.call, id |-> c.id]
           /\ c.call = "SetProperty" =>
                /\ c.id \in Ids /\ c.online \in BOOLEAN
                /\ c = [call |-> "SetProperty", id |-> c.id, online |-> c.online]
BY DEF Call

LEMMA Messages ==
    /\ [msg |-> "appeared"] \in Message /\ [msg |-> "vanished"] \in Message
    /\ [msg |-> "managerConnected"] \in Message
    /\ \A p \in Paths : [msg |-> "added", path |-> p] \in Message
                        /\ [msg |-> "removed", path |-> p] \in Message
    /\ \A b \in BOOLEAN, q \in Seq(Paths) : [msg |-> "modems", ok |-> b, paths |-> q] \in Message
    /\ \A id \in Ids : [msg |-> "connected", id |-> id] \in Message
    /\ \A id \in Ids, b, c \in BOOLEAN :
         [msg |-> "properties", id |-> id, powered |-> b, online |-> c] \in Message
    /\ \A p \in Paths, n \in {"Online", "Powered"}, b \in BOOLEAN :
         [msg |-> "changed", path |-> p, name |-> n, value |-> b] \in Message
BY DEF Message

LEMMA Calls ==
    /\ [call |-> "ManagerConnect"] \in Call /\ [call |-> "GetModems"] \in Call
    /\ \A id \in Ids : [call |-> "Connect", id |-> id] \in Call
                       /\ [call |-> "GetProperties", id |-> id] \in Call
    /\ \A id \in Ids, b \in BOOLEAN :
         [call |-> "SetProperty", id |-> id, online |-> b] \in Call
BY DEF Call

LEMMA MoreIds ==
    ASSUME Ids \subseteq Ids'
    PROVE  /\ Message \subseteq Message' /\ Call \subseteq Call'
           /\ \A s \in Seq(Message) : s \in Seq(Message')
           /\ \A s \in Seq(Call) : s \in Seq(Call')
<1>1. Message \subseteq Message'
  <2> SUFFICES ASSUME NEW m \in Message PROVE m \in Message'
    OBVIOUS
  <2>1. QED
    BY MessageShape DEF Message
<1>2. Call \subseteq Call'
  BY CallShape DEF Call
<1>3. QED
  BY <1>1, <1>2, SeqMonotonic

LEMMA FunctionIsSeq ==
    ASSUME NEW n \in Nat, NEW S, NEW f \in [1 .. n -> S]
    PROVE  f \in Seq(S) /\ Len(f) = n /\ DOMAIN f = 1 .. n
<1>1. f \in Seq(S) /\ DOMAIN f = 1 .. n
  BY SeqDef
<1>2. QED
  BY <1>1, LenProperties

LEMMA DeviceTypes ==
    /\ \A i \in Nat, p \in Paths :
         NewDevice(i, p) \in Device /\ NewDevice(i, p).index = i /\ NewDevice(i, p).path = p
         /\ ~NewDevice(i, p).proxy
    /\ \A d \in Device, b \in BOOLEAN :
         /\ SoftSet(d, b) \in Device /\ SoftSet(d, b).index = d.index
         /\ SoftSet(d, b).path = d.path /\ SoftSet(d, b).proxy = d.proxy
         /\ SoftSet(d, b).online = d.online /\ SoftSet(d, b).soft = b
    /\ \A d \in Device : \A b :
         /\ PropertiesRead(d, b) \in Device /\ PropertiesRead(d, b).index = d.index
         /\ PropertiesRead(d, b).path = d.path /\ PropertiesRead(d, b).proxy = d.proxy
         /\ PropertiesRead(d, b).soft = d.soft /\ PropertiesRead(d, b).online = AsOnline(b)
    /\ \A d \in Device :
         /\ ProxyReady(d) \in Device /\ ProxyReady(d).index = d.index
         /\ ProxyReady(d).path = d.path /\ ProxyReady(d).proxy
         /\ ProxyReady(d).soft = d.soft /\ ProxyReady(d).online = d.online
         /\ SoftOf(d) \in BOOLEAN
    /\ \A d \in Device : \A n, b :
         /\ PropertyChanged(d, n, b) \in Device /\ PropertyChanged(d, n, b).index = d.index
         /\ PropertyChanged(d, n, b).path = d.path /\ PropertyChanged(d, n, b).proxy = d.proxy
         /\ PropertyChanged(d, n, b).soft = d.soft
         /\ PropertyChanged(d, n, b).online = IF n = "Online" THEN AsOnline(b) ELSE d.online
<1>1. \A b : AsOnline(b) \in Onlines
  BY DEF AsOnline, Onlines
<1>2. "absent" \in Onlines
  BY DEF Onlines
<1>3. \A d : SoftOf(d) \in BOOLEAN
  BY DEF SoftOf
<1>4. QED
  BY <1>1, <1>2, <1>3, ZenonT(60) DEF NewDevice, SoftSet, ProxyReady, PropertiesRead, PropertyChanged, Device

LEMMA EnlistedType ==
    ASSUME NEW d \in Device, stored \in BOOLEAN
    PROVE  /\ Enlisted(d) \in Device /\ Enlisted(d).index = d.index
           /\ Enlisted(d).path = d.path /\ Enlisted(d).proxy = d.proxy
           /\ Persist => Enlisted(d).soft = stored
<1> DEFINE synced == IF ForceSync THEN SoftSet(d, SoftOf(d)) ELSE d
<1>1. /\ synced \in Device /\ synced.index = d.index
      /\ synced.path = d.path /\ synced.proxy = d.proxy
  BY DeviceTypes
<1>2. Enlisted(d) = IF Persist THEN SoftSet(synced, stored) ELSE synced
  BY DEF Enlisted
<1> HIDE DEF synced
<1>3. CASE Persist
  <2>1. /\ SoftSet(synced, stored) \in Device /\ SoftSet(synced, stored).index = synced.index
        /\ SoftSet(synced, stored).path = synced.path
        /\ SoftSet(synced, stored).proxy = synced.proxy
        /\ SoftSet(synced, stored).soft = stored
    BY <1>1, DeviceTypes
  <2>2. QED
    BY <1>1, <1>2, <1>3, <2>1
<1>4. CASE ~Persist
  BY <1>1, <1>2, <1>4
<1>5. QED
  BY <1>3, <1>4

LEMMA SpendType ==
    ASSUME NEW k \in Kinds, left \in [Kinds -> Nat], Spend(k)
    PROVE  left' \in [Kinds -> Nat]
<1>1. left[k] \in Nat /\ left["total"] \in Nat /\ "total" \in Kinds
  BY DEF Kinds
<1>2. left[k] - 1 \in Nat /\ left["total"] - 1 \in Nat
  BY <1>1 DEF Spend
<1>3. left' = [left EXCEPT ![k] = @ - 1, !["total"] = @ - 1]
  BY DEF Spend
<1>4. \A x \in Kinds : left'[x] \in Nat
  BY <1>1, <1>2, <1>3
<1>5. QED
  BY <1>3, <1>4

\* The answers to GetModems that name a modem twice: there is none.
Garbled == {m \in [msg : {"modems"}, ok : BOOLEAN, paths : Seq(Paths)] : ~IsInjective(m.paths)}

TypeInv == TypeOK /\ IsFiniteSet(Present) /\ None(inbox, Garbled)

LEMMA TypeInit == Init => TypeInv
<1> SUFFICES ASSUME Init PROVE TypeInv
  OBVIOUS
<1>1. Present = {} /\ IsFiniteSet({})
  BY FS_EmptySet DEF Init, Present, Absent
<1>2. ofono \in [up : BOOLEAN, modems : [Paths -> Modem]]
  BY DEF Init, Absent, Modem
<1>3. left \in [Kinds -> Nat]
  BY OfonoAssumption DEF Init, Kinds
<1>4. /\ inbox \in Seq(Message) /\ calls \in Seq(Call) /\ objects \in Seq(Device)
      /\ devices \in Seq(Ids) /\ IsInjective(devices)
      /\ \A a, b \in Ids : objects[a].index = objects[b].index => a = b
      /\ None(inbox, Garbled)
  BY DEF Init, IsInjective, Ids, None
<1>5. QED
  BY <1>1, <1>2, <1>3, <1>4, OfonoAssumption DEF Init, TypeInv, TypeOK, Phases

\* What oFono and the bus do changes no object, so the messages and calls that
\* can be are the same, and all that is left to show is about what they change.
LEMMA TypeOutside ==
    ASSUME TypeInv, UNCHANGED daemonVars,
           ofono' \in [up : BOOLEAN, modems : [Paths -> Modem]], IsFiniteSet(Present'),
           inbox' \in Seq(Message), None(inbox', Garbled), calls' \in Seq(Call),
           refused' \subseteq Paths, deaf' \subseteq Ids, unread' \subseteq Ids, missed' \subseteq Ids,
           left' \in [Kinds -> Nat]
    PROVE  TypeInv'
<1>1. Ids' = Ids /\ Message' = Message /\ Call' = Call
  BY DEF Ids, Message, Call, daemonVars
<1>2. QED
  BY <1>1 DEF TypeInv, TypeOK, daemonVars, Garbled

LEMMA TypeOfonoStart ==
    ASSUME TypeInv, OfonoStart
    PROVE  TypeInv'
<1>1. Present' = Present
  BY DEF OfonoStart, Present, TypeInv, TypeOK
<1>2. [msg |-> "appeared"] \in Message /\ [msg |-> "appeared"] \notin Garbled
  BY Messages DEF Garbled
<1>3. inbox' \in Seq(Message) /\ None(inbox', Garbled)
  BY <1>2, AppendProperties, NoneAppend DEF OfonoStart, TypeInv, TypeOK
<1>4. left' \in [Kinds -> Nat]
  BY SpendType DEF OfonoStart, TypeInv, TypeOK, Kinds
<1>5. ofono' \in [up : BOOLEAN, modems : [Paths -> Modem]]
  BY DEF OfonoStart, TypeInv, TypeOK
<1>6. QED
  BY <1>1, <1>3, <1>4, <1>5, TypeOutside DEF OfonoStart, TypeInv, TypeOK, failures

LEMMA TypeOfonoStop ==
    ASSUME TypeInv, OfonoStop
    PROVE  TypeInv'
<1>1. Present' = {} /\ IsFiniteSet({})
  BY FS_EmptySet DEF OfonoStop, Present, Absent
<1>2. [msg |-> "vanished"] \in Message /\ [msg |-> "vanished"] \notin Garbled
  BY Messages DEF Garbled
<1> DEFINE t == [i \in DOMAIN Connects |-> [msg |-> "connected", id |-> Connects[i].id]]
           s == Append(inbox, [msg |-> "vanished"])
<1>3. Connects \in Seq([call : {"Connect"}, id : Ids])
  BY KeptAlike DEF Connects, TypeInv, TypeOK
<1>4. t \in Seq(Message) /\ None(t, Garbled)
  <2>1. Len(Connects) \in Nat /\ DOMAIN Connects = 1 .. Len(Connects)
    BY <1>3, LenProperties
  <2>2. \A i \in DOMAIN Connects : Connects[i].id \in Ids
    <3>1. \A i \in DOMAIN Connects : Connects[i] \in [call : {"Connect"}, id : Ids]
      BY <1>3, <2>1, ElementOfSeq
    <3>2. QED
      BY <3>1
  <2>3. t \in [1 .. Len(Connects) -> Message]
    BY <2>1, <2>2, Messages
  <2>4. t \in Seq(Message)
    BY <2>1, <2>3, FunctionIsSeq
  <2>5. \A i \in DOMAIN t : t[i].msg = "connected"
    OBVIOUS
  <2>6. QED
    BY <2>4, <2>5 DEF None, Garbled
<1>5. s \in Seq(Message) /\ None(s, Garbled)
  BY <1>2, AppendProperties, NoneAppend DEF TypeInv, TypeOK
<1>6. inbox' = s \o t
  BY DEF OfonoStop
<1>7. inbox' \in Seq(Message) /\ None(inbox', Garbled)
  <2> HIDE DEF s, t
  <2>1. QED
    BY <1>4, <1>5, <1>6, NoneConcat, ConcatProperties
<1>8. ofono' \in [up : BOOLEAN, modems : [Paths -> Modem]]
  BY DEF OfonoStop, Absent, Modem
<1>9. calls' \in Seq(Call)
  BY EmptySeq DEF OfonoStop
<1>10. QED
  BY <1>1, <1>7, <1>8, <1>9, TypeOutside DEF OfonoStop, TypeInv, TypeOK, failures

LEMMA TypeModemAdded ==
    ASSUME TypeInv, NEW p \in Paths, ModemAdded(p)
    PROVE  TypeInv'
<1>1. PICK powered \in BOOLEAN :
        ofono' = [ofono EXCEPT !.modems[p] = [present |-> TRUE, powered |-> powered, online |-> FALSE]]
  BY DEF ModemAdded
<1>2. ofono' \in [up : BOOLEAN, modems : [Paths -> Modem]] /\ Present' = Present \union {p}
  BY <1>1 DEF TypeInv, TypeOK, Modem, Present
<1>3. IsFiniteSet(Present')
  BY <1>2, FS_AddElement DEF TypeInv
<1>4. [msg |-> "added", path |-> p] \in Message /\ [msg |-> "added", path |-> p] \notin Garbled
  BY Messages DEF Garbled
<1>5. inbox' \in Seq(Message) /\ None(inbox', Garbled)
  BY <1>4, AppendProperties, NoneAppend DEF ModemAdded, TypeInv, TypeOK
<1>6. left' \in [Kinds -> Nat]
  BY SpendType DEF ModemAdded, TypeInv, TypeOK, Kinds
<1>7. QED
  BY <1>2, <1>3, <1>5, <1>6, TypeOutside DEF ModemAdded, TypeInv, TypeOK, failures

LEMMA TypeModemRemoved ==
    ASSUME TypeInv, NEW p \in Paths, ModemRemoved(p)
    PROVE  TypeInv'
<1>1. ofono' \in [up : BOOLEAN, modems : [Paths -> Modem]] /\ Present' \subseteq Present
  BY DEF ModemRemoved, TypeInv, TypeOK, Modem, Present, Absent
<1>2. IsFiniteSet(Present')
  BY <1>1, FS_Subset DEF TypeInv
<1>3. [msg |-> "removed", path |-> p] \in Message /\ [msg |-> "removed", path |-> p] \notin Garbled
  BY Messages DEF Garbled
<1>4. inbox' \in Seq(Message) /\ None(inbox', Garbled)
  BY <1>3, AppendProperties, NoneAppend DEF ModemRemoved, TypeInv, TypeOK
<1>5. QED
  BY <1>1, <1>2, <1>4, TypeOutside DEF ModemRemoved, TypeInv, TypeOK, failures

\* A step that changes one modem of oFono.
LEMMA OneModem ==
    ASSUME TypeInv, NEW p \in Paths, NEW now \in Modem,
           ofono' = [ofono EXCEPT !.modems[p] = now]
    PROVE  /\ ofono' \in [up : BOOLEAN, modems : [Paths -> Modem]]
           /\ ofono'.up = ofono.up
           /\ ofono'.modems[p] = now
           /\ \A q \in Paths : q # p => ofono'.modems[q] = ofono.modems[q]
<1> DEFINE all == [ofono.modems EXCEPT ![p] = now]
<1>1. /\ ofono = [up |-> ofono.up, modems |-> ofono.modems]
      /\ ofono.up \in BOOLEAN /\ ofono.modems \in [Paths -> Modem]
  BY DEF TypeInv, TypeOK
<1>2. /\ all \in [Paths -> Modem] /\ all[p] = now
      /\ \A q \in Paths : q # p => all[q] = ofono.modems[q]
  BY <1>1
<1>3. ofono' = [up |-> ofono.up, modems |-> all]
  BY <1>1
<1> HIDE DEF all
<1>4. ofono' \in [up : BOOLEAN, modems : [Paths -> Modem]]
  BY <1>1, <1>2, <1>3
<1>5. ofono'.up = ofono.up /\ ofono'.modems = all
  BY <1>3
<1>6. QED
  BY <1>2, <1>4, <1>5

LEMMA PoweredModems ==
    ASSUME TypeInv, NEW p \in Paths, ModemPowered(p)
    PROVE  /\ ofono' \in [up : BOOLEAN, modems : [Paths -> Modem]]
           /\ ofono'.up = ofono.up
           /\ ofono'.modems[p].present /\ ~ofono'.modems[p].online
           /\ ofono'.modems[p].powered <=> ~ofono.modems[p].powered
           /\ ofono.modems[p].present
           /\ \A q \in Paths : q # p => ofono'.modems[q] = ofono.modems[q]
<1> DEFINE now == [present |-> TRUE, powered |-> ~ofono.modems[p].powered, online |-> FALSE]
<1>1. now \in Modem /\ now.present /\ ~now.online /\ (now.powered <=> ~ofono.modems[p].powered)
  BY DEF Modem
<1>2. ofono' = [ofono EXCEPT !.modems[p] = now] /\ ofono.modems[p].present
  BY DEF ModemPowered
<1> HIDE DEF now
<1>3. QED
  BY <1>1, <1>2, OneModem

LEMMA TypeModemPowered ==
    ASSUME TypeInv, NEW p \in Paths, ModemPowered(p)
    PROVE  TypeInv'
<1> DEFINE was == ofono.modems[p]
           first == IF was.online THEN <<Changed(p, "Online", FALSE)>> ELSE <<>>
           power == Changed(p, "Powered", ~was.powered)
<1>0. was \in Modem /\ was.online \in BOOLEAN /\ was.powered \in BOOLEAN
  BY DEF TypeInv, TypeOK, Modem
<1>1. ofono' \in [up : BOOLEAN, modems : [Paths -> Modem]] /\ Present' = Present
  <2>1. /\ ofono' \in [up : BOOLEAN, modems : [Paths -> Modem]]
        /\ ofono'.modems[p].present /\ was.present
        /\ \A q \in Paths : q # p => ofono'.modems[q] = ofono.modems[q]
    BY PoweredModems
  <2> HIDE DEF was
  <2>2. \A q \in Paths : ofono'.modems[q].present <=> ofono.modems[q].present
    BY <2>1 DEF was
  <2>3. QED
    BY <2>1, <2>2 DEF Present
<1>2. \A n \in {"Online", "Powered"}, b \in BOOLEAN :
        Changed(p, n, b) \in Message /\ Changed(p, n, b) \notin Garbled
  BY Messages DEF Garbled, Changed
<1>3. power \in Message /\ power \notin Garbled
  BY <1>0, <1>2
<1>4. first \in Seq(Message) /\ None(first, Garbled)
  <2>1. CASE was.online
    <3>1. first = <<Changed(p, "Online", FALSE)>>
      BY <2>1
    <3> HIDE DEF first
    <3>2. QED
      BY <1>2, <3>1, One
  <2>2. CASE ~was.online
    <3>1. first = <<>>
      BY <2>2
    <3> HIDE DEF first
    <3>2. QED
      BY <3>1 DEF None
  <2>3. QED
    BY <1>0, <2>1, <2>2
<1>5. <<power>> \in Seq(Message) /\ None(<<power>>, Garbled)
  BY <1>3 DEF None
<1>6. inbox' = (inbox \o first) \o <<power>>
  BY DEF ModemPowered
<1>7. inbox' \in Seq(Message) /\ None(inbox', Garbled)
  <2> HIDE DEF first, power
  <2>1. inbox \o first \in Seq(Message) /\ None(inbox \o first, Garbled)
    BY <1>4, ConcatProperties, NoneConcat DEF TypeInv, TypeOK
  <2>2. QED
    BY <1>5, <1>6, <2>1, ConcatProperties, NoneConcat
<1>8. left' \in [Kinds -> Nat]
  BY SpendType DEF ModemPowered, TypeInv, TypeOK, Kinds
<1>9. QED
  BY <1>1, <1>7, <1>8, TypeOutside DEF ModemPowered, TypeInv, TypeOK, failures

\* What waits at the head of the calls.
LEMMA HeadCall ==
    ASSUME TypeInv, calls # <<>>
    PROVE  /\ Head(calls) \in Call /\ Tail(calls) \in Seq(Call)
           /\ Head(calls).call \in {"Connect", "GetProperties", "SetProperty"} =>
                /\ Head(calls).id \in Ids
                /\ objects[Head(calls).id] \in Device
                /\ objects[Head(calls).id].path \in Paths
                /\ ofono.modems[objects[Head(calls).id].path] \in Modem
<1>1. Head(calls) \in Call /\ Tail(calls) \in Seq(Call)
  BY HeadTailProperties DEF TypeInv, TypeOK
<1>2. ASSUME NEW id \in Ids
      PROVE  /\ objects[id] \in Device /\ objects[id].path \in Paths
             /\ ofono.modems[objects[id].path] \in Modem
  <2>1. objects[id] \in Device
    BY ElementOfSeq, LenProperties DEF TypeInv, TypeOK, Ids
  <2>2. objects[id].path \in Paths
    BY <2>1 DEF Device
  <2>3. QED
    BY <2>1, <2>2 DEF TypeInv, TypeOK
<1>3. QED
  BY <1>1, <1>2, CallShape

\* An answer to GetModems names the modems that oFono has, each once.
LEMMA Listing ==
    ASSUME TypeInv, NEW list \in Bijection(1 .. Cardinality(Present), Present)
    PROVE  list \in Seq(Paths) /\ IsInjective(list) /\ ToSet(list) = Present
<1>1. Cardinality(Present) \in Nat
  BY FS_CardinalityType DEF TypeInv
<1>2. /\ list \in [1 .. Cardinality(Present) -> Present] /\ IsInjective(list)
      /\ \A p \in Present : \E i \in 1 .. Cardinality(Present) : list[i] = p
  BY DEF Bijection, Injection, Surjection
<1>3. list \in Seq(Present) /\ Present \subseteq Paths
  BY <1>1, <1>2, FunctionIsSeq DEF Present
<1>4. list \in Seq(Paths)
  BY <1>3, SeqMonotonic
<1>5. ToSet(list) = Present
  BY <1>2 DEF ToSet
<1>6. QED
  BY <1>2, <1>4, <1>5

\* What an answer to SetProperty that is not turned down does to the modem.
LEMMA SetModems ==
    ASSUME TypeInv, NEW p \in Paths, NEW b \in BOOLEAN, ofono.modems[p].powered,
           ofono' = [ofono EXCEPT !.modems[p] =
                       [present |-> ofono.modems[p].present, powered |-> TRUE, online |-> b]]
    PROVE  /\ ofono' \in [up : BOOLEAN, modems : [Paths -> Modem]]
           /\ ofono'.up = ofono.up
           /\ ofono'.modems[p].present <=> ofono.modems[p].present
           /\ ofono'.modems[p].powered /\ ofono'.modems[p].online = b
           /\ \A q \in Paths : q # p => ofono'.modems[q] = ofono.modems[q]
           /\ Present' = Present
<1> DEFINE now == [present |-> ofono.modems[p].present, powered |-> TRUE, online |-> b]
<1>1. ofono.modems[p].present \in BOOLEAN
  BY DEF TypeInv, TypeOK, Modem
<1>2. now \in Modem /\ (now.present <=> ofono.modems[p].present) /\ now.powered /\ now.online = b
  BY <1>1 DEF Modem
<1>3. ofono' = [ofono EXCEPT !.modems[p] = now]
  OBVIOUS
<1> HIDE DEF now
<1>4. /\ ofono' \in [up : BOOLEAN, modems : [Paths -> Modem]]
      /\ ofono'.up = ofono.up
      /\ ofono'.modems[p] = now
      /\ \A q \in Paths : q # p => ofono'.modems[q] = ofono.modems[q]
  BY <1>2, <1>3, OneModem, ZenonT(60)
<1>5. \A q \in Paths : ofono'.modems[q].present <=> ofono.modems[q].present
  BY <1>2, <1>4
<1>6. QED
  BY <1>2, <1>4, <1>5 DEF Present

LEMMA TypeAnswer ==
    ASSUME TypeInv, Answer
    PROVE  TypeInv'
<1> DEFINE c == Head(calls) p == objects[c.id].path modem == ofono.modems[p]
<1>1. c \in Call /\ calls' \in Seq(Call) /\ UNCHANGED daemonVars
  BY HeadCall DEF Answer
<1>0. TypeOK /\ None(inbox, Garbled) /\ IsFiniteSet(Present)
  BY DEF TypeInv
<1> HIDE DEF c
<1>2. CASE AnswerConnect(c)
  <2> DEFINE m == [msg |-> "connected", id |-> c.id]
  <2>0. c.id \in Ids /\ (inbox' = inbox \/ inbox' = Append(inbox, m)) /\ m \in Message /\ m \notin Garbled
    BY <1>1, <1>2, CallShape, Messages DEF Garbled, AnswerConnect, Fail
  <2> HIDE DEF m
  <2>1. left' \in [Kinds -> Nat]
    BY <1>0, <1>2, SpendType DEF AnswerConnect, Fail, TypeOK, Kinds
  <2>2. inbox' \in Seq(Message) /\ None(inbox', Garbled)
    <3>1. Append(inbox, m) \in Seq(Message) /\ None(Append(inbox, m), Garbled)
      BY <1>0, <2>0, AppendProperties, NoneAppend DEF TypeOK
    <3>2. QED
      BY <1>0, <2>0, <3>1 DEF TypeOK
  <2>3. Present' = Present
    BY <1>2 DEF AnswerConnect, Present
  <2>4. QED
    BY <1>0, <1>1, <1>2, <2>0, <2>1, <2>2, <2>3, TypeOutside DEF AnswerConnect, Fail, TypeOK
<1>3. CASE AnswerManagerConnect(c)
  <2> DEFINE m == [msg |-> "managerConnected"]
  <2>1. /\ inbox' = inbox \/ inbox' = Append(inbox, m)
        /\ m \in Message /\ m \notin Garbled
    BY <1>3, Messages DEF Garbled, AnswerManagerConnect, Fail
  <2> HIDE DEF m
  <2>2. inbox' \in Seq(Message) /\ None(inbox', Garbled)
    <3>1. Append(inbox, m) \in Seq(Message) /\ None(Append(inbox, m), Garbled)
      BY <1>0, <2>1, AppendProperties, NoneAppend DEF TypeOK
    <3>2. QED
      BY <1>0, <2>1, <3>1 DEF TypeOK
  <2>3. Present' = Present
    BY <1>3 DEF AnswerManagerConnect, Present
  <2>4. left' \in [Kinds -> Nat]
    BY <1>0, <1>3, SpendType DEF AnswerManagerConnect, Fail, TypeOK, Kinds
  <2>5. QED
    BY <1>0, <1>1, <1>3, <2>2, <2>3, <2>4, TypeOutside DEF AnswerManagerConnect, TypeOK, failures
<1>4. CASE AnswerGetModems(c)
  <2>1. inbox' \in Seq(Message) /\ None(inbox', Garbled)
    <3>1. CASE \E list \in Bijection(1 .. Cardinality(Present), Present) :
                 inbox' = Append(inbox, [msg |-> "modems", ok |-> TRUE, paths |-> list])
      <4>1. PICK list \in Bijection(1 .. Cardinality(Present), Present) :
                 inbox' = Append(inbox, [msg |-> "modems", ok |-> TRUE, paths |-> list])
        BY <3>1
      <4>2. list \in Seq(Paths) /\ IsInjective(list)
        BY Listing
      <4>3. /\ [msg |-> "modems", ok |-> TRUE, paths |-> list] \in Message
            /\ [msg |-> "modems", ok |-> TRUE, paths |-> list] \notin Garbled
        BY <4>2, Messages DEF Garbled
      <4>4. QED
        BY <1>0, <4>1, <4>3, AppendProperties, NoneAppend DEF TypeOK
    <3>2. CASE inbox' = Append(inbox, [msg |-> "modems", ok |-> FALSE, paths |-> <<>>])
      <4>1. <<>> \in Seq(Paths) /\ IsInjective(<<>>)
        BY EmptySeq DEF IsInjective
      <4>2. /\ [msg |-> "modems", ok |-> FALSE, paths |-> <<>>] \in Message
            /\ [msg |-> "modems", ok |-> FALSE, paths |-> <<>>] \notin Garbled
        BY <4>1, Messages DEF Garbled
      <4>3. QED
        BY <1>0, <3>2, <4>2, AppendProperties, NoneAppend DEF TypeOK
    <3>3. QED
      BY <1>4, <3>1, <3>2 DEF AnswerGetModems
  <2>2. Present' = Present
    BY <1>4 DEF AnswerGetModems, Present
  <2>3. left' \in [Kinds -> Nat]
    BY <1>0, <1>4, SpendType DEF AnswerGetModems, TypeOK, Kinds
  <2>4. QED
    BY <1>0, <1>1, <1>4, <2>1, <2>2, <2>3, TypeOutside DEF AnswerGetModems, TypeOK, failures
<1>5. CASE AnswerGetProperties(c)
  <2>1. c.id \in Ids /\ modem \in Modem
    BY <1>5, HeadCall DEF AnswerGetProperties, Answer, c
  <2> DEFINE m == [msg |-> "properties", id |-> c.id,
                   powered |-> modem.powered, online |-> modem.online]
  <2>2. inbox' = inbox \/ inbox' = Append(inbox, m)
    BY <1>5 DEF AnswerGetProperties, Fail
  <2>3. m \in Message /\ m \notin Garbled
    <3>1. modem.powered \in BOOLEAN /\ modem.online \in BOOLEAN
      BY <2>1 DEF Modem
    <3>2. QED
      BY <2>1, <3>1, Messages DEF Garbled
  <2> HIDE DEF m
  <2>4. inbox' \in Seq(Message) /\ None(inbox', Garbled)
    <3>1. Append(inbox, m) \in Seq(Message) /\ None(Append(inbox, m), Garbled)
      BY <1>0, <2>3, AppendProperties, NoneAppend DEF TypeOK
    <3>2. QED
      BY <1>0, <2>2, <3>1 DEF TypeOK
  <2>5. Present' = Present
    BY <1>5 DEF AnswerGetProperties, Present
  <2>6. left' \in [Kinds -> Nat]
    BY <1>0, <1>5, SpendType, SMTT(30) DEF AnswerGetProperties, Fail, TypeOK, Kinds
  <2>7. QED
    BY <1>0, <1>1, <1>5, <2>1, <2>4, <2>5, <2>6, TypeOutside, SMTT(30) DEF AnswerGetProperties, TypeOK
<1>6. CASE AnswerSetProperty(c)
  <2>1. c.id \in Ids /\ p \in Paths /\ modem \in Modem /\ c.online \in BOOLEAN
    BY <1>1, <1>6, HeadCall, CallShape DEF AnswerSetProperty, Answer, c
  <2>0. deaf' \subseteq Ids /\ unread' \subseteq Ids /\ missed' \subseteq Ids
    BY <1>0, <1>6, SMTT(30) DEF AnswerSetProperty, TypeOK
  <2>2. CASE /\ modem.powered
             /\ ofono' = [ofono EXCEPT !.modems[p] =
                            [present |-> modem.present, powered |-> TRUE, online |-> c.online]]
             /\ inbox' = IF modem.online = c.online THEN inbox
                         ELSE Append(inbox, Changed(p, "Online", c.online))
             /\ refused' = refused \ {p}
             /\ UNCHANGED left
    <3>1. ofono' \in [up : BOOLEAN, modems : [Paths -> Modem]] /\ Present' = Present
      BY <2>1, <2>2, SetModems
    <3>2. Changed(p, "Online", c.online) \in Message /\ Changed(p, "Online", c.online) \notin Garbled
      BY <2>1, Messages DEF Garbled, Changed
    <3>3. inbox' \in Seq(Message) /\ None(inbox', Garbled)
      BY <1>0, <2>2, <3>2, AppendProperties, NoneAppend DEF TypeOK
    <3>4. QED
      BY <1>0, <1>1, <2>0, <2>2, <3>1, <3>3, TypeOutside, ZenonT(60) DEF TypeOK
  <2>3. CASE UNCHANGED <<ofono, inbox, refused, left>>
    BY <1>0, <1>1, <2>0, <2>3, TypeOutside DEF TypeOK, Present
  <2>4. CASE Spend("refused") /\ refused' = refused \union {p} /\ UNCHANGED <<ofono, inbox>>
    <3>1. left' \in [Kinds -> Nat]
      BY <1>0, <2>4, SpendType DEF TypeOK, Kinds
    <3>2. QED
      BY <1>0, <1>1, <2>0, <2>1, <2>4, <3>1, TypeOutside DEF TypeOK, Present
  <2>5. QED
    BY <1>6, <2>2, <2>3, <2>4, SMTT(30) DEF AnswerSetProperty
<1>7. QED
  BY <1>2, <1>3, <1>4, <1>5, <1>6 DEF Answer, c

\* What waits at the head of the inbox.
LEMMA HeadMessage ==
    ASSUME TypeInv, inbox # <<>>
    PROVE  /\ Head(inbox) \in Message /\ Tail(inbox) \in Seq(Message)
           /\ Head(inbox) \notin Garbled /\ None(Tail(inbox), Garbled)
BY HeadTailProperties, NoneTail DEF TypeInv, TypeOK

LEMMA ObjectTypes ==
    ASSUME TypeInv
    PROVE  /\ Ids = 1 .. Len(objects) /\ Len(objects) \in Nat
           /\ \A id \in Ids : /\ objects[id] \in Device /\ objects[id].path \in Paths
                              /\ objects[id].index \in Nat /\ objects[id].soft \in BOOLEAN
                              /\ objects[id].proxy \in BOOLEAN
           /\ DOMAIN devices = 1 .. Len(devices) /\ Len(devices) \in Nat
           /\ \A i \in DOMAIN devices : devices[i] \in Ids /\ objects[devices[i]] \in Device
           /\ ToSet(devices) \subseteq Ids
           /\ \A p \in Paths : For(p) \subseteq Ids
<1>1. Ids = 1 .. Len(objects) /\ Len(objects) \in Nat /\ \A id \in Ids : objects[id] \in Device
  BY ElementOfSeq, LenProperties DEF TypeInv, TypeOK, Ids
<1>2. \A d \in Device : /\ d.path \in Paths /\ d.index \in Nat
                        /\ d.soft \in BOOLEAN /\ d.proxy \in BOOLEAN
  BY DEF Device
<1>3. /\ DOMAIN devices = 1 .. Len(devices) /\ Len(devices) \in Nat
      /\ \A i \in DOMAIN devices : devices[i] \in Ids
  BY ElementOfSeq, LenProperties DEF TypeInv, TypeOK
<1>4. ToSet(devices) \subseteq Ids
  BY <1>3 DEF ToSet
<1>5. QED
  BY <1>1, <1>2, <1>3, <1>4 DEF For

\* A handler that makes no object.
LEMMA SameIds ==
    ASSUME TypeInv, objects' \in [Ids -> Device],
           \A id \in Ids : objects'[id].index = objects[id].index
    PROVE  /\ objects' \in Seq(Device) /\ Ids' = Ids
           /\ Message' = Message /\ Call' = Call
           /\ \A a, b \in Ids' : objects'[a].index = objects'[b].index => a = b
<1>1. Ids = 1 .. Len(objects) /\ Len(objects) \in Nat
  BY ObjectTypes
<1>2. objects' \in Seq(Device) /\ DOMAIN objects' = Ids
  BY <1>1, FunctionIsSeq
<1>3. Ids' = Ids
  BY <1>2 DEF Ids
<1>4. Message' = Message /\ Call' = Call
  BY <1>3 DEF Message, Call
<1>5. QED
  BY <1>2, <1>3, <1>4 DEF TypeInv, TypeOK

LEMMA TypeHandler ==
    ASSUME TypeInv, UNCHANGED <<ofono, failures>>, Ids \subseteq Ids',
           objects' \in Seq(Device),
           \A a, b \in Ids' : objects'[a].index = objects'[b].index => a = b,
           devices' \in Seq(Ids'), IsInjective(devices'),
           inbox' \in Seq(Message'), None(inbox', Garbled), calls' \in Seq(Call'),
           manager' \in Phases, modem_idx' \in Nat, stored' \in BOOLEAN, alive' \in BOOLEAN,
           leftover' \subseteq Paths, byIndex' \subseteq Ids', left' \in [Kinds -> Nat]
    PROVE  TypeInv'
BY DEF TypeInv, TypeOK, Garbled, Present, failures

\* The handlers that change neither an object nor the list.
LEMMA TypeHandleManager ==
    ASSUME TypeInv, HandleAppeared \/ HandleManagerConnected
    PROVE  TypeInv'
<1>1. Ids' = Ids /\ Message' = Message /\ Call' = Call
  BY DEF HandleAppeared, HandleManagerConnected, Ids, Message, Call
<1>2. inbox' \in Seq(Message') /\ None(inbox', Garbled)
  BY <1>1, HeadMessage DEF HandleAppeared, HandleManagerConnected, Take
<1>3. calls' \in Seq(Call')
  <2> DEFINE a == [call |-> "ManagerConnect"] b == [call |-> "GetModems"]
  <2>1. a \in Call /\ b \in Call /\ calls \in Seq(Call)
    BY Calls DEF TypeInv, TypeOK
  <2>2. calls' = Append(calls, a) \/ calls' = Append(calls, b)
    BY DEF HandleAppeared, HandleManagerConnected
  <2> HIDE DEF a, b
  <2>3. QED
    BY <1>1, <2>1, <2>2, AppendProperties
<1>4. QED
  BY <1>1, <1>2, <1>3, TypeHandler DEF HandleAppeared, HandleManagerConnected, TypeInv, TypeOK, Phases

LEMMA TypeHandleVanished ==
    ASSUME TypeInv, HandleVanished
    PROVE  TypeInv'
<1>1. Ids' = Ids /\ Message' = Message /\ Call' = Call
  BY DEF HandleVanished, Ids, Message, Call
<1>2. Tail(inbox) \in Seq(Message) /\ None(Tail(inbox), Garbled)
  BY HeadMessage DEF HandleVanished, Take
<1>3. inbox' \in Seq(Message)
  BY <1>2, KeptAlike DEF HandleVanished
<1>4. None(inbox', Garbled)
  <2> DEFINE S == Message \ [msg : {"managerConnected"}]
             X == Garbled \cap S
  <2>1. inbox' \in Seq(S) /\ Alike(inbox', Tail(inbox), S)
    BY <1>2, KeptAlike DEF HandleVanished
  <2>2. None(Tail(inbox), X)
    BY <1>2 DEF None
  <2>3. None(inbox', X)
    BY <2>1, <2>2 DEF Alike
  <2>4. \A i \in DOMAIN inbox' : inbox'[i] \in S
    BY <2>1, ElementOfSeq, LenProperties
  <2>5. QED
    BY <2>3, <2>4 DEF None
<1>5. calls' \in Seq(Call)
  BY KeptAlike DEF HandleVanished, TypeInv, TypeOK
<1>6. Listed(devices) \subseteq Paths
  BY ObjectTypes DEF Listed
<1>7. (manager # "asked") \in BOOLEAN
  OBVIOUS
<1>8. modem_idx' \in Nat
  BY OfonoAssumption DEF HandleVanished, TypeInv, TypeOK
<1>9. QED
  BY <1>1, <1>3, <1>4, <1>5, <1>6, <1>7, <1>8, TypeHandler
     DEF HandleVanished, TypeInv, TypeOK, Phases

\* What is left of the list when a modem is removed.
LEMMA Removal ==
    ASSUME TypeInv, NEW p \in Paths, RemoveModem(p)
    PROVE  /\ devices' \in Seq(Ids) /\ IsInjective(devices')
           /\ ToSet(devices') \subseteq ToSet(devices)
           /\ \/ For(p) = {} /\ devices' = devices
              \/ \E id \in For(p) : ToSet(devices') = ToSet(devices) \ {id}
<1>1. CASE OfPath(p) = {} /\ UNCHANGED devices
  <2>1. For(p) = {}
    BY <1>1 DEF For, OfPath, ToSet
  <2>2. QED
    BY <1>1, <2>1 DEF TypeInv, TypeOK
<1>2. CASE \E i \in DOMAIN devices : IsFirst(i, OfPath(p)) /\ devices' = RemoveAt(devices, i)
  <2>1. PICK i \in DOMAIN devices : IsFirst(i, OfPath(p)) /\ devices' = RemoveAt(devices, i)
    BY <1>2
  <2>2. devices' \in Seq(Ids) /\ IsInjective(devices') /\ ToSet(devices') = ToSet(devices) \ {devices[i]}
    BY <2>1, RemoveAtParts, RemoveAtSet DEF TypeInv, TypeOK
  <2>3. devices[i] \in For(p)
    BY <2>1 DEF IsFirst, OfPath, For, ToSet
  <2>4. QED
    BY <2>2, <2>3
<1>3. QED
  BY <1>1, <1>2 DEF RemoveModem

LEMMA TypeHandleRemoved ==
    ASSUME TypeInv, HandleRemoved
    PROVE  TypeInv'
<1>1. Ids' = Ids /\ Message' = Message /\ Call' = Call
  BY DEF HandleRemoved, Ids, Message, Call
<1>2. inbox' \in Seq(Message') /\ None(inbox', Garbled) /\ Head(inbox).path \in Paths
  BY <1>1, HeadMessage, MessageShape DEF HandleRemoved, Take
<1>3. devices' \in Seq(Ids) /\ IsInjective(devices')
  BY <1>2, Removal DEF HandleRemoved, TypeInv, TypeOK
<1>4. QED
  BY <1>1, <1>2, <1>3, TypeHandler DEF HandleRemoved, TypeInv, TypeOK

\* A handler that changes one object.
LEMMA OneObject ==
    ASSUME TypeInv, NEW id \in Ids, NEW d \in Device, objects' = [objects EXCEPT ![id] = d]
    PROVE  /\ objects' \in [Ids -> Device] /\ objects'[id] = d
           /\ \A a \in Ids : a # id => objects'[a] = objects[a]
<1>1. objects \in [Ids -> Device]
  <2>1. objects \in Seq(Device) /\ Ids = 1 .. Len(objects)
    BY ObjectTypes DEF TypeInv, TypeOK
  <2>2. QED
    BY <2>1, LenProperties
<1>2. QED
  BY <1>1

LEMMA TypeHandleConnected ==
    ASSUME TypeInv, HandleConnected
    PROVE  TypeInv'
<1> DEFINE id == Head(inbox).id
<1>1. id \in Ids /\ objects[id] \in Device
  BY HeadMessage, MessageShape, ObjectTypes DEF HandleConnected, Take
<1>2. Tail(inbox) \in Seq(Message) /\ None(Tail(inbox), Garbled)
  BY HeadMessage DEF HandleConnected, Take
<1>3. objects' = [objects EXCEPT ![id] = ProxyReady(@)]
  BY DEF HandleConnected
<1> DEFINE m == [call |-> "GetProperties", id |-> id]
<1>4. m \in Call /\ calls' = calls \o <<m>>
  BY <1>1, Calls DEF HandleConnected, ProxyReadyCalls
<1> HIDE DEF id, m
<1>5. objects' \in [Ids -> Device] /\ \A a \in Ids : objects'[a].index = objects[a].index
  <2>1. /\ ProxyReady(objects[id]) \in Device
        /\ ProxyReady(objects[id]).index = objects[id].index
    BY <1>1, DeviceTypes
  <2>2. QED
    BY <1>1, <1>3, <2>1, OneObject
<1>6. calls' \in Seq(Call)
  BY <1>4, One, ConcatProperties DEF TypeInv, TypeOK
<1>7. QED
  BY <1>2, <1>5, <1>6, SameIds, TypeHandler DEF HandleConnected, TypeInv, TypeOK

\* What an object sends when it is told that the modem has power.
LEMMA PoweredCallsType ==
    ASSUME NEW d \in Device, NEW id \in Ids, NEW b \in BOOLEAN
    PROVE  /\ PoweredCalls(d, id, b) \in Seq(Call) /\ SoftCalls(d, id, b) \in Seq(Call)
           /\ ~(b /\ d.proxy) => PoweredCalls(d, id, b) = <<>>
           /\ b /\ d.proxy => PoweredCalls(d, id, b)
                                = <<[call |-> "SetProperty", id |-> id, online |-> ~d.soft]>>
           /\ ~d.proxy => SoftCalls(d, id, b) = <<>>
           /\ d.proxy => SoftCalls(d, id, b)
                                = <<[call |-> "SetProperty", id |-> id, online |-> ~b]>>
<1>1. d.soft \in BOOLEAN
  BY DEF Device
<1>2. \A v \in BOOLEAN : <<[call |-> "SetProperty", id |-> id, online |-> ~v]>> \in Seq(Call)
  <2> SUFFICES ASSUME NEW v \in BOOLEAN
               PROVE  <<[call |-> "SetProperty", id |-> id, online |-> ~v]>> \in Seq(Call)
    OBVIOUS
  <2> DEFINE m == [call |-> "SetProperty", id |-> id, online |-> ~v]
  <2>1. m \in Call
    BY Calls
  <2> HIDE DEF m
  <2>2. QED
    BY <2>1, One DEF m
<1>3. <<>> \in Seq(Call)
  BY EmptySeq
<1>4. QED
  BY <1>1, <1>2, <1>3 DEF PoweredCalls, SoftCalls

LEMMA TypeHandleProperties ==
    ASSUME TypeInv, HandleProperties
    PROVE  TypeInv'
<1> DEFINE m == Head(inbox) id == m.id
<1>1. id \in Ids /\ objects[id] \in Device /\ m.powered \in BOOLEAN /\ m.online \in BOOLEAN
  BY HeadMessage, MessageShape, ObjectTypes DEF HandleProperties, Take
<1>2. Tail(inbox) \in Seq(Message) /\ None(Tail(inbox), Garbled)
  BY HeadMessage DEF HandleProperties, Take
<1>3. /\ objects' = [objects EXCEPT ![id] = PropertiesRead(@, m.online)]
      /\ calls' = calls \o PoweredCalls(objects[id], id, m.powered)
  BY DEF HandleProperties, PropertiesCalls
<1> HIDE DEF id, m
<1>4. objects' \in [Ids -> Device] /\ \A a \in Ids : objects'[a].index = objects[a].index
  <2>1. /\ PropertiesRead(objects[id], m.online) \in Device
        /\ PropertiesRead(objects[id], m.online).index = objects[id].index
    BY <1>1, DeviceTypes
  <2>2. QED
    BY <1>1, <1>3, <2>1, OneObject
<1>5. calls' \in Seq(Call)
  BY <1>1, <1>3, PoweredCallsType, ConcatProperties, SMTT(30) DEF TypeInv, TypeOK
<1>6. QED
  BY <1>2, <1>4, <1>5, SameIds, TypeHandler DEF HandleProperties, TypeInv, TypeOK

\* The objects that send something when the modem of path tells a property: those
\* that hear it, if it is that the modem has power.
Senders(path) == Kept([id \in Ids |-> id], Hearers(path))

LEMMA ChangedParts ==
    ASSUME TypeInv, HandleChanged
    PROVE  LET m == Head(inbox)
               powers == m.name = "Powered" /\ m.value
           IN  /\ m \in Message /\ m.path \in Paths /\ m.name \in {"Online", "Powered"}
               /\ m.value \in BOOLEAN
               /\ Tail(inbox) \in Seq(Message) /\ None(Tail(inbox), Garbled)
               /\ objects' \in [Ids -> Device]
               /\ \A id \in Ids :
                    objects'[id] = IF id \in Hearers(m.path)
                                   THEN PropertyChanged(objects[id], m.name, m.value)
                                   ELSE objects[id]
               /\ ~powers => calls' = calls
               /\ powers => calls' = calls \o
                    [i \in 1 .. Len(Senders(m.path)) |->
                       [call |-> "SetProperty", id |-> Senders(m.path)[i],
                        online |-> ~objects[Senders(m.path)[i]].soft]]
<1> DEFINE m == Head(inbox)
           powers == m.name = "Powered" /\ m.value
           all == [id \in Ids |-> id]
           sending == {id \in Hearers(m.path) : ChangedCalls(objects[id], id, m.name, m.value) # <<>>}
           senders == Kept(all, sending)
<1>1. /\ m \in Message /\ m.path \in Paths /\ m.name \in {"Online", "Powered"}
      /\ m.value \in BOOLEAN /\ Tail(inbox) \in Seq(Message) /\ None(Tail(inbox), Garbled)
  BY HeadMessage, MessageShape, ZenonT(60) DEF HandleChanged, Take
<1>2. /\ objects' = [id \in Ids |-> IF id \in Hearers(m.path)
                                      THEN PropertyChanged(objects[id], m.name, m.value)
                                      ELSE objects[id]]
      /\ calls' = calls \o [i \in DOMAIN senders |->
                               ChangedCalls(objects[senders[i]], senders[i], m.name, m.value)[1]]
  BY ZenonT(60) DEF HandleChanged
<1> HIDE DEF m
<1>3. objects' \in [Ids -> Device]
  BY <1>1, <1>2, ObjectTypes, DeviceTypes
<1>4. all \in Seq(Ids)
  BY ObjectTypes, FunctionIsSeq
<1>5. senders \in Seq(sending) /\ senders \in Seq(Ids)
  BY <1>4, KeptAlike, SMTT(30)
<1>6. CASE ~powers
  <2>1. \A id \in Hearers(m.path) : ChangedCalls(objects[id], id, m.name, m.value) = <<>>
    BY <1>1, <1>6 DEF ChangedCalls, PoweredCalls
  <2>2. sending = {}
    BY <2>1
  <2> HIDE DEF sending
  <2>3. senders \in Seq({})
    BY <1>5, <2>2
  <2>4. senders = <<>> /\ DOMAIN senders = {}
    <3>1. \A i \in DOMAIN senders : senders[i] \in {}
      BY <2>3, ElementOfSeq, LenProperties
    <3>2. DOMAIN senders = {}
      BY <3>1
    <3>3. QED
      BY <2>3, <3>2, LenProperties, EmptySeq
  <2> HIDE DEF senders
  <2>5. [i \in DOMAIN senders |->
           ChangedCalls(objects[senders[i]], senders[i], m.name, m.value)[1]] = <<>>
    BY <2>4
  <2>6. calls' = calls
    BY <1>2, <2>5, ConcatEmptySeq DEF TypeInv, TypeOK
  <2>7. QED
    BY <1>1, <1>2, <1>3, <1>6, <2>6 DEF m
<1>7. CASE powers
  <2>1. \A id \in Hearers(m.path) :
          ChangedCalls(objects[id], id, m.name, m.value)
            = <<[call |-> "SetProperty", id |-> id, online |-> ~objects[id].soft]>>
    BY <1>7 DEF ChangedCalls, PoweredCalls, SoftCalls, Hearers
  <2>2. sending = Hearers(m.path)
    <3>1. \A x : <<x>> # <<>>
      OBVIOUS
    <3>2. \A id \in Hearers(m.path) : ChangedCalls(objects[id], id, m.name, m.value) # <<>>
      BY <2>1, <3>1
    <3>3. QED
      BY <3>2
  <2>3. senders = Senders(m.path)
    BY <2>2 DEF Senders
  <2>4. DOMAIN senders = 1 .. Len(senders) /\ \A i \in DOMAIN senders : senders[i] \in Hearers(m.path)
    BY <1>5, <2>2, ElementOfSeq, LenProperties
  <2> HIDE DEF senders
  <2>5. \A i \in DOMAIN senders :
          ChangedCalls(objects[senders[i]], senders[i], m.name, m.value)[1]
            = [call |-> "SetProperty", id |-> senders[i], online |-> ~objects[senders[i]].soft]
    BY <2>1, <2>4
  <2>6. [i \in DOMAIN senders |->
           ChangedCalls(objects[senders[i]], senders[i], m.name, m.value)[1]]
          = [i \in 1 .. Len(Senders(m.path)) |->
                       [call |-> "SetProperty", id |-> Senders(m.path)[i],
                        online |-> ~objects[Senders(m.path)[i]].soft]]
    BY <2>3, <2>4, <2>5
  <2>7. QED
    BY <1>1, <1>2, <1>3, <1>7, <2>6 DEF m
<1>8. QED
  BY <1>6, <1>7

LEMMA TypeHandleChanged ==
    ASSUME TypeInv, HandleChanged
    PROVE  TypeInv'
<1> DEFINE m == Head(inbox)
           s == Senders(m.path)
           t == [i \in 1 .. Len(s) |->
                   [call |-> "SetProperty", id |-> s[i], online |-> ~objects[s[i]].soft]]
<1>1. /\ Tail(inbox) \in Seq(Message) /\ None(Tail(inbox), Garbled)
      /\ objects' \in [Ids -> Device]
      /\ \A id \in Ids : objects'[id] = IF id \in Hearers(m.path)
                                          THEN PropertyChanged(objects[id], m.name, m.value)
                                          ELSE objects[id]
      /\ m.name \in {"Online", "Powered"} /\ m.value \in BOOLEAN
      /\ calls' = calls \/ calls' = calls \o t
  BY ChangedParts
<1> HIDE DEF m
<1>2. \A id \in Ids : objects'[id].index = objects[id].index
  <2> HIDE DEF t, s
  <2>1. \A id \in Ids : objects[id] \in Device
    BY ObjectTypes
  <2>2. \A id \in Ids : PropertyChanged(objects[id], m.name, m.value).index = objects[id].index
    BY <2>1, DeviceTypes
  <2>3. QED
    BY <1>1, <2>2
<1>3. t \in Seq(Call)
  <2>1. s \in Seq(Ids)
    BY ObjectTypes, FunctionIsSeq, KeptAlike DEF Senders
  <2>2. Len(s) \in Nat /\ \A i \in 1 .. Len(s) : s[i] \in Ids
    BY <2>1, ElementOfSeq, LenProperties
  <2> HIDE DEF s
  <2>3. t \in [1 .. Len(s) -> Call]
    BY <2>2, Calls, ObjectTypes
  <2>4. QED
    BY <2>2, <2>3, FunctionIsSeq
<1>4. calls' \in Seq(Call)
  <2> HIDE DEF t, s
  <2>1. calls \in Seq(Call)
    BY DEF TypeInv, TypeOK
  <2>2. calls \o t \in Seq(Call)
    BY <1>3, <2>1, ConcatProperties
  <2>3. QED
    BY <1>1, <2>1, <2>2
<1>5. QED
  BY <1>1, <1>2, <1>4, SameIds, TypeHandler DEF HandleChanged, TypeInv, TypeOK

\* The calls that SetCalls makes.
LEMMA SetCallsParts ==
    ASSUME TypeInv, NEW ids \in Seq(Ids), NEW b \in BOOLEAN
    PROVE  /\ SetCalls(ids, b) \in Seq(Call)
           /\ \A i \in DOMAIN SetCalls(ids, b) : \E id \in ToSet(ids) :
                /\ objects[id].proxy
                /\ SetCalls(ids, b)[i] = [call |-> "SetProperty", id |-> id, online |-> ~b]
           /\ \A id \in ToSet(ids) : objects[id].proxy =>
                \E i \in DOMAIN SetCalls(ids, b) :
                  SetCalls(ids, b)[i] = [call |-> "SetProperty", id |-> id, online |-> ~b]
<1> DEFINE proxied == {id \in Ids : objects[id].proxy}
           ready == Kept(ids, proxied)
<1>1. ready \in Seq(Ids) /\ ready \in Seq(proxied) /\ Alike(ready, ids, proxied)
  BY KeptAlike
<1>2. /\ DOMAIN ready = 1 .. Len(ready) /\ Len(ready) \in Nat
      /\ \A i \in DOMAIN ready : ready[i] \in proxied
  BY <1>1, ElementOfSeq, LenProperties
<1>3. \A id \in proxied : None(ready, {id}) <=> None(ids, {id})
  BY <1>1 DEF Alike
<1>4. \A id \in proxied : id \in ToSet(ready) <=> id \in ToSet(ids)
  BY <1>3 DEF None, ToSet
<1>5. SetCalls(ids, b) = [i \in 1 .. Len(ready) |-> [call |-> "SetProperty", id |-> ready[i], online |-> ~b]]
  BY <1>2 DEF SetCalls
<1> HIDE DEF ready
<1>6. SetCalls(ids, b) \in [1 .. Len(ready) -> Call]
  BY <1>2, <1>5, Calls
<1>7. SetCalls(ids, b) \in Seq(Call) /\ DOMAIN SetCalls(ids, b) = 1 .. Len(ready)
  BY <1>2, <1>6, FunctionIsSeq
<1>8. ASSUME NEW i \in DOMAIN SetCalls(ids, b)
      PROVE  \E id \in ToSet(ids) :
                /\ objects[id].proxy
                /\ SetCalls(ids, b)[i] = [call |-> "SetProperty", id |-> id, online |-> ~b]
  <2>1. ready[i] \in proxied /\ ready[i] \in ToSet(ready)
    BY <1>2, <1>7 DEF ToSet
  <2>2. ready[i] \in ToSet(ids) /\ objects[ready[i]].proxy
    BY <1>4, <2>1
  <2>3. SetCalls(ids, b)[i] = [call |-> "SetProperty", id |-> ready[i], online |-> ~b]
    BY <1>5, <1>7
  <2>4. QED
    BY <2>2, <2>3
<1>9. ASSUME NEW id \in ToSet(ids), objects[id].proxy
      PROVE  \E i \in DOMAIN SetCalls(ids, b) :
                  SetCalls(ids, b)[i] = [call |-> "SetProperty", id |-> id, online |-> ~b]
  <2>1. id \in proxied
    BY <1>9, ElementOfSeq, LenProperties DEF ToSet
  <2>2. PICK i \in DOMAIN ready : ready[i] = id
    BY <1>4, <2>1 DEF ToSet
  <2>3. QED
    BY <1>2, <1>5, <1>7, <2>2
<1>10. QED
  BY <1>7, <1>8, <1>9

LEMMA ReverseParts ==
    ASSUME NEW T, NEW s \in Seq(T)
    PROVE  Reverse(s) \in Seq(T) /\ ToSet(Reverse(s)) = ToSet(s)
<1>1. Len(s) \in Nat /\ DOMAIN s = 1 .. Len(s) /\ \A i \in 1 .. Len(s) : s[i] \in T
  BY ElementOfSeq, LenProperties
<1>2. Reverse(s) = [i \in 1 .. Len(s) |-> s[Len(s) - i + 1]]
  BY DEF Reverse
<1>3. \A i \in 1 .. Len(s) : Len(s) - i + 1 \in 1 .. Len(s) /\ Len(s) - (Len(s) - i + 1) + 1 = i
  BY <1>1
<1>4. Reverse(s) \in [1 .. Len(s) -> T]
  BY <1>1, <1>2, <1>3
<1>5. Reverse(s) \in Seq(T) /\ DOMAIN Reverse(s) = 1 .. Len(s)
  BY <1>1, <1>4, FunctionIsSeq
<1>6. \A i \in 1 .. Len(s) : Reverse(s)[i] = s[Len(s) - i + 1] /\ Reverse(s)[Len(s) - i + 1] = s[i]
  BY <1>1, <1>2, <1>3
<1>7. ToSet(s) = {s[i] : i \in 1 .. Len(s)}
  BY <1>1 DEF ToSet
<1>8. ToSet(Reverse(s)) = {Reverse(s)[i] : i \in 1 .. Len(s)}
  BY <1>5 DEF ToSet
<1> HIDE DEF Reverse
<1>9. ToSet(Reverse(s)) \subseteq ToSet(s)
  BY <1>3, <1>6, <1>7, <1>8
<1>10. ToSet(s) \subseteq ToSet(Reverse(s))
  BY <1>3, <1>6, <1>7, <1>8
<1>11. QED
  BY <1>5, <1>9, <1>10

LEMMA BlockedParts ==
    ASSUME TypeInv, NEW b \in BOOLEAN, RequestBlock(b)
    PROVE  /\ objects' \in [Ids -> Device]
           /\ \A id \in Ids : objects'[id] = IF id \in ToSet(devices) THEN SoftSet(objects[id], b)
                                              ELSE objects[id]
           /\ \A id \in Ids : objects'[id].index = objects[id].index
           /\ SetCalls(Reverse(devices), b) \in Seq(Call)
           /\ calls' = calls \o SetCalls(Reverse(devices), b)
<1>1. \A id \in Ids : /\ objects[id] \in Device /\ SoftSet(objects[id], b) \in Device
                      /\ SoftSet(objects[id], b).index = objects[id].index
  BY ObjectTypes, DeviceTypes
<1>2. /\ objects' = [id \in Ids |-> IF id \in ToSet(devices) THEN SoftSet(objects[id], b)
                                ELSE objects[id]]
      /\ calls' = calls \o SetCalls(Reverse(devices), b)
  BY DEF RequestBlock
<1>3. /\ objects' \in [Ids -> Device]
      /\ \A id \in Ids : objects'[id] = IF id \in ToSet(devices) THEN SoftSet(objects[id], b)
                                         ELSE objects[id]
  BY <1>1, <1>2
<1>4. Reverse(devices) \in Seq(Ids)
  BY ReverseParts DEF TypeInv, TypeOK
<1>5. SetCalls(Reverse(devices), b) \in Seq(Call)
  BY <1>4, SetCallsParts
<1>6. QED
  BY <1>1, <1>2, <1>3, <1>5

LEMMA TypeRequestBlock ==
    ASSUME TypeInv, NEW b \in BOOLEAN, RequestBlock(b)
    PROVE  TypeInv'
<1>1. calls' \in Seq(Call)
  <2> DEFINE t == SetCalls(Reverse(devices), b)
  <2>1. t \in Seq(Call) /\ calls' = calls \o t /\ calls \in Seq(Call)
    BY BlockedParts DEF TypeInv, TypeOK
  <2> HIDE DEF t
  <2>2. QED
    BY <2>1, ConcatProperties
<1>2. left' \in [Kinds -> Nat]
  BY SpendType DEF RequestBlock, TypeInv, TypeOK, Kinds
<1>3. objects' \in [Ids -> Device] /\ \A id \in Ids : objects'[id].index = objects[id].index
  BY BlockedParts
<1>4. QED
  BY <1>1, <1>2, <1>3, SameIds, TypeHandler DEF RequestBlock, TypeInv, TypeOK

LEMMA BlockedIdxParts ==
    ASSUME TypeInv, NEW b \in BOOLEAN, NEW index, RequestBlockIdx(index, b)
    PROVE  \E id \in ToSet(devices) :
             /\ id \in Ids
             /\ objects' \in [Ids -> Device] /\ objects'[id] = SoftSet(objects[id], b)
             /\ \A a \in Ids : a # id => objects'[a] = objects[a]
             /\ \A a \in Ids : objects'[a].index = objects[a].index
             /\ SoftCalls(objects[id], id, b) \in Seq(Call)
             /\ calls' = calls \o SoftCalls(objects[id], id, b)
             /\ byIndex' = byIndex \union {id}
<1>1. PICK i \in DOMAIN devices :
       /\ objects' = [objects EXCEPT ![devices[i]] = SoftSet(@, b)]
       /\ calls' = calls \o SoftCalls(objects[devices[i]], devices[i], b)
       /\ byIndex' = byIndex \union {devices[i]}
  BY DEF RequestBlockIdx
<1> DEFINE id == devices[i]
<1>2. id \in Ids /\ id \in ToSet(devices) /\ objects[id] \in Device
  BY ObjectTypes DEF ToSet
<1>3. SoftCalls(objects[id], id, b) \in Seq(Call)
  BY <1>2, PoweredCallsType
<1>4. SoftSet(objects[id], b) \in Device /\ SoftSet(objects[id], b).index = objects[id].index
  BY <1>2, DeviceTypes
<1>5. objects' = [objects EXCEPT ![id] = SoftSet(objects[id], b)]
  BY <1>1
<1> HIDE DEF id
<1>6. /\ objects' \in [Ids -> Device] /\ objects'[id] = SoftSet(objects[id], b)
      /\ \A a \in Ids : a # id => objects'[a] = objects[a]
  BY <1>2, <1>4, <1>5, OneObject
<1>7. \A a \in Ids : objects'[a].index = objects[a].index
  BY <1>4, <1>6
<1>8. QED
  BY <1>1, <1>2, <1>3, <1>6, <1>7 DEF id

LEMMA TypeRequestBlockIdx ==
    ASSUME TypeInv, NEW b \in BOOLEAN, NEW index, RequestBlockIdx(index, b)
    PROVE  TypeInv'
<1>1. PICK id \in Ids :
             /\ objects' \in [Ids -> Device]
             /\ \A a \in Ids : objects'[a].index = objects[a].index
             /\ SoftCalls(objects[id], id, b) \in Seq(Call)
             /\ calls' = calls \o SoftCalls(objects[id], id, b)
             /\ byIndex' = byIndex \union {id}
  BY BlockedIdxParts
<1>2. calls' \in Seq(Call) /\ byIndex' \subseteq Ids
  BY <1>1, ConcatProperties DEF TypeInv, TypeOK
<1>3. left' \in [Kinds -> Nat]
  BY SpendType DEF RequestBlockIdx, TypeInv, TypeOK, Kinds
<1>4. QED
  BY <1>1, <1>2, <1>3, SameIds, TypeHandler DEF RequestBlockIdx, TypeInv, TypeOK

\* What Register makes of paths for which the bus has room.
LEMMA Registered ==
    ASSUME TypeInv, NEW paths \in Seq(Paths), PathsFree(Len(paths)), Register(paths)
    PROVE  LET n == Len(objects)
               k == Len(paths)
           IN  /\ objects' \in Seq(Device) /\ Len(objects') = n + k
               /\ Ids' = 1 .. n + k /\ Ids \subseteq Ids'
               /\ \A id \in Ids : objects'[id] = objects[id]
               /\ \A i \in 1 .. k :
                    /\ objects'[n + i].path = paths[i] /\ ~objects'[n + i].proxy
                    /\ objects'[n + i].index = modem_idx + i - 1
                    /\ Persist => objects'[n + i].soft = stored
               /\ \A a, b \in Ids' : objects'[a].index = objects'[b].index => a = b
<1> DEFINE n == Len(objects) k == Len(paths) new == NewDevices(paths)
           made(i) == NewDevice(modem_idx + i - 1, paths[i])
<1>1. /\ n \in Nat /\ k \in Nat /\ Ids = 1 .. n /\ modem_idx \in Nat /\ stored \in BOOLEAN
      /\ objects \in Seq(Device) /\ DOMAIN paths = 1 .. k /\ \A i \in 1 .. k : paths[i] \in Paths
      /\ \A a, b \in Ids : objects[a].index = objects[b].index => a = b
  BY ObjectTypes, LenProperties, ElementOfSeq DEF TypeInv, TypeOK
<1>2. ASSUME NEW i \in 1 .. k
      PROVE  /\ Enlisted(made(i)) \in Device /\ Enlisted(made(i)).path = paths[i]
             /\ ~Enlisted(made(i)).proxy /\ Enlisted(made(i)).index = modem_idx + i - 1
             /\ Persist => Enlisted(made(i)).soft = stored
  <2>1. modem_idx + i - 1 \in Nat /\ paths[i] \in Paths
    BY <1>1
  <2>2. made(i) \in Device /\ made(i).index = modem_idx + i - 1 /\ made(i).path = paths[i] /\ ~made(i).proxy
    BY <2>1, DeviceTypes
  <2> HIDE DEF made
  <2>3. QED
    BY <1>1, <2>2, EnlistedType
<1>3. new = [i \in 1 .. k |-> Enlisted(made(i))]
  BY <1>1 DEF NewDevices
<1> HIDE DEF made
<1>4. new \in [1 .. k -> Device]
  BY <1>2, <1>3
<1>5. new \in Seq(Device) /\ Len(new) = k
  BY <1>1, <1>4, FunctionIsSeq
<1>6. objects' = objects \o new
  BY DEF Register
<1>7. \A i \in 1 .. k : new[i] = Enlisted(made(i))
  BY <1>3
<1> HIDE DEF new
<1>8. /\ objects' \in Seq(Device) /\ DOMAIN objects' = 1 .. n + k
      /\ \A i \in 1 .. n : objects'[i] = objects[i]
      /\ \A i \in 1 .. k : objects'[n + i] = new[i]
  <2>1. /\ objects \o new \in Seq(Device) /\ DOMAIN (objects \o new) = 1 .. Len(objects) + Len(new)
        /\ \A i \in 1 .. Len(objects) : (objects \o new)[i] = objects[i]
        /\ \A i \in 1 .. Len(new) : (objects \o new)[Len(objects) + i] = new[i]
    <3>1. objects \in Seq(Device) /\ new \in Seq(Device)
      BY <1>1, <1>5
    <3>2. QED
      BY <3>1, ConcatParts
  <2>2. QED
    BY <1>5, <1>6, <2>1
<1>9. Len(objects') = n + k
  <2>1. Len(objects \o new) = Len(objects) + Len(new)
    <3>1. objects \in Seq(Device) /\ new \in Seq(Device)
      BY <1>1, <1>5
    <3>2. QED
      BY <3>1, ConcatProperties, Zenon
  <2>2. QED
    BY <1>5, <1>6, <2>1
<1>10. \A i \in 1 .. k :
         /\ objects'[n + i].path = paths[i] /\ ~objects'[n + i].proxy
         /\ objects'[n + i].index = modem_idx + i - 1
         /\ Persist => objects'[n + i].soft = stored
  BY <1>2, <1>7, <1>8
<1>11. Ids' = 1 .. n + k
  BY <1>8 DEF Ids
<1>12. \A id \in Ids, i \in 1 .. k : objects[id].index # modem_idx + i - 1
  BY DEF PathsFree
<1>13. ASSUME NEW a \in Ids', NEW b \in Ids', objects'[a].index = objects'[b].index
       PROVE  a = b
  <2>1. \A c \in Ids' : c \in Ids \/ (c - n \in 1 .. k /\ c = n + (c - n))
    BY <1>1, <1>11
  <2>2. CASE a \in Ids /\ b \in Ids
    BY <1>1, <1>8, <1>13, <2>2
  <2>3. CASE a \in Ids /\ b \notin Ids
    <3>1. b - n \in 1 .. k /\ objects'[b].index = modem_idx + (b - n) - 1
      BY <1>10, <2>1, <2>3
    <3>2. objects'[a] = objects[a]
      BY <1>1, <1>8, <2>3
    <3>3. QED
      BY <1>12, <1>13, <2>3, <3>1, <3>2
  <2>4. CASE a \notin Ids /\ b \in Ids
    <3>1. a - n \in 1 .. k /\ objects'[a].index = modem_idx + (a - n) - 1
      BY <1>10, <2>1, <2>4
    <3>2. objects'[b] = objects[b]
      BY <1>1, <1>8, <2>4
    <3>3. QED
      BY <1>12, <1>13, <2>4, <3>1, <3>2
  <2>5. CASE a \notin Ids /\ b \notin Ids
    <3>1. modem_idx + (a - n) - 1 = modem_idx + (b - n) - 1
      BY <1>10, <1>13, <2>1, <2>5
    <3>2. a \in Nat /\ b \in Nat
      BY <1>1, <1>11
    <3>3. QED
      BY <1>1, <3>1, <3>2
  <2>6. QED
    BY <2>2, <2>3, <2>4, <2>5
<1>14. Ids \subseteq Ids' /\ \A id \in Ids : objects'[id] = objects[id]
  <2>1. Ids \subseteq Ids'
    BY <1>1, <1>11
  <2>2. \A id \in Ids : objects'[id] = objects[id]
    BY <1>1, <1>8
  <2>3. QED
    BY <2>1, <2>2
<1>15. \A a, b \in Ids' : objects'[a].index = objects'[b].index => a = b
  BY <1>13
<1>16. objects' \in Seq(Device)
  BY <1>8
<1>17. QED
  BY <1>9, <1>10, <1>11, <1>14, <1>15, <1>16, Zenon

\* ... and what it does to the list and asks of oFono.
LEMMA RegisteredLists ==
    ASSUME TypeInv, NEW paths \in Seq(Paths), PathsFree(Len(paths)), Register(paths)
    PROVE  LET n == Len(objects)
               k == Len(paths)
               t == [i \in 1 .. k |-> [call |-> "Connect", id |-> n + i]]
           IN  /\ devices' \in Seq(Ids') /\ IsInjective(devices')
               /\ ToSet(devices') = ToSet(devices) \union {n + i : i \in 1 .. k}
               /\ modem_idx' \in Nat
               /\ t \in Seq(Call') /\ Len(t) = k /\ calls' = calls \o t
               /\ calls \in Seq(Call')
<1> DEFINE n == Len(objects) k == Len(paths) new == NewIds(paths)
           t == [i \in 1 .. k |-> [call |-> "Connect", id |-> n + i]]
<1>1. /\ n \in Nat /\ k \in Nat /\ Ids = 1 .. n /\ modem_idx \in Nat /\ DOMAIN paths = 1 .. k
      /\ calls \in Seq(Call) /\ devices \in Seq(Ids) /\ IsInjective(devices)
  BY ObjectTypes, LenProperties DEF TypeInv, TypeOK
<1>2. Ids' = 1 .. n + k /\ Ids \subseteq Ids'
  BY Registered
<1>3. \A i \in 1 .. k : n + i \in Ids'
  BY <1>1, <1>2
<1>4. new = [i \in 1 .. k |-> n + i]
  BY <1>1 DEF NewIds
<1>5. new \in [1 .. k -> Ids']
  BY <1>3, <1>4
<1>6. new \in Seq(Ids') /\ Len(new) = k
  BY <1>1, <1>5, FunctionIsSeq
<1>7. devices \in Seq(Ids')
  BY <1>1, <1>2, SeqMonotonic
<1>8. devices' = devices \o new /\ modem_idx' = modem_idx + k
  BY DEF Register
<1>9. \A i \in 1 .. k : new[i] = n + i
  BY <1>4
<1> HIDE DEF new
<1>10. /\ devices' \in Seq(Ids') /\ DOMAIN devices' = 1 .. Len(devices) + k
       /\ Len(devices) \in Nat /\ DOMAIN devices = 1 .. Len(devices)
       /\ \A i \in 1 .. Len(devices) : devices'[i] = devices[i]
       /\ \A i \in 1 .. k : devices'[Len(devices) + i] = n + i
       /\ \A i \in 1 .. Len(devices) + k : i > Len(devices) => i - Len(devices) \in 1 .. k
  <2>1. /\ devices \o new \in Seq(Ids')
        /\ DOMAIN devices = 1 .. Len(devices) /\ Len(devices) \in Nat
        /\ DOMAIN (devices \o new) = 1 .. Len(devices) + Len(new)
        /\ \A i \in 1 .. Len(devices) : (devices \o new)[i] = devices[i]
        /\ \A i \in 1 .. Len(new) : (devices \o new)[Len(devices) + i] = new[i]
        /\ \A i \in 1 .. Len(devices) + Len(new) : i > Len(devices) => i - Len(devices) \in 1 .. Len(new)
    <3>1. devices \in Seq(Ids') /\ new \in Seq(Ids')
      BY <1>6, <1>7
    <3>2. QED
      BY <3>1, ConcatParts
  <2>2. QED
    BY <1>6, <1>8, <1>9, <2>1
<1>11. \A i \in 1 .. Len(devices) : devices[i] \in 1 .. n
  BY <1>1, ElementOfSeq
<1>12. IsInjective(devices')
  <2> SUFFICES ASSUME NEW a \in DOMAIN devices', NEW b \in DOMAIN devices', devices'[a] = devices'[b]
               PROVE  a = b
    BY DEF IsInjective
  <2> DEFINE l == Len(devices)
  <2>1. /\ a \in 1 .. l \/ (a - l \in 1 .. k /\ a = l + (a - l) /\ devices'[a] = n + (a - l))
        /\ b \in 1 .. l \/ (b - l \in 1 .. k /\ b = l + (b - l) /\ devices'[b] = n + (b - l))
    <3>1. \A c \in 1 .. l + k : c \in 1 .. l \/ (c - l \in 1 .. k /\ c = l + (c - l))
      BY <1>1, <1>10
    <3>2. QED
      BY <1>10, <3>1
  <2>2. CASE a \in 1 .. l /\ b \in 1 .. l
    BY <1>1, <1>10, <2>2 DEF IsInjective
  <2>3. CASE a \in 1 .. l /\ b \notin 1 .. l
    <3>1. devices'[a] \in 1 .. n /\ devices'[b] = n + (b - l) /\ b - l \in 1 .. k
      BY <1>10, <1>11, <2>1, <2>3
    <3>2. QED
      BY <1>1, <3>1
  <2>4. CASE a \notin 1 .. l /\ b \in 1 .. l
    <3>1. devices'[b] \in 1 .. n /\ devices'[a] = n + (a - l) /\ a - l \in 1 .. k
      BY <1>10, <1>11, <2>1, <2>4
    <3>2. QED
      BY <1>1, <3>1
  <2>5. CASE a \notin 1 .. l /\ b \notin 1 .. l
    <3>1. n + (a - l) = n + (b - l) /\ a - l \in 1 .. k /\ b - l \in 1 .. k
      BY <2>1, <2>5
    <3>2. a \in Nat /\ b \in Nat /\ l \in Nat
      BY <1>1, <1>10
    <3>3. QED
      BY <1>1, <3>1, <3>2
  <2>6. QED
    BY <2>2, <2>3, <2>4, <2>5
<1>13. ToSet(devices') = ToSet(devices) \union {n + i : i \in 1 .. k}
  <2> DEFINE l == Len(devices)
  <2>1. ToSet(devices') = {devices'[i] : i \in 1 .. l + k} /\ ToSet(devices) = {devices[i] : i \in 1 .. l}
    BY <1>10 DEF ToSet
  <2>2. \A c \in 1 .. l + k : c \in 1 .. l \/ (c - l \in 1 .. k /\ devices'[c] = n + (c - l))
    <3>1. \A c \in 1 .. l + k : c \in 1 .. l \/ (c - l \in 1 .. k /\ c = l + (c - l))
      BY <1>1, <1>10
    <3>2. QED
      BY <1>10, <3>1
  <2>3. \A c \in 1 .. l : c \in 1 .. l + k
    BY <1>1, <1>10
  <2>4. \A c \in 1 .. k : l + c \in 1 .. l + k
    BY <1>1, <1>10
  <2>5. ToSet(devices') \subseteq ToSet(devices) \union {n + i : i \in 1 .. k}
    <3> SUFFICES ASSUME NEW c \in 1 .. l + k
                 PROVE  devices'[c] \in ToSet(devices) \union {n + i : i \in 1 .. k}
      BY <2>1
    <3>1. CASE c \in 1 .. l
      BY <1>10, <2>1, <3>1
    <3>2. CASE c \notin 1 .. l
      BY <2>2, <3>2
    <3>3. QED
      BY <3>1, <3>2
  <2>6. ToSet(devices) \subseteq ToSet(devices')
    BY <1>10, <2>1, <2>3
  <2>7. {n + i : i \in 1 .. k} \subseteq ToSet(devices')
    BY <1>10, <2>1, <2>4
  <2>8. QED
    BY <2>5, <2>6, <2>7
<1>14. \A i \in 1 .. k : [call |-> "Connect", id |-> n + i] \in Call'
  BY <1>3 DEF Call
<1>15. t \in [1 .. k -> Call']
  BY <1>14
<1>16. t \in Seq(Call') /\ Len(t) = k
  <2> HIDE DEF t
  <2>1. k \in Nat
    BY <1>1
  <2>2. QED
    BY <1>15, <2>1, FunctionIsSeq
<1>17. calls' = calls \o t
  BY <1>1 DEF Register
<1>18. calls \in Seq(Call')
  BY <1>1, <1>2, MoreIds
<1>19. QED
  BY <1>1, <1>8, <1>10, <1>12, <1>13, <1>16, <1>17, <1>18

\* AddModems registers paths from the front.
LEMMA AddedFront ==
    ASSUME NEW paths \in Seq(Paths), AddModems(paths)
    PROVE  \E front \in Seq(Paths) :
             /\ PathsFree(Len(front)) /\ Register(front)
             /\ Len(front) <= Len(paths)
             /\ \A i \in 1 .. Len(front) : front[i] = paths[i]
             /\ alive' \in BOOLEAN /\ (alive' => front = paths)
<1>1. PICK n \in 0 .. Len(paths) :
        PathsFree(n) /\ Register(SubSeq(paths, 1, n)) /\ alive' = (n = Len(paths))
  BY DEF AddModems
<1>2. Len(paths) \in Nat /\ n \in Nat /\ n <= Len(paths)
  BY <1>1, LenProperties
<1> DEFINE front == SubSeq(paths, 1, n)
<1>3. front \in Seq(Paths)
  BY <1>2, FrontParts
<1>4. /\ Len(front) = n
      /\ \A i \in 1 .. n : front[i] = paths[i]
  <2>1. 1 \in 1 .. Len(paths) + 1 /\ n \in 1 - 1 .. Len(paths)
    BY <1>2
  <2>2. /\ Len(front) = n - 1 + 1
        /\ \A i \in 1 .. n - 1 + 1 : front[i] = paths[1 + i - 1]
    BY <2>1, SubSeqProperties
  <2>3. n - 1 + 1 = n /\ \A i \in 1 .. n : 1 + i - 1 = i
    BY <1>2
  <2>4. QED
    BY <2>2, <2>3
<1>5. alive' => front = paths
  BY <1>1, FrontParts
<1> HIDE DEF front
<1>6. PathsFree(Len(front)) /\ Register(front)
  BY <1>1, <1>4 DEF front
<1>7. QED
  BY <1>1, <1>2, <1>3, <1>4, <1>5, <1>6

LEMMA TypeAddModems ==
    ASSUME TypeInv, NEW paths \in Seq(Paths), AddModems(paths),
           UNCHANGED <<ofono, failures, left, stored, byIndex>>,
           leftover' = leftover \union Again(paths), manager' \in Phases,
           inbox # <<>>, inbox' = Tail(inbox)
    PROVE  TypeInv'
<1>1. PICK front \in Seq(Paths) :
             PathsFree(Len(front)) /\ Register(front) /\ alive' \in BOOLEAN
  BY AddedFront
<1>2. /\ objects' \in Seq(Device) /\ Ids \subseteq Ids'
      /\ \A a, b \in Ids' : objects'[a].index = objects'[b].index => a = b
  BY <1>1, Registered
<1>3. devices' \in Seq(Ids') /\ IsInjective(devices') /\ modem_idx' \in Nat
  BY <1>1, RegisteredLists
<1>4. calls' \in Seq(Call')
  <2> DEFINE t == [i \in 1 .. Len(front) |-> [call |-> "Connect", id |-> Len(objects) + i]]
  <2>1. t \in Seq(Call') /\ calls \in Seq(Call') /\ calls' = calls \o t
    BY <1>1, RegisteredLists
  <2> HIDE DEF t
  <2>2. QED
    BY <2>1, ConcatProperties
<1>5. inbox' \in Seq(Message') /\ None(inbox', Garbled)
  BY <1>2, HeadMessage, MoreIds
<1>6. leftover' \subseteq Paths
  BY DEF Again, TypeInv, TypeOK
<1>7. byIndex' \subseteq Ids'
  BY <1>2 DEF TypeInv, TypeOK
<1>8. QED
  BY <1>1, <1>2, <1>3, <1>4, <1>5, <1>6, <1>7, TypeHandler DEF TypeInv, TypeOK

LEMMA TypeHandleModems ==
    ASSUME TypeInv, HandleModems
    PROVE  TypeInv'
<1>1. Head(inbox).paths \in Seq(Paths) /\ inbox # <<>>
  BY HeadMessage, MessageShape DEF HandleModems, Take
<1>2. QED
  BY <1>1, TypeAddModems DEF HandleModems, Phases

LEMMA TypeHandleAdded ==
    ASSUME TypeInv, HandleAdded
    PROVE  TypeInv'
<1>1. Head(inbox).path \in Paths /\ inbox # <<>>
  BY HeadMessage, MessageShape DEF HandleAdded, Take
<1>2. CASE Hears
  <2>1. <<Head(inbox).path>> \in Seq(Paths)
    BY <1>1, One
  <2>2. manager' \in Phases
    BY DEF HandleAdded, TypeInv, TypeOK
  <2>3. QED
    BY <1>1, <1>2, <2>1, <2>2, TypeAddModems DEF HandleAdded
<1>3. CASE ~Hears
  <2>1. Ids' = Ids /\ Message' = Message /\ Call' = Call
    BY <1>3 DEF HandleAdded, Ids, Message, Call
  <2>2. inbox' \in Seq(Message') /\ None(inbox', Garbled)
    BY <2>1, HeadMessage DEF HandleAdded, Take
  <2>3. QED
    BY <1>3, <2>1, <2>2, TypeHandler DEF HandleAdded, TypeInv, TypeOK
<1>4. QED
  BY <1>2, <1>3

LEMMA TypeStutter ==
    ASSUME TypeInv, UNCHANGED vars
    PROVE  TypeInv'
BY DEF TypeInv, TypeOK, vars, Ids, Message, Call, Garbled, Present

LEMMA TypeStep ==
    ASSUME TypeInv, [Next]_vars
    PROVE  TypeInv'
<1>1. CASE Outside
  BY <1>1, TypeOfonoStart, TypeOfonoStop, TypeModemAdded, TypeModemRemoved, TypeModemPowered DEF Outside
<1>2. CASE Answer
  BY <1>2, TypeAnswer
<1>3. CASE Handle
  BY <1>3, TypeHandleManager, TypeHandleModems, TypeHandleAdded, TypeHandleRemoved,
     TypeHandleVanished, TypeHandleConnected, TypeHandleProperties, TypeHandleChanged DEF Handle
<1>4. CASE Request
  BY <1>4, TypeRequestBlock, TypeRequestBlockIdx DEF Request
<1>5. CASE UNCHANGED vars
  BY <1>5, TypeStutter
<1>6. QED
  BY <1>1, <1>2, <1>3, <1>4, <1>5 DEF Next

\* No step of the daemon or of oFono leaves the types, and no two objects ever
\* share an index, hence a path on the bus (src/src/urf-device.c:509).
THEOREM OfonoTypeCorrect == Spec => []TypeOK
<1>1. Spec => []TypeInv
  BY TypeInit, TypeStep, PTL DEF Spec
<1>2. TypeInv => TypeOK
  BY DEF TypeInv
<1>3. QED
  BY <1>1, <1>2, PTL

(***************************************************************************)
(* The inductive invariant of the list                                     *)
(*                                                                         *)
(* Whether the list of the daemon is right depends on what is on its way to*)
(* it, in its order: the last thing said of a modem is true, and a modem of*)
(* which nothing more is said is in the list exactly if oFono has it.      *)
(***************************************************************************)
\* The messages and calls that the list depends on, by what they say ...
Vanished == [msg : {"vanished"}]
Appeared == [msg : {"appeared"}]
Replies == [msg : {"modems"}, ok : BOOLEAN, paths : Seq(Paths)]
Readies == [msg : {"managerConnected"}]
GetModemsCalls == [call : {"GetModems"}]
ConnectCalls == [call : {"ManagerConnect"}]
ListMessages == [msg : {"added", "removed"}, path : Paths]
                  \union Vanished \union Appeared \union Replies \union Readies
ListCalls == GetModemsCalls \union ConnectCalls

\* ... of the modem p: that it is there, that it is not, that the list has it,
\* and that the list does not.
Comes(p) == [msg : {"added"}, path : {p}]
Goes(p) == [msg : {"removed"}, path : {p}] \union Vanished
Signals(p) == Comes(p) \union Goes(p)
Lists(p) == {m \in Replies : p \in ToSet(m.paths)}
Omits(p) == {m \in [msg : {"modems"}, ok : {TRUE}, paths : Seq(Paths)] : p \notin ToSet(m.paths)}

\* That oFono is gone is known or on its way.
OfonoInv == ~ofono.up => \/ After(inbox, Vanished, Appeared)
                         \/ manager = "away" /\ None(inbox, Appeared)

\* oFono appears again only after it has vanished.
AppearInv == /\ Parted(inbox, Appeared, Vanished)
             /\ manager # "away" => Led(inbox, Appeared, Vanished)

\* Of the manager's own calls and their answers at most one is on its way, and
\* only in the phase that waits for it.
ChainInv ==
  /\ manager # "asked" => None(inbox, Replies) /\ None(calls, GetModemsCalls)
  /\ manager # "connecting" => None(inbox, Readies) /\ None(calls, ConnectCalls)
  /\ Single(inbox, Replies) /\ Single(calls, GetModemsCalls)
  /\ None(inbox, Replies) \/ None(calls, GetModemsCalls)
  /\ Single(inbox, Readies) /\ Single(calls, ConnectCalls)
  /\ None(inbox, Readies) \/ None(calls, ConnectCalls)
QueueInv == OfonoInv /\ AppearInv /\ ChainInv

\* The last signal about a modem is true, and so is an answer to GetModems that
\* no signal about the modem follows.
TellsOf(p, s, present) ==
  /\ After(s, Comes(p), Goes(p)) => present
  /\ After(s, Goes(p), Comes(p)) => ~present
  /\ After(s, Lists(p), Signals(p)) => present
  /\ After(s, Omits(p), Signals(p)) => ~present
TellInv == \A p \in Paths : TellsOf(p, inbox, ofono.modems[p].present)

\* What is in the list while the manager hears nothing is left over from an
\* oFono that went; a path that is not left over is in the list once; of the
\* modems no signal is on its way about, those that oFono does not have are not
\* in it, and those that it has are, once the manager has got the list.
AwayInv == manager \in {"away", "connecting"} => \A p \in Paths : For(p) # {} => p \in leftover
OnceInv == \A p \in Paths, a, b \in Ids : a \in For(p) /\ b \in For(p) /\ p \notin leftover => a = b
GoneInv ==
  Hears => \A p \in Paths :
             p \notin leftover /\ ~ofono.modems[p].present /\ None(inbox, Signals(p)) => For(p) = {}
HereInv ==
  manager = "listed" => \A p \in Paths :
                          ofono.modems[p].present /\ None(inbox, Signals(p)) => For(p) # {}
ListInv == AwayInv /\ OnceInv /\ GoneInv /\ HereInv

LEMMA Sorts ==
    ASSUME NEW m \in Message
    PROVE  /\ m \in Vanished <=> m.msg = "vanished"
           /\ m \in Appeared <=> m.msg = "appeared"
           /\ m \in Replies <=> m.msg = "modems"
           /\ m \in Readies <=> m.msg = "managerConnected"
           /\ m \in ListMessages <=> m.msg \in {"added", "removed", "vanished", "appeared", "modems", "managerConnected"}
           /\ \A p \in Paths :
                /\ m \in Comes(p) <=> m.msg = "added" /\ m.path = p
                /\ m \in Goes(p) <=> m.msg = "vanished" \/ (m.msg = "removed" /\ m.path = p)
                /\ m \in Signals(p) <=> m.msg = "vanished" \/ (m.msg \in {"added", "removed"} /\ m.path = p)
                /\ m \in Lists(p) <=> m.msg = "modems" /\ p \in ToSet(m.paths)
                /\ m \in Omits(p) <=> m.msg = "modems" /\ m.ok /\ p \notin ToSet(m.paths)
<1>1. /\ m \in Vanished <=> m.msg = "vanished"
      /\ m \in Appeared <=> m.msg = "appeared"
      /\ m \in Readies <=> m.msg = "managerConnected"
  BY MessageShape DEF Vanished, Appeared, Readies
<1>2. m \in Replies <=> m.msg = "modems"
  BY MessageShape DEF Replies
<1>3. m \in [msg : {"added", "removed"}, path : Paths] <=> m.msg \in {"added", "removed"}
  BY MessageShape
<1>4. ASSUME NEW p \in Paths
      PROVE  /\ m \in Comes(p) <=> m.msg = "added" /\ m.path = p
             /\ m \in Goes(p) <=> m.msg = "vanished" \/ (m.msg = "removed" /\ m.path = p)
             /\ m \in Signals(p) <=> m.msg = "vanished" \/ (m.msg \in {"added", "removed"} /\ m.path = p)
             /\ m \in Lists(p) <=> m.msg = "modems" /\ p \in ToSet(m.paths)
             /\ m \in Omits(p) <=> m.msg = "modems" /\ m.ok /\ p \notin ToSet(m.paths)
  <2>1. m \in Comes(p) <=> m.msg = "added" /\ m.path = p
    BY MessageShape DEF Comes
  <2>2. m \in [msg : {"removed"}, path : {p}] <=> m.msg = "removed" /\ m.path = p
    BY MessageShape
  <2>3. m \in Goes(p) <=> m.msg = "vanished" \/ (m.msg = "removed" /\ m.path = p)
    BY <1>1, <2>2 DEF Goes
  <2>4. m \in Lists(p) <=> m.msg = "modems" /\ p \in ToSet(m.paths)
    BY <1>2 DEF Lists, Replies
  <2>5. m \in Omits(p) <=> m.msg = "modems" /\ m.ok /\ p \notin ToSet(m.paths)
    <3>1. m \in [msg : {"modems"}, ok : {TRUE}, paths : Seq(Paths)] <=> m.msg = "modems" /\ m.ok
      <4>1. CASE m.msg # "modems"
        BY <4>1
      <4>2. CASE m.msg = "modems" /\ m.ok = TRUE
        <5>1. m = [msg |-> "modems", ok |-> TRUE, paths |-> m.paths] /\ m.paths \in Seq(Paths)
          BY <4>2, MessageShape
        <5>2. \A q \in Seq(Paths) : [msg |-> "modems", ok |-> TRUE, paths |-> q]
                                      \in [msg : {"modems"}, ok : {TRUE}, paths : Seq(Paths)]
          OBVIOUS
        <5>3. m \in [msg : {"modems"}, ok : {TRUE}, paths : Seq(Paths)]
          BY <5>1, <5>2
        <5>4. QED
          BY <4>2, <5>3
      <4>3. CASE m.msg = "modems" /\ m.ok = FALSE
        <5>1. m.ok \notin {TRUE}
          BY <4>3
        <5>2. QED
          BY <4>3, <5>1
      <4>4. m.msg = "modems" => m.ok \in BOOLEAN
        BY MessageShape
      <4>5. QED
        BY <4>1, <4>2, <4>3, <4>4
    <3>2. QED
      BY <3>1 DEF Omits
  <2>6. QED
    BY <2>1, <2>3, <2>4, <2>5 DEF Signals
<1>5. QED
  BY <1>1, <1>2, <1>3, <1>4 DEF ListMessages

LEMMA CallSorts ==
    ASSUME NEW c \in Call
    PROVE  /\ c \in GetModemsCalls <=> c.call = "GetModems"
           /\ c \in ConnectCalls <=> c.call = "ManagerConnect"
           /\ c \in ListCalls <=> c.call \in {"GetModems", "ManagerConnect"}
BY CallShape DEF GetModemsCalls, ConnectCalls, ListCalls

LEMMA ListSets ==
    /\ Vanished \subseteq ListMessages /\ Appeared \subseteq ListMessages
    /\ Replies \subseteq ListMessages /\ Readies \subseteq ListMessages
    /\ Appeared \cap Vanished = {}
    /\ \A p \in Paths : /\ Comes(p) \subseteq ListMessages /\ Goes(p) \subseteq ListMessages
                        /\ Signals(p) \subseteq ListMessages /\ Lists(p) \subseteq ListMessages
                        /\ Omits(p) \subseteq ListMessages
    /\ GetModemsCalls \subseteq ListCalls /\ ConnectCalls \subseteq ListCalls
<1>1. Appeared \cap Vanished = {}
  BY DEF Appeared, Vanished
<1>2. /\ Vanished \subseteq ListMessages /\ Appeared \subseteq ListMessages
      /\ Replies \subseteq ListMessages /\ Readies \subseteq ListMessages
      /\ GetModemsCalls \subseteq ListCalls /\ ConnectCalls \subseteq ListCalls
  BY DEF ListMessages, ListCalls
<1>3. ASSUME NEW p \in Paths
      PROVE  /\ Comes(p) \subseteq ListMessages /\ Goes(p) \subseteq ListMessages
             /\ Signals(p) \subseteq ListMessages /\ Lists(p) \subseteq ListMessages
             /\ Omits(p) \subseteq ListMessages
  <2>1. Comes(p) \subseteq ListMessages /\ Goes(p) \subseteq ListMessages
    BY DEF Comes, Goes, ListMessages
  <2>2. Lists(p) \subseteq Replies /\ Omits(p) \subseteq Replies
    BY DEF Lists, Omits, Replies
  <2>3. QED
    BY <1>2, <2>1, <2>2 DEF Signals
<1>4. QED
  BY <1>1, <1>2, <1>3

\* What one more message, or one less, does to the parts of the invariant.
LEMMA QueueAppend ==
    ASSUME NEW s \in Seq(Message), NEW m \in Message, NEW r, r = Append(s, m)
    PROVE  /\ After(r, Vanished, Appeared)
                <=> m.msg = "vanished" \/ (After(s, Vanished, Appeared) /\ m.msg # "appeared")
           /\ None(r, Appeared) <=> None(s, Appeared) /\ m.msg # "appeared"
           /\ Parted(r, Appeared, Vanished)
                <=> /\ Parted(s, Appeared, Vanished)
                    /\ m.msg = "appeared" => None(s, Appeared) \/ After(s, Vanished, Appeared)
           /\ Led(r, Appeared, Vanished)
                <=> Led(s, Appeared, Vanished) /\ (m.msg = "appeared" => ~None(s, Vanished))
           /\ None(r, Replies) <=> None(s, Replies) /\ m.msg # "modems"
           /\ Single(r, Replies) <=> Single(s, Replies) /\ (m.msg = "modems" => None(s, Replies))
           /\ None(r, Readies) <=> None(s, Readies) /\ m.msg # "managerConnected"
           /\ Single(r, Readies)
                <=> Single(s, Readies) /\ (m.msg = "managerConnected" => None(s, Readies))
<1>1. Appeared \cap Vanished = {}
  BY ListSets
<1>2. /\ m \in Vanished <=> m.msg = "vanished"
      /\ m \in Appeared <=> m.msg = "appeared"
      /\ m \in Replies <=> m.msg = "modems"
      /\ m \in Readies <=> m.msg = "managerConnected"
      /\ "vanished" # "appeared"
  BY Sorts
<1>3. /\ None(r, Appeared) <=> None(s, Appeared) /\ m \notin Appeared
      /\ None(r, Replies) <=> None(s, Replies) /\ m \notin Replies
      /\ None(r, Readies) <=> None(s, Readies) /\ m \notin Readies
  BY NoneAppend
<1>4. /\ Single(r, Replies) <=> Single(s, Replies) /\ (m \in Replies => None(s, Replies))
      /\ Single(r, Readies) <=> Single(s, Readies) /\ (m \in Readies => None(s, Readies))
  BY SingleAppend
<1>5. After(r, Vanished, Appeared) <=> m \in Vanished \/ (After(s, Vanished, Appeared) /\ m \notin Appeared)
  BY AfterAppend
<1>6. Led(r, Appeared, Vanished) <=> Led(s, Appeared, Vanished) /\ (m \in Appeared => ~None(s, Vanished))
  BY LedAppend
<1>7. Parted(r, Appeared, Vanished)
             <=> Parted(s, Appeared, Vanished)
                 /\ (m \in Appeared => (None(s, Appeared) \/ After(s, Vanished, Appeared)))
  BY <1>1, PartedAppend
<1>8. QED
  BY <1>2, <1>3, <1>4, <1>5, <1>6, <1>7

LEMMA QueueTail ==
    ASSUME NEW s \in Seq(Message), s # <<>>, NEW r, r = Tail(s), NEW m, m = Head(s)
    PROVE  /\ After(s, Vanished, Appeared)
                <=> After(r, Vanished, Appeared) \/ (m.msg = "vanished" /\ None(r, Appeared))
           /\ None(s, Appeared) <=> None(r, Appeared) /\ m.msg # "appeared"
           /\ Parted(s, Appeared, Vanished)
                <=> Parted(r, Appeared, Vanished) /\ (m.msg = "appeared" => Led(r, Appeared, Vanished))
           /\ Led(s, Appeared, Vanished) => m.msg # "appeared"
           /\ Led(s, Appeared, Vanished) /\ m.msg # "vanished" => Led(r, Appeared, Vanished)
           /\ None(s, Replies) <=> None(r, Replies) /\ m.msg # "modems"
           /\ Single(s, Replies) <=> Single(r, Replies) /\ (m.msg = "modems" => None(r, Replies))
           /\ None(s, Readies) <=> None(r, Readies) /\ m.msg # "managerConnected"
           /\ Single(s, Readies)
                <=> Single(r, Readies) /\ (m.msg = "managerConnected" => None(r, Readies))
<1>1. m \in Message
  BY TailParts
<1>2. /\ m \in Vanished <=> m.msg = "vanished"
      /\ m \in Appeared <=> m.msg = "appeared"
      /\ m \in Replies <=> m.msg = "modems"
      /\ m \in Readies <=> m.msg = "managerConnected"
  BY <1>1, Sorts
<1>3. /\ None(s, Appeared) <=> m \notin Appeared /\ None(r, Appeared)
      /\ None(s, Replies) <=> m \notin Replies /\ None(r, Replies)
      /\ None(s, Readies) <=> m \notin Readies /\ None(r, Readies)
  BY NoneTail
<1>4. /\ Single(s, Replies) <=> Single(r, Replies) /\ (m \in Replies => None(r, Replies))
      /\ Single(s, Readies) <=> Single(r, Readies) /\ (m \in Readies => None(r, Readies))
  BY SingleTail
<1>5. After(s, Vanished, Appeared) <=> After(r, Vanished, Appeared) \/ (m \in Vanished /\ None(r, Appeared))
  BY AfterTail
<1>6. /\ Led(s, Appeared, Vanished) => m \notin Appeared
      /\ m \notin Vanished /\ Led(s, Appeared, Vanished) => Led(r, Appeared, Vanished)
  BY LedTail
<1>7. Parted(s, Appeared, Vanished)
             <=> Parted(r, Appeared, Vanished) /\ (m \in Appeared => Led(r, Appeared, Vanished))
  BY PartedTail
<1>8. QED
  BY <1>2, <1>3, <1>4, <1>5, <1>6, <1>7

LEMMA CallAppend ==
    ASSUME NEW s \in Seq(Call), NEW c \in Call, NEW r, r = Append(s, c)
    PROVE  /\ None(r, GetModemsCalls) <=> None(s, GetModemsCalls) /\ c.call # "GetModems"
           /\ Single(r, GetModemsCalls)
                <=> Single(s, GetModemsCalls) /\ (c.call = "GetModems" => None(s, GetModemsCalls))
           /\ None(r, ConnectCalls) <=> None(s, ConnectCalls) /\ c.call # "ManagerConnect"
           /\ Single(r, ConnectCalls)
                <=> Single(s, ConnectCalls) /\ (c.call = "ManagerConnect" => None(s, ConnectCalls))
<1>1. /\ c \in GetModemsCalls <=> c.call = "GetModems"
      /\ c \in ConnectCalls <=> c.call = "ManagerConnect"
  BY CallSorts
<1>2. /\ None(r, GetModemsCalls) <=> None(s, GetModemsCalls) /\ c \notin GetModemsCalls
      /\ None(r, ConnectCalls) <=> None(s, ConnectCalls) /\ c \notin ConnectCalls
  BY NoneAppend
<1>3. /\ Single(r, GetModemsCalls)
           <=> Single(s, GetModemsCalls) /\ (c \in GetModemsCalls => None(s, GetModemsCalls))
      /\ Single(r, ConnectCalls)
           <=> Single(s, ConnectCalls) /\ (c \in ConnectCalls => None(s, ConnectCalls))
  BY SingleAppend
<1>4. QED
  BY <1>1, <1>2, <1>3

LEMMA CallTail ==
    ASSUME NEW s \in Seq(Call), s # <<>>, NEW r, r = Tail(s), NEW c, c = Head(s)
    PROVE  /\ c \in Call
           /\ None(s, GetModemsCalls) <=> None(r, GetModemsCalls) /\ c.call # "GetModems"
           /\ Single(s, GetModemsCalls)
                <=> Single(r, GetModemsCalls) /\ (c.call = "GetModems" => None(r, GetModemsCalls))
           /\ None(s, ConnectCalls) <=> None(r, ConnectCalls) /\ c.call # "ManagerConnect"
           /\ Single(s, ConnectCalls)
                <=> Single(r, ConnectCalls) /\ (c.call = "ManagerConnect" => None(r, ConnectCalls))
<1>0. c \in Call
  BY TailParts
<1>1. /\ c \in GetModemsCalls <=> c.call = "GetModems"
      /\ c \in ConnectCalls <=> c.call = "ManagerConnect"
  BY <1>0, CallSorts
<1>2. /\ None(s, GetModemsCalls) <=> c \notin GetModemsCalls /\ None(r, GetModemsCalls)
      /\ None(s, ConnectCalls) <=> c \notin ConnectCalls /\ None(r, ConnectCalls)
  BY NoneTail
<1>3. /\ Single(s, GetModemsCalls)
           <=> Single(r, GetModemsCalls) /\ (c \in GetModemsCalls => None(r, GetModemsCalls))
      /\ Single(s, ConnectCalls)
           <=> Single(r, ConnectCalls) /\ (c \in ConnectCalls => None(r, ConnectCalls))
  BY SingleTail
<1>4. QED
  BY <1>0, <1>1, <1>2, <1>3

LEMMA QueueAlike ==
    ASSUME NEW r, NEW s, Alike(r, s, ListMessages)
    PROVE  /\ After(r, Vanished, Appeared) <=> After(s, Vanished, Appeared)
           /\ None(r, Appeared) <=> None(s, Appeared)
           /\ Parted(r, Appeared, Vanished) <=> Parted(s, Appeared, Vanished)
           /\ Led(r, Appeared, Vanished) <=> Led(s, Appeared, Vanished)
           /\ None(r, Replies) <=> None(s, Replies)
           /\ Single(r, Replies) <=> Single(s, Replies)
           /\ None(r, Readies) <=> None(s, Readies)
           /\ Single(r, Readies) <=> Single(s, Readies)
           /\ \A p \in Paths :
                /\ None(r, Signals(p)) <=> None(s, Signals(p))
                /\ After(r, Comes(p), Goes(p)) <=> After(s, Comes(p), Goes(p))
                /\ After(r, Goes(p), Comes(p)) <=> After(s, Goes(p), Comes(p))
                /\ After(r, Lists(p), Signals(p)) <=> After(s, Lists(p), Signals(p))
                /\ After(r, Omits(p), Signals(p)) <=> After(s, Omits(p), Signals(p))
<1>1. \A X, Y \in SUBSET ListMessages :
        /\ None(r, X) <=> None(s, X)
        /\ After(r, X, Y) <=> After(s, X, Y)
        /\ Single(r, X) <=> Single(s, X)
        /\ Led(r, X, Y) <=> Led(s, X, Y)
        /\ X \cap Y = {} => (Parted(r, X, Y) <=> Parted(s, X, Y))
  BY DEF Alike
<1>2. /\ Vanished \in SUBSET ListMessages /\ Appeared \in SUBSET ListMessages
      /\ Replies \in SUBSET ListMessages /\ Readies \in SUBSET ListMessages
      /\ Appeared \cap Vanished = {}
  BY ListSets
<1>3. ASSUME NEW p \in Paths
      PROVE  /\ None(r, Signals(p)) <=> None(s, Signals(p))
             /\ After(r, Comes(p), Goes(p)) <=> After(s, Comes(p), Goes(p))
             /\ After(r, Goes(p), Comes(p)) <=> After(s, Goes(p), Comes(p))
             /\ After(r, Lists(p), Signals(p)) <=> After(s, Lists(p), Signals(p))
             /\ After(r, Omits(p), Signals(p)) <=> After(s, Omits(p), Signals(p))
  <2>1. /\ Comes(p) \in SUBSET ListMessages /\ Goes(p) \in SUBSET ListMessages
        /\ Signals(p) \in SUBSET ListMessages /\ Lists(p) \in SUBSET ListMessages
        /\ Omits(p) \in SUBSET ListMessages
    BY ListSets
  <2>2. QED
    BY <1>1, <2>1
<1>4. QED
  BY <1>1, <1>2, <1>3

LEMMA CallAlike ==
    ASSUME NEW r, NEW s, Alike(r, s, ListCalls)
    PROVE  /\ None(r, GetModemsCalls) <=> None(s, GetModemsCalls)
           /\ Single(r, GetModemsCalls) <=> Single(s, GetModemsCalls)
           /\ None(r, ConnectCalls) <=> None(s, ConnectCalls)
           /\ Single(r, ConnectCalls) <=> Single(s, ConnectCalls)
<1>1. GetModemsCalls \in SUBSET ListCalls /\ ConnectCalls \in SUBSET ListCalls
  BY ListSets
<1>2. QED
  BY <1>1 DEF Alike

\* The same for what the messages tell of one modem.
LEMMA TellAppend ==
    ASSUME NEW s \in Seq(Message), NEW m \in Message, NEW r, r = Append(s, m), NEW p \in Paths
    PROVE  /\ After(r, Comes(p), Goes(p)) <=> m \in Comes(p) \/ (After(s, Comes(p), Goes(p)) /\ m \notin Goes(p))
           /\ After(r, Goes(p), Comes(p)) <=> m \in Goes(p) \/ (After(s, Goes(p), Comes(p)) /\ m \notin Comes(p))
           /\ After(r, Lists(p), Signals(p)) <=> m \in Lists(p) \/ (After(s, Lists(p), Signals(p)) /\ m \notin Signals(p))
           /\ After(r, Omits(p), Signals(p)) <=> m \in Omits(p) \/ (After(s, Omits(p), Signals(p)) /\ m \notin Signals(p))
           /\ None(r, Signals(p)) <=> None(s, Signals(p)) /\ m \notin Signals(p)
BY AfterAppend, NoneAppend

LEMMA TellTail ==
    ASSUME NEW s \in Seq(Message), s # <<>>, NEW r, r = Tail(s), NEW m, m = Head(s), NEW p \in Paths
    PROVE  /\ After(s, Comes(p), Goes(p)) <=> After(r, Comes(p), Goes(p)) \/ (m \in Comes(p) /\ None(r, Goes(p)))
           /\ After(s, Goes(p), Comes(p)) <=> After(r, Goes(p), Comes(p)) \/ (m \in Goes(p) /\ None(r, Comes(p)))
           /\ After(s, Lists(p), Signals(p)) <=> After(r, Lists(p), Signals(p)) \/ (m \in Lists(p) /\ None(r, Signals(p)))
           /\ After(s, Omits(p), Signals(p)) <=> After(r, Omits(p), Signals(p)) \/ (m \in Omits(p) /\ None(r, Signals(p)))
           /\ None(s, Signals(p)) <=> m \notin Signals(p) /\ None(r, Signals(p))
           /\ None(r, Signals(p)) => None(r, Comes(p)) /\ None(r, Goes(p))
<1>1. None(r, Signals(p)) => None(r, Comes(p)) /\ None(r, Goes(p))
  BY DEF None, Signals
<1>2. QED
  BY <1>1, AfterTail, NoneTail

(***************************************************************************)
(* What the steps do to the queues.                                        *)
(***************************************************************************)
LEMMA QueueTypes ==
    ASSUME TypeInv
    PROVE  /\ inbox \in Seq(Message) /\ calls \in Seq(Call) /\ manager \in Phases
           /\ ofono.up \in BOOLEAN
           /\ \A p \in Paths : ofono.modems[p] \in Modem /\ ofono.modems[p].present \in BOOLEAN
<1>1. \A d \in Modem : d.present \in BOOLEAN
  BY DEF Modem
<1>2. QED
  BY <1>1 DEF TypeInv, TypeOK

\* A step that changes nothing of what QueueInv and TellInv are about.
LEMMA QueueFrame ==
    ASSUME QueueInv, TellInv, ofono'.up = ofono.up, manager' = manager,
           \A p \in Paths : ofono'.modems[p].present <=> ofono.modems[p].present,
           Alike(inbox', inbox, ListMessages), Alike(calls', calls, ListCalls)
    PROVE  QueueInv' /\ TellInv'
<1>1. QueueInv'
  BY QueueAlike, CallAlike DEF QueueInv, OfonoInv, AppearInv, ChainInv
<1>2. TellInv'
  BY QueueAlike DEF TellInv, TellsOf
<1>3. QED
  BY <1>1, <1>2

LEMMA QueueOfonoStart ==
    ASSUME TypeInv, QueueInv, TellInv, OfonoStart
    PROVE  QueueInv' /\ TellInv'
<1> DEFINE m == [msg |-> "appeared"]
<1>1. m \in Message /\ m.msg = "appeared" /\ inbox' = Append(inbox, m) /\ calls' = calls
      /\ inbox \in Seq(Message)
  BY Messages, QueueTypes DEF OfonoStart
<1>2. ~ofono.up /\ manager' = manager /\ ofono'.up
      /\ \A p \in Paths : ofono'.modems[p].present <=> ofono.modems[p].present
  BY DEF OfonoStart, daemonVars, TypeInv, TypeOK
<1> HIDE DEF m
<1>3. After(inbox, Vanished, Appeared) => ~None(inbox, Vanished)
  BY DEF After, None
<1>4. QueueInv'
  BY <1>1, <1>2, <1>3, QueueAppend DEF QueueInv, OfonoInv, AppearInv, ChainInv
<1>5. Alike(inbox', inbox, ListMessages \ Appeared)
  BY <1>1, Sorts, AlikeAppend
<1>6. TellInv'
  BY <1>1, <1>2, TellAppend, Sorts DEF TellInv, TellsOf
<1>7. QED
  BY <1>4, <1>6

\* After oFono has stopped, nothing of what was asked of it is on its way, and
\* the last thing the daemon hears about the list is that oFono vanished.
LEMMA Stopped ==
    ASSUME TypeInv, OfonoStop
    PROVE  /\ Alike(inbox', Append(inbox, [msg |-> "vanished"]), ListMessages)
           /\ [msg |-> "vanished"] \in Message
           /\ calls' = <<>> /\ ~ofono'.up
           /\ \A p \in Paths : ofono'.modems[p] = Absent
<1> DEFINE m == [msg |-> "vanished"]
           t == [i \in DOMAIN Connects |-> [msg |-> "connected", id |-> Connects[i].id]]
<1>1. m \in Message /\ inbox \in Seq(Message)
  BY Messages, QueueTypes
<1>2. t \in Seq(Message)
  <2>1. Connects \in Seq([call : {"Connect"}, id : Ids])
    BY QueueTypes, KeptAlike DEF Connects
  <2>2. Len(Connects) \in Nat /\ DOMAIN Connects = 1 .. Len(Connects)
    BY <2>1, LenProperties
  <2>3. \A i \in DOMAIN Connects : Connects[i] \in [call : {"Connect"}, id : Ids]
    BY <2>1, <2>2, ElementOfSeq
  <2>4. t \in [1 .. Len(Connects) -> Message]
    BY <2>2, <2>3, Messages
  <2>5. QED
    BY <2>2, <2>4, FunctionIsSeq
<1>3. None(t, ListMessages)
  <2>1. \A i \in DOMAIN t : t[i].msg = "connected"
    OBVIOUS
  <2>2. \A x \in ListMessages : x.msg # "connected"
    BY DEF ListMessages, Vanished, Appeared, Replies, Readies
  <2>3. QED
    BY <2>1, <2>2 DEF None
<1>4. inbox' = Append(inbox, m) \o t /\ calls' = <<>> /\ ~ofono'.up
      /\ \A p \in Paths : ofono'.modems[p] = Absent
  BY DEF OfonoStop
<1> HIDE DEF m, t
<1>5. Append(inbox, m) \in Seq(Message)
  BY <1>1, AppendProperties
<1>6. QED
  BY <1>1, <1>2, <1>3, <1>4, <1>5, AlikeConcat DEF m

LEMMA QueueOfonoStop ==
    ASSUME TypeInv, QueueInv, TellInv, OfonoStop
    PROVE  QueueInv' /\ TellInv'
<1> DEFINE m == [msg |-> "vanished"] r == Append(inbox, m)
<1>1. m \in Message /\ m.msg = "vanished" /\ inbox \in Seq(Message) /\ r = Append(inbox, m)
      /\ Alike(inbox', r, ListMessages) /\ calls' = <<>>
  BY Stopped, QueueTypes
<1>2. manager' = manager /\ ~ofono'.up
      /\ \A p \in Paths : ~ofono'.modems[p].present
  BY Stopped DEF OfonoStop, daemonVars, Absent
<1>3. /\ None(calls', GetModemsCalls) /\ Single(calls', GetModemsCalls)
      /\ None(calls', ConnectCalls) /\ Single(calls', ConnectCalls)
  BY <1>1, NoneOfEmpty
<1>4. \A p \in Paths : m \in Goes(p) /\ m \in Signals(p) /\ m \notin Comes(p)
                       /\ m \notin Lists(p) /\ m \notin Omits(p)
  BY <1>1, Sorts
<1> HIDE DEF m, r
<1>5. QueueInv'
  BY <1>1, <1>2, <1>3, QueueAppend, QueueAlike DEF QueueInv, OfonoInv, AppearInv, ChainInv
<1>6. ASSUME NEW p \in Paths
      PROVE  TellsOf(p, inbox', ofono'.modems[p].present)
  <2>1. /\ ~After(r, Comes(p), Goes(p)) /\ ~After(r, Lists(p), Signals(p))
    BY <1>1, <1>4, TellAppend
  <2>2. /\ ~After(inbox', Comes(p), Goes(p)) /\ ~After(inbox', Lists(p), Signals(p))
    BY <1>1, <2>1, QueueAlike
  <2>3. QED
    BY <1>2, <2>2 DEF TellsOf
<1>7. QED
  BY <1>5, <1>6 DEF TellInv

LEMMA QueueModemAdded ==
    ASSUME TypeInv, QueueInv, TellInv, NEW p \in Paths, ModemAdded(p)
    PROVE  /\ QueueInv' /\ TellInv'
           /\ inbox' = Append(inbox, [msg |-> "added", path |-> p])
           /\ ofono'.modems[p].present
           /\ \A q \in Paths : q # p => ofono'.modems[q] = ofono.modems[q]
<1> DEFINE m == [msg |-> "added", path |-> p]
<1>1. m \in Message /\ m.msg = "added" /\ m.path = p /\ inbox' = Append(inbox, m) /\ calls' = calls
      /\ inbox \in Seq(Message)
  BY Messages, QueueTypes DEF ModemAdded
<1>2. manager' = manager /\ ofono'.up = ofono.up /\ ofono'.modems[p].present
      /\ \A q \in Paths : q # p => ofono'.modems[q] = ofono.modems[q]
  <2>1. PICK b \in BOOLEAN :
           ofono' = [ofono EXCEPT !.modems[p] = [present |-> TRUE, powered |-> b, online |-> FALSE]]
    BY DEF ModemAdded
  <2> DEFINE now == [present |-> TRUE, powered |-> b, online |-> FALSE]
  <2>2. now \in Modem /\ now.present
    BY DEF Modem
  <2>3. ofono' = [ofono EXCEPT !.modems[p] = now]
    BY <2>1
  <2> HIDE DEF now
  <2>4. QED
    BY <2>2, <2>3, OneModem DEF ModemAdded, daemonVars
<1> HIDE DEF m
<1>3. QueueInv'
  BY <1>1, <1>2, QueueAppend DEF QueueInv, OfonoInv, AppearInv, ChainInv
<1>4. ASSUME NEW q \in Paths
      PROVE  TellsOf(q, inbox', ofono'.modems[q].present)
  <2>1. /\ m \in Comes(q) <=> q = p
        /\ m \notin Goes(q) /\ m \notin Lists(q) /\ m \notin Omits(q)
        /\ m \in Signals(q) <=> q = p
    BY <1>1, Sorts
  <2>2. TellsOf(q, inbox, ofono.modems[q].present)
    BY DEF TellInv
  <2>3. QED
    BY <1>1, <1>2, <2>1, <2>2, TellAppend DEF TellsOf
<1>5. QED
  BY <1>1, <1>2, <1>3, <1>4 DEF TellInv, m

LEMMA QueueModemRemoved ==
    ASSUME TypeInv, QueueInv, TellInv, NEW p \in Paths, ModemRemoved(p)
    PROVE  /\ QueueInv' /\ TellInv'
           /\ inbox' = Append(inbox, [msg |-> "removed", path |-> p])
           /\ ofono'.modems[p] = Absent /\ ~ofono'.modems[p].present
           /\ \A q \in Paths : q # p => ofono'.modems[q] = ofono.modems[q]
<1> DEFINE m == [msg |-> "removed", path |-> p]
<1>1. m \in Message /\ m.msg = "removed" /\ m.path = p /\ inbox' = Append(inbox, m) /\ calls' = calls
      /\ inbox \in Seq(Message)
  BY Messages, QueueTypes DEF ModemRemoved
<1>2. manager' = manager /\ ofono'.up = ofono.up /\ ofono'.modems[p] = Absent /\ ~ofono'.modems[p].present
      /\ \A q \in Paths : q # p => ofono'.modems[q] = ofono.modems[q]
  <2>1. Absent \in Modem /\ ~Absent.present
    BY DEF Absent, Modem
  <2>2. ofono' = [ofono EXCEPT !.modems[p] = Absent]
    BY DEF ModemRemoved
  <2>3. QED
    BY <2>1, <2>2, OneModem DEF ModemRemoved, daemonVars
<1> HIDE DEF m
<1>3. QueueInv'
  BY <1>1, <1>2, QueueAppend DEF QueueInv, OfonoInv, AppearInv, ChainInv
<1>4. ASSUME NEW q \in Paths
      PROVE  TellsOf(q, inbox', ofono'.modems[q].present)
  <2>1. /\ m \in Goes(q) <=> q = p
        /\ m \notin Comes(q) /\ m \notin Lists(q) /\ m \notin Omits(q)
        /\ m \in Signals(q) <=> q = p
    BY <1>1, Sorts
  <2>2. TellsOf(q, inbox, ofono.modems[q].present)
    BY DEF TellInv
  <2>3. QED
    BY <1>1, <1>2, <2>1, <2>2, TellAppend DEF TellsOf
<1>5. QED
  BY <1>1, <1>2, <1>3, <1>4 DEF TellInv, m

\* The signals that tell of power are not about the list.
LEMMA PoweredInbox ==
    ASSUME TypeInv, NEW p \in Paths, ModemPowered(p)
    PROVE  Alike(inbox', inbox, ListMessages)
<1> DEFINE first == IF ofono.modems[p].online THEN <<Changed(p, "Online", FALSE)>> ELSE <<>>
           power == Changed(p, "Powered", ~ofono.modems[p].powered)
<1>1. ofono.modems[p].powered \in BOOLEAN
  BY QueueTypes DEF Modem
<1>2. /\ Changed(p, "Online", FALSE) \in Message /\ Changed(p, "Online", FALSE).msg = "changed"
      /\ power \in Message /\ power.msg = "changed"
  BY <1>1, Messages DEF Changed
<1>3. Changed(p, "Online", FALSE) \notin ListMessages /\ power \notin ListMessages
  BY <1>2, Sorts
<1> HIDE DEF power
<1>4. first \in Seq(Message) /\ None(first, ListMessages)
  <2>1. CASE ofono.modems[p].online
    <3>1. first = <<Changed(p, "Online", FALSE)>>
      BY <2>1
    <3> HIDE DEF first
    <3>2. QED
      BY <1>2, <1>3, <3>1, One
  <2>2. CASE ~ofono.modems[p].online
    <3>1. first = <<>>
      BY <2>2
    <3> HIDE DEF first
    <3>2. QED
      BY <3>1, EmptySeq, NoneOfEmpty
  <2>3. QED
    BY <2>1, <2>2
<1>5. <<power>> \in Seq(Message) /\ None(<<power>>, ListMessages)
  BY <1>2, <1>3, One
<1>6. inbox' = inbox \o first \o <<power>> /\ inbox \in Seq(Message)
  BY QueueTypes DEF ModemPowered, power
<1> HIDE DEF first
<1>7. inbox \o first \in Seq(Message) /\ Alike(inbox \o first, inbox, ListMessages)
  BY <1>4, <1>6, ConcatProperties, AlikeConcat
<1>8. Alike(inbox', inbox \o first, ListMessages)
  BY <1>5, <1>6, <1>7, AlikeConcat
<1>9. QED
  BY <1>7, <1>8, AlikeLaws

LEMMA QueueModemPowered ==
    ASSUME TypeInv, QueueInv, TellInv, NEW p \in Paths, ModemPowered(p)
    PROVE  QueueInv' /\ TellInv'
<1> DEFINE first == IF ofono.modems[p].online THEN <<Changed(p, "Online", FALSE)>> ELSE <<>>
           power == Changed(p, "Powered", ~ofono.modems[p].powered)
           t == first \o <<power>>
<1>1. /\ ofono'.up = ofono.up /\ manager' = manager /\ calls' = calls
      /\ \A q \in Paths : ofono'.modems[q].present <=> ofono.modems[q].present
  <2>1. /\ ofono'.up = ofono.up /\ ofono'.modems[p].present /\ ofono.modems[p].present
        /\ \A q \in Paths : q # p => ofono'.modems[q] = ofono.modems[q]
    BY PoweredModems
  <2>2. manager' = manager /\ calls' = calls
    BY DEF ModemPowered, daemonVars
  <2>3. QED
    BY <2>1, <2>2
<1>2. Alike(inbox', inbox, ListMessages)
  BY PoweredInbox
<1>3. Alike(calls', calls, ListCalls)
  BY <1>1, AlikeLaws
<1>4. QED
  BY <1>1, <1>2, <1>3, QueueFrame

LEMMA QueueAnswer ==
    ASSUME TypeInv, QueueInv, TellInv, Answer
    PROVE  QueueInv' /\ TellInv' /\ Alike(inbox', inbox, ListMessages \ (Replies \union Readies))
           /\ \A p \in Paths : ofono'.modems[p].present <=> ofono.modems[p].present
<1> DEFINE c == Head(calls)
<1>1. /\ calls # <<>> /\ calls' = Tail(calls) /\ c = Head(calls) /\ c \in Call
      /\ calls \in Seq(Call) /\ inbox \in Seq(Message) /\ manager' = manager
      /\ UNCHANGED daemonVars
  BY HeadCall, QueueTypes DEF Answer, daemonVars
<1> HIDE DEF c
\* Three answers are not about the list.
<1>2. ASSUME c.call \notin {"ManagerConnect", "GetModems"}, Alike(inbox', inbox, ListMessages),
             ofono'.up = ofono.up,
             \A p \in Paths : ofono'.modems[p].present <=> ofono.modems[p].present
      PROVE  QueueInv' /\ TellInv' /\ Alike(inbox', inbox, ListMessages \ (Replies \union Readies))
  <2>1. c \notin ListCalls
    BY <1>1, <1>2, CallSorts
  <2>2. Alike(calls', calls, ListCalls)
    BY <1>1, <2>1, AlikeTail
  <2>3. Alike(inbox', inbox, ListMessages \ (Replies \union Readies))
    BY <1>2, AlikeLaws
  <2>4. QED
    BY <1>1, <1>2, <2>2, <2>3, QueueFrame
<1>3. ASSUME NEW m \in Message, m.msg \in {"connected", "properties", "changed"},
             inbox' = Append(inbox, m) \/ inbox' = inbox
      PROVE  Alike(inbox', inbox, ListMessages)
  <2>1. m \notin ListMessages
    BY <1>3, Sorts
  <2>2. Alike(Append(inbox, m), inbox, ListMessages) /\ Alike(inbox, inbox, ListMessages)
    BY <1>1, <2>1, AlikeAppend, AlikeLaws
  <2>3. QED
    BY <1>3, <2>2
<1>4. CASE AnswerConnect(c)
  <2> DEFINE m == [msg |-> "connected", id |-> c.id]
  <2>1. m \in Message /\ m.msg = "connected" /\ (inbox' = Append(inbox, m) \/ inbox' = inbox)
        /\ c.call = "Connect" /\ ofono' = ofono
    BY <1>1, <1>4, CallShape, Messages DEF AnswerConnect, Fail
  <2> HIDE DEF m
  <2>2. Alike(inbox', inbox, ListMessages)
    BY <1>3, <2>1
  <2>3. QED
    BY <1>2, <2>1, <2>2
<1>5. ASSUME AnswerManagerConnect(c), inbox' = inbox
      PROVE  QueueInv' /\ TellInv' /\ Alike(inbox', inbox, ListMessages \ (Replies \union Readies))
  <2>1. c.call = "ManagerConnect" /\ ofono' = ofono
    BY <1>5 DEF AnswerManagerConnect
  <2>2. QueueInv'
    BY <1>1, <1>5, <2>1, CallTail DEF QueueInv, OfonoInv, AppearInv, ChainInv
  <2>3. TellInv'
    BY <1>5, <2>1 DEF TellInv
  <2>4. QED
    BY <1>5, <2>2, <2>3, AlikeLaws
<1>10. ASSUME AnswerManagerConnect(c), inbox' = Append(inbox, [msg |-> "managerConnected"])
       PROVE  QueueInv' /\ TellInv' /\ Alike(inbox', inbox, ListMessages \ (Replies \union Readies))
  <2> DEFINE m == [msg |-> "managerConnected"]
  <2>1. m \in Message /\ m.msg = "managerConnected" /\ inbox' = Append(inbox, m)
        /\ c.call = "ManagerConnect" /\ ofono' = ofono
    BY <1>10, Messages DEF AnswerManagerConnect
  <2> HIDE DEF m
  <2>2. QueueInv'
    BY <1>1, <2>1, QueueAppend, CallTail DEF QueueInv, OfonoInv, AppearInv, ChainInv
  <2>3. ASSUME NEW p \in Paths
        PROVE  TellsOf(p, inbox', ofono'.modems[p].present)
    <3>1. /\ m \notin Comes(p) /\ m \notin Goes(p) /\ m \notin Lists(p) /\ m \notin Omits(p)
          /\ m \notin Signals(p)
      BY <2>1, Sorts
    <3>2. QED
      BY <1>1, <2>1, <3>1, TellAppend DEF TellInv, TellsOf
  <2>4. m \notin ListMessages \ (Replies \union Readies)
    BY <2>1, Sorts
  <2>5. Alike(inbox', inbox, ListMessages \ (Replies \union Readies))
    BY <1>1, <2>1, <2>4, AlikeAppend
  <2>6. QED
    BY <2>1, <2>2, <2>3, <2>5 DEF TellInv
<1>6. CASE AnswerGetModems(c)
  <2>1. c.call = "GetModems" /\ ofono' = ofono
    BY <1>6 DEF AnswerGetModems
  <2>2. PICK list \in Seq(Paths), ok \in BOOLEAN :
          /\ inbox' = Append(inbox, [msg |-> "modems", ok |-> ok, paths |-> list])
          /\ ok => \A p \in Paths : p \in ToSet(list) <=> ofono.modems[p].present
          /\ ~ok => list = <<>>
    <3>1. CASE \E list \in Bijection(1 .. Cardinality(Present), Present) :
                 inbox' = Append(inbox, [msg |-> "modems", ok |-> TRUE, paths |-> list])
      <4>1. PICK list \in Bijection(1 .. Cardinality(Present), Present) :
                 inbox' = Append(inbox, [msg |-> "modems", ok |-> TRUE, paths |-> list])
        BY <3>1
      <4>2. list \in Seq(Paths) /\ ToSet(list) = Present
        BY Listing
      <4>3. \A p \in Paths : p \in ToSet(list) <=> ofono.modems[p].present
        BY <4>2 DEF Present
      <4>4. QED
        BY <4>1, <4>2, <4>3
    <3>2. CASE inbox' = Append(inbox, [msg |-> "modems", ok |-> FALSE, paths |-> <<>>])
      <4>1. <<>> \in Seq(Paths)
        BY EmptySeq
      <4>2. QED
        BY <3>2, <4>1
    <3>3. QED
      BY <1>6, <3>1, <3>2 DEF AnswerGetModems
  <2> DEFINE m == [msg |-> "modems", ok |-> ok, paths |-> list]
  <2>3. m \in Message /\ m.msg = "modems" /\ inbox' = Append(inbox, m)
        /\ (m.ok <=> ok) /\ m.paths = list
    BY <2>2, Messages
  <2> HIDE DEF m
  <2>4. QueueInv'
    BY <1>1, <2>1, <2>3, QueueAppend, CallTail DEF QueueInv, OfonoInv, AppearInv, ChainInv
  <2>5. ASSUME NEW p \in Paths
        PROVE  TellsOf(p, inbox', ofono'.modems[p].present)
    <3>1. /\ m \notin Comes(p) /\ m \notin Goes(p) /\ m \notin Signals(p)
          /\ m \in Lists(p) <=> p \in ToSet(list)
          /\ m \in Omits(p) <=> ok /\ p \notin ToSet(list)
      BY <2>3, Sorts
    <3>2. ~ok => p \notin ToSet(list)
      BY <2>2 DEF ToSet
    <3>3. /\ m \in Lists(p) => ofono.modems[p].present
          /\ m \in Omits(p) => ~ofono.modems[p].present
      BY <2>2, <3>1, <3>2
    <3>4. QED
      BY <1>1, <2>1, <2>3, <3>1, <3>3, TellAppend DEF TellInv, TellsOf
  <2>6. m \notin ListMessages \ (Replies \union Readies)
    BY <2>3, Sorts
  <2>7. Alike(inbox', inbox, ListMessages \ (Replies \union Readies))
    BY <1>1, <2>3, <2>6, AlikeAppend
  <2>8. QED
    BY <2>1, <2>4, <2>5, <2>7 DEF TellInv
<1>7. CASE AnswerGetProperties(c)
  <2> DEFINE m == [msg |-> "properties", id |-> c.id, powered |-> ofono.modems[objects[c.id].path].powered,
                   online |-> ofono.modems[objects[c.id].path].online]
  <2>1. m \in Message /\ m.msg = "properties" /\ (inbox' = Append(inbox, m) \/ inbox' = inbox)
        /\ c.call = "GetProperties" /\ ofono' = ofono
    <3>1. c.call = "GetProperties" /\ ofono' = ofono /\ (inbox' = Append(inbox, m) \/ inbox' = inbox)
      BY <1>7 DEF AnswerGetProperties, Fail
    <3>2. c.id \in Ids /\ objects[c.id].path \in Paths
      BY <1>1, <3>1, CallShape, ObjectTypes
    <3>3. \A d \in Modem : d.powered \in BOOLEAN /\ d.online \in BOOLEAN
      BY DEF Modem
    <3>4. QED
      BY <3>1, <3>2, <3>3, QueueTypes, Messages
  <2> HIDE DEF m
  <2>2. Alike(inbox', inbox, ListMessages)
    BY <1>3, <2>1
  <2>3. QED
    BY <1>2, <2>1, <2>2
<1>8. CASE AnswerSetProperty(c)
  <2> DEFINE p == objects[c.id].path m == Changed(p, "Online", c.online)
  <2>1. c.call = "SetProperty" /\ c.id \in Ids /\ c.online \in BOOLEAN /\ p \in Paths
    BY <1>1, <1>8, CallShape, ObjectTypes DEF AnswerSetProperty
  <2>2. m \in Message /\ m.msg = "changed"
    BY <2>1, Messages DEF Changed
  <2>3. inbox' = Append(inbox, m) \/ inbox' = inbox
    BY <1>8, SMTT(30) DEF AnswerSetProperty
  <2>4. ofono'.up = ofono.up /\ \A q \in Paths : ofono'.modems[q].present <=> ofono.modems[q].present
    <3>1. CASE ofono' = ofono
      BY <3>1, SMTT(30)
    <3>2. CASE /\ ofono.modems[p].powered
               /\ ofono' = [ofono EXCEPT !.modems[p] =
                    [present |-> ofono.modems[p].present, powered |-> TRUE, online |-> c.online]]
      BY <2>1, <3>2, SetModems
    <3>3. QED
      BY <1>8, <3>1, <3>2 DEF AnswerSetProperty
  <2> HIDE DEF m, p
  <2>5. Alike(inbox', inbox, ListMessages)
    BY <1>3, <2>2, <2>3
  <2>6. QED
    BY <1>2, <2>1, <2>4, <2>5, SMTT(30)
<1>11. ASSUME AnswerManagerConnect(c)
       PROVE  /\ inbox' = inbox \/ inbox' = Append(inbox, [msg |-> "managerConnected"])
              /\ ofono' = ofono
  BY <1>11 DEF AnswerManagerConnect, Fail
<1>12. CASE AnswerManagerConnect(c)
  BY <1>5, <1>10, <1>11, <1>12
<1>13. QED
  BY <1>4, <1>6, <1>7, <1>8, <1>12 DEF Answer, c

\* How far the manager is when it gets an answer of its own.
LEMMA Chained ==
    ASSUME TypeInv, QueueInv
    PROVE  /\ Take("modems") => manager = "asked"
           /\ Take("managerConnected") => manager = "connecting"
           /\ Take("appeared") => manager = "away"
<1>1. inbox \in Seq(Message)
  BY QueueTypes
<1>2. Take("modems") => ~None(inbox, Replies)
  BY <1>1, QueueTail DEF Take
<1>3. Take("managerConnected") => ~None(inbox, Readies)
  BY <1>1, QueueTail DEF Take
<1>4. Take("appeared") => ~Led(inbox, Appeared, Vanished)
  BY <1>1, QueueTail DEF Take
<1>5. QED
  BY <1>2, <1>3, <1>4 DEF QueueInv, ChainInv, AppearInv

\* A message that is taken tells nothing more.
LEMMA TellDrop ==
    ASSUME TypeInv, TellInv, inbox # <<>>, inbox' = Tail(inbox), UNCHANGED ofono
    PROVE  TellInv'
<1> SUFFICES ASSUME NEW p \in Paths PROVE TellsOf(p, inbox', ofono'.modems[p].present)
  BY DEF TellInv
<1>1. TellsOf(p, inbox, ofono.modems[p].present) /\ inbox \in Seq(Message)
  BY QueueTypes DEF TellInv
<1> DEFINE r == Tail(inbox) m == Head(inbox)
<1>2. r = Tail(inbox) /\ m = Head(inbox) /\ inbox' = r
  OBVIOUS
<1> HIDE DEF r, m
<1>3. QED
  BY <1>1, <1>2, TellTail DEF TellsOf

\* Handlers that leave the manager where it is.
LEMMA QueueDrop ==
    ASSUME TypeInv, QueueInv, inbox # <<>>, inbox' = Tail(inbox), UNCHANGED <<ofono, manager>>,
           Head(inbox).msg \notin {"appeared", "vanished", "modems", "managerConnected"},
           Alike(calls', calls, ListCalls)
    PROVE  QueueInv'
<1> DEFINE r == Tail(inbox) m == Head(inbox)
<1>1. r = Tail(inbox) /\ m = Head(inbox) /\ inbox' = r /\ inbox \in Seq(Message)
  BY QueueTypes
<1>2. m.msg \notin {"appeared", "vanished", "modems", "managerConnected"}
  OBVIOUS
<1> HIDE DEF r, m
<1>3. QED
  BY <1>1, <1>2, QueueTail, CallAlike DEF QueueInv, OfonoInv, AppearInv, ChainInv

LEMMA QueueHandleAppeared ==
    ASSUME TypeInv, QueueInv, TellInv, HandleAppeared
    PROVE  QueueInv' /\ TellInv'
<1> DEFINE r == Tail(inbox) m == Head(inbox) c == [call |-> "ManagerConnect"]
<1>1. r = Tail(inbox) /\ m = Head(inbox) /\ inbox' = r /\ inbox \in Seq(Message) /\ inbox # <<>>
      /\ m.msg = "appeared" /\ c \in Call /\ c.call = "ManagerConnect" /\ calls' = Append(calls, c)
      /\ calls \in Seq(Call) /\ manager' = "connecting" /\ ofono' = ofono
  BY QueueTypes, Calls DEF HandleAppeared, Take
<1>2. manager = "away"
  BY Chained DEF HandleAppeared
<1>3. TellInv'
  BY <1>1, TellDrop
<1> HIDE DEF r, m, c
<1>4. OfonoInv'
  BY <1>1, <1>2, QueueTail DEF QueueInv, OfonoInv
<1>5. AppearInv'
  BY <1>1, <1>2, QueueTail DEF QueueInv, AppearInv
<1>6. ChainInv'
  BY <1>1, <1>2, QueueTail, CallAppend DEF QueueInv, ChainInv
<1>7. QED
  BY <1>3, <1>4, <1>5, <1>6 DEF QueueInv

LEMMA QueueHandleManagerConnected ==
    ASSUME TypeInv, QueueInv, TellInv, HandleManagerConnected
    PROVE  QueueInv' /\ TellInv'
<1> DEFINE r == Tail(inbox) m == Head(inbox) c == [call |-> "GetModems"]
<1>1. r = Tail(inbox) /\ m = Head(inbox) /\ inbox' = r /\ inbox \in Seq(Message) /\ inbox # <<>>
      /\ m.msg = "managerConnected" /\ c \in Call /\ c.call = "GetModems" /\ calls' = Append(calls, c)
      /\ calls \in Seq(Call) /\ manager' = "asked" /\ ofono' = ofono
  BY QueueTypes, Calls DEF HandleManagerConnected, Take
<1>2. manager = "connecting"
  BY Chained DEF HandleManagerConnected
<1>3. TellInv'
  BY <1>1, TellDrop
<1> HIDE DEF r, m, c
<1>4. OfonoInv'
  BY <1>1, <1>2, QueueTail DEF QueueInv, OfonoInv
<1>5. AppearInv'
  BY <1>1, <1>2, QueueTail DEF QueueInv, AppearInv
<1>6. ChainInv'
  BY <1>1, <1>2, QueueTail, CallAppend DEF QueueInv, ChainInv
<1>7. QED
  BY <1>3, <1>4, <1>5, <1>6 DEF QueueInv

\* What Register asks of oFono is not about the list.
LEMMA RegisteredCalls ==
    ASSUME TypeInv, NEW paths \in Seq(Paths), PathsFree(Len(paths)), Register(paths)
    PROVE  Alike(calls', calls, ListCalls)
<1> DEFINE t == [i \in 1 .. Len(paths) |-> [call |-> "Connect", id |-> Len(objects) + i]]
<1>1. t \in Seq(Call') /\ calls \in Seq(Call') /\ calls' = calls \o t
  BY RegisteredLists
<1>2. None(t, ListCalls)
  <2>1. \A i \in DOMAIN t : t[i].call = "Connect"
    OBVIOUS
  <2>2. \A x \in ListCalls : x.call # "Connect"
    BY DEF ListCalls, GetModemsCalls, ConnectCalls
  <2>3. QED
    BY <2>1, <2>2 DEF None
<1> HIDE DEF t
<1>3. QED
  BY <1>1, <1>2, AlikeConcat

LEMMA QueueHandleModems ==
    ASSUME TypeInv, QueueInv, TellInv, HandleModems
    PROVE  QueueInv' /\ TellInv'
<1> DEFINE r == Tail(inbox) m == Head(inbox)
<1>1. r = Tail(inbox) /\ m = Head(inbox) /\ inbox' = r /\ inbox \in Seq(Message) /\ inbox # <<>>
      /\ m.msg = "modems" /\ m \in Message /\ AddModems(m.paths)
      /\ manager' \in {"listed", "unlisted"} /\ ofono' = ofono
  BY QueueTypes, HeadMessage DEF HandleModems, Take
<1>2. manager = "asked"
  BY Chained DEF HandleModems
<1>3. TellInv'
  BY <1>1, TellDrop
<1>4. Alike(calls', calls, ListCalls)
  <2>1. m.paths \in Seq(Paths)
    BY <1>1, MessageShape
  <2>2. PICK front \in Seq(Paths) : PathsFree(Len(front)) /\ Register(front)
    BY <1>1, <2>1, AddedFront
  <2>3. QED
    BY <2>2, RegisteredCalls
<1> HIDE DEF r, m
<1>5. OfonoInv'
  BY <1>1, <1>2, QueueTail DEF QueueInv, OfonoInv
<1>6. AppearInv'
  BY <1>1, <1>2, QueueTail DEF QueueInv, AppearInv
<1>7. ChainInv'
  BY <1>1, <1>2, <1>4, QueueTail, CallAlike DEF QueueInv, ChainInv
<1>8. QED
  BY <1>3, <1>5, <1>6, <1>7 DEF QueueInv

LEMMA QueueHandleAdded ==
    ASSUME TypeInv, QueueInv, TellInv, HandleAdded
    PROVE  QueueInv' /\ TellInv'
<1>1. inbox # <<>> /\ Head(inbox).msg = "added" /\ inbox' = Tail(inbox)
      /\ UNCHANGED <<ofono, manager>> /\ Head(inbox).path \in Paths
  BY HeadMessage, MessageShape DEF HandleAdded, Take
<1>2. Alike(calls', calls, ListCalls)
  <2>1. CASE Hears
    <3>1. <<Head(inbox).path>> \in Seq(Paths) /\ AddModems(<<Head(inbox).path>>)
      BY <1>1, <2>1, One DEF HandleAdded
    <3>2. PICK front \in Seq(Paths) : PathsFree(Len(front)) /\ Register(front)
      BY <3>1, AddedFront
    <3>3. QED
      BY <3>2, RegisteredCalls
  <2>2. CASE ~Hears
    <3>1. calls' = calls
      BY <2>2 DEF HandleAdded
    <3>2. QED
      BY <3>1, AlikeLaws
  <2>3. QED
    BY <2>1, <2>2
<1>3. QED
  BY <1>1, <1>2, QueueDrop, TellDrop

LEMMA QueueHandleRemoved ==
    ASSUME TypeInv, QueueInv, TellInv, HandleRemoved
    PROVE  QueueInv' /\ TellInv'
<1>1. inbox # <<>> /\ Head(inbox).msg = "removed" /\ inbox' = Tail(inbox)
      /\ UNCHANGED <<ofono, manager, calls>>
  BY DEF HandleRemoved, Take
<1>2. Alike(calls', calls, ListCalls)
  BY <1>1, AlikeLaws
<1>3. QED
  BY <1>1, <1>2, QueueDrop, TellDrop

\* What on_ofono_vanished leaves of the queues.
LEMMA VanishedQueues ==
    ASSUME TypeInv, HandleVanished
    PROVE  /\ Alike(inbox', Tail(inbox), Message \ Readies) /\ None(inbox', Readies)
           /\ Alike(calls', calls, Call \ ConnectCalls) /\ None(calls', ConnectCalls)
           /\ Tail(inbox) \in Seq(Message)
<1>1. Tail(inbox) \in Seq(Message) /\ calls \in Seq(Call)
  BY HeadMessage, QueueTypes DEF HandleVanished, Take
<1>2. /\ inbox' = Kept(Tail(inbox), Message \ Readies)
      /\ calls' = Kept(calls, Call \ ConnectCalls)
  BY DEF HandleVanished, Readies, ConnectCalls
<1>3. inbox' \in Seq(Message \ Readies) /\ calls' \in Seq(Call \ ConnectCalls)
      /\ Alike(inbox', Tail(inbox), Message \ Readies)
      /\ Alike(calls', calls, Call \ ConnectCalls)
  BY <1>1, <1>2, KeptAlike
<1>4. \A i \in DOMAIN inbox' : inbox'[i] \notin Readies
  BY <1>3, ElementOfSeq, LenProperties
<1>5. \A i \in DOMAIN calls' : calls'[i] \notin ConnectCalls
  BY <1>3, ElementOfSeq, LenProperties
<1>6. QED
  BY <1>1, <1>3, <1>4, <1>5 DEF None

LEMMA QueueHandleVanished ==
    ASSUME TypeInv, QueueInv, TellInv, HandleVanished, alive'
    PROVE  QueueInv' /\ TellInv' /\ Alike(inbox', Tail(inbox), ListMessages \ Readies)
<1> DEFINE r == Tail(inbox) m == Head(inbox)
<1>1. r = Tail(inbox) /\ m = Head(inbox) /\ inbox \in Seq(Message) /\ inbox # <<>>
      /\ m.msg = "vanished" /\ r \in Seq(Message)
      /\ manager' = "away" /\ manager # "asked" /\ ofono' = ofono
  BY QueueTypes, HeadMessage DEF HandleVanished, Take
<1>2. Alike(inbox', r, ListMessages \ Readies)
  <2>1. ListMessages \ Readies \subseteq Message \ Readies
    <3>1. ListMessages \subseteq Message
      BY DEF ListMessages, Message, Vanished, Appeared, Replies, Readies
    <3>2. QED
      BY <3>1
  <2>2. QED
    BY <2>1, VanishedQueues, AlikeLaws
<1>3. None(inbox', Readies) /\ None(calls', ConnectCalls)
  BY VanishedQueues
<1>4. None(calls', GetModemsCalls) <=> None(calls, GetModemsCalls)
  <2>1. GetModemsCalls \in SUBSET (Call \ ConnectCalls)
    BY DEF GetModemsCalls, ConnectCalls, Call
  <2>2. QED
    BY <2>1, VanishedQueues DEF Alike
<1> HIDE DEF r, m
<1>5. /\ After(inbox', Vanished, Appeared) <=> After(r, Vanished, Appeared)
      /\ None(inbox', Appeared) <=> None(r, Appeared)
      /\ Parted(inbox', Appeared, Vanished) <=> Parted(r, Appeared, Vanished)
      /\ None(inbox', Replies) <=> None(r, Replies)
  <2>1. /\ Vanished \in SUBSET (ListMessages \ Readies) /\ Appeared \in SUBSET (ListMessages \ Readies)
        /\ Replies \in SUBSET (ListMessages \ Readies) /\ Appeared \cap Vanished = {}
    BY ListSets DEF Vanished, Appeared, Replies, Readies
  <2>2. QED
    BY <1>2, <2>1 DEF Alike
<1>6. /\ Single(inbox', Readies) /\ Single(calls', ConnectCalls)
      /\ None(calls', GetModemsCalls) => Single(calls', GetModemsCalls)
      /\ None(inbox', Replies) => Single(inbox', Replies)
  BY <1>3 DEF None, Single
<1>7. OfonoInv'
  BY <1>1, <1>5, QueueTail DEF QueueInv, OfonoInv
<1>8. AppearInv'
  BY <1>1, <1>5, QueueTail DEF QueueInv, AppearInv
<1>9. ChainInv'
  BY <1>1, <1>3, <1>4, <1>5, <1>6, QueueTail DEF QueueInv, ChainInv
<1>10. ASSUME NEW p \in Paths
       PROVE  TellsOf(p, inbox', ofono'.modems[p].present)
  <2>1. /\ Comes(p) \in SUBSET (ListMessages \ Readies) /\ Goes(p) \in SUBSET (ListMessages \ Readies)
        /\ Signals(p) \in SUBSET (ListMessages \ Readies) /\ Lists(p) \in SUBSET (ListMessages \ Readies)
        /\ Omits(p) \in SUBSET (ListMessages \ Readies)
    <3>1. /\ Comes(p) \subseteq ListMessages /\ Goes(p) \subseteq ListMessages
          /\ Signals(p) \subseteq ListMessages /\ Lists(p) \subseteq ListMessages
          /\ Omits(p) \subseteq ListMessages
      BY ListSets
    <3>2. \A x \in Readies : x.msg = "managerConnected"
      BY DEF Readies
    <3>3. /\ \A x \in Comes(p) : x.msg = "added"
          /\ \A x \in Goes(p) : x.msg \in {"removed", "vanished"}
          /\ \A x \in Lists(p) \union Omits(p) : x.msg = "modems"
      BY DEF Comes, Goes, Vanished, Lists, Replies, Omits
    <3>4. \A x \in Signals(p) : x.msg \in {"added", "removed", "vanished"}
      BY <3>3 DEF Signals
    <3>5. QED
      BY <3>1, <3>2, <3>3, <3>4
  <2>2. /\ After(inbox', Comes(p), Goes(p)) <=> After(r, Comes(p), Goes(p))
        /\ After(inbox', Goes(p), Comes(p)) <=> After(r, Goes(p), Comes(p))
        /\ After(inbox', Lists(p), Signals(p)) <=> After(r, Lists(p), Signals(p))
        /\ After(inbox', Omits(p), Signals(p)) <=> After(r, Omits(p), Signals(p))
    BY <1>2, <2>1 DEF Alike
  <2>3. QED
    BY <1>1, <2>2, TellTail DEF TellInv, TellsOf
<1>11. QED
  BY <1>1, <1>2, <1>7, <1>8, <1>9, <1>10 DEF QueueInv, TellInv

\* The steps in which objects get something or are asked for something: the
\* calls that they make are not about the list.
LEMMA SetsNotListed ==
    ASSUME TypeInv, NEW t \in Seq(Call), calls' = calls \o t,
           \A i \in DOMAIN t : t[i].call \notin {"GetModems", "ManagerConnect"}
    PROVE  Alike(calls', calls, ListCalls)
<1>1. \A x \in ListCalls : x.call \in {"GetModems", "ManagerConnect"}
  BY DEF ListCalls, GetModemsCalls, ConnectCalls
<1>2. None(t, ListCalls)
  BY <1>1 DEF None
<1>3. calls \in Seq(Call)
  BY QueueTypes
<1>4. QED
  BY <1>2, <1>3, AlikeConcat

LEMMA OneCall ==
    ASSUME TypeInv, NEW t \in Seq(Call), calls' = calls \o t,
           NEW id, NEW v,
           \/ t = <<>> \/ t = <<[call |-> "GetProperties", id |-> id]>>
           \/ t = <<[call |-> "SetProperty", id |-> id, online |-> v]>>
    PROVE  Alike(calls', calls, ListCalls)
<1>1. \A i \in DOMAIN t : t[i].call \notin {"GetModems", "ManagerConnect"}
  OBVIOUS
<1>2. QED
  BY <1>1, SetsNotListed

LEMMA ObjectCalls ==
    ASSUME TypeInv,
           \/ HandleConnected \/ HandleProperties \/ HandleChanged
           \/ \E b \in BOOLEAN : RequestBlock(b) \/ \E index : RequestBlockIdx(index, b)
    PROVE  Alike(calls', calls, ListCalls)
<1>1. CASE HandleConnected
  <2> DEFINE id == Head(inbox).id t == <<[call |-> "GetProperties", id |-> id]>>
  <2>1. id \in Ids
    BY <1>1, HeadMessage, MessageShape DEF HandleConnected, Take
  <2>2. t \in Seq(Call) /\ calls' = calls \o t
    BY <1>1, <2>1, Calls, One DEF HandleConnected, ProxyReadyCalls
  <2>3. QED
    BY <2>2, OneCall
<1>2. CASE HandleProperties
  <2> DEFINE m == Head(inbox) id == m.id t == PoweredCalls(objects[id], id, m.powered)
  <2>1. id \in Ids /\ m.powered \in BOOLEAN /\ objects[id] \in Device
    BY <1>2, HeadMessage, MessageShape, ObjectTypes DEF HandleProperties, Take
  <2>2. calls' = calls \o t
    BY <1>2 DEF HandleProperties, PropertiesCalls
  <2>3. t \in Seq(Call) /\ (t = <<>> \/ t = <<[call |-> "SetProperty", id |-> id, online |-> ~objects[id].soft]>>)
    BY <2>1, PoweredCallsType
  <2> HIDE DEF t
  <2>4. QED
    BY <2>2, <2>3, OneCall
<1>3. CASE HandleChanged
  <2> DEFINE m == Head(inbox) s == Senders(m.path)
             t == [i \in 1 .. Len(s) |-> [call |-> "SetProperty", id |-> s[i], online |-> ~objects[s[i]].soft]]
  <2>1. calls' = calls \/ calls' = calls \o t
    BY <1>3, ChangedParts
  <2>2. s \in Seq(Ids)
    BY ObjectTypes, FunctionIsSeq, KeptAlike DEF Senders
  <2>3. Len(s) \in Nat /\ \A i \in 1 .. Len(s) : s[i] \in Ids
    BY <2>2, ElementOfSeq, LenProperties
  <2> HIDE DEF s
  <2>4. t \in [1 .. Len(s) -> Call]
    BY <2>3, Calls, ObjectTypes
  <2>5. t \in Seq(Call)
    BY <2>3, <2>4, FunctionIsSeq
  <2>6. \A i \in DOMAIN t : t[i].call \notin {"GetModems", "ManagerConnect"}
    OBVIOUS
  <2> HIDE DEF t
  <2>7. CASE calls' = calls
    BY <2>7, AlikeLaws
  <2>8. CASE calls' = calls \o t
    BY <2>5, <2>6, <2>8, SetsNotListed
  <2>9. QED
    BY <2>1, <2>7, <2>8, SMTT(30)
<1>4. ASSUME NEW b \in BOOLEAN, RequestBlock(b)
      PROVE  Alike(calls', calls, ListCalls)
  <2> DEFINE t == SetCalls(Reverse(devices), b)
  <2>1. Reverse(devices) \in Seq(Ids)
    BY ReverseParts DEF TypeInv, TypeOK
  <2>2. t \in Seq(Call) /\ calls' = calls \o t
    BY <1>4, BlockedParts
  <2>3. \A i \in DOMAIN t : \E id \in ToSet(Reverse(devices)) :
          t[i] = [call |-> "SetProperty", id |-> id, online |-> ~b]
    BY <2>1, SetCallsParts
  <2> HIDE DEF t
  <2>4. \A i \in DOMAIN t : t[i].call \notin {"GetModems", "ManagerConnect"}
    BY <2>3
  <2>5. QED
    BY <2>2, <2>4, SetsNotListed
<1>5. ASSUME NEW b \in BOOLEAN, NEW index, RequestBlockIdx(index, b)
      PROVE  Alike(calls', calls, ListCalls)
  <2>1. PICK id \in Ids :
             /\ SoftCalls(objects[id], id, b) \in Seq(Call)
             /\ calls' = calls \o SoftCalls(objects[id], id, b)
    BY <1>5, BlockedIdxParts
  <2> DEFINE t == SoftCalls(objects[id], id, b)
  <2>2. t = <<>> \/ t = <<[call |-> "SetProperty", id |-> id, online |-> ~b]>>
    BY DEF SoftCalls
  <2> HIDE DEF t
  <2>3. QED
    BY <2>1, <2>2, OneCall DEF t
<1>6. QED
  BY <1>1, <1>2, <1>3, <1>4, <1>5

\* ... and nothing of what is on its way to the list, and no path, is changed.
LEMMA ObjectsFrame ==
    ASSUME TypeInv, TypeInv',
           \/ HandleConnected \/ HandleProperties \/ HandleChanged
           \/ \E b \in BOOLEAN : RequestBlock(b) \/ \E index : RequestBlockIdx(index, b)
    PROVE  /\ Alike(inbox', inbox, ListMessages)
           /\ UNCHANGED <<ofono, manager, devices, leftover, refused, deaf, unread, missed, modem_idx, alive>>
           /\ Ids' = Ids
           /\ \A id \in Ids : objects'[id].path = objects[id].path
<1>1. UNCHANGED <<ofono, manager, devices, leftover, refused, deaf, unread, missed, modem_idx, alive>>
  BY DEF HandleConnected, HandleProperties, HandleChanged, RequestBlock, RequestBlockIdx, failures
<1>2. CASE HandleConnected \/ HandleProperties \/ HandleChanged
  <2>1. inbox # <<>> /\ inbox' = Tail(inbox) /\ Head(inbox).msg \in {"connected", "properties", "changed"}
        /\ inbox \in Seq(Message) /\ Head(inbox) \in Message
    BY <1>2, HeadMessage, QueueTypes DEF HandleConnected, HandleProperties, HandleChanged, Take
  <2>2. Head(inbox) \notin ListMessages
    BY <2>1, Sorts
  <2>3. Alike(inbox', inbox, ListMessages)
    BY <2>1, <2>2, AlikeTail
  <2>4. objects' \in [Ids -> Device] /\ \A id \in Ids : objects'[id].path = objects[id].path
    <3>1. CASE HandleConnected
      <4> DEFINE id == Head(inbox).id
      <4>1. id \in Ids /\ objects[id] \in Device /\ objects' = [objects EXCEPT ![id] = ProxyReady(objects[id])]
        BY <2>1, <3>1, MessageShape, ObjectTypes DEF HandleConnected, Take
      <4> HIDE DEF id
      <4>2. ProxyReady(objects[id]) \in Device /\ ProxyReady(objects[id]).path = objects[id].path
        BY <4>1, DeviceTypes
      <4>3. QED
        BY <4>1, <4>2, OneObject
    <3>2. CASE HandleProperties
      <4> DEFINE m == Head(inbox) id == m.id d == PropertiesRead(objects[id], m.online)
      <4>1. id \in Ids /\ objects[id] \in Device /\ objects' = [objects EXCEPT ![id] = d]
        BY <2>1, <3>2, MessageShape, ObjectTypes DEF HandleProperties, Take
      <4>2. d \in Device /\ d.path = objects[id].path
        BY <4>1, DeviceTypes
      <4> HIDE DEF d, id
      <4>3. QED
        BY <4>1, <4>2, OneObject
    <3>3. CASE HandleChanged
      <4> DEFINE m == Head(inbox)
      <4>1. /\ objects' \in [Ids -> Device]
            /\ \A id \in Ids : objects'[id] = IF id \in Hearers(m.path)
                                   THEN PropertyChanged(objects[id], m.name, m.value)
                                   ELSE objects[id]
        BY <3>3, ChangedParts
      <4> HIDE DEF m
      <4>2. \A id \in Ids : objects[id] \in Device
        BY ObjectTypes
      <4>3. \A id \in Ids : PropertyChanged(objects[id], m.name, m.value).path = objects[id].path
        BY <4>2, DeviceTypes
      <4>4. QED
        BY <4>1, <4>3
    <3>4. QED
      BY <1>2, <3>1, <3>2, <3>3
  <2>5. QED
    BY <1>1, <2>3, <2>4, SMTT(30) DEF Ids
<1>3. CASE \E b \in BOOLEAN : RequestBlock(b) \/ \E index : RequestBlockIdx(index, b)
  <2>1. inbox' = inbox
    BY <1>3 DEF RequestBlock, RequestBlockIdx
  <2>2. Alike(inbox', inbox, ListMessages)
    BY <2>1, AlikeLaws
  <2>3. \A id \in Ids : objects[id] \in Device
    BY ObjectTypes
  <2>4. \A id \in Ids, b \in BOOLEAN : SoftSet(objects[id], b).path = objects[id].path
    BY <2>3, DeviceTypes
  <2>5. objects' \in [Ids -> Device] /\ \A id \in Ids : objects'[id].path = objects[id].path
    <3>1. ASSUME NEW b \in BOOLEAN, RequestBlock(b)
          PROVE  objects' \in [Ids -> Device] /\ \A id \in Ids : objects'[id].path = objects[id].path
      BY <2>4, <3>1, BlockedParts
    <3>2. ASSUME NEW b \in BOOLEAN, NEW index, RequestBlockIdx(index, b)
          PROVE  objects' \in [Ids -> Device] /\ \A id \in Ids : objects'[id].path = objects[id].path
      <4>1. PICK id \in Ids :
             /\ objects' \in [Ids -> Device] /\ objects'[id] = SoftSet(objects[id], b)
             /\ \A a \in Ids : a # id => objects'[a] = objects[a]
        BY <3>2, BlockedIdxParts
      <4>2. QED
        BY <2>4, <4>1
    <3>3. QED
      BY <1>3, <3>1, <3>2
  <2>6. QED
    BY <1>1, <2>2, <2>5 DEF Ids
<1>4. QED
  BY <1>2, <1>3, SMTT(30)

LEMMA QueueStep ==
    ASSUME TypeInv, TypeInv', alive', QueueInv, TellInv, [Next]_vars
    PROVE  QueueInv' /\ TellInv'
<1>1. CASE Outside
  BY <1>1, QueueOfonoStart, QueueOfonoStop, QueueModemAdded, QueueModemRemoved, QueueModemPowered DEF Outside
<1>2. CASE Answer
  BY <1>2, QueueAnswer
<1>3. CASE Handle \/ Request
  <2>1. CASE \/ HandleConnected \/ HandleProperties \/ HandleChanged
             \/ \E b \in BOOLEAN : RequestBlock(b) \/ \E index : RequestBlockIdx(index, b)
    <3>1. /\ Alike(inbox', inbox, ListMessages) /\ Alike(calls', calls, ListCalls)
          /\ ofono' = ofono /\ manager' = manager
      BY <2>1, ObjectsFrame, ObjectCalls
    <3>2. QED
      BY <3>1, QueueFrame
  <2>2. QED
    BY <1>3, <2>1, QueueHandleAppeared, QueueHandleManagerConnected, QueueHandleModems, QueueHandleAdded,
       QueueHandleRemoved, QueueHandleVanished DEF Handle, Request
<1>4. CASE UNCHANGED vars
  <2>1. ofono' = ofono /\ manager' = manager /\ inbox' = inbox /\ calls' = calls
    BY <1>4 DEF vars
  <2>2. Alike(inbox', inbox, ListMessages) /\ Alike(calls', calls, ListCalls)
    BY <2>1, AlikeLaws
  <2>3. QED
    BY <2>1, <2>2, QueueFrame
<1>5. QED
  BY <1>1, <1>2, <1>3, <1>4 DEF Next

(***************************************************************************)
(* What the steps do to the list.                                          *)
(***************************************************************************)
LEMMA ForSame ==
    ASSUME TypeInv, UNCHANGED devices, \A id \in Ids : objects'[id].path = objects[id].path
    PROVE  \A p \in Paths : For(p)' = For(p)
BY ObjectTypes DEF For

LEMMA ListOutside ==
    ASSUME TypeInv, ListInv, UNCHANGED <<manager, leftover, devices>>, Ids \subseteq Ids',
           \A id \in Ids : objects'[id].path = objects[id].path,
           \A p \in Paths : None(inbox', Signals(p)) =>
             /\ None(inbox, Signals(p))
             /\ ofono'.modems[p].present <=> ofono.modems[p].present
    PROVE  ListInv'
<1>1. \A p \in Paths : For(p)' = For(p) /\ For(p) \subseteq Ids
  BY ForSame, ObjectTypes
<1>2. AwayInv'
  BY <1>1 DEF ListInv, AwayInv
<1>3. OnceInv'
  BY <1>1 DEF ListInv, OnceInv
<1>4. GoneInv'
  BY <1>1 DEF ListInv, GoneInv, Hears
<1>5. HereInv'
  BY <1>1 DEF ListInv, HereInv
<1>6. QED
  BY <1>2, <1>3, <1>4, <1>5 DEF ListInv

\* Whom no signal is under way about was so before as well.
LEMMA UnheardOutside ==
    ASSUME TypeInv, QueueInv, TellInv, Outside, NEW p \in Paths, None(inbox', Signals(p))
    PROVE  None(inbox, Signals(p)) /\ (ofono'.modems[p].present <=> ofono.modems[p].present)
<1>1. inbox \in Seq(Message)
  BY QueueTypes
<1>2. CASE OfonoStart
  <2> DEFINE m == [msg |-> "appeared"]
  <2>1. m \in Message /\ inbox' = Append(inbox, m)
    BY <1>2, Messages DEF OfonoStart
  <2>2. ofono'.modems = ofono.modems
    BY <1>2 DEF OfonoStart, TypeInv, TypeOK
  <2> HIDE DEF m
  <2>3. None(inbox, Signals(p))
    BY <1>1, <2>1, TellAppend
  <2>4. QED
    BY <2>2, <2>3
<1>3. CASE OfonoStop
  <2> DEFINE m == [msg |-> "vanished"]
  <2>1. m \in Message /\ m.msg = "vanished" /\ Alike(inbox', Append(inbox, m), ListMessages)
    BY <1>3, Stopped
  <2>2. m \in Signals(p)
    BY <2>1, Sorts
  <2> HIDE DEF m
  <2>3. ~None(Append(inbox, m), Signals(p))
    BY <1>1, <2>1, <2>2, TellAppend
  <2>4. QED
    BY <2>1, <2>3, QueueAlike
<1>4. ASSUME NEW q \in Paths, ModemAdded(q)
      PROVE  None(inbox, Signals(p)) /\ (ofono'.modems[p].present <=> ofono.modems[p].present)
  <2> DEFINE m == [msg |-> "added", path |-> q]
  <2>1. inbox' = Append(inbox, m) /\ \A r \in Paths : r # q => ofono'.modems[r] = ofono.modems[r]
    BY <1>4, QueueModemAdded
  <2>2. m \in Message /\ m.msg = "added" /\ m.path = q
    BY Messages
  <2> HIDE DEF m
  <2>3. m \in Signals(p) <=> p = q
    BY <2>2, Sorts
  <2>4. QED
    BY <1>1, <2>1, <2>2, <2>3, TellAppend
<1>5. ASSUME NEW q \in Paths, ModemRemoved(q)
      PROVE  None(inbox, Signals(p)) /\ (ofono'.modems[p].present <=> ofono.modems[p].present)
  <2> DEFINE m == [msg |-> "removed", path |-> q]
  <2>1. inbox' = Append(inbox, m) /\ \A r \in Paths : r # q => ofono'.modems[r] = ofono.modems[r]
    BY <1>5, QueueModemRemoved
  <2>2. m \in Message /\ m.msg = "removed" /\ m.path = q
    BY Messages
  <2> HIDE DEF m
  <2>3. m \in Signals(p) <=> p = q
    BY <2>2, Sorts
  <2>4. QED
    BY <1>1, <2>1, <2>2, <2>3, TellAppend
<1>6. ASSUME NEW q \in Paths, ModemPowered(q)
      PROVE  None(inbox, Signals(p)) /\ (ofono'.modems[p].present <=> ofono.modems[p].present)
  <2>1. ofono'.modems[q].present /\ ofono.modems[q].present
        /\ \A r \in Paths : r # q => ofono'.modems[r] = ofono.modems[r]
    BY <1>6, PoweredModems
  <2>2. Alike(inbox', inbox, ListMessages)
    BY <1>6, PoweredInbox
  <2>3. QED
    BY <2>1, <2>2, QueueAlike
<1>7. QED
  BY <1>2, <1>3, <1>4, <1>5, <1>6 DEF Outside

LEMMA ListOfOutside ==
    ASSUME TypeInv, QueueInv, TellInv, ListInv, Outside
    PROVE  ListInv'
<1>1. UNCHANGED <<manager, leftover, devices, objects>>
  BY DEF Outside, OfonoStart, OfonoStop, ModemAdded, ModemRemoved, ModemPowered, daemonVars
<1>2. Ids' = Ids /\ \A id \in Ids : objects'[id].path = objects[id].path
  BY <1>1 DEF Ids
<1>3. QED
  BY <1>1, <1>2, UnheardOutside, ListOutside, SMTT(30)

LEMMA UnheardAnswer ==
    ASSUME TypeInv, QueueInv, TellInv, Answer, NEW p \in Paths
    PROVE  /\ None(inbox', Signals(p)) <=> None(inbox, Signals(p))
           /\ ofono'.modems[p].present <=> ofono.modems[p].present
<1>1. /\ Alike(inbox', inbox, ListMessages \ (Replies \union Readies))
      /\ ofono'.modems[p].present <=> ofono.modems[p].present
  BY QueueAnswer
<1>2. \A x \in Signals(p) : x.msg \in {"added", "removed", "vanished"}
  BY DEF Signals, Comes, Goes, Vanished
<1>3. \A x \in Replies \union Readies : x.msg \in {"modems", "managerConnected"}
  BY DEF Replies, Readies
<1>4. Signals(p) \subseteq ListMessages
  BY ListSets
<1>5. Signals(p) \in SUBSET (ListMessages \ (Replies \union Readies))
  BY <1>2, <1>3, <1>4
<1>6. QED
  BY <1>1, <1>5 DEF Alike

LEMMA ListOfAnswer ==
    ASSUME TypeInv, QueueInv, TellInv, ListInv, Answer
    PROVE  ListInv'
<1>1. UNCHANGED <<manager, leftover, devices, objects>>
  BY DEF Answer, daemonVars
<1>2. Ids' = Ids /\ \A id \in Ids : objects'[id].path = objects[id].path
  BY <1>1 DEF Ids
<1>3. QED
  BY <1>1, <1>2, UnheardAnswer, ListOutside

LEMMA ListOfObjects ==
    ASSUME TypeInv, TypeInv', ListInv,
           \/ HandleConnected \/ HandleProperties \/ HandleChanged
           \/ \E b \in BOOLEAN : RequestBlock(b) \/ \E index : RequestBlockIdx(index, b)
    PROVE  ListInv'
<1>1. /\ Alike(inbox', inbox, ListMessages)
      /\ UNCHANGED <<ofono, manager, devices, leftover>>
      /\ Ids' = Ids
      /\ \A id \in Ids : objects'[id].path = objects[id].path
  BY ObjectsFrame
<1>2. \A p \in Paths : None(inbox', Signals(p)) <=> None(inbox, Signals(p))
  BY <1>1, QueueAlike
<1>3. QED
  BY <1>1, <1>2, ListOutside

LEMMA ListOfManager ==
    ASSUME TypeInv, QueueInv, ListInv, HandleAppeared \/ HandleManagerConnected
    PROVE  ListInv'
<1>1. UNCHANGED <<ofono, leftover, devices, objects>> /\ inbox # <<>> /\ inbox' = Tail(inbox)
  BY DEF HandleAppeared, HandleManagerConnected, Take
<1>2. Ids' = Ids /\ \A p \in Paths : For(p)' = For(p)
  BY <1>1 DEF Ids, For
<1>3. /\ manager \in {"away", "connecting"} /\ manager' \in {"connecting", "asked"}
  BY Chained DEF HandleAppeared, HandleManagerConnected
<1>4. \A p \in Paths : For(p) # {} => p \in leftover
  BY <1>3 DEF ListInv, AwayInv
<1>5. AwayInv' /\ OnceInv'
  BY <1>1, <1>2, <1>4 DEF ListInv, AwayInv, OnceInv
<1>6. GoneInv' /\ HereInv'
  BY <1>1, <1>2, <1>3, <1>4 DEF ListInv, GoneInv, HereInv
<1>7. QED
  BY <1>5, <1>6 DEF ListInv

LEMMA ListOfVanished ==
    ASSUME TypeInv, ListInv, HandleVanished
    PROVE  ListInv'
<1>1. UNCHANGED <<ofono, devices, objects>> /\ manager' = "away" /\ leftover' = leftover \union Listed(devices)
  BY DEF HandleVanished
<1>2. Ids' = Ids /\ \A p \in Paths : For(p)' = For(p)
  BY <1>1 DEF Ids, For
<1>3. \A p \in Paths : For(p) # {} => p \in Listed(devices)
  BY DEF For, Listed, ToSet
<1>4. AwayInv' /\ OnceInv'
  BY <1>1, <1>2, <1>3 DEF ListInv, AwayInv, OnceInv
<1>5. GoneInv' /\ HereInv'
  BY <1>1 DEF GoneInv, HereInv, Hears
<1>6. QED
  BY <1>4, <1>5 DEF ListInv

\* The objects of a path when paths have been registered.
LEMMA ForMore ==
    ASSUME TypeInv, NEW paths \in Seq(Paths), PathsFree(Len(paths)), Register(paths)
    PROVE  \A p \in Paths :
             /\ For(p)' = For(p) \union {Len(objects) + i : i \in {j \in 1 .. Len(paths) : paths[j] = p}}
             /\ \A i \in 1 .. Len(paths) : Len(objects) + i \notin Ids
<1> DEFINE n == Len(objects) k == Len(paths)
<1>1. /\ n \in Nat /\ k \in Nat /\ Ids = 1 .. n /\ ToSet(devices) \subseteq Ids
  BY ObjectTypes, LenProperties
<1>2. /\ \A id \in Ids : objects'[id] = objects[id]
      /\ \A i \in 1 .. k : objects'[n + i].path = paths[i]
  BY Registered
<1>3. ToSet(devices') = ToSet(devices) \union {n + i : i \in 1 .. k}
  BY RegisteredLists
<1>4. \A i \in 1 .. k : n + i \notin Ids
  BY <1>1
<1> HIDE DEF n, k
<1>5. ASSUME NEW p \in Paths
      PROVE  For(p)' = For(p) \union {n + i : i \in {j \in 1 .. k : paths[j] = p}}
  <2>1. For(p)' = {id \in ToSet(devices) : objects'[id].path = p}
                    \union {id \in {n + i : i \in 1 .. k} : objects'[id].path = p}
    BY <1>3 DEF For
  <2>2. {id \in ToSet(devices) : objects'[id].path = p} = For(p)
    BY <1>1, <1>2 DEF For
  <2>3. {id \in {n + i : i \in 1 .. k} : objects'[id].path = p} = {n + i : i \in {j \in 1 .. k : paths[j] = p}}
    BY <1>2
  <2>4. QED
    BY <2>1, <2>2, <2>3
<1>6. QED
  BY <1>4, <1>5 DEF n, k

\* The part about a path being in the list once, when paths are registered of
\* which none occurs twice.
LEMMA OnceMore ==
    ASSUME TypeInv, TypeInv', OnceInv, NEW paths \in Seq(Paths), IsInjective(paths),
           PathsFree(Len(paths)), Register(paths), leftover' = leftover \union Again(paths)
    PROVE  OnceInv'
<1> SUFFICES ASSUME NEW p \in Paths, NEW a, NEW b, a \in For(p)', b \in For(p)', p \notin leftover'
             PROVE  a = b
  BY DEF OnceInv
<1> DEFINE N(q) == {Len(objects) + i : i \in {j \in 1 .. Len(paths) : paths[j] = q}}
<1>1. For(p)' = For(p) \union N(p)
  BY ForMore
<1>2. p \notin leftover /\ p \notin Again(paths)
  OBVIOUS
<1>3. \A c, d \in For(p) : c = d
  BY <1>2, ObjectTypes DEF OnceInv
<1>4. DOMAIN paths = 1 .. Len(paths) /\ \A i, j \in 1 .. Len(paths) : paths[i] = paths[j] => i = j
  BY LenProperties DEF IsInjective
<1>5. \A c, d \in N(p) : c = d
  BY <1>4
<1>6. For(p) = {} \/ N(p) = {}
  <2> SUFFICES ASSUME For(p) # {}, N(p) # {} PROVE FALSE
    OBVIOUS
  <2>1. p \in Listed(devices)
    BY DEF For, Listed, ToSet
  <2>2. p \in ToSet(paths)
    BY <1>4 DEF ToSet
  <2>3. QED
    BY <1>2, <2>1, <2>2 DEF Again
<1> HIDE DEF N
<1>7. QED
  BY <1>1, <1>3, <1>5, <1>6

LEMMA HeardModems ==
    ASSUME TypeInv, TellInv, HandleModems, NEW p \in Paths, None(inbox', Signals(p))
    PROVE  LET m == Head(inbox)
           IN  /\ p \in ToSet(m.paths) => ofono.modems[p].present
               /\ p \notin ToSet(m.paths) /\ m.ok => ~ofono.modems[p].present
               /\ None(inbox, Signals(p))
<1> DEFINE r == Tail(inbox) m == Head(inbox)
<1>1. /\ r = Tail(inbox) /\ m = Head(inbox) /\ inbox' = r /\ inbox \in Seq(Message) /\ inbox # <<>>
      /\ m.msg = "modems" /\ m \in Message
  BY QueueTypes, HeadMessage DEF HandleModems, Take
<1>2. /\ m \notin Signals(p)
      /\ m \in Lists(p) <=> p \in ToSet(m.paths)
      /\ m \in Omits(p) <=> m.ok /\ p \notin ToSet(m.paths)
  BY <1>1, Sorts
<1>3. TellsOf(p, inbox, ofono.modems[p].present)
  BY DEF TellInv
<1> HIDE DEF r, m
<1>4. /\ p \in ToSet(m.paths) => ofono.modems[p].present
      /\ p \notin ToSet(m.paths) /\ m.ok => ~ofono.modems[p].present
      /\ None(inbox, Signals(p))
  BY <1>1, <1>2, <1>3, TellTail DEF TellsOf
<1>5. QED
  BY <1>1, <1>4

LEMMA HeardSignal ==
    ASSUME TypeInv, TellInv, NEW p \in Paths, inbox # <<>>, inbox' = Tail(inbox), None(inbox', Signals(p)),
           Head(inbox).msg \in {"added", "removed"}
    PROVE  LET m == Head(inbox)
           IN  /\ m.path \in Paths
               /\ p = m.path /\ m.msg = "added" => ofono.modems[p].present
               /\ p = m.path /\ m.msg = "removed" => ~ofono.modems[p].present
               /\ p # m.path => None(inbox, Signals(p))
<1> DEFINE r == Tail(inbox) m == Head(inbox) q == m.path
<1>1. /\ r = Tail(inbox) /\ m = Head(inbox) /\ inbox' = r /\ inbox \in Seq(Message) /\ inbox # <<>>
      /\ m \in Message /\ q \in Paths
  BY QueueTypes, HeadMessage, MessageShape
<1>2. /\ m \in Signals(p) <=> p = q
      /\ m \in Comes(p) <=> p = q /\ m.msg = "added"
      /\ m \in Goes(p) <=> p = q /\ m.msg = "removed"
  BY <1>1, Sorts
<1>3. TellsOf(p, inbox, ofono.modems[p].present)
  BY DEF TellInv
<1> HIDE DEF r, m, q
<1>4. /\ p = q /\ m.msg = "added" => ofono.modems[p].present
      /\ p = q /\ m.msg = "removed" => ~ofono.modems[p].present
      /\ p # q => None(inbox, Signals(p))
  BY <1>1, <1>2, <1>3, TellTail DEF TellsOf
<1>5. QED
  BY <1>1, <1>4 DEF q

LEMMA ListOfModems ==
    ASSUME TypeInv, TypeInv', QueueInv, TellInv, ListInv, HandleModems, alive'
    PROVE  ListInv'
<1> DEFINE r == Tail(inbox) m == Head(inbox)
<1>1. /\ r = Tail(inbox) /\ m = Head(inbox) /\ inbox' = r /\ inbox \in Seq(Message) /\ inbox # <<>>
      /\ m.msg = "modems" /\ m \in Message /\ m \notin Garbled /\ AddModems(m.paths)
      /\ m.ok => manager' = "listed"
      /\ ~m.ok => manager' = "unlisted"
      /\ UNCHANGED ofono /\ leftover' = leftover \union Again(m.paths)
  BY QueueTypes, HeadMessage DEF HandleModems, Take
<1>2. manager = "asked"
  BY Chained DEF HandleModems
<1>3. m.paths \in Seq(Paths) /\ m.ok \in BOOLEAN /\ IsInjective(m.paths)
  BY <1>1, MessageShape DEF Garbled
<1> DEFINE paths == m.paths
<1>4. paths \in Seq(Paths) /\ IsInjective(paths) /\ PathsFree(Len(paths)) /\ Register(paths)
      /\ leftover' = leftover \union Again(paths)
  BY <1>1, <1>3, AddedFront
<1>5. ASSUME NEW p \in Paths
      PROVE  /\ For(p) \subseteq For(p)'
             /\ p \notin ToSet(paths) => For(p)' = For(p)
             /\ p \in ToSet(paths) => For(p)' # {}
  <2>1. For(p)' = For(p) \union {Len(objects) + i : i \in {j \in 1 .. Len(paths) : paths[j] = p}}
    BY <1>4, ForMore
  <2>2. p \in ToSet(paths) <=> \E j \in 1 .. Len(paths) : paths[j] = p
    BY <1>4, LenProperties DEF ToSet
  <2> HIDE DEF r, m, paths
  <2>3. QED
    BY <2>1, <2>2
<1>6. ASSUME NEW p \in Paths, None(inbox', Signals(p))
       PROVE  /\ p \in ToSet(paths) => ofono.modems[p].present
              /\ p \notin ToSet(paths) /\ m.ok => ~ofono.modems[p].present
              /\ None(inbox, Signals(p))
  BY <1>6, HeardModems
<1> HIDE DEF r, m, paths
<1>7. OnceInv'
  BY <1>4, OnceMore DEF ListInv
<1>8. AwayInv'
  BY <1>1, <1>3 DEF AwayInv
<1>9. GoneInv'
  <2> SUFFICES ASSUME NEW p \in Paths, p \notin leftover', ~ofono'.modems[p].present, None(inbox', Signals(p))
               PROVE  For(p)' = {}
    BY DEF GoneInv
  <2>1. p \notin ToSet(paths) /\ None(inbox, Signals(p)) /\ For(p)' = For(p)
    BY <1>1, <1>5, <1>6
  <2>2. Hears /\ p \notin leftover /\ ~ofono.modems[p].present
    BY <1>1, <1>2 DEF Hears
  <2>3. QED
    BY <2>1, <2>2 DEF ListInv, GoneInv
<1>10. HereInv'
  <2> SUFFICES ASSUME NEW p \in Paths, manager' = "listed", ofono'.modems[p].present, None(inbox', Signals(p))
               PROVE  For(p)' # {}
    BY DEF HereInv
  <2>1. m.ok
    BY <1>1, <1>3
  <2>2. p \in ToSet(paths)
    BY <1>1, <1>6, <2>1
  <2>3. QED
    BY <1>5, <2>2
<1>11. QED
  BY <1>7, <1>8, <1>9, <1>10 DEF ListInv

LEMMA ListOfAdded ==
    ASSUME TypeInv, TypeInv', QueueInv, TellInv, ListInv, HandleAdded, alive'
    PROVE  ListInv'
<1> DEFINE r == Tail(inbox) m == Head(inbox) q == m.path
<1>1. /\ r = Tail(inbox) /\ m = Head(inbox) /\ inbox' = r /\ inbox \in Seq(Message) /\ inbox # <<>>
      /\ m.msg = "added" /\ m \in Message /\ UNCHANGED <<ofono, manager>> /\ q \in Paths
  BY QueueTypes, HeadMessage, MessageShape DEF HandleAdded, Take
<1>2. ASSUME NEW p \in Paths, None(inbox', Signals(p))
      PROVE  /\ p = q => ofono.modems[p].present
             /\ p # q => None(inbox, Signals(p))
  BY <1>1, <1>2, HeardSignal
<1>3. CASE Hears
  <2> DEFINE paths == <<q>>
  <2>1. /\ paths \in Seq(Paths) /\ Len(paths) = 1 /\ paths[1] = q /\ IsInjective(paths)
        /\ AddModems(paths) /\ leftover' = leftover \union Again(paths)
    BY <1>1, <1>3, One DEF HandleAdded, IsInjective
  <2> HIDE DEF paths
  <2>2. PathsFree(Len(paths)) /\ Register(paths)
    BY <2>1, AddedFront
  <2>3. ASSUME NEW p \in Paths
        PROVE  /\ p # q => For(p)' = For(p)
               /\ p = q => For(p)' # {}
               /\ For(p) \subseteq For(p)'
    <3>1. For(p)' = For(p) \union {Len(objects) + i : i \in {j \in 1 .. Len(paths) : paths[j] = p}}
      BY <2>1, <2>2, ForMore
    <3>2. /\ p = q => {j \in 1 .. Len(paths) : paths[j] = p} # {}
          /\ p # q => {j \in 1 .. Len(paths) : paths[j] = p} = {}
      BY <2>1
    <3>3. QED
      BY <3>1, <3>2
  <2> HIDE DEF r, m, q
  <2>4. OnceInv'
    BY <2>1, <2>2, OnceMore DEF ListInv
  <2>5. AwayInv'
    BY <1>1, <1>3 DEF AwayInv, Hears
  <2>6. GoneInv'
    <3> SUFFICES ASSUME NEW p \in Paths, p \notin leftover', ~ofono'.modems[p].present, None(inbox', Signals(p))
                 PROVE  For(p)' = {}
      BY DEF GoneInv
    <3>1. p # q /\ None(inbox, Signals(p)) /\ p \notin leftover /\ ~ofono.modems[p].present
      BY <1>1, <1>2, <2>1
    <3>2. For(p) = {}
      BY <1>3, <3>1 DEF ListInv, GoneInv
    <3>3. QED
      BY <2>3, <3>1, <3>2
  <2>7. HereInv'
    <3> SUFFICES ASSUME NEW p \in Paths, manager' = "listed", ofono'.modems[p].present, None(inbox', Signals(p))
                 PROVE  For(p)' # {}
      BY DEF HereInv
    <3>1. CASE p = q
      BY <2>3, <3>1
    <3>2. CASE p # q
      <4>1. For(p) # {}
        BY <1>1, <1>2, <3>2 DEF ListInv, HereInv
      <4>2. QED
        BY <2>3, <4>1
    <3>3. QED
      BY <3>1, <3>2
  <2>8. QED
    BY <2>4, <2>5, <2>6, <2>7 DEF ListInv
<1>4. CASE ~Hears
  <2>1. UNCHANGED <<manager, devices, objects, leftover>> /\ manager # "listed"
    BY <1>4 DEF HandleAdded, Hears
  <2>2. Ids' = Ids /\ \A p \in Paths : For(p)' = For(p)
    BY <2>1 DEF Ids, For
  <2>3. QED
    BY <1>4, <2>1, <2>2 DEF ListInv, AwayInv, OnceInv, GoneInv, HereInv, Hears
<1>5. QED
  BY <1>3, <1>4

LEMMA ListOfRemoved ==
    ASSUME TypeInv, TypeInv', QueueInv, TellInv, ListInv, HandleRemoved
    PROVE  ListInv'
<1> DEFINE r == Tail(inbox) m == Head(inbox) q == m.path
<1>1. /\ r = Tail(inbox) /\ m = Head(inbox) /\ inbox' = r /\ inbox \in Seq(Message) /\ inbox # <<>>
      /\ m.msg = "removed" /\ m \in Message /\ UNCHANGED <<ofono, manager, objects, leftover>> /\ q \in Paths
  BY QueueTypes, HeadMessage, MessageShape DEF HandleRemoved, Take
<1>2. ASSUME NEW p \in Paths, None(inbox', Signals(p))
      PROVE  /\ p = q => ~ofono.modems[p].present
             /\ p # q => None(inbox, Signals(p))
  BY <1>1, <1>2, HeardSignal
<1>3. CASE Hears
  <2>1. RemoveModem(q)
    BY <1>3 DEF HandleRemoved
  <2>2. ASSUME NEW p \in Paths
        PROVE  /\ For(p)' \subseteq For(p) /\ For(p) \subseteq Ids
               /\ p # q => For(p)' = For(p)
               /\ p = q /\ p \notin leftover => For(p)' = {}
    <3>1. \/ For(q) = {} /\ devices' = devices
          \/ \E id \in For(q) : ToSet(devices') = ToSet(devices) \ {id}
      BY <1>1, <2>1, Removal
    <3>2. CASE For(q) = {} /\ devices' = devices
      <4>1. For(p)' = For(p)
        BY <1>1, <3>2 DEF For
      <4>2. QED
        BY <3>2, <4>1, ObjectTypes
    <3>3. ASSUME NEW id \in For(q), ToSet(devices') = ToSet(devices) \ {id}
          PROVE  /\ For(p)' \subseteq For(p) /\ For(p) \subseteq Ids
                 /\ p # q => For(p)' = For(p)
                 /\ p = q /\ p \notin leftover => For(p)' = {}
      <4>1. For(p)' = For(p) \ {id}
        BY <1>1, <3>3 DEF For
      <4>2. p # q => id \notin For(p)
        BY <3>3 DEF For
      <4>3. p = q /\ p \notin leftover => For(p) \subseteq {id}
        BY ObjectTypes DEF ListInv, OnceInv
      <4>4. QED
        BY <4>1, <4>2, <4>3, ObjectTypes
    <3>4. QED
      BY <3>1, <3>2, <3>3
  <2> HIDE DEF r, m, q
  <2>3. Ids' = Ids
    BY <1>1 DEF Ids
  <2>4. OnceInv' /\ AwayInv'
    BY <1>1, <2>2, <2>3 DEF ListInv, OnceInv, AwayInv
  <2>5. GoneInv'
    <3> SUFFICES ASSUME NEW p \in Paths, p \notin leftover', ~ofono'.modems[p].present, None(inbox', Signals(p))
                 PROVE  For(p)' = {}
      BY DEF GoneInv
    <3>1. CASE p = q
      BY <1>1, <2>2, <3>1
    <3>2. CASE p # q
      BY <1>1, <1>2, <1>3, <2>2, <3>2 DEF ListInv, GoneInv
    <3>3. QED
      BY <3>1, <3>2
  <2>6. HereInv'
    BY <1>1, <1>2, <2>2 DEF ListInv, HereInv
  <2>7. QED
    BY <2>4, <2>5, <2>6 DEF ListInv
<1>4. CASE ~Hears
  <2>1. UNCHANGED <<manager, devices, objects, leftover>> /\ manager # "listed"
    BY <1>4 DEF HandleRemoved, Hears
  <2>2. Ids' = Ids /\ \A p \in Paths : For(p)' = For(p)
    BY <2>1 DEF Ids, For
  <2>3. QED
    BY <1>4, <2>1, <2>2 DEF ListInv, AwayInv, OnceInv, GoneInv, HereInv, Hears
<1>5. QED
  BY <1>3, <1>4

LEMMA ListStep ==
    ASSUME TypeInv, TypeInv', alive', QueueInv, TellInv, ListInv, [Next]_vars
    PROVE  ListInv'
<1>1. CASE Handle \/ Request
  <2>1. CASE \/ HandleConnected \/ HandleProperties \/ HandleChanged
             \/ \E b \in BOOLEAN : RequestBlock(b) \/ \E index : RequestBlockIdx(index, b)
    BY <2>1, ListOfObjects
  <2>2. QED
    BY <1>1, <2>1, ListOfManager, ListOfModems, ListOfAdded, ListOfRemoved, ListOfVanished DEF Handle, Request
<1>2. CASE UNCHANGED vars
  <2>1. UNCHANGED <<manager, leftover, devices, objects, inbox, ofono>>
    BY <1>2 DEF vars
  <2>2. Ids' = Ids /\ \A id \in Ids : objects'[id].path = objects[id].path
    BY <2>1 DEF Ids
  <2>3. QED
    BY <2>1, <2>2, ListOutside
<1>3. QED
  BY <1>1, <1>2, ListOfOutside, ListOfAnswer DEF Next

FollowInv == TypeInv /\ (alive => QueueInv /\ TellInv /\ ListInv)

LEMMA FollowInit == Init => FollowInv
<1> SUFFICES ASSUME Init PROVE QueueInv /\ TellInv /\ ListInv
  BY TypeInit DEF FollowInv
<1>1. /\ inbox = <<>> /\ calls = <<>> /\ manager = "away" /\ devices = <<>>
      /\ \A X, Y : None(<<>>, X) /\ ~After(<<>>, X, Y) /\ Single(<<>>, X)
                   /\ Led(<<>>, X, Y) /\ Parted(<<>>, X, Y)
  BY NoneOfEmpty DEF Init
<1>2. QueueInv
  BY <1>1 DEF QueueInv, OfonoInv, AppearInv, ChainInv
<1>3. TellInv
  BY <1>1 DEF TellInv, TellsOf
<1>4. \A p \in Paths : For(p) = {}
  BY <1>1 DEF For, ToSet
<1>5. ListInv
  BY <1>1, <1>4 DEF ListInv, AwayInv, OnceInv, GoneInv, HereInv, Hears
<1>6. QED
  BY <1>2, <1>3, <1>5

LEMMA FollowStep == FollowInv /\ [Next]_vars => FollowInv'
<1> SUFFICES ASSUME FollowInv, [Next]_vars PROVE FollowInv'
  OBVIOUS
<1>1. TypeInv /\ TypeInv'
  BY TypeStep DEF FollowInv
<1>2. alive' => alive
  BY DEF Next, vars
<1>3. ASSUME alive' PROVE QueueInv' /\ TellInv' /\ ListInv'
  BY <1>1, <1>2, <1>3, QueueStep, ListStep DEF FollowInv
<1>4. QED
  BY <1>1, <1>3 DEF FollowInv

\* When nothing is on its way, every modem that oFono has is in the list of the
\* daemon, and the list has no other, but for the paths of which the manager
\* cannot follow the removal (src/src/urf-ofono-manager.c, add_modem and
\* remove_modem): whatever modems there are and however often oFono restarts.
THEOREM ListFollowsOfonoAlways == Spec => []ListFollowsOfono
<1>1. FollowInv => ListFollowsOfono
  <2> SUFFICES ASSUME FollowInv, Settled PROVE /\ Present \subseteq Listed(devices)
                                               /\ Listed(devices) \subseteq Present \union leftover
    BY DEF ListFollowsOfono
  <2>1. TypeInv /\ ListInv /\ inbox = <<>> /\ manager = "listed" /\ Hears
    BY DEF FollowInv, Settled, Quiet, Hears
  <2>2. \A p \in Paths : None(inbox, Signals(p))
    BY <2>1, NoneOfEmpty
  <2>3. \A p \in Paths : p \in Listed(devices) <=> For(p) # {}
    BY DEF Listed, For, ToSet
  <2>4. Listed(devices) \subseteq Paths
    BY <2>1, ObjectTypes DEF Listed
  <2>5. Present \subseteq Listed(devices)
    BY <2>1, <2>2, <2>3 DEF ListInv, HereInv, Present
  <2>6. Listed(devices) \subseteq Present \union leftover
    BY <2>1, <2>2, <2>3, <2>4 DEF ListInv, GoneInv, Present
  <2>7. QED
    BY <2>5, <2>6
<1>2. QED
  BY <1>1, FollowInit, FollowStep, PTL DEF Spec

=============================================================================
