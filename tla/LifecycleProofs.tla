-------------------------- MODULE LifecycleProofs --------------------------
(***************************************************************************)
(* Proofs about Lifecycle for any set of processes and any options.        *)
(*                                                                         *)
(* Every step is a step of one process on the radio (Step, of which        *)
(* Becomes is the case in which the radio stays), or one of the radio      *)
(* alone.  The lemmas say what such a step leaves of the processes; each   *)
(* action then has to be looked at for its own process only.               *)
(***************************************************************************)
EXTENDS Lifecycle, TLAPS

\* A process that has nothing left to read has the radio's state.
ViewTrue == \A p \in Proc : proc[p].open /\ proc[p].news = "none" => proc[p].view = radio

\* What a process left the radio in is what it still believes, then what it stores.
LeftHolds(r) ==
  r.left # Unknown =>
    \/ r.stage \in {"leaving", "unnamed"} /\ r.stores /\ r.left = r.view
    \/ r.stage = "disposed" /\ r.table = Blocked(r.left)
LeftTells == \A p \in Proc : LeftHolds(proc[p])

\* What holds of the processes, whatever is in the file ...
ProcInv == TypeOK /\ AskedAboutADevice /\ ViewTrue /\ LeftTells
\* ... and the strengthening of FileTellsRadio that steps preserve.
IInv == ProcInv /\ FileTellsRadio

(***************************************************************************)
(* Steps of one process                                                    *)
(***************************************************************************)
\* An event changes nothing of a process but what it has yet to read.
LEMMA InformedFacts ==
  ASSUME NEW r \in Process, NEW new \in Radios
  PROVE  LET i == Informed(r, new) IN
         /\ i \in Process
         /\ i.stage = r.stage /\ i.table = r.table /\ i.view = r.view
         /\ i.open = r.open /\ i.stores = r.stores /\ i.name = r.name
         /\ i.told = r.told /\ i.want = r.want /\ i.left = r.left
         /\ (~r.open \/ new = radio) => i = r
         /\ (r.open /\ new # radio) => i.news # "none"
<1>1. CASE ~r.open \/ new = radio
  BY <1>1 DEF Informed
<1>2. CASE r.open /\ new # radio
  <2> DEFINE n == IF radio = "absent" \/ r.news = "add" THEN "add" ELSE "change"
  <2>1. Informed(r, new) = [r EXCEPT !.news = n]
    BY <1>2 DEF Informed
  <2>2. n \in {"change", "add"}
    OBVIOUS
  <2> HIDE DEF n
  <2> QED BY <1>2, <2>1, <2>2 DEF Process
<1> QED BY <1>1, <1>2 DEF Process

\* A step that leaves the radio alone is a step on it.
LEMMA BecomesIsStep ==
  ASSUME TypeOK, NEW p \in Proc, NEW r \in Process, Becomes(p, r)
  PROVE  Step(p, r, radio)
BY DEF TypeOK, Becomes, Step, Informed

\* The step makes p the process r and leaves the others as they are, but for what
\* they have yet to read.
LEMMA StepFacts ==
  ASSUME TypeOK, NEW p \in Proc, NEW r \in Process, NEW new \in Radios,
         Step(p, r, new)
  PROVE  /\ radio' = new
         /\ proc' \in [Proc -> Process]
         /\ \A q \in Proc :
              LET o == IF q = p THEN r ELSE proc[q] IN
              /\ proc'[q].stage = o.stage /\ proc'[q].table = o.table
              /\ proc'[q].view = o.view /\ proc'[q].open = o.open
              /\ proc'[q].stores = o.stores /\ proc'[q].name = o.name
              /\ proc'[q].left = o.left
              /\ new = radio => proc'[q].news = o.news
              /\ (o.open /\ new # radio) => proc'[q].news # "none"
<1>1. radio' = new /\ proc' = [q \in Proc |-> Informed(IF q = p THEN r ELSE proc[q], new)]
  BY DEF Step
<1>2. ASSUME NEW q \in Proc PROVE (IF q = p THEN r ELSE proc[q]) \in Process
  BY DEF TypeOK
<1>3. proc' \in [Proc -> Process]
  BY <1>1, <1>2, InformedFacts
<1>4. ASSUME NEW q \in Proc
      PROVE  LET o == IF q = p THEN r ELSE proc[q] IN
             /\ proc'[q].stage = o.stage /\ proc'[q].table = o.table
             /\ proc'[q].view = o.view /\ proc'[q].open = o.open
             /\ proc'[q].stores = o.stores /\ proc'[q].name = o.name
             /\ proc'[q].left = o.left
             /\ new = radio => proc'[q].news = o.news
             /\ (o.open /\ new # radio) => proc'[q].news # "none"
  <2> DEFINE o == IF q = p THEN r ELSE proc[q]
  <2>1. o \in Process
    BY <1>2
  <2>2. proc'[q] = Informed(o, new)
    BY <1>1
  <2> HIDE DEF o
  <2>3. /\ proc'[q].stage = o.stage /\ proc'[q].table = o.table
        /\ proc'[q].view = o.view /\ proc'[q].open = o.open
        /\ proc'[q].stores = o.stores /\ proc'[q].name = o.name
        /\ proc'[q].left = o.left
        /\ (~o.open \/ new = radio) => proc'[q] = o
        /\ (o.open /\ new # radio) => proc'[q].news # "none"
    BY <2>1, <2>2, InformedFacts
  <2> QED BY <2>3 DEF o
<1> QED BY <1>1, <1>3, <1>4

\* Where a process in which p may be the owner or wait for the name can be.
Named(r) == r.name # "unasked" /\ r.stage \in {"running", "asking", "leaving"}

\* What has to be shown of the process r that p becomes, when the radio becomes new.
Allowed(r, new) ==
  /\ r.stage = "asking" => r.view # "absent"
  /\ (r.open /\ r.news = "none" /\ new = radio) => r.view = radio
  /\ LeftHolds(r)

LEMMA StepKeeps ==
  ASSUME ProcInv, NEW p \in Proc, NEW r \in Process, NEW new \in Radios,
         Step(p, r, new), Allowed(r, new),
         owner' \in Proc \cup {Nobody}, waiting' \subseteq Proc \ {owner'},
         \A q \in Proc : (q = owner' \/ q \in waiting') =>
            IF q = p THEN Named(r) ELSE q = owner \/ q \in waiting,
         file' \in BOOLEAN, due' \in Radios \cup {Unknown}, stimuli' \in 0..MaxStimuli
  PROVE  ProcInv'
<1> DEFINE o(q) == IF q = p THEN r ELSE proc[q]
<1>1. /\ radio' = new
      /\ proc' \in [Proc -> Process]
      /\ \A q \in Proc :
            /\ proc'[q].stage = o(q).stage /\ proc'[q].table = o(q).table
            /\ proc'[q].view = o(q).view /\ proc'[q].open = o(q).open
            /\ proc'[q].stores = o(q).stores /\ proc'[q].name = o(q).name
            /\ proc'[q].left = o(q).left
            /\ new = radio => proc'[q].news = o(q).news
            /\ (o(q).open /\ new # radio) => proc'[q].news # "none"
  BY StepFacts DEF ProcInv
<1>2. TypeOK'
  <2>1. ASSUME NEW q \in Proc, q = owner' \/ q \in waiting'
        PROVE  proc'[q].name # "unasked" /\ proc'[q].stage \in {"running", "asking", "leaving"}
    <3>1. CASE q = p
      BY <1>1, <2>1, <3>1 DEF Named
    <3>2. CASE q # p
      BY <1>1, <2>1, <3>2 DEF ProcInv, TypeOK
    <3> QED BY <3>1, <3>2
  <2> QED BY <1>1, <2>1 DEF TypeOK
<1>3. AskedAboutADevice'
  <2> SUFFICES ASSUME NEW q \in Proc, proc'[q].stage = "asking"
               PROVE  proc'[q].view # "absent"
    BY DEF AskedAboutADevice
  <2> QED BY <1>1 DEF ProcInv, AskedAboutADevice, Allowed
<1>4. ViewTrue'
  <2> SUFFICES ASSUME NEW q \in Proc, proc'[q].open, proc'[q].news = "none"
               PROVE  proc'[q].view = radio'
    BY DEF ViewTrue
  <2>1. new = radio
    BY <1>1
  <2> QED BY <1>1, <2>1 DEF ProcInv, ViewTrue, Allowed
<1>5. LeftTells'
  <2> SUFFICES ASSUME NEW q \in Proc PROVE LeftHolds(proc'[q])
    BY DEF LeftTells
  <2>1. LeftHolds(o(q))
    BY DEF ProcInv, LeftTells, Allowed
  <2> QED BY <1>1, <2>1 DEF LeftHolds
<1> QED BY <1>2, <1>3, <1>4, <1>5 DEF ProcInv

\* A step on which nobody's place at the bus and nothing in the file depends.
LEMMA StepStays ==
  ASSUME ProcInv, NEW p \in Proc, NEW r \in Process, NEW new \in Radios,
         Step(p, r, new), Allowed(r, new),
         (p = owner \/ p \in waiting) => Named(r),
         UNCHANGED <<file, owner, waiting, due>>, stimuli' \in 0..MaxStimuli
  PROVE  ProcInv'
<1>1. /\ owner' \in Proc \cup {Nobody} /\ waiting' \subseteq Proc \ {owner'}
      /\ file' \in BOOLEAN /\ due' \in Radios \cup {Unknown}
  BY DEF ProcInv, TypeOK
<1>2. \A q \in Proc : (q = owner' \/ q \in waiting') =>
         IF q = p THEN Named(r) ELSE q = owner \/ q \in waiting
  OBVIOUS
<1> QED BY <1>1, <1>2, StepKeeps

\* The same for a step that leaves the radio alone.
LEMMA BecomesStays ==
  ASSUME ProcInv, NEW p \in Proc, NEW r \in Process,
         Becomes(p, r), Allowed(r, radio),
         (p = owner \/ p \in waiting) => Named(r),
         UNCHANGED <<file, owner, waiting, due>>, stimuli' \in 0..MaxStimuli
  PROVE  ProcInv'
<1>1. radio \in Radios /\ Step(p, r, radio)
  BY BecomesIsStep DEF ProcInv, TypeOK
<1> QED BY <1>1, StepStays

(***************************************************************************)
(* Every action                                                            *)
(***************************************************************************)
\* What the actions take from the invariant about one process.
LEMMA ProcFacts ==
  ASSUME ProcInv, NEW p \in Proc
  PROVE  /\ proc[p] \in Process /\ LeftHolds(proc[p])
         /\ proc[p].stage = "asking" => proc[p].view # "absent"
         /\ (proc[p].open /\ proc[p].news = "none") => proc[p].view = radio
         /\ (p = owner \/ p \in waiting) => Named(proc[p])
         /\ radio \in Radios /\ stimuli \in 0..MaxStimuli
BY DEF ProcInv, TypeOK, AskedAboutADevice, ViewTrue, LeftTells, Named

LEMMA StimulusCounts ==
  ASSUME Stimulus, stimuli \in 0..MaxStimuli
  PROVE  stimuli' \in 0..MaxStimuli
BY StimuliAssumption DEF Stimulus

LEMMA LeavesKeeps ==
  ASSUME ProcInv, NEW p \in Proc, Leaves(p),
         proc[p].stage \in {"opened", "running"},
         UNCHANGED <<file, owner, waiting, due, stimuli>>
  PROVE  ProcInv'
<1> DEFINE r == [proc[p] EXCEPT !.stage = "leaving", !.left = Left(proc[p])]
<1>1. Left(proc[p]) \in Radios \cup {Unknown}
  BY ProcFacts DEF Left
<1>2. r \in Process
  BY <1>1, ProcFacts DEF Process, Stages
<1>3. Allowed(r, radio)
  <2>1. r.view = proc[p].view /\ r.open = proc[p].open /\ r.news = proc[p].news
        /\ r.stage = "leaving" /\ r.stores = proc[p].stores /\ r.left = Left(proc[p])
    BY ProcFacts DEF Process
  <2>2. LeftHolds(r)
    BY <2>1, ProcFacts DEF LeftHolds, Left
  <2> QED BY <2>1, <2>2, ProcFacts DEF Allowed
<1>4. (p = owner \/ p \in waiting) => Named(r)
  BY ProcFacts DEF Process, Named
<1>5. Becomes(p, r) /\ stimuli' \in 0..MaxStimuli
  BY ProcFacts DEF Leaves
<1> QED BY <1>2, <1>3, <1>4, <1>5, BecomesStays

LEMMA StartingKeeps ==
  ASSUME ProcInv, NEW p \in Proc, Launch(p) \/ Starting(p)
  PROVE  ProcInv'
<1> USE OptionsAssumption, StimuliAssumption
<1>1. CASE Launch(p)
  <2> DEFINE r == [Down EXCEPT !.stage = "loaded", !.table = file]
  <2>1. r \in Process
    BY DEF ProcInv, TypeOK, Process, Down, Stages, Requests, NoRequest, Radios
  <2>2. Allowed(r, radio)
    BY DEF Allowed, LeftHolds, Down
  <2>3. ~(p = owner \/ p \in waiting)
    BY <1>1, ProcFacts DEF Launch, Named
  <2>4. Becomes(p, r) /\ stimuli' \in 0..MaxStimuli /\ UNCHANGED <<file, owner, waiting, due>>
    BY <1>1, ProcFacts DEF Launch, Stimulus
  <2> QED BY <2>1, <2>2, <2>3, <2>4, BecomesStays
<1>2. CASE OpenRadio(p)
  <2> DEFINE new == IF Persist THEN Written(radio, proc[p].table) ELSE radio
             r == [proc[p] EXCEPT !.stage = "opened", !.open = TRUE,
                                  !.stores = Persist, !.view = new]
  <2>1. new \in Radios
    BY ProcFacts DEF Written, Radios
  <2> HIDE DEF new
  <2>2. r \in Process
    BY <2>1, ProcFacts, ZenonT(60) DEF Process, Stages
  <2>3. proc[p].stage = "loaded"
    BY <1>2 DEF OpenRadio
  <2>4. r.left = Unknown /\ r.stage = "opened" /\ r.view = new
    BY <2>3, ProcFacts DEF LeftHolds, Process
  <2>5. Allowed(r, new)
    BY <2>4 DEF Allowed, LeftHolds
  <2>6. ~(p = owner \/ p \in waiting)
    BY <2>3, ProcFacts DEF Named
  <2>7. Step(p, r, new) /\ Quiet
    BY <1>2 DEF OpenRadio, new
  <2> QED BY <2>1, <2>2, <2>5, <2>6, <2>7, ProcFacts, StepStays DEF Quiet
<1>3. CASE OpenFails(p)
  <2> DEFINE r == [proc[p] EXCEPT !.stage = "leaving", !.stores = Persist]
  <2>1. r \in Process
    BY ProcFacts, ZenonT(60) DEF Process, Stages
  <2>2. proc[p].stage = "loaded"
    BY <1>3 DEF OpenFails
  <2>3. r.left = Unknown /\ r.stage = "leaving" /\ r.view = proc[p].view
        /\ r.open = proc[p].open /\ r.news = proc[p].news
    BY <2>2, ProcFacts DEF LeftHolds, Process
  <2>4. Allowed(r, radio)
    BY <2>3, ProcFacts DEF Allowed, LeftHolds
  <2>5. ~(p = owner \/ p \in waiting)
    BY <2>2, ProcFacts DEF Named
  <2> QED BY <1>3, <2>1, <2>4, <2>5, ProcFacts, BecomesStays DEF OpenFails, Quiet
<1>4. CASE Prepare(p) \/ RunLoop(p)
  <2> PICK st \in {"ready", "running"} :
         /\ proc[p].stage \in {"opened", "ready"}
         /\ Becomes(p, [proc[p] EXCEPT !.stage = st])
         /\ Quiet
    BY <1>4 DEF Prepare, RunLoop
  <2> DEFINE r == [proc[p] EXCEPT !.stage = st]
  <2>1. r \in Process
    BY ProcFacts DEF Process, Stages
  <2>2. r.left = Unknown /\ r.stage # "asking" /\ r.view = proc[p].view
        /\ r.open = proc[p].open /\ r.news = proc[p].news
    BY ProcFacts DEF LeftHolds, Process
  <2>3. Allowed(r, radio)
    BY <2>2, ProcFacts DEF Allowed, LeftHolds
  <2>4. ~(p = owner \/ p \in waiting)
    BY ProcFacts DEF Named
  <2> QED BY <2>1, <2>3, <2>4, ProcFacts, BecomesStays DEF Quiet
<1>5. CASE PrepareFails(p)
  BY <1>5, LeavesKeeps DEF PrepareFails, Quiet
<1> QED BY <1>1, <1>2, <1>3, <1>4, <1>5 DEF Starting

LEMMA LoopingKeeps ==
  ASSUME ProcInv, NEW p \in Proc, Looping(p)
  PROVE  ProcInv'
<1>1. CASE RequestName(p)
  <2> DEFINE r == [proc[p] EXCEPT !.name = IF owner = Nobody THEN "held" ELSE "lost"]
  <2>1. proc[p].stage = "running" /\ proc[p].name = "unasked"
    BY <1>1 DEF RequestName
  <2>2. ~(p = owner \/ p \in waiting)
    BY <2>1, ProcFacts DEF Named
  <2>3. r \in Process
    BY ProcFacts DEF Process
  <2>4. r.left = proc[p].left /\ r.stage = proc[p].stage /\ r.view = proc[p].view
        /\ r.stores = proc[p].stores /\ r.table = proc[p].table
        /\ r.open = proc[p].open /\ r.news = proc[p].news /\ r.name # "unasked"
    BY ProcFacts DEF Process
  <2>5. Allowed(r, radio)
    BY <2>4, ProcFacts DEF Allowed, LeftHolds
  <2>6. Named(r)
    BY <2>1, <2>4 DEF Named
  <2>7. owner' \in Proc \cup {Nobody} /\ waiting' \subseteq Proc \ {owner'}
    BY <1>1, <2>2, ProcAssumption DEF RequestName, ProcInv, TypeOK
  <2>8. \A q \in Proc : (q = owner' \/ q \in waiting') =>
           IF q = p THEN Named(r) ELSE q = owner \/ q \in waiting
    BY <1>1, <2>6 DEF RequestName
  <2>9. Step(p, r, radio)
    BY <1>1, <2>3, BecomesIsStep DEF RequestName, ProcInv
  <2>10. file' \in BOOLEAN /\ due' \in Radios \cup {Unknown} /\ stimuli' \in 0..MaxStimuli
    BY <1>1 DEF RequestName, ProcInv, TypeOK
  <2> HIDE DEF r
  <2> QED BY <2>3, <2>5, <2>7, <2>8, <2>9, <2>10, ProcFacts, StepKeeps
<1>2. CASE NameLost(p)
  BY <1>2, LeavesKeeps DEF NameLost, Quiet
<1>3. CASE HandleSignal(p)
  BY <1>3, LeavesKeeps DEF HandleSignal, Quiet
<1>4. CASE HandleEvents(p)
  <2> DEFINE new == AfterEvents(proc[p])
             r == [proc[p] EXCEPT !.news = "none", !.view = new]
  <2>1. new \in Radios
    BY ProcFacts DEF AfterEvents, Written, Radios
  <2>2. proc[p].stage = "running" /\ Step(p, r, new) /\ Quiet
    BY <1>4 DEF HandleEvents, ReadEvents
  <2> HIDE DEF new
  <2>3. r \in Process
    BY <2>1, ProcFacts DEF Process
  <2>4. r.left = Unknown /\ r.stage = "running" /\ r.view = new /\ r.name = proc[p].name
    BY <2>2, ProcFacts DEF LeftHolds, Process
  <2>5. Allowed(r, new)
    BY <2>4 DEF Allowed, LeftHolds
  <2>6. (p = owner \/ p \in waiting) => Named(r)
    BY <2>4, ProcFacts DEF Named
  <2> QED BY <2>1, <2>2, <2>3, <2>5, <2>6, ProcFacts, StepStays DEF Quiet
<1> QED BY <1>1, <1>2, <1>3, <1>4 DEF Looping

LEMMA RequestKeeps ==
  ASSUME ProcInv, NEW p \in Proc,
         (\E want \in Requests : Ask(p, want)) \/ Answered(p)
  PROVE  ProcInv'
<1>1. ASSUME NEW want \in Requests, Ask(p, want) PROVE ProcInv'
  <2> DEFINE r == [proc[p] EXCEPT !.stage = "asking", !.want = want]
  <2>1. r \in Process
    BY ProcFacts DEF Process, Stages
  <2>2. proc[p].stage = "running" /\ proc[p].view # "absent"
    BY <1>1 DEF Ask
  <2>3. r.left = Unknown /\ r.stage = "asking" /\ r.view = proc[p].view
        /\ r.open = proc[p].open /\ r.news = proc[p].news /\ r.name = proc[p].name
    BY <2>2, ProcFacts DEF LeftHolds, Process
  <2>4. Allowed(r, radio)
    BY <2>2, <2>3, ProcFacts DEF Allowed, LeftHolds
  <2>5. (p = owner \/ p \in waiting) => Named(r)
    BY <2>3, ProcFacts DEF Named
  <2>6. Becomes(p, r) /\ UNCHANGED <<file, owner, waiting, due>>
    BY <1>1 DEF Ask, Asks
  <2>7. stimuli' \in 0..MaxStimuli
    BY <1>1, ProcFacts, StimulusCounts DEF Ask
  <2> QED BY <2>1, <2>4, <2>5, <2>6, <2>7, BecomesStays
<1>2. CASE Granted(p)
  <2> DEFINE b == proc[p].want.block
             new == Written(radio, b)
             seen == Written(proc[p].view, b)
             kept == IF proc[p].want.stored THEN b ELSE proc[p].table
             r == [proc[p] EXCEPT !.stage = "running", !.want = NoRequest,
                                  !.view = seen, !.table = kept]
  <2>1. b \in BOOLEAN /\ kept \in BOOLEAN
    BY ProcFacts DEF Process, Requests
  <2>2. new \in Radios /\ seen \in Radios
    BY ProcFacts DEF Written, Radios, Process
  <2>3. proc[p].stage = "asking" /\ Step(p, r, new) /\ Quiet
    BY <1>2 DEF Granted
  <2>4. (proc[p].open /\ proc[p].news = "none") => seen = new
    BY ProcFacts
  <2> HIDE DEF new, seen, kept, b
  <2>5. r \in Process
    BY <2>1, <2>2, ProcFacts, ZenonT(60) DEF Process, Stages, Requests, NoRequest
  <2>6. r.left = Unknown /\ r.stage = "running" /\ r.view = seen
        /\ r.open = proc[p].open /\ r.news = proc[p].news /\ r.name = proc[p].name
    BY <2>3, ProcFacts DEF LeftHolds, Process
  <2>7. Allowed(r, new)
    BY <2>4, <2>6 DEF Allowed, LeftHolds
  <2>8. (p = owner \/ p \in waiting) => Named(r)
    BY <2>6, ProcFacts DEF Named
  <2> QED BY <2>2, <2>3, <2>5, <2>7, <2>8, ProcFacts, StepStays DEF Quiet
<1>3. CASE Denied(p)
  <2> DEFINE r == [proc[p] EXCEPT !.stage = "running", !.want = NoRequest]
  <2>1. r \in Process
    BY ProcFacts, ZenonT(60) DEF Process, Stages, Requests, NoRequest
  <2>2. proc[p].stage = "asking"
    BY <1>3 DEF Denied
  <2>3. r.left = Unknown /\ r.stage = "running" /\ r.view = proc[p].view
        /\ r.open = proc[p].open /\ r.news = proc[p].news /\ r.name = proc[p].name
    BY <2>2, ProcFacts DEF LeftHolds, Process
  <2>4. Allowed(r, radio)
    BY <2>3, ProcFacts DEF Allowed, LeftHolds
  <2>5. (p = owner \/ p \in waiting) => Named(r)
    BY <2>3, ProcFacts DEF Named
  <2> QED BY <1>3, <2>1, <2>4, <2>5, ProcFacts, BecomesStays DEF Denied, Quiet
<1> QED BY <1>1, <1>2, <1>3 DEF Answered

\* What p gives up goes to one that waits, and p is not among the others.
LEMMA WithoutNameFacts ==
  ASSUME TypeOK, NEW p \in Proc, WithoutName(p)
  PROVE  /\ owner' \in Proc \cup {Nobody} /\ waiting' \subseteq Proc \ {owner'}
         /\ \A q \in Proc : (q = owner' \/ q \in waiting') =>
               q # p /\ (q = owner \/ q \in waiting)
BY ProcAssumption DEF TypeOK, WithoutName, Heirs

LEMMA DownAllowed == Down \in Process /\ Allowed(Down, radio)
BY DEF Down, Process, Allowed, LeftHolds, Stages, Requests, NoRequest, Radios

\* A process that does not run any more has neither name nor place.
LEMMA EndKeeps ==
  ASSUME ProcInv, NEW p \in Proc, Becomes(p, Down), WithoutName(p),
         file' \in BOOLEAN, due' \in Radios \cup {Unknown}, stimuli' \in 0..MaxStimuli
  PROVE  ProcInv'
<1>1. Step(p, Down, radio)
  BY BecomesIsStep, DownAllowed DEF ProcInv
<1>2. \A q \in Proc : (q = owner' \/ q \in waiting') =>
         IF q = p THEN Named(Down) ELSE q = owner \/ q \in waiting
  BY WithoutNameFacts DEF ProcInv
<1> QED BY <1>1, <1>2, DownAllowed, ProcFacts, WithoutNameFacts, StepKeeps DEF ProcInv

LEMMA EndingKeeps ==
  ASSUME ProcInv, NEW p \in Proc, Kill(p) \/ Ending(p)
  PROVE  ProcInv'
<1>1. CASE Kill(p)
  <2>1. stimuli' \in 0..MaxStimuli
    BY <1>1, ProcFacts, StimulusCounts DEF Kill
  <2>2. file' \in BOOLEAN /\ due' \in Radios \cup {Unknown}
    BY <1>1 DEF Kill, ProcInv, TypeOK
  <2> QED BY <1>1, <2>1, <2>2, EndKeeps DEF Kill
<1>2. CASE Release(p)
  <2> DEFINE r == [proc[p] EXCEPT !.stage = "unnamed"]
  <2>1. r \in Process
    BY ProcFacts DEF Process, Stages
  <2>2. proc[p].stage = "leaving" /\ Becomes(p, r) /\ WithoutName(p)
    BY <1>2 DEF Release
  <2>3. r.left = proc[p].left /\ r.stage = "unnamed" /\ r.view = proc[p].view
        /\ r.open = proc[p].open /\ r.news = proc[p].news /\ r.stores = proc[p].stores
    BY ProcFacts DEF Process
  <2>4. Allowed(r, radio)
    BY <2>2, <2>3, ProcFacts DEF Allowed, LeftHolds
  <2>5. file' \in BOOLEAN /\ due' \in Radios \cup {Unknown} /\ stimuli' \in 0..MaxStimuli
    BY <1>2 DEF Release, ProcInv, TypeOK
  <2>6. Step(p, r, radio)
    BY <2>1, <2>2, BecomesIsStep DEF ProcInv
  <2> HIDE DEF r
  <2>7. /\ owner' \in Proc \cup {Nobody} /\ waiting' \subseteq Proc \ {owner'}
        /\ \A q \in Proc : (q = owner' \/ q \in waiting') =>
              IF q = p THEN Named(r) ELSE q = owner \/ q \in waiting
    BY <2>2, WithoutNameFacts DEF ProcInv
  <2> QED BY <2>1, <2>4, <2>5, <2>6, <2>7, ProcFacts, StepKeeps
<1>3. CASE Dispose(p)
  <2> DEFINE kept == Stored(proc[p])
             r == [proc[p] EXCEPT !.stage = "disposed", !.open = FALSE,
                                  !.news = "none", !.table = kept]
  <2>1. proc[p].stage = "unnamed" /\ Becomes(p, r) /\ Quiet
    BY <1>3 DEF Dispose
  <2>2. kept \in BOOLEAN
    BY ProcFacts DEF Stored, Blocked, Process
  <2>3. proc[p].left # Unknown => kept = Blocked(proc[p].left)
    BY <2>1, ProcFacts DEF LeftHolds, Stored
  <2> HIDE DEF kept
  <2>4. r \in Process
    BY <2>2, ProcFacts DEF Process, Stages
  <2>5. r.left = proc[p].left /\ r.stage = "disposed" /\ ~r.open /\ r.table = kept
    BY ProcFacts DEF Process
  <2>6. Allowed(r, radio)
    BY <2>3, <2>5 DEF Allowed, LeftHolds
  <2>7. ~(p = owner \/ p \in waiting)
    BY <2>1, ProcFacts DEF Named
  <2> QED BY <2>1, <2>4, <2>6, <2>7, ProcFacts, BecomesStays DEF Quiet
<1>4. CASE DisposeFails(p) \/ Save(p)
  <2>1. Becomes(p, Down) /\ UNCHANGED <<owner, waiting, stimuli>>
    BY <1>4 DEF DisposeFails, Save, Quiet
  <2>2. file' \in BOOLEAN /\ due' \in Radios \cup {Unknown}
    <3>1. CASE DisposeFails(p)
      BY <3>1 DEF DisposeFails, Quiet, ProcInv, TypeOK
    <3>2. CASE Save(p)
      BY <3>2, ProcFacts DEF Save, Process, ProcInv, TypeOK
    <3> QED BY <1>4, <3>1, <3>2
  <2>3. ~(p = owner \/ p \in waiting)
    BY <1>4, ProcFacts DEF DisposeFails, Save, Named
  <2>4. (p = owner \/ p \in waiting) => Named(Down)
    BY <2>3
  <2>5. Step(p, Down, radio)
    BY <2>1, BecomesIsStep, DownAllowed DEF ProcInv
  <2>6. \A q \in Proc : (q = owner' \/ q \in waiting') =>
           IF q = p THEN Named(Down) ELSE q = owner \/ q \in waiting
    BY <2>1, <2>4
  <2>7. owner' \in Proc \cup {Nobody} /\ waiting' \subseteq Proc \ {owner'}
    BY <2>1 DEF ProcInv, TypeOK
  <2> QED BY <2>1, <2>2, <2>5, <2>6, <2>7, DownAllowed, ProcFacts, StepKeeps
<1> QED BY <1>1, <1>2, <1>3, <1>4 DEF Ending

\* A signal waits, and the radio changes by itself.
LEMMA MachineKeeps ==
  ASSUME ProcInv, (\E new \in Radios : Outside(new)) \/ \E p \in Proc : Signal(p)
  PROVE  ProcInv'
<1>1. ASSUME NEW p \in Proc, Signal(p) PROVE ProcInv'
  <2> DEFINE r == [proc[p] EXCEPT !.told = TRUE]
  <2>1. r \in Process
    BY ProcFacts DEF Process
  <2>2. r.left = proc[p].left /\ r.stage = proc[p].stage /\ r.view = proc[p].view
        /\ r.open = proc[p].open /\ r.news = proc[p].news /\ r.stores = proc[p].stores
        /\ r.name = proc[p].name /\ r.table = proc[p].table
    BY ProcFacts DEF Process
  <2>3. Allowed(r, radio)
    BY <2>2, ProcFacts DEF Allowed, LeftHolds
  <2>4. (p = owner \/ p \in waiting) => Named(r)
    BY <2>2, ProcFacts DEF Named
  <2>5. Becomes(p, r) /\ UNCHANGED <<file, owner, waiting, due>>
    BY <1>1 DEF Signal
  <2>6. stimuli' \in 0..MaxStimuli
    BY <1>1, ProcFacts, StimulusCounts DEF Signal
  <2> QED BY <2>1, <2>3, <2>4, <2>5, <2>6, BecomesStays
<1>2. ASSUME NEW new \in Radios, Outside(new) PROVE ProcInv'
  <2>1. new # radio /\ radio' = new /\ UNCHANGED <<file, owner, waiting, due>>
        /\ proc' = [q \in Proc |-> Informed(proc[q], new)]
    BY <1>2 DEF Outside
  <2>2. stimuli' \in 0..MaxStimuli
    BY <1>2, StimulusCounts DEF Outside, ProcInv, TypeOK
  <2>3. ASSUME NEW q \in Proc
        PROVE  /\ proc'[q] \in Process
               /\ proc'[q].stage = proc[q].stage /\ proc'[q].table = proc[q].table
               /\ proc'[q].view = proc[q].view /\ proc'[q].open = proc[q].open
               /\ proc'[q].stores = proc[q].stores /\ proc'[q].name = proc[q].name
               /\ proc'[q].left = proc[q].left
               /\ proc[q].open => proc'[q].news # "none"
    <3>1. proc'[q] = Informed(proc[q], new) /\ proc[q] \in Process
      BY <2>1, ProcFacts
    <3> QED BY <2>1, <3>1, InformedFacts
  <2>4. TypeOK'
    <3>1. proc' \in [Proc -> Process]
      BY <2>1, <2>3
    <3>2. ASSUME NEW q \in Proc, q = owner' \/ q \in waiting'
          PROVE  /\ proc'[q].name # "unasked"
                 /\ proc'[q].stage \in {"running", "asking", "leaving"}
      BY <2>1, <2>3, <3>2, ProcFacts DEF Named
    <3> QED BY <2>1, <2>2, <3>1, <3>2 DEF ProcInv, TypeOK
  <2>5. AskedAboutADevice'
    BY <2>3 DEF ProcInv, AskedAboutADevice
  <2>6. ViewTrue'
    BY <2>3 DEF ViewTrue
  <2>7. LeftTells'
    <3> SUFFICES ASSUME NEW q \in Proc PROVE LeftHolds(proc'[q])
      BY DEF LeftTells
    <3> QED BY <2>3, ProcFacts DEF LeftHolds
  <2> QED BY <2>4, <2>5, <2>6, <2>7 DEF ProcInv
<1> QED BY <1>1, <1>2

LEMMA ProcInit == Init => ProcInv
<1> SUFFICES ASSUME Init PROVE ProcInv
  OBVIOUS
<1>1. \A p \in Proc : proc[p] = Down
  BY DEF Init
<1>2. TypeOK
  BY <1>1, DownAllowed, ProcAssumption, StimuliAssumption DEF Init, TypeOK
<1>3. AskedAboutADevice /\ ViewTrue
  BY <1>1 DEF AskedAboutADevice, ViewTrue, Down
<1>4. LeftTells
  BY <1>1, DownAllowed DEF LeftTells, Allowed
<1> QED BY <1>2, <1>3, <1>4 DEF ProcInv

LEMMA ProcStep == ProcInv /\ [Next]_vars => ProcInv'
<1> SUFFICES ASSUME ProcInv, [Next]_vars PROVE ProcInv'
  OBVIOUS
<1>1. CASE Next
  <2>1. CASE \E new \in Radios : Outside(new)
    BY <2>1, MachineKeeps
  <2>2. ASSUME NEW p \in Proc, Launch(p) \/ Starting(p) PROVE ProcInv'
    BY <2>2, StartingKeeps
  <2>3. ASSUME NEW p \in Proc, Signal(p) PROVE ProcInv'
    BY <2>3, MachineKeeps
  <2>4. ASSUME NEW p \in Proc, Kill(p) \/ Ending(p) PROVE ProcInv'
    BY <2>4, EndingKeeps
  <2>5. ASSUME NEW p \in Proc, Looping(p) PROVE ProcInv'
    BY <2>5, LoopingKeeps
  <2>6. ASSUME NEW p \in Proc, (\E want \in Requests : Ask(p, want)) \/ Answered(p)
        PROVE  ProcInv'
    BY <2>6, RequestKeeps
  <2> QED BY <1>1, <2>1, <2>2, <2>3, <2>4, <2>5, <2>6 DEF Next, Goes
<1>2. CASE UNCHANGED vars
  BY <1>2 DEF vars, ProcInv, TypeOK, AskedAboutADevice, ViewTrue, LeftTells, LeftHolds
<1> QED BY <1>1, <1>2

\* Only Save writes the file, and it writes what the process left the radio in.
LEMMA FileStep == ProcInv /\ FileTellsRadio /\ [Next]_vars => FileTellsRadio'
<1> SUFFICES ASSUME ProcInv, FileTellsRadio, [Next]_vars PROVE FileTellsRadio'
  OBVIOUS
<1>1. ASSUME NEW p \in Proc, Save(p) PROVE FileTellsRadio'
  <2>1. CASE file' = proc[p].table /\ due' = proc[p].left
    BY <1>1, <2>1, ProcFacts DEF Save, LeftHolds, FileTellsRadio
  <2>2. CASE UNCHANGED <<file, due>>
    BY <2>2 DEF FileTellsRadio
  <2> QED BY <1>1, <2>1, <2>2 DEF Save
<1>2. CASE UNCHANGED <<file, due>>
  BY <1>2 DEF FileTellsRadio
<1>3. (\E p \in Proc : Save(p)) \/ UNCHANGED <<file, due>>
  BY DEF Next, vars, Goes, Starting, Looping, Answered, Ending, Outside, Launch, Signal, Kill,
         Ask, OpenRadio, OpenFails, Prepare, PrepareFails, RunLoop, RequestName, NameLost,
         HandleSignal, HandleEvents, ReadEvents, Granted, Denied, Release, Dispose,
         DisposeFails, Quiet
<1> QED BY <1>1, <1>2, <1>3

LEMMA Inductive == Spec => []IInv
<1>1. Init => IInv
  BY ProcInit DEF Init, IInv, FileTellsRadio
<1>2. IInv /\ [Next]_vars => IInv'
  BY ProcStep, FileStep DEF IInv
<1> QED BY <1>1, <1>2, PTL DEF Spec

\* Every variable keeps its type, and only processes in their main loop, or about
\* to give it up, have the name or wait for it (src/src/urf-main.c:190-200, 275).
THEOREM LifecycleTypeCorrect == Spec => []TypeOK
<1>1. IInv => TypeOK
  BY DEF IInv, ProcInv
<1> QED BY <1>1, Inductive, PTL

\* The device that urf_daemon_block looked for before polkit is asked is still
\* known when it answers (src/src/urf-daemon.c:239-248).
THEOREM AskedAboutADeviceAlways == Spec => []AskedAboutADevice
<1>1. IInv => AskedAboutADevice
  BY DEF IInv, ProcInv
<1> QED BY <1>1, Inductive, PTL

\* The file tells what the last process to write it left the radio in, for any
\* number of processes that overlap (src/src/urf-arbitrator.c:654-660).
THEOREM FileTellsRadioAlways == Spec => []FileTellsRadio
<1>1. IInv => FileTellsRadio
  BY DEF IInv
<1> QED BY <1>1, Inductive, PTL
=============================================================================
