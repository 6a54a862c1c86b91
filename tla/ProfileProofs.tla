--------------------------- MODULE ProfileProofs ---------------------------
(***************************************************************************)
(* Proofs about Config and the parser in it: the types, what the parser's  *)
(* counters stand for, that the parser implements ProfileMeaning, and that *)
(* the options follow from the files.                                      *)
(***************************************************************************)
EXTENDS Config, SequenceTheorems, TLAPS

Frame == [el : Elements, child : BOOLEAN]

LEMMA FunctionIsSeq ==
  ASSUME NEW S, NEW n \in Nat, NEW f \in [1..n -> S]
  PROVE  f \in Seq(S) /\ Len(f) = n /\ DOMAIN f = 1..n
  OBVIOUS

\* A frame is pushed above those that are open ...
LEMMA PushedFrames ==
  ASSUME open \in Seq(Frame), NEW el \in Elements
  PROVE  /\ Pushed(el) \in Seq(Frame)
         /\ Len(Pushed(el)) = Len(open) + 1
         /\ \A i \in 1..Len(open) : Pushed(el)[i] = open[i]
         /\ Pushed(el)[Len(open) + 1] = [el |-> el, child |-> FALSE]
<1>1. [el |-> el, child |-> FALSE] \in Frame
  BY SMTT(30) DEF Frame
<1> QED
  BY <1>1, AppendProperties DEF Pushed

\* ... and popping it leaves their elements as they are.
LEMMA PoppedFrames ==
  ASSUME open \in Seq(Frame), open # <<>>
  PROVE  /\ Popped \in Seq(Frame)
         /\ Len(open) \in Nat \ {0}
         /\ Len(Popped) = Len(open) - 1
         /\ \A i \in 1..(Len(open) - 1) :
               /\ Popped[i].el = open[i].el
               /\ Popped[i].child = (i = Len(open) - 1 \/ open[i].child)
<1>1. Len(open) \in Nat \ {0} /\ DOMAIN open = 1..Len(open)
      /\ \A i \in 1..Len(open) : open[i] \in Frame
  BY EmptySeq, LenProperties, ElementOfSeq
<1>2. ASSUME NEW i \in 1..(Len(open) - 1)
      PROVE  (IF i = Len(open) - 1 THEN [open[i] EXCEPT !.child = TRUE] ELSE open[i])
                \in Frame
  <2>1. open[i] \in Frame
    BY <1>1, <1>2
  <2> QED
    BY <2>1 DEF Frame
<1>3. Popped \in [1..(Len(open) - 1) -> Frame]
  BY <1>1, <1>2 DEF Popped
<1>4. Popped \in Seq(Frame) /\ Len(Popped) = Len(open) - 1
  <2>1. Len(open) - 1 \in Nat
    BY <1>1
  <2> QED
    BY <1>3, <2>1, FunctionIsSeq
<1>5. ASSUME NEW i \in 1..(Len(open) - 1)
      PROVE  /\ Popped[i].el = open[i].el
             /\ Popped[i].child = (i = Len(open) - 1 \/ open[i].child)
  <2>1. open[i] \in Frame
    BY <1>1, <1>5
  <2>2. CASE i = Len(open) - 1
    <3>1. Popped[i] = [open[i] EXCEPT !.child = TRUE]
      BY <1>1, <1>5, <2>2 DEF Popped
    <3> QED
      BY <2>1, <2>2, <3>1 DEF Frame
  <2>3. CASE i # Len(open) - 1
    <3>1. Popped[i] = open[i]
      BY <1>1, <1>5, <2>3 DEF Popped
    <3> QED
      BY <2>1, <2>3, <3>1 DEF Frame
  <2> QED
    BY <2>2, <2>3
<1> QED
  BY <1>1, <1>4, <1>5

\* An element either names an option or none, and one that names an option
\* does not have to match.
LEMMA ElementOptions ==
  ASSUME NEW el
  PROVE  /\ OptionOf(el) \in Option \cup {NoOption}
         /\ OptionOf(el) # NoOption => Passes(el)
         /\ Passes(el) \in BOOLEAN
<1>1. OptionOf(el) \in Option \cup {NoOption}
  BY DEF OptionOf
<1>2. OptionOf(el) # NoOption => el.name = "option"
  BY DEF OptionOf
<1>3. el.name = "option" => Passes(el)
  BY DEF Passes
<1>4. Passes(el) \in BOOLEAN
  BY DEF Passes, MatchPasses
<1> QED
  BY <1>1, <1>2, <1>3, <1>4

Frames == open \in Seq(Frame)

\* What FailsFirst says of the levels, with the length as a number.
LEMMA BoundFacts ==
  ASSUME Frames, DepthAndBound
  PROVE  /\ Len(open) \in Nat /\ depth = Len(open)
         /\ bound \in 1..(Len(open) + 1)
         /\ \A i \in 1..Len(open) : open[i] \in Frame
         /\ Counts <=> bound = Len(open) + 1
         /\ Counts <=> \A i \in 1..Len(open) : Passes(open[i].el)
<1>1. Len(open) \in Nat /\ \A i \in 1..Len(open) : open[i] \in Frame
  BY LenProperties, ElementOfSeq DEF Frames
<1>2. depth = Len(open) /\ bound \in 1..(Len(open) + 1)
  BY DEF DepthAndBound, FailsFirst
<1>3. Counts <=> bound = Len(open) + 1
  BY <1>1, <1>2 DEF Counts
<1>4. bound = Len(open) + 1 => \A i \in 1..Len(open) : Passes(open[i].el)
  BY <1>1 DEF DepthAndBound, FailsFirst
<1>5. bound # Len(open) + 1 => bound \in 1..Len(open) /\ ~Passes(open[bound].el)
  BY <1>1, <1>2 DEF DepthAndBound, FailsFirst
<1> QED
  BY <1>1, <1>2, <1>3, <1>4, <1>5

\* An element that starts: the bound follows it if it counts and passes.
LEMMA StartKeeps ==
  ASSUME Frames, DepthAndBound, NEW el \in Elements, StartElement(el)
  PROVE  Frames' /\ DepthAndBound'
<1>1. /\ open' = Pushed(el) /\ depth' = depth + 1
  BY DEF StartElement
<1>2. /\ Len(open) \in Nat /\ depth = Len(open) /\ bound \in 1..(Len(open) + 1)
      /\ Counts <=> bound = Len(open) + 1
      /\ Counts <=> \A i \in 1..Len(open) : Passes(open[i].el)
  BY BoundFacts
<1>3. /\ Frames' /\ Len(open') = Len(open) + 1
      /\ \A i \in 1..Len(open) : open'[i] = open[i]
      /\ open'[Len(open) + 1] = [el |-> el, child |-> FALSE]
  BY <1>1, PushedFrames DEF Frames
<1>4. open' # <<>>
  BY <1>2, <1>3
<1>5. open'[Len(open')].el = el /\ ~open'[Len(open')].child
  BY <1>3
<1>6. CASE Counts /\ Passes(el)
  <2>1. bound' = Len(open) + 2 /\ opt' = OptionOf(el)
    BY <1>2, <1>6 DEF StartElement, RaisedBound
  <2>2. \A i \in 1..(Len(open) + 1) : Passes(open'[i].el)
    BY <1>2, <1>3, <1>5, <1>6
  <2>3. FailsFirst(bound)'
    BY <1>2, <1>3, <2>1, <2>2 DEF FailsFirst
  <2> QED
    BY <1>1, <1>2, <1>3, <1>4, <1>5, <2>1, <2>3 DEF DepthAndBound
<1>7. CASE Counts /\ ~Passes(el)
  <2>1. bound' = Len(open) + 1 /\ opt' = NoOption
    BY <1>2, <1>7, ElementOptions DEF StartElement, RaisedBound
  <2>2. FailsFirst(bound)'
    BY <1>2, <1>3, <1>5, <1>7, <2>1 DEF FailsFirst
  <2> QED
    BY <1>1, <1>2, <1>3, <2>1, <2>2 DEF DepthAndBound
<1>8. CASE ~Counts
  <2>1. bound' = bound /\ opt' = opt /\ bound \in 1..Len(open)
    BY <1>2, <1>8 DEF StartElement
  <2>2. opt = NoOption
    BY <1>2, <1>8 DEF DepthAndBound
  <2>3. FailsFirst(bound)'
    BY <1>2, <1>3, <2>1 DEF FailsFirst, DepthAndBound
  <2> QED
    BY <1>1, <1>2, <1>3, <2>1, <2>2, <2>3 DEF DepthAndBound
<1> QED
  BY <1>6, <1>7, <1>8

\* An element that ends: its level counts again if those around it pass.
LEMMA EndKeeps ==
  ASSUME Frames, DepthAndBound, EndElement
  PROVE  Frames' /\ DepthAndBound'
<1>1. /\ open # <<>> /\ open' = Popped /\ depth' = depth - 1
      /\ bound' = LoweredBound /\ opt' = NoOption
  BY DEF EndElement
<1>2. /\ depth = Len(open) /\ bound \in 1..(Len(open) + 1)
  BY BoundFacts
<1>3. /\ Frames' /\ Len(open) \in Nat \ {0} /\ Len(open') = Len(open) - 1
      /\ \A i \in 1..(Len(open) - 1) :
            /\ open'[i].el = open[i].el
            /\ open'[i].child = (i = Len(open) - 1 \/ open[i].child)
  BY <1>1, PoppedFrames DEF Frames
<1>4. bound' = IF bound = Len(open) + 1 THEN Len(open) ELSE bound
  BY <1>1, <1>2, <1>3 DEF LoweredBound
<1>5. FailsFirst(bound)'
  BY <1>2, <1>3, <1>4 DEF FailsFirst, DepthAndBound
<1>6. open' # <<>> => open'[Len(open')].child
  <2>1. open' # <<>> => Len(open') \in 1..(Len(open) - 1)
    BY <1>3, EmptySeq DEF Frames
  <2> QED
    BY <1>3, <2>1
<1> QED
  BY <1>1, <1>2, <1>3, <1>5, <1>6 DEF DepthAndBound

LEMMA BeginKeeps ==
  ASSUME NEW opts, BeginDocument(opts)
  PROVE  Frames' /\ DepthAndBound'
<1>1. Frames' /\ open' = <<>> /\ Len(open') = 0
  BY EmptySeq DEF BeginDocument, Frames
<1> QED
  BY <1>1 DEF BeginDocument, DepthAndBound, FailsFirst

(***************************************************************************)
(* The load                                                                *)
(***************************************************************************)
\* Where a document begins and ends nothing is open.
AtRoot == /\ phase \in {"prolog", "epilog"} => open = <<>>
          /\ phase = "body" => open # <<>>
          /\ heard = "stopped" <=> phase \in {"down", "crashed"}

Inv == TypeOK /\ DepthAndBound /\ AtRoot

LEMMA DefaultType == Default \in [Option -> BOOLEAN]
  BY DEF Default

LEMMA MergedType ==
  ASSUME NEW file \in KeyFile, NEW opts \in [Option -> BOOLEAN]
  PROVE  Merged(file, opts) \in [Option -> BOOLEAN]
  BY DEF Merged, KeyFile

LEMMA WrittenType ==
  ASSUME NEW opts \in [Option -> BOOLEAN]
  PROVE  /\ Written(opts) \in KeyFile
         /\ \A o \in Option : (Written(opts)[o] = "true") = opts[o]
  BY DEF Written, KeyFile, Given

\* The parts of Inv that the parser owns, and those it does not.
ParserTypes == /\ Frames /\ depth \in Int /\ bound \in Int
               /\ opt \in Option \cup {NoOption}
               /\ draft \in [Option -> BOOLEAN]
LoadTypes == /\ phase \in Phases /\ left \in 0..Profiles
             /\ work \in [Option -> BOOLEAN] /\ options \in [Option -> BOOLEAN]
             /\ meant \in [Option -> BOOLEAN]
             /\ savedFile \in KeyFile \cup {NoFile, NoGroup}
             /\ conf \in ConfFiles
             /\ heard \in {"true", "false", "other", "whole", "broken", "nothing",
                           "stopped"}

LEMMA InvParts == Inv <=> ParserTypes /\ LoadTypes /\ DepthAndBound /\ AtRoot
  BY DEF Inv, TypeOK, ParserTypes, LoadTypes, Frames, Frame

LEMMA InvPartsNext ==
  (ParserTypes /\ LoadTypes /\ DepthAndBound /\ AtRoot)' => Inv'
  BY DEF Inv, TypeOK, ParserTypes, LoadTypes, Frames, Frame

LEMMA BeginParser ==
  ASSUME NEW opts \in [Option -> BOOLEAN], BeginDocument(opts)
  PROVE  ParserTypes' /\ DepthAndBound' /\ open' = <<>>
<1>1. Frames' /\ DepthAndBound'
  BY BeginKeeps
<1> QED
  BY <1>1 DEF BeginDocument, ParserTypes

LEMMA SameParser ==
  ASSUME ParserTypes, DepthAndBound, UNCHANGED parserVars
  PROVE  ParserTypes' /\ DepthAndBound' /\ open' = open
  BY DEF parserVars, ParserTypes, Frames, DepthAndBound, FailsFirst

LEMMA ParserStep ==
  ASSUME ParserTypes, DepthAndBound,
         \/ \E el \in Elements : StartElement(el)
         \/ EndElement
         \/ \E word \in {"true", "false", "other"} : Text(word)
  PROVE  ParserTypes' /\ DepthAndBound'
<1> USE DEF ParserTypes
<1>1. ASSUME NEW el \in Elements, StartElement(el) PROVE ParserTypes' /\ DepthAndBound'
  <2>1. Frames' /\ DepthAndBound'
    BY <1>1, StartKeeps
  <2>2. opt' \in Option \cup {NoOption} /\ bound' \in Int
    BY <1>1, ElementOptions DEF StartElement, RaisedBound
  <2> QED
    BY <1>1, <2>1, <2>2 DEF StartElement
<1>2. ASSUME EndElement PROVE ParserTypes' /\ DepthAndBound'
  <2>1. Frames' /\ DepthAndBound'
    BY <1>2, EndKeeps
  <2> QED
    BY <1>2, <2>1 DEF EndElement, LoweredBound
<1>3. ASSUME NEW word, Text(word) PROVE ParserTypes' /\ DepthAndBound'
  <2>1. Frames' /\ DepthAndBound'
    BY <1>3 DEF Text, Frames, DepthAndBound, FailsFirst
  <2>2. draft' \in [Option -> BOOLEAN]
    BY <1>3 DEF Text
  <2> QED
    BY <1>3, <2>1, <2>2 DEF Text
<1> QED
  BY <1>1, <1>2, <1>3

LEMMA InvInit == Init => Inv
<1> SUFFICES ASSUME Init PROVE Inv
  OBVIOUS
<1>1. Frames /\ Len(open) = 0
  BY EmptySeq DEF Init, Frames
<1>2. DepthAndBound
  BY <1>1 DEF Init, DepthAndBound, FailsFirst
<1>3. ParserTypes
  BY <1>1, DefaultType DEF Init, ParserTypes
<1>4. LoadTypes
  BY DefaultType, ConfigAssumption DEF Init, LoadTypes, Phases
<1> QED
  BY <1>2, <1>3, <1>4, InvParts DEF AtRoot, Init

LEMMA DocumentKeeps == ASSUME Inv, Document PROVE Inv'
<1> USE DEF loadVars, Documents, Phases
<1>1. ParserTypes /\ LoadTypes /\ DepthAndBound /\ AtRoot
  BY InvParts
<1>2. Len(open) \in Nat
  BY <1>1, BoundFacts DEF ParserTypes
<1>3. ASSUME NEW el \in Elements, XmlStart(el) PROVE Inv'
  <2>0. ParserTypes' /\ DepthAndBound'
    BY <1>1, <1>3, ParserStep DEF XmlStart
  <2>1. open' # <<>>
    <3>1. open' = Pushed(el)
      BY <1>3 DEF XmlStart, StartElement
    <3>2. Len(Pushed(el)) = Len(open) + 1
      BY <1>1, PushedFrames DEF ParserTypes, Frames
    <3> QED
      BY <1>2, <3>1, <3>2
  <2>2. LoadTypes' /\ AtRoot'
    BY <1>1, <1>3, <2>1 DEF XmlStart, LoadTypes, AtRoot
  <2> QED
    BY <2>0, <2>2, InvPartsNext
<1>4. ASSUME XmlEnd PROVE Inv'
  <2>1. ParserTypes' /\ DepthAndBound'
    BY <1>1, <1>4, ParserStep DEF XmlEnd
  <2>2. Len(open') = Len(open) - 1
    BY <1>1, <1>4, PoppedFrames DEF XmlEnd, EndElement, ParserTypes, Frames
  <2>3. open' = <<>> <=> Len(open) = 1
    BY <1>2, <2>1, <2>2, EmptySeq, SMTT(30) DEF ParserTypes, Frames
  <2>4. LoadTypes' /\ AtRoot'
    BY <1>1, <1>4, <2>3 DEF XmlEnd, LoadTypes, AtRoot
  <2> QED
    BY <2>1, <2>4, InvPartsNext
<1>5. ASSUME NEW word \in {"true", "false", "other"}, XmlText(word) PROVE Inv'
  <2>1. ParserTypes' /\ DepthAndBound' /\ open' = open
    BY <1>1, <1>5, ParserStep DEF XmlText, Text
  <2>2. LoadTypes' /\ AtRoot'
    BY <1>1, <1>5, <2>1 DEF XmlText, LoadTypes, AtRoot
  <2> QED
    BY <2>1, <2>2, InvPartsNext
<1>6. ASSUME NEW el \in Elements, Fault(el) PROVE Inv'
  <2>1. ParserTypes' /\ DepthAndBound'
    BY <1>6, DefaultType, BeginParser DEF Fault
  <2>2. LoadTypes' /\ AtRoot'
    BY <1>1, <1>6 DEF Fault, LoadTypes, AtRoot
  <2> QED
    BY <2>1, <2>2, InvPartsNext
<1>7. ASSUME ParseError PROVE Inv'
  <2>1. ParserTypes' /\ DepthAndBound'
    BY <1>1, <1>7, BeginParser DEF ParseError, LoadTypes
  <2>2. LoadTypes' /\ AtRoot'
    BY <1>1, <1>7 DEF ParseError, LoadTypes, AtRoot
  <2> QED
    BY <2>1, <2>2, InvPartsNext
<1>8. ASSUME EndDocument PROVE Inv'
  <2>1. ParserTypes' /\ DepthAndBound'
    BY <1>1, <1>8, SameParser DEF EndDocument
  <2>2. LoadTypes' /\ AtRoot'
    BY <1>1, <1>8 DEF EndDocument, LoadTypes, AtRoot, ParserTypes
  <2> QED
    BY <2>1, <2>2, InvPartsNext
<1> QED
  BY <1>3, <1>4, <1>5, <1>6, <1>7, <1>8 DEF Document

\* A step that sets the parser up, and one that leaves it alone outside of a
\* document.
LEMMA FreshInv ==
  ASSUME NEW opts \in [Option -> BOOLEAN], BeginDocument(opts), LoadTypes',
         phase' # "body", (heard = "stopped" <=> phase \in {"down", "crashed"})'
  PROVE  Inv'
<1>1. ParserTypes' /\ DepthAndBound' /\ open' = <<>>
  BY BeginParser
<1> QED
  BY <1>1, InvPartsNext DEF AtRoot

LEMMA IdleInv ==
  ASSUME Inv, UNCHANGED parserVars, LoadTypes', phase' \notin Documents,
         (heard = "stopped" <=> phase \in {"down", "crashed"})'
  PROVE  Inv'
<1>1. ParserTypes' /\ DepthAndBound'
  BY InvParts, SameParser
<1> QED
  BY <1>1, InvPartsNext DEF AtRoot, Documents

LEMMA StepKeeps == ASSUME Inv, [Next]_vars PROVE Inv'
<1> USE DEF loadVars, Documents, Phases
<1>1. LoadTypes /\ AtRoot /\ ParserTypes
  BY InvParts
<1>2. ASSUME NEW dmi \in BOOLEAN, Start(dmi) PROVE Inv'
  <2>1. options' \in [Option -> BOOLEAN]
    <3>1. Untrusted \in [Option -> BOOLEAN]
      BY DefaultType DEF Untrusted
    <3> QED
      BY <1>2, <3>1, DefaultType, MergedType DEF Start
  <2>2. LoadTypes'
    BY <1>1, <1>2, <2>1, DefaultType, ConfigAssumption DEF Start, LoadTypes
  <2> QED
    BY <1>2, <2>2, IdleInv DEF Start
<1>3. ASSUME NextProfile PROVE Inv'
  <2>1. LoadTypes'
    BY <1>1, <1>3, ConfigAssumption DEF NextProfile, LoadTypes
  <2> QED
    BY <1>1, <1>3, <2>1, FreshInv DEF NextProfile, LoadTypes
<1>4. ASSUME Unreadable PROVE Inv'
  <2>1. LoadTypes'
    BY <1>1, <1>4, ConfigAssumption DEF Unreadable, LoadTypes
  <2> QED
    BY <1>1, <1>4, <2>1, IdleInv DEF Unreadable, AtRoot
<1>5. ASSUME RemoveSaved PROVE Inv'
  <2>1. LoadTypes'
    BY <1>1, <1>5 DEF RemoveSaved, LoadTypes
  <2> QED
    BY <1>1, <1>5, <2>1, IdleInv DEF RemoveSaved, AtRoot
<1>6. ASSUME NEW ok \in BOOLEAN, WriteSaved(ok) PROVE Inv'
  <2>1. Saved \in KeyFile
    BY <1>1, WrittenType DEF Saved, LoadTypes
  <2>2. LoadTypes'
    BY <1>1, <1>6, <2>1 DEF WriteSaved, LoadTypes
  <2> QED
    BY <1>1, <1>6, <2>2, IdleInv DEF WriteSaved, AtRoot
<1>7. ASSUME MergeConf PROVE Inv'
  <2>1. options' \in [Option -> BOOLEAN]
    BY <1>1, <1>7, MergedType, ConfigAssumption DEF MergeConf, LoadTypes
  <2>2. LoadTypes'
    BY <1>1, <1>7, <2>1 DEF MergeConf, LoadTypes
  <2> QED
    BY <1>1, <1>7, <2>2, IdleInv DEF MergeConf, AtRoot
<1>8. ASSUME Environment PROVE Inv'
  <2>1. LoadTypes' /\ phase' = "down" /\ heard' = "stopped"
    BY <1>1, <1>8 DEF Environment, Stop, PowerFailure, EditConf, RemoveHardwareConf,
                      LoadTypes, AtRoot
  <2>2. UNCHANGED parserVars \/ BeginDocument(Default)
    BY <1>8 DEF Environment, Stop, PowerFailure, EditConf, RemoveHardwareConf
  <2> QED
    BY <2>1, <2>2, DefaultType, IdleInv, FreshInv
<1>9. ASSUME UNCHANGED vars PROVE Inv'
  <2>1. LoadTypes' /\ AtRoot' /\ UNCHANGED parserVars
    BY <1>1, <1>9 DEF vars, LoadTypes, AtRoot, parserVars
  <2>2. ParserTypes' /\ DepthAndBound'
    BY <2>1, InvParts, SameParser
  <2> QED
    BY <2>1, <2>2, InvPartsNext
<1> QED
  BY <1>2, <1>3, <1>4, <1>5, <1>6, <1>7, <1>8, <1>9, DocumentKeeps DEF Next, Load

LEMMA InvAlways == Spec => []Inv
<1>1. Init => Inv
  BY InvInit
<1>2. Inv /\ [Next]_vars => Inv'
  BY StepKeeps
<1> QED
  BY <1>1, <1>2, PTL DEF Spec

\* Every variable keeps its type, for any documents, machine and files.
THEOREM ConfigTypeCorrect == Spec => []TypeOK
<1>1. Inv => TypeOK
  BY DEF Inv
<1> QED
  BY <1>1, InvAlways, PTL

\* The counters of the parser always stand for the stack of open elements.
THEOREM DepthAndBoundAlways == Spec => []DepthAndBound
<1>1. Inv => DepthAndBound
  BY DEF Inv
<1> QED
  BY <1>1, InvAlways, PTL

(***************************************************************************)
(* The files                                                               *)
(***************************************************************************)
LoadedFrom(opts) ==
    /\ phase = "merge" => options = opts
    /\ phase = "running" => options = Merged(conf, opts)

\* What OptionsFollowFiles needs of the steps that lead to a running daemon.
FilesInv ==
    /\ phase = "save" => options = work /\ savedFile = NoFile /\ left = 0
    /\ savedFile \in KeyFile =>
          /\ savedFile = Written(meant)
          /\ phase \notin {"profiles", "prolog", "body", "epilog", "save"}
          /\ phase = "merge" => options = meant
          /\ phase = "running" => options = Merged(conf, meant)
    /\ phase \in {"merge", "running"} /\ savedFile \notin KeyFile =>
          (left = 0 /\ LoadedFrom(work)) \/ (left = Profiles /\ LoadedFrom(Untrusted))

\* Reading what was written gives it back.
LEMMA WrittenMerged ==
  ASSUME NEW opts \in [Option -> BOOLEAN], NEW base
  PROVE  Merged(Written(opts), base) = opts
<1>1. \A o \in Option : Written(opts)[o] # "missing" /\ (Written(opts)[o] = "true") = opts[o]
  BY DEF Written
<1>2. Merged(Written(opts), base) = [o \in Option |-> opts[o]]
  BY <1>1 DEF Merged
<1> QED
  BY <1>2

LEMMA FilesStep == ASSUME Inv, FilesInv, [Next]_vars PROVE FilesInv'
<1> USE DEF FilesInv, LoadedFrom, loadVars, Documents
<1>1. LoadTypes
  BY InvParts
<1>2. NoFile \notin KeyFile /\ NoGroup \notin KeyFile
  BY ConfigAssumption
<1>3. ASSUME Document PROVE FilesInv'
  BY <1>3 DEF Document, XmlStart, XmlEnd, XmlText, Fault, ParseError, EndDocument
<1>4. ASSUME NEW dmi \in BOOLEAN, Start(dmi) PROVE FilesInv'
  <2>1. savedFile \in KeyFile => Merged(savedFile, Default) = meant
    BY <1>1, WrittenMerged DEF LoadTypes
  <2> QED
    BY <1>2, <1>4, <2>1 DEF Start
<1>5. ASSUME NextProfile \/ Unreadable \/ RemoveSaved PROVE FilesInv'
  BY <1>2, <1>5 DEF NextProfile, Unreadable, RemoveSaved
<1>6. ASSUME NEW ok \in BOOLEAN, WriteSaved(ok) PROVE FilesInv'
  BY <1>2, <1>6 DEF WriteSaved, Saved
<1>7. ASSUME MergeConf PROVE FilesInv'
  BY <1>7 DEF MergeConf
<1>8. ASSUME Environment PROVE FilesInv'
  BY <1>2, <1>8 DEF Environment, Stop, PowerFailure, EditConf, RemoveHardwareConf
<1>9. ASSUME UNCHANGED vars PROVE FilesInv'
  BY <1>9 DEF vars
<1> QED
  BY <1>3, <1>4, <1>5, <1>6, <1>7, <1>8, <1>9 DEF Next, Load

\* The options of a running daemon always follow from hardware.conf and
\* urfkill.conf, and hardware.conf only from the profiles.
THEOREM OptionsFollowFilesAlways == Spec => []OptionsFollowFiles
<1>1. Init => FilesInv
  BY ConfigAssumption DEF Init, FilesInv
<1>2. Inv /\ FilesInv /\ [Next]_vars => FilesInv'
  BY FilesStep
<1>3. Inv /\ FilesInv => OptionsFollowFiles
  <2> SUFFICES ASSUME Inv, FilesInv PROVE OptionsFollowFiles
    OBVIOUS
  <2>1. meant \in [Option -> BOOLEAN]
    BY InvParts DEF LoadTypes
  <2>2. savedFile \in KeyFile => \A o \in Option : (savedFile[o] = "true") = meant[o]
    BY <2>1, WrittenType DEF FilesInv
  <2>3. ASSUME NEW opts, options = Merged(conf, opts) PROVE Follows(opts)
    BY <2>3 DEF Merged, Follows
  <2>4. ASSUME phase = "running", savedFile \in KeyFile PROVE Follows(meant)
    BY <2>3, <2>4 DEF FilesInv
  <2>5. ASSUME phase = "running", savedFile \notin KeyFile
        PROVE  (left = 0 /\ Follows(work)) \/ (left = Profiles /\ Follows(Untrusted))
    BY <2>3, <2>5 DEF FilesInv, LoadedFrom
  <2> QED
    BY <2>2, <2>4, <2>5 DEF OptionsFollowFiles
<1> QED
  BY <1>1, <1>2, <1>3, InvAlways, PTL DEF Spec

(***************************************************************************)
(* The refinement                                                          *)
(***************************************************************************)
ScopeSet == [passes : BOOLEAN, option : Option \cup {NoOption}]

LEMMA ScopeType == ASSUME NEW f PROVE Scope(f) \in ScopeSet
  BY ElementOptions DEF Scope, ScopeSet

\* The sequence of scopes of a sequence of frames.
ScopesOf(fs) == [i \in 1..Len(fs) |-> Scope(fs[i])]

LEMMA ScopesOfType ==
  ASSUME NEW fs \in Seq(Frame)
  PROVE  /\ ScopesOf(fs) \in Seq(ScopeSet) /\ Len(ScopesOf(fs)) = Len(fs)
         /\ \A i \in 1..Len(fs) : ScopesOf(fs)[i] = Scope(fs[i])
         /\ fs = <<>> => ScopesOf(fs) = <<>>
<1>1. Len(fs) \in Nat
  BY LenProperties
<1>2. ScopesOf(fs) \in [1..Len(fs) -> ScopeSet]
  BY ScopeType DEF ScopesOf
<1>3. ScopesOf(fs) \in Seq(ScopeSet) /\ Len(ScopesOf(fs)) = Len(fs)
  BY <1>1, <1>2, FunctionIsSeq
<1>4. fs = <<>> => ScopesOf(fs) = <<>>
  BY <1>3, EmptySeq
<1> QED
  BY <1>3, <1>4 DEF ScopesOf

LEMMA OpenRefines ==
  ASSUME Inv, NEW el \in Elements, XmlStart(el)
  PROVE  Meaning!Open
<1> DEFINE new == [passes |-> Passes(el), option |-> OptionOf(el)]
<1>1. /\ open \in Seq(Frame) /\ phase \in Documents /\ phase' \in Documents
      /\ open' = Pushed(el) /\ draft' = draft /\ work' = work
  BY InvParts DEF XmlStart, StartElement, ParserTypes, Frames, Documents, loadVars
<1>9. heard # "stopped" /\ heard' = "nothing"
  BY <1>1, InvParts DEF XmlStart, AtRoot, Documents
<1>2. /\ open' \in Seq(Frame) /\ Len(open) \in Nat /\ Len(open') = Len(open) + 1
      /\ \A i \in 1..Len(open) : open'[i] = open[i]
      /\ open'[Len(open) + 1] = [el |-> el, child |-> FALSE]
  BY <1>1, PushedFrames, LenProperties
<1>3. Scopes = ScopesOf(open) /\ Scopes' = ScopesOf(open')
  BY <1>1 DEF Scopes, ScopesOf
<1>4. ReadSoFar' = ReadSoFar
  BY <1>1 DEF ReadSoFar
<1>5. new \in ScopeSet /\ Scope([el |-> el, child |-> FALSE]) = new
  BY ElementOptions DEF ScopeSet, Scope
<1>6. ScopesOf(open') = Append(ScopesOf(open), new)
  <2>1. /\ ScopesOf(open) \in Seq(ScopeSet) /\ Len(ScopesOf(open)) = Len(open)
        /\ \A i \in 1..Len(open) : ScopesOf(open)[i] = Scope(open[i])
    BY <1>1, ScopesOfType
  <2>2. /\ ScopesOf(open') \in Seq(ScopeSet) /\ Len(ScopesOf(open')) = Len(open) + 1
        /\ \A i \in 1..(Len(open) + 1) : ScopesOf(open')[i] = Scope(open'[i])
    BY <1>2, ScopesOfType
  <2> DEFINE longer == Append(ScopesOf(open), new)
  <2>3. /\ longer \in Seq(ScopeSet) /\ Len(longer) = Len(open) + 1
        /\ \A i \in 1..Len(open) : longer[i] = ScopesOf(open)[i]
        /\ longer[Len(open) + 1] = new
    BY <1>5, <2>1, AppendProperties
  <2>4. ASSUME NEW i \in 1..(Len(open) + 1) PROVE ScopesOf(open')[i] = longer[i]
    <3>1. CASE i \in 1..Len(open)
      BY <1>2, <2>1, <2>2, <2>3, <3>1
    <3>2. CASE i = Len(open) + 1
      BY <1>2, <1>5, <2>2, <2>3, <3>2
    <3>3. i \in 1..Len(open) \/ i = Len(open) + 1
      BY <1>2, <2>4
    <3> QED
      BY <3>1, <3>2, <3>3
  <2> HIDE DEF longer
  <2>5. ScopesOf(open') = longer
    BY <2>2, <2>3, <2>4, SeqEqual
  <2> QED
    BY <2>5 DEF longer
<1>7. Scopes' = Append(Scopes, new)
  BY <1>3, <1>6
<1>8. Passes(el) \in BOOLEAN /\ OptionOf(el) \in Option \cup {NoOption}
  BY ElementOptions
<1> QED
  BY <1>1, <1>4, <1>7, <1>8, <1>9 DEF Meaning!Open

LEMMA CloseRefines ==
  ASSUME Inv, XmlEnd
  PROVE  Meaning!Close
<1>1. /\ open \in Seq(Frame) /\ open # <<>>
      /\ phase \in Documents /\ phase' \in Documents
      /\ open' = Popped /\ draft' = draft /\ work' = work
  BY InvParts DEF XmlEnd, EndElement, ParserTypes, Frames, Documents, loadVars
<1>9. heard' = "nothing"
  BY DEF XmlEnd
<1>2. /\ open' \in Seq(Frame) /\ Len(open) \in Nat \ {0} /\ Len(open') = Len(open) - 1
      /\ \A i \in 1..(Len(open) - 1) :
            /\ open'[i].el = open[i].el
            /\ open'[i].child = (i = Len(open) - 1 \/ open[i].child)
  BY <1>1, PoppedFrames
<1>3. Scopes = ScopesOf(open) /\ Scopes' = ScopesOf(open')
  BY <1>1 DEF Scopes, ScopesOf
<1>4. ReadSoFar' = ReadSoFar
  BY <1>1 DEF ReadSoFar
<1>5. /\ Scopes \in Seq(ScopeSet) /\ Len(Scopes) = Len(open)
      /\ \A i \in 1..Len(open) : Scopes[i] = Scope(open[i])
      /\ \A i \in 1..Len(open) : Scopes[i] \in ScopeSet
  BY <1>1, <1>3, ScopesOfType, ScopeType
<1>6. Scopes # <<>>
  BY <1>2, <1>5
<1>7. ASSUME NEW i \in 1..(Len(open) - 1)
      PROVE  Scope(open'[i]) = IF i = Len(open) - 1
                               THEN [Scopes[i] EXCEPT !.option = NoOption] ELSE Scopes[i]
  <2>1. i \in 1..Len(open)
    BY <1>2, <1>7
  <2>2. Scopes[i] = Scope(open[i])
    BY <1>5, <2>1
  <2>3. CASE i = Len(open) - 1
    <3>1. open'[i].el = open[i].el /\ open'[i].child
      BY <1>2, <1>7, <2>3
    <3>2. Scope(open'[i]) = [passes |-> Passes(open[i].el), option |-> NoOption]
      BY <3>1 DEF Scope
    <3> QED
      BY <2>2, <2>3, <3>2 DEF Scope
  <2>4. CASE i # Len(open) - 1
    BY <1>2, <1>7, <2>2, <2>4 DEF Scope
  <2> QED
    BY <2>3, <2>4
<1>8. Scopes' = [i \in 1..(Len(Scopes) - 1) |->
                    IF i = Len(Scopes) - 1
                    THEN [Scopes[i] EXCEPT !.option = NoOption] ELSE Scopes[i]]
  <2>1. Scopes' = [i \in 1..(Len(open) - 1) |-> Scope(open'[i])]
    BY <1>2, <1>3 DEF ScopesOf
  <2>2. Len(Scopes) = Len(open)
    BY <1>5
  <2> QED
    BY <1>7, <2>1, <2>2
<1> QED
  BY <1>1, <1>4, <1>6, <1>8, <1>9 DEF Meaning!Close

\* The option that the parser has in opt is the one whose text may come, and
\* there is none where an element around it does not match.
LEMMA OptionIsNamed ==
  ASSUME Inv, phase = "body"
  PROVE  opt = IF Meaning!Inside THEN Meaning!Named ELSE NoOption
<1>1. /\ open \in Seq(Frame) /\ open # <<>> /\ Frames /\ DepthAndBound
  BY InvParts DEF ParserTypes, Frames, AtRoot
<1>2. Scopes = ScopesOf(open)
  BY DEF Scopes, ScopesOf, Documents
<1>3. /\ Len(open) \in Nat \ {0} /\ Len(Scopes) = Len(open) /\ Scopes # <<>>
      /\ DOMAIN Scopes = 1..Len(open)
      /\ \A i \in 1..Len(open) : Scopes[i] = Scope(open[i])
  <2>1. /\ Len(open) \in Nat \ {0} /\ Len(Scopes) = Len(open)
        /\ DOMAIN Scopes = 1..Len(Scopes)
        /\ \A i \in 1..Len(open) : Scopes[i] = Scope(open[i])
    BY <1>1, <1>2, EmptySeq, ScopesOfType, LenProperties
  <2> QED
    BY <2>1
<1>4. Meaning!Inside <=> bound = Len(open) + 1
  <2>1. Meaning!Inside <=> \A i \in 1..Len(open) : Passes(open[i].el)
    BY <1>3 DEF Meaning!Inside, Scope
  <2> QED
    BY <1>1, <2>1, BoundFacts
<1>5. Meaning!Named = IF open[Len(open)].child THEN NoOption
                                               ELSE OptionOf(open[Len(open)].el)
  <2>1. Scopes[Len(Scopes)] = Scope(open[Len(open)])
    BY <1>3
  <2> QED
    BY <1>3, <2>1 DEF Meaning!Named, Scope
<1>6. opt = IF bound = Len(open) + 1 /\ ~open[Len(open)].child
            THEN OptionOf(open[Len(open)].el) ELSE NoOption
  BY <1>1 DEF DepthAndBound
<1> QED
  BY <1>4, <1>5, <1>6

LEMMA SayRefines ==
  ASSUME Inv, NEW word \in {"true", "false", "other"}, XmlText(word)
  PROVE  Meaning!Say(word)
<1>1. /\ open' = open /\ phase = "body" /\ phase' = phase /\ work' = work
      /\ open \in Seq(Frame) /\ open # <<>> /\ heard' = word
  BY InvParts DEF XmlText, Text, ParserTypes, Frames, loadVars
<1>2. Scopes' = Scopes /\ Scopes # <<>>
  <2>1. Scopes = ScopesOf(open) /\ Scopes' = Scopes
    BY <1>1 DEF Scopes, ScopesOf, Documents
  <2> QED
    BY <1>1, <2>1, ScopesOfType, EmptySeq
<1>3. ReadSoFar = draft /\ ReadSoFar' = draft'
  BY <1>1 DEF ReadSoFar, Documents
<1>4. opt = IF Meaning!Inside THEN Meaning!Named ELSE NoOption
  BY <1>1, OptionIsNamed
<1>5. opt \in Option <=> Meaning!Inside /\ Meaning!Named \in Option
  BY <1>4, OptionAssumption
<1>6. draft' = IF opt \in Option /\ word \in {"true", "false"}
               THEN [draft EXCEPT ![opt] = (word = "true")] ELSE draft
  BY DEF XmlText, Text
<1>7. draft' = IF Meaning!Inside /\ Meaning!Named \in Option /\ word \in {"true", "false"}
               THEN [draft EXCEPT ![Meaning!Named] = (word = "true")] ELSE draft
  <2>1. CASE opt \in Option
    <3>1. opt = Meaning!Named
      BY <1>4, <1>5, <2>1
    <3> QED
      BY <1>5, <1>6, <2>1, <3>1
  <2>2. CASE opt \notin Option
    BY <1>5, <1>6, <2>2
  <2> QED
    BY <2>1, <2>2
<1> QED
  BY <1>1, <1>2, <1>3, <1>7 DEF Meaning!Say

\* Every step of the load is a step of ProfileMeaning, or changes nothing it
\* speaks of.
LEMMA StepRefines ==
  ASSUME Inv, [Next]_vars
  PROVE  [Meaning!Next]_(<<Scopes, ReadSoFar, work, heard>>)
<1> USE DEF loadVars, Documents
<1>1. ASSUME NEW el \in Elements, XmlStart(el) PROVE Meaning!Next
  BY <1>1, OpenRefines DEF Meaning!Next
<1>2. ASSUME XmlEnd PROVE Meaning!Next
  BY <1>2, CloseRefines DEF Meaning!Next
<1>3. ASSUME NEW word \in {"true", "false", "other"}, XmlText(word)
      PROVE  Meaning!Next
  BY <1>3, SayRefines DEF Meaning!Next
<1>4. ASSUME ParseError \/ (\E el \in Elements : Fault(el)) \/ Stop \/ PowerFailure
      PROVE  Meaning!Next
  <2>1. Scopes' = <<>> /\ ReadSoFar' = work' /\ work' = work
        /\ heard' \in {"broken", "stopped"}
    BY <1>4 DEF ParseError, Fault, Stop, PowerFailure, Scopes, ReadSoFar
  <2> QED
    BY <2>1 DEF Meaning!Abandon, Meaning!Next
<1>5. ASSUME EndDocument PROVE Meaning!Next
  <2>1. open = <<>> /\ phase = "epilog"
    BY <1>5, InvParts DEF EndDocument, AtRoot
  <2>2. Scopes = <<>>
    <3>1. Scopes = ScopesOf(open) /\ open \in Seq(Frame)
      BY <2>1, InvParts DEF Scopes, ScopesOf, ParserTypes, Frames
    <3> QED
      BY <2>1, <3>1, ScopesOfType
  <2>3. Scopes' = <<>> /\ ReadSoFar = draft /\ ReadSoFar' = draft /\ work' = draft
        /\ heard' = "whole"
    BY <1>5 DEF EndDocument, Scopes, ReadSoFar, parserVars
  <2> QED
    BY <2>2, <2>3 DEF Meaning!Commit, Meaning!Next
<1>6. ASSUME NEW dmi \in BOOLEAN, Start(dmi) PROVE Meaning!Next
  <2>1. heard = "stopped" /\ phase \notin Documents
    BY <1>6, InvParts DEF Start, AtRoot
  <2>2. Scopes = <<>> /\ Scopes' = <<>> /\ ReadSoFar' = Default /\ work' = Default
        /\ heard' = "nothing"
    BY <1>6, <2>1 DEF Start, Scopes, ReadSoFar
  <2> QED
    BY <2>1, <2>2 DEF Meaning!Begin, Meaning!Next
<1>7. ASSUME NextProfile PROVE Meaning!Next
  <2>1. /\ phase = "profiles" /\ phase' = "prolog" /\ open' = <<>>
        /\ draft' = work /\ work' = work /\ heard' = "nothing"
    BY <1>7 DEF NextProfile, BeginDocument
  <2>2. Scopes' = <<>>
    <3>1. Scopes' = ScopesOf(open') /\ open' \in Seq(Frame)
      BY <2>1, EmptySeq DEF Scopes, ScopesOf
    <3> QED
      BY <2>1, <3>1, ScopesOfType
  <2>3. Scopes = <<>> /\ ReadSoFar = work /\ ReadSoFar' = work /\ heard # "stopped"
    BY <2>1, InvParts DEF Scopes, ReadSoFar, AtRoot
  <2> QED
    BY <2>1, <2>2, <2>3 DEF Meaning!Continue, Meaning!Next
<1>8. ASSUME \/ Unreadable \/ RemoveSaved \/ MergeConf
             \/ \E ok \in BOOLEAN : WriteSaved(ok)
             \/ RemoveHardwareConf
             \/ \E c \in ConfFiles : EditConf(c)
      PROVE  UNCHANGED <<Scopes, ReadSoFar, work, heard>>
  <2>1. phase \notin Documents /\ phase' \notin Documents /\ work' = work
        /\ heard' = heard
    BY <1>8 DEF Unreadable, RemoveSaved, MergeConf, WriteSaved, RemoveHardwareConf,
                EditConf
  <2> QED
    BY <2>1 DEF Scopes, ReadSoFar
<1>9. ASSUME UNCHANGED vars PROVE UNCHANGED <<Scopes, ReadSoFar, work, heard>>
  BY <1>9 DEF vars, parserVars, Scopes, ReadSoFar
<1> QED
  BY <1>1, <1>2, <1>3, <1>4, <1>5, <1>6, <1>7, <1>8, <1>9
     DEF Next, Load, Document, Environment

\* The handlers with their two counters read every profile, and every set of
\* profiles, as ProfileMeaning says that it is meant.
THEOREM ParserImplementsMeaning == Spec => ParserMeans
<1>1. Init => Meaning!Init
  BY DEF Init, Meaning!Init, Scopes, ReadSoFar, Documents
<1>2. Inv /\ [Next]_vars => [Meaning!Next]_(Meaning!meaningVars)
  BY StepRefines DEF Meaning!meaningVars
<1> QED
  BY <1>1, <1>2, InvAlways, PTL DEF Spec, ParserMeans, Meaning!Spec
=============================================================================
