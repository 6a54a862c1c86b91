--------------------------- MODULE ProfileParser ---------------------------
(***************************************************************************)
(* The handlers that urf-config.c gives to expat to read one hardware      *)
(* profile.  They keep no stack: two counters, the depth of the element    *)
(* and a bound on the depth that still counts, stand for the nesting, and  *)
(* opt stands for the option whose text may come next.                     *)
(***************************************************************************)
EXTENDS ProfileMatch, Integers, Sequences

CONSTANTS
    Option,     \* the options of urfkill.conf that a profile can set
    NoOption,   \* OPT_NONE and OPT_UNKNOWN
    Elements,   \* elements a document may have: a name and attributes
    MaxDepth    \* bound: how deep a document nests them

ASSUME OptionAssumption == NoOption \notin Option /\ MaxDepth \in Nat

VARIABLES
    open,       \* expat: the elements that are open, and whether it has
                \* closed a child of theirs
    depth,      \* ParseInfo xml_depth
    bound,      \* ParseInfo xml_bound
    opt,        \* ParseInfo opt
    draft       \* ParseInfo options

parserVars == <<open, depth, bound, opt, draft>>

\* A mistake that TypeOK must find: the key is not looked up.
OptionOf_Unchecked(el) ==
    IF el.name = "option" THEN CHOOSE o \in Attributes(el.atts).key : TRUE
                          ELSE NoOption

\* get_option, with the key found in the attributes: NoOption when there is
\* none or it is unknown.
OptionOf(el) ==
    LET keys == Attributes(el.atts).key \cap Option
    IN  IF el.name = "option" /\ keys # {} THEN CHOOSE o \in keys : TRUE
                                           ELSE NoOption

Passes(el) == el.name = "match" => MatchPasses(el.atts)
Faults(el) == el.name = "match" /\ MatchFaults(el.atts)

\* expat pushes and pops the elements.
Pushed(el) == Append(open, [el |-> el, child |-> FALSE])
Popped == [i \in 1..(Len(open) - 1) |->
              IF i = Len(open) - 1 THEN [open[i] EXCEPT !.child = TRUE] ELSE open[i]]

\* profile_xml_parse sets the ParseInfo up from the options found so far.
BeginDocument(options) ==
    /\ open' = <<>>
    /\ depth' = 0
    /\ bound' = 1
    /\ opt' = NoOption
    /\ draft' = options

\* Is the element that starts now at a level that counts?
Counts == depth + 1 <= bound

\* The bound after an element that counts: one level more if it passes.  (The
\* source first raises a bound that is too low to the element's own level and
\* one more, which DepthAndBound shows never to happen.)
RaisedBound(el) ==
    LET own == IF depth + 1 < bound THEN depth + 2 ELSE bound
    IN  IF Passes(el) THEN own + 1 ELSE own

\* parse_xml_start_element
StartElement(el) ==
    /\ Len(open) < MaxDepth
    /\ Counts => ~Faults(el)
    /\ open' = Pushed(el)
    /\ depth' = depth + 1
    /\ IF Counts
       THEN /\ bound' = RaisedBound(el)
            /\ opt' = OptionOf(el)
       ELSE UNCHANGED <<bound, opt>>
    /\ UNCHANGED draft

\* A mistake that DepthAndBound must find: only an element that did not
\* match lowers the bound.
LoweredBound_IfEqual == IF bound = depth THEN depth - 1 ELSE bound

\* The level of the element that ends counts again for its siblings.
LoweredBound == IF bound > depth THEN depth ELSE bound

\* parse_xml_end_element
EndElement ==
    /\ open # <<>>
    /\ open' = Popped
    /\ bound' = LoweredBound
    /\ opt' = NoOption
    /\ depth' = depth - 1
    /\ UNCHANGED draft

\* A mistake that ParserMeans must find: the word false changes nothing.
Text_TrueOnly(word) ==
    /\ open # <<>>
    /\ draft' = IF opt \in Option /\ word = "true"
                THEN [draft EXCEPT ![opt] = TRUE] ELSE draft
    /\ UNCHANGED <<open, depth, bound, opt>>

\* parse_xml_cdata_handler: one piece of text; only the words true and false,
\* in any case and with nothing around them, change an option.
Text(word) ==
    /\ open # <<>>
    /\ draft' = IF opt \in Option /\ word \in {"true", "false"}
                THEN [draft EXCEPT ![opt] = (word = "true")] ELSE draft
    /\ UNCHANGED <<open, depth, bound, opt>>

\* Level n is that of the first open element that does not match, or that of
\* the next one to open.
FailsFirst(n) ==
    /\ n \in 1..(Len(open) + 1)
    /\ \A i \in 1..(n - 1) : Passes(open[i].el)
    /\ n <= Len(open) => ~Passes(open[n].el)

\* The two counters and the option that the handlers keep say exactly what the
\* stack of open elements says, which they do not keep: depth is its height,
\* bound the level of the first element that does not match (or of the next
\* one), and opt the innermost element's option, if all match and no child of
\* it has ended.
DepthAndBound ==
    /\ depth = Len(open)
    /\ FailsFirst(bound)
    /\ opt = IF bound = Len(open) + 1 /\ open # <<>> /\ ~open[Len(open)].child
             THEN OptionOf(open[Len(open)].el) ELSE NoOption
=============================================================================
