---------------------------- MODULE ProfileMatch ----------------------------
(***************************************************************************)
(* The rules of the hardware profiles: the attributes of a <match> element *)
(* name a field of the machine's DMI table, an operator and a text, and    *)
(* the element matches when the operator relates the field to the text.    *)
(* A text is a sequence of letters; ";" separates the tokens of a list.    *)
(***************************************************************************)
LOCAL INSTANCE Naturals
LOCAL INSTANCE Sequences
LOCAL INSTANCE SequencesExt

CONSTANTS
    Lower,      \* the lower-case form of every letter
    Separator,  \* ";"
    Hardware    \* the fields of the DMI table that the machine has, as texts

\* An attribute's name is a word and a suffix; an operator's name is a relation
\* and the form in which it is used.
KeyName == <<"key", "">>

Operators ==
    {"string", "contains", "prefix", "suffix"} \X {"", "_outof"}
        \cup {"contains", "prefix", "suffix"} \X {"_ncase"}
        \cup {<<"contains", "_not">>}

Fields == {"sys_vendor", "bios_date", "bios_vendor", "bios_version",
           "product_name", "product_version"}

ASSUME HardwareAssumption == DOMAIN Hardware \subseteq Fields

\* What the loop over the attributes has found: the key and the text are sets
\* of at most one value, empty where the code has NULL, and the operator is
\* the first of the enumeration when no attribute named one.
NoAttributes == [key |-> {}, operator |-> <<"string", "">>, body |-> {}]

\* One attribute.  A name that is neither "key" nor an operator still
\* overwrites the operator.  (The code then reads that attribute's value as a
\* name; a value that is itself one of the names is left out here.)
ReadAttribute(found, att) ==
    IF att.name = KeyName THEN [found EXCEPT !.key = {att.value}]
    ELSE IF att.name \in Operators
    THEN [found EXCEPT !.operator = att.name, !.body = {att.value}]
    ELSE [found EXCEPT !.operator = <<"unknown", "">>]

Attributes(atts) == FoldLeft(ReadAttribute, NoAttributes, atts)

\* The non-empty tokens of a list.
Tokens(text) ==
    LET Bounded(i) == i \in {0, Len(text) + 1} \/ text[i] = Separator
    IN  {SubSeq(text, b[1] + 1, b[2] - 1) :
            b \in {c \in (0..Len(text)) \X (2..(Len(text) + 1)) :
                    /\ c[1] + 1 < c[2]
                    /\ Bounded(c[1]) /\ Bounded(c[2])
                    /\ \A i \in (c[1] + 1)..(c[2] - 1) : ~Bounded(i)}}

Lowered(text) == [i \in DOMAIN text |-> Lower[text[i]]]

Related(relation, text, part) ==
    \/ relation = "string" /\ text = part
    \/ relation = "contains" /\ \E i \in 0..(Len(text) - Len(part)) :
            \A j \in DOMAIN part : text[i + j] = part[j]
    \/ relation = "prefix" /\ IsPrefix(part, text)
    \/ relation = "suffix" /\ IsSuffix(part, text)

\* match_rule: an empty text matches nothing, not even with contains_not.
MatchRule(text, operator, body) ==
    /\ text # <<>> /\ body # <<>>
    /\ \/ operator[2] = "" /\ Related(operator[1], text, body)
       \/ operator[2] = "_ncase" /\ Related(operator[1], Lowered(text), Lowered(body))
       \/ operator[2] = "_not" /\ ~Related(operator[1], text, body)
       \/ operator[2] = "_outof" /\ \E t \in Tokens(body) :
                                        Related(operator[1], text, t)

\* get_match_key: the texts of the named field, none when the key is missing,
\* unknown, or a field the machine does not have.
MatchTexts(key) == {Hardware[f] : f \in key \cap DOMAIN Hardware}

\* A <match> counts as matching when there is no text to compare, and a known
\* field without a text to compare it with ends the process in match_rule.
MatchPasses(atts) ==
    LET found == Attributes(atts)
    IN  \A text \in MatchTexts(found.key) :
            \E body \in found.body : MatchRule(text, found.operator, body)

MatchFaults(atts) ==
    LET found == Attributes(atts)
    IN  found.body = {} /\ \E text \in MatchTexts(found.key) : text # <<>>

\* A list means its tokens: separators more or less at its end, also none but
\* separators, and the order of the tokens change nothing, although the empty
\* token between them is a prefix, a suffix and a part of every text.
ListsMeanTokens(texts) ==
    \A text, a, b \in texts, r \in {"string", "contains", "prefix", "suffix"} :
        LET Matches(body) == MatchRule(text, <<r, "_outof">>, body)
            Sep           == <<Separator>>
        IN  /\ Matches(a \o Sep) <=> Matches(a)
            /\ Matches(a \o Sep \o b) <=> Matches(a) \/ Matches(b)
            /\ ~Matches(Sep \o Sep)

\* The operators of one relation agree where they should: a text without a
\* separator is a list of one, _not is the opposite of the plain operator on
\* texts that are not empty, and _ncase says what the plain operator says of
\* the lower-case forms.
FormsAgree(texts) ==
    \A text, body \in texts : \A op \in Operators :
        LET plain == MatchRule(text, <<op[1], "">>, body)
        IN  CASE op[2] = "_outof" -> MatchRule(text, op, body) <=> plain
              [] op[2] = "_not"   -> text # <<>> /\ body # <<>> =>
                                        (MatchRule(text, op, body) <=> ~plain)
              [] op[2] = "_ncase" -> MatchRule(text, op, body) <=>
                                        MatchRule(Lowered(text), <<op[1], "">>,
                                                  Lowered(body))
              [] OTHER            -> MatchRule(text, op, body) => op[1] = "string"
                                        \/ Len(body) <= Len(text)
=============================================================================
