--------------------------- MODULE ProfileMeaning ---------------------------
(***************************************************************************)
(* What a set of hardware profiles means, said with the nesting of the     *)
(* documents: an option takes the value written in it exactly when every   *)
(* element around it matches this machine, a later value replaces an       *)
(* earlier one, and a document counts only when all of it was well formed. *)
(***************************************************************************)
LOCAL INSTANCE Naturals
LOCAL INSTANCE Sequences

CONSTANTS
    Option,     \* the options a profile can set
    NoOption,   \* what an element that is not an option names
    Default     \* the values the options have before any profile

VARIABLES
    scopes,     \* the elements that are open: does it match, what it names
    draft,      \* the options as the document read so far leaves them
    agreed,     \* the options as the documents read to their end leave them
    heard       \* what the reader was told last: a word, that the document is
                \* "whole" or "broken", "nothing" of these, or to have "stopped"

meaningVars == <<scopes, draft, agreed, heard>>

Inside == \A i \in DOMAIN scopes : scopes[i].passes

\* The option whose text would come next: the innermost element's, of which
\* no child has been closed.
Named == IF scopes = <<>> THEN NoOption ELSE scopes[Len(scopes)].option

Init == scopes = <<>> /\ draft = Default /\ agreed = Default /\ heard = "stopped"

\* A process begins to read the profiles, and goes on to the next of them.
Begin ==
    /\ heard = "stopped" /\ heard' = "nothing"
    /\ draft' = Default /\ agreed' = Default
    /\ UNCHANGED scopes

Continue ==
    /\ scopes = <<>> /\ heard # "stopped" /\ heard' = "nothing"
    /\ UNCHANGED <<scopes, draft, agreed>>

Open ==
    /\ heard # "stopped" /\ heard' = "nothing"
    /\ \E passes \in BOOLEAN, option \in Option \cup {NoOption} :
          scopes' = Append(scopes, [passes |-> passes, option |-> option])
    /\ UNCHANGED <<draft, agreed>>

\* The text of an option ends at its first child.
Close ==
    /\ scopes # <<>> /\ heard' = "nothing"
    /\ scopes' = [i \in 1..(Len(scopes) - 1) |->
                    IF i = Len(scopes) - 1
                    THEN [scopes[i] EXCEPT !.option = NoOption] ELSE scopes[i]]
    /\ UNCHANGED <<draft, agreed>>

\* A text: inside matching elements the option named takes the value said, and
\* nothing else changes anywhere.
Say(word) ==
    /\ scopes # <<>> /\ heard' = word
    /\ draft' = IF Inside /\ Named \in Option /\ word \in {"true", "false"}
                THEN [draft EXCEPT ![Named] = (word = "true")] ELSE draft
    /\ UNCHANGED <<scopes, agreed>>

\* The document ends well formed, or is given up.
Commit ==
    /\ scopes = <<>> /\ heard' = "whole"
    /\ agreed' = draft
    /\ UNCHANGED <<scopes, draft>>

Abandon ==
    /\ heard' \in {"broken", "stopped"}
    /\ scopes' = <<>> /\ draft' = agreed
    /\ UNCHANGED agreed

Next ==
    \/ Begin \/ Continue \/ Open \/ Close \/ Commit \/ Abandon
    \/ \E word \in {"true", "false", "other"} : Say(word)

Spec == Init /\ [][Next]_meaningVars
=============================================================================
