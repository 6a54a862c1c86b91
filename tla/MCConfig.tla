----------------------------- MODULE MCConfig -------------------------------
\* Config on a machine with the vendor "Ab" and an empty product name, and
\* documents made of elements of every kind.
EXTENDS Config, TLC

LowerOf == [c \in {"A", "a", "b"} |-> IF c = "A" THEN "a" ELSE c]
Machine == ("sys_vendor" :> <<"A", "b">>) @@ ("product_name" :> <<>>)

Attr(n, v) == [name |-> n, value |-> v]
Vendor(op, text) == [name |-> "match", atts |-> <<Attr(KeyName, "sys_vendor"),
                                                  Attr(op, text)>>]
OptionElement(o) == [name |-> "option", atts |-> <<Attr(KeyName, o), Attr(<<"type", "">>, "")>>]

SomeElements ==
    {Vendor(<<"prefix", "_ncase">>, <<"a">>),
     Vendor(<<"suffix", "_outof">>, <<"a", ";">>),
     [name |-> "match", atts |-> <<Attr(KeyName, "bios_date")>>],
     [name |-> "match", atts |-> <<Attr(KeyName, "sys_vendor")>>],
     OptionElement("key_control"), OptionElement("colour")}

NothingSet == [o \in {"key_control", "persist"} |-> "missing"]
SomeConf == {NothingSet,
             [NothingSet EXCEPT !["key_control"] = "false", !["persist"] = "false"]}

\* Texts without a separator, of up to two letters.
Texts == {<<>>} \cup [1..1 -> {"A", "a", "b"}] \cup [1..2 -> {"A", "a", "b"}]

\* The laws of the rules hold for these texts.
ASSUME RulesAgree == ListsMeanTokens(Texts) /\ FormsAgree(Texts)
=============================================================================
