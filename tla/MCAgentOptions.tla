--------------------------- MODULE MCAgentOptions ---------------------------
(***************************************************************************)
(* Texts for AgentOptions: all short ones, well-formed or not; options     *)
(* with spaces in all places, before another option; and the settings of   *)
(* up to three options, of which two may be the same.                      *)
(***************************************************************************)
EXTENDS AgentOptions

MCNames == Options \union {"true", "false", "other"}
MCWords == MCNames \union {"/Path"}

Some(s) == {<<>>, s}
Concat(a, b) == {x \o y : x \in a, y \in b}

Tokens == {"verbose", "phasicj_exec", "true", "/Path", Space, Comma, Equals, Quote}
ShortTexts ==
    {s \in UNION {[1..n -> Tokens] : n \in 0..4} :
        \A i \in 1..Len(s) - 1 : ~(s[i] \in Words /\ s[i + 1] \in Words)}

Sp == Some(<<Space>>)
Values == {<<>>, <<"true">>, <<"false">>, <<"/Path", Space, "/Path">>}
Spaced == Concat(Concat(Sp, Values), Sp)
Assigned == Concat(Sp, Concat({<<Equals>>},
    Spaced \union Concat(Concat(Concat(Sp, {<<Quote>>}), Concat(Spaced, {<<Quote>>})), Sp)))
LongTexts ==
    {<<name>> \o a \o rest : name \in {"verbose", "phasicj_exec"}, a \in Assigned,
        rest \in {<<>>, <<Comma, Space, "verbose">>, <<Comma, "other">>, <<Comma>>}}

MCTexts == ShortTexts \union LongTexts

Settings ==
    [name : Options \union {"other"},
     value : {NoValue, <<>>, <<"true">>, <<"false">>, <<"/Path", Space, "/Path">>}]
MCLists == [1..1 -> Settings] \union [1..2 -> Settings] \union
           {<<a, b, a>> : a, b \in {s \in Settings : s.value \in {<<"true">>, <<"false">>}}}
=============================================================================
