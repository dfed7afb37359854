---- MODULE MCToolCalls ----
(* A small instance of the coding tools. *)
EXTENDS ToolCalls

At(classes) == [i \in DOMAIN classes |-> [is |-> classes[i], at |-> i]]
Strings(chars, n) == UNION {[1..k -> chars] : k \in 0..n}

MCOutputs ==
  {[stdout |-> At(<<"lead", "cont", "CR", "LF", "lead", "cont">>), stderr |-> At(<<"plain">>)],
   [stdout |-> At(<<"cont", "plain", "CR", "LF", "cont", "lead">>), stderr |-> <<>>],
   [stdout |-> At(<<"plain", "CR", "LF", "plain", "lead", "cont">>), stderr |-> <<>>]}
MCPolicy == [maxBytes |-> 3, maxLines |-> 3, maxLineBytes |-> 3, headFraction |-> 60]

\* Texts with whole characters and line ends only.
Units == {<<"LF">>, <<"CR">>, <<"CR", "LF">>, <<"lead", "cont">>}
MCReadings == {At(FlattenSeq(units)) : units \in Strings(Units, 5)}
MCReadPolicies ==
  {[maxBytes |-> b, maxLines |-> 2, maxLineBytes |-> e, headFraction |-> 60] : b \in {0, 4}, e \in {0, 3}}
    \cup {[maxBytes |-> 5, maxLines |-> 3, maxLineBytes |-> 1, headFraction |-> f] : f \in {0, 100}}

MCFiles ==
  Strings({"a", "space", "LF"}, 4)
    \cup {<<"BOM", "a">> \o end \o body \o end \o <<"a">> \o tail :
            end \in {<<"LF">>, <<"CR", "LF">>}, body \in Strings({"a", "space"}, 1),
            tail \in {<<>>, <<"CR", "LF">>, <<"LF">>}}
MCOlds == Strings({"a", "space", "LF"}, 3)
MCNews == {<<>>, <<"b">>, <<"b", "LF", "b">>}

Texts == Strings({<<"a", "LF">>, <<"b", "LF">>}, 4) \cup {t \o <<<<"a">>>> : t \in Strings({<<"a", "LF">>, <<"b", "LF">>}, 3)}
MCDrafts == {<<FlattenSeq(old), FlattenSeq(new)>> : old, new \in Texts}
====
