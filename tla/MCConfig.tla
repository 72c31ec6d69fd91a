------------------------------ MODULE MCConfig ------------------------------
(***************************************************************************)
(* Instances of Config for TLC: a section "s" with "x" and a third level,   *)
(* and documents that add, change, retype and drop them.                    *)
(***************************************************************************)
EXTENDS Config

S == <<"s">>
SX == <<"s", "x">>
SXY == <<"s", "x", "y">>
MCPaths == {S, SX, SXY}

\* The strings '{"x": 1}' and "null".
MCJsonStrings == {<<"str", 2>>, <<"str", 3>>}
MCNull == <<"str", 3>>
MCJson(v, p) == IF v = <<"str", 2>> /\ p = <<"x">> THEN <<"float", 1>> ELSE Absent

Doc(s, x, y) == [p \in MCPaths |-> CASE p = S -> s [] p = SX -> x [] p = SXY -> y]

MCDocs ==
  { Doc(Section, Section, <<"int", 1>>),
    Doc(Section, <<"int", 2>>, Absent),
    Doc(<<"str", 2>>, Absent, Absent),
    Doc(<<"str", 3>>, Absent, Absent) }

=============================================================================
