------------------------------ MODULE MCConsole ------------------------------
(***************************************************************************)
(* Two admins' sessions, one account, two categories and a third to add,   *)
(* two settings of the commission with two values each.                    *)
(***************************************************************************)
EXTENDS Console, TLC

CONSTANTS first, second, food, tools, paper, box, rate, cap

\* Both settings start alike.
MCDefaultConfig == [x \in {rate, cap} |-> 1]

\* No session, original category or setting is distinguished: both settings start alike.
Either ==
    UNION {Permutations(S) : S \in {{first, second}, {food, tools}, {rate, cap}}}
=============================================================================
