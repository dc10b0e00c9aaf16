--------------------------- MODULE MCTargetPlanning ---------------------------
(* An instance of TargetPlanning for TLC: a supergroup and a basic chat whose *)
(* participants overlap with the dataset, and two accounts.  The second page  *)
(* of the supergroup is short, so that u5 is never listed.                    *)
EXTENDS TargetPlanning, TLC

CONSTANTS a1, a2, g1, g2, u1, u2, u3, u4, u5, c1, c2

TwoAccounts == {a1, a2}
TwoGroups   == {g1, g2}
FiveUsers   == {u1, u2, u3, u4, u5}
TwoChecks   == {c1, c2}
Chats       == {g2}

PagesOf     == (g1 :> <<{u1, u4}, {u2}, {u5}>>) @@ (g2 :> <<{u3}>>)
ValidFor    == [a \in Accounts |-> IF a = a1 THEN {u1, u3, u5} ELSE {u2, u3}]
ProcessedBy == (g1 :> {u3}) @@ (g2 :> {})
=============================================================================
