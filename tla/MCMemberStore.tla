---------------------------- MODULE MCMemberStore ----------------------------
(* Two people and two names.  The batches bring a name alone, an id alone,   *)
(* both, the same name for the other id, a renamed id, and a row with        *)
(* neither; two of them meet in one transaction in the last.  One batch      *)
(* spells its name with "@".                                                 *)
EXTENDS MemberStore

CONSTANTS n1, n2, at1

M(u, n) == [uid |-> u, name |-> n, hash |-> u # NoUid]

TwoUids     == {1, 2}
TwoNames    == {n1, n2}
SomeBatches == { <<M(0, n1)>>, <<M(1, NoName)>>, <<M(1, at1)>>, <<M(2, n1), M(0, NoName)>>,
                 <<M(0, n2), M(1, n2)>> }
SomeSpellings == {n1, n2, at1, NoName}
Clean == [s \in SomeSpellings |-> IF s = at1 THEN n1 ELSE s]
FourIds     == 1..4
ThreeDatasets == 1..3
=============================================================================
