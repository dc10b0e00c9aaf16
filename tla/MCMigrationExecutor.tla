------------------------ MODULE MCMigrationExecutor ------------------------
(* Instances of MigrationExecutor for TLC: one job with two candidates, and  *)
(* two jobs of one account with one candidate each.                          *)
EXTENDS MigrationExecutor

CONSTANTS j1, j2, a1

OneJob      == {j1}
TwoJobs     == {j1, j2}
OneAccount  == {a1}
AllOnA1     == [j \in Jobs |-> a1]
AllInvite   == [j \in Jobs |-> "INVITE"]
AllRemove   == [j \in Jobs |-> "REMOVE"]
One         == {1}
Two         == {1, 2}
WaitOf1     == {1}
=============================================================================
