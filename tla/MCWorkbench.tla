----------------------------- MODULE MCWorkbench -----------------------------
(* One account, a paused migration of an earlier session and two new jobs,   *)
(* such as a check and its plan; a third waiting event drops the oldest.     *)
EXTENDS Workbench

CONSTANT a1

OneAccount == {a1}
ThreeJobs  == 1..3
JobOne     == {1}
=============================================================================
