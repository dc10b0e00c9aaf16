----------------------------- MODULE MCDBWriter -----------------------------
(* A small instance of DBWriter for TLC: two routine writes and one critical *)
(* write besides flush(), a batch of two and a queue of one place.           *)
EXTENDS DBWriter

CONSTANTS r1, r2, c1

MCTasks    == {r1, r2, c1}
MCCritical == {c1}
=============================================================================
