------------------------- MODULE MCParticipantScanner -------------------------
(* Up to two calls for the same job, in a group of three whose first member  *)
(* the server lists again on a later page.                                   *)
EXTENDS ParticipantScanner

CONSTANTS s1, s2, u1, u2, u3

TwoScans == {s1, s2}
Group    == <<u1, u2, u1, u3>>
=============================================================================
