------------------------- MODULE MCCandidateBuffer -------------------------
(* Five items in fills of two: a run needs three fills and the empty one.    *)
EXTENDS CandidateBuffer

Five == 1..5
=============================================================================
