------------------------- MODULE MCInviteScheduler -------------------------
(* InviteScheduler with the constants of tms/core/constants.py.            *)
EXTENDS InviteScheduler

Profiles    == {3, 5, 8}     \* the speeds of the migration page
SomeWaits   == {2, 12}
=============================================================================
