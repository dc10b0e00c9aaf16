------------------------- MODULE MCTelegramClients -------------------------
(* One account, two commands at a time, two in all beside the settings.     *)
EXTENDS TelegramClients

CONSTANT a1

OneAccount   == {a1}
TwoTasks     == 1..2
TwoClients   == 1..2
=============================================================================
