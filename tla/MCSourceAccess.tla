---------------------------- MODULE MCSourceAccess ----------------------------
(* Two accounts, one with a migration; a public channel and a basic group     *)
(* behind an invite link.                                                     *)
EXTENDS SourceAccess

CONSTANTS a1, a2, channel, chat

TwoAccounts == {a1, a2}
OneBusy     == {a1}
TwoGroups   == {channel, chat}
ChatOnly    == {chat}
InGroups    == [a \in TwoAccounts |-> IF a = a1 THEN TwoGroups ELSE {channel}]
OneLeft     == {<<a2, channel>>}
TwoSlots    == 1..2
=============================================================================
