---------------------------- MODULE PendingItems ----------------------------
(***************************************************************************)
(* What the candidate buffer promises to the executor, without a buffer:   *)
(* a run that asks for a candidate gets the first pending item after the   *)
(* last one it got, learns that there is none left, or fails; and it is    *)
(* always answered.                                                        *)
(***************************************************************************)
EXTENDS Integers

CONSTANT Ordinals        \* the ordinals of the job's items

VARIABLES
  item,     \* "READY", "RETRY" or "DONE"
  last,     \* the last ordinal offered in this run, 0 before the first
  status    \* of the run: "idle", "begun", "asked", "given", "ended", "failed"

vars == <<item, last, status>>

Pending(o) == item[o] \in {"READY", "RETRY"}

Init ==
  /\ item = [o \in Ordinals |-> "READY"]
  /\ last = 0
  /\ status = "idle"

Begin == status = "idle" /\ status' = "begun" /\ last' = 0 /\ UNCHANGED item

Ask == status \in {"begun", "given"} /\ status' = "asked" /\ UNCHANGED <<item, last>>

\* The answer: nothing pending is passed over, nothing comes twice.
Offer(o) ==
  /\ status = "asked"
  /\ Pending(o) /\ o > last
  /\ \A p \in Ordinals : Pending(p) /\ p > last => o <= p
  /\ last' = o
  /\ status' = "given"
  /\ UNCHANGED item

End ==
  /\ status = "asked"
  /\ \A p \in Ordinals : Pending(p) => p <= last
  /\ status' = "ended"
  /\ UNCHANGED <<item, last>>

Fail == status \in {"begun", "asked"} /\ status' = "failed" /\ UNCHANGED <<item, last>>

Answer == (\E o \in Ordinals : Offer(o)) \/ End \/ Fail

\* Results are recorded for what was offered, several at a time.
Record(new) ==
  /\ status # "idle"
  /\ \A o \in Ordinals : new[o] # item[o] => o <= last
  /\ item' = new
  /\ UNCHANGED <<last, status>>

\* The run is interrupted, or the process ends.
Leave == status # "idle" /\ status' = "idle" /\ UNCHANGED <<item, last>>

Next ==
  \/ Begin \/ Ask \/ Answer \/ Leave
  \/ \E new \in [Ordinals -> {"READY", "RETRY", "DONE"}] : Record(new)

Spec == Init /\ [][Next]_vars /\ WF_vars(Answer)
=============================================================================
