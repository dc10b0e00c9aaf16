--------------------------- MODULE InviteScheduler ---------------------------
(***************************************************************************)
(* The cadence of one executor: tms/migration/scheduler.py as              *)
(* tms/migration/executor.py drives it.  The executor sleeps for           *)
(* remaining_delay(), marks the attempt, sends the request and, depending  *)
(* on the answer, marks a stable candidate, applies a server wait, or does *)
(* neither (a transient error).                                            *)
(*                                                                         *)
(* Times are whole seconds.  A sleep may take longer than asked for.       *)
(* reset_target() has no caller in the program and is left out.  The names *)
(* of this module are its own: StoreAndRunProofs extends it with others.   *)
(***************************************************************************)
EXTENDS Integers, Sequences

CONSTANTS
  MinInterval,  \* MIN_INVITE_INTERVAL_SECONDS
  MaxInterval,  \* MAX_INVITE_INTERVAL_SECONDS
  SlowStep,     \* RECOVERY_INVITE_INTERVAL_SECONDS
  MiddleStep,   \* the 8.0 in apply_server_wait
  Targets,      \* the intervals a user may choose
  Waits,        \* the X of FLOOD_WAIT_X
  MaxTime       \* bound: the clock stops there

ASSUME SchedulerAssumption ==
  /\ {MinInterval, MaxInterval, SlowStep, MiddleStep, MaxTime} \subseteq Nat
  /\ Targets \subseteq MinInterval..MaxInterval
  /\ SlowStep \in MinInterval..MaxInterval
  /\ MiddleStep \in MinInterval..MaxInterval
  /\ Waits \subseteq Nat \ {0}

VARIABLES
  now,              \* clock.monotonic()
  target,           \* target_interval
  interval,         \* interval
  lastAttempt,      \* _last_attempt, Never before the first
  serverWaitUntil,  \* _server_wait_until
  recoverySteps,    \* _recovery_steps
  phase,            \* "sleep" or "rpc": what the executor is doing
  stable            \* history: stable candidates since the last server wait

cadenceVars == <<now, target, interval, lastAttempt, serverWaitUntil, recoverySteps,
                 phase, stable>>

Never == -1

\* The counter of stable candidates says nothing new beyond the three steps.
StableCap == 3

Later(a, b) == IF a > b THEN a ELSE b

\* Slip: the local cadence alone decides.
NextAttemptLocal ==
  IF lastAttempt = Never THEN 0 ELSE lastAttempt + interval

\* The time at which remaining_delay() becomes 0.
NextAttemptAt ==
  IF lastAttempt = Never THEN serverWaitUntil
  ELSE Later(lastAttempt + interval, serverWaitUntil)

Tick ==
  /\ now < MaxTime
  /\ now' = now + 1
  /\ UNCHANGED <<target, interval, lastAttempt, serverWaitUntil, recoverySteps,
                 phase, stable>>

\* The sleep is over; mark_attempt(); the request is sent.
MarkAttempt ==
  /\ phase = "sleep"
  /\ now >= NextAttemptAt
  /\ lastAttempt' = now
  /\ phase' = "rpc"
  /\ UNCHANGED <<now, target, interval, serverWaitUntil, recoverySteps, stable>>

\* Slip: the recovery steps are taken from the wrong end.
MarkStableFromEnd ==
  /\ phase = "rpc"
  /\ phase' = "sleep"
  /\ IF serverWaitUntil > now \/ recoverySteps = <<>>
     THEN UNCHANGED <<interval, recoverySteps>>
     ELSE /\ interval' = recoverySteps[Len(recoverySteps)]
          /\ recoverySteps' = SubSeq(recoverySteps, 1, Len(recoverySteps) - 1)
  /\ stable' = IF stable < StableCap THEN stable + 1 ELSE stable
  /\ UNCHANGED <<now, target, lastAttempt, serverWaitUntil>>

\* The answer is a success, a skip or an unknown error: mark_stable_candidate().
MarkStable ==
  /\ phase = "rpc"
  /\ phase' = "sleep"
  /\ IF serverWaitUntil > now \/ recoverySteps = <<>>
     THEN UNCHANGED <<interval, recoverySteps>>
     ELSE /\ interval' = Head(recoverySteps)
          /\ recoverySteps' = Tail(recoverySteps)
  /\ stable' = IF stable < StableCap THEN stable + 1 ELSE stable
  /\ UNCHANGED <<now, target, lastAttempt, serverWaitUntil>>

\* Slip: the recovery begins at the fast end.
ApplyServerWaitFast(s) ==
  /\ phase = "rpc"
  /\ phase' = "sleep"
  /\ serverWaitUntil' = Later(serverWaitUntil, now + s)
  /\ recoverySteps' = <<MinInterval, MiddleStep, target>>
  /\ stable' = 0
  /\ UNCHANGED <<now, target, interval, lastAttempt>>

\* The answer is FLOOD_WAIT_s: apply_server_wait(s).
ApplyServerWait(s) ==
  /\ phase = "rpc"
  /\ phase' = "sleep"
  /\ serverWaitUntil' = Later(serverWaitUntil, now + s)
  /\ recoverySteps' = <<SlowStep, MiddleStep, target>>
  /\ stable' = 0
  /\ UNCHANGED <<now, target, interval, lastAttempt>>

\* A transient error: the same candidate will be tried again.
Transient ==
  /\ phase = "rpc"
  /\ phase' = "sleep"
  /\ UNCHANGED <<now, target, interval, lastAttempt, serverWaitUntil,
                 recoverySteps, stable>>

\* __init__, and the account's persisted wait applied before run() starts.
CadenceInit ==
  /\ now = 0
  /\ target \in Targets
  /\ interval = target
  /\ lastAttempt = Never
  /\ \/ serverWaitUntil = 0 /\ recoverySteps = <<>> /\ stable = StableCap
     \/ /\ serverWaitUntil \in Waits
        /\ recoverySteps = <<SlowStep, MiddleStep, target>>
        /\ stable = 0
  /\ phase = "sleep"

CadenceNext ==
  \/ Tick \/ MarkAttempt \/ MarkStable \/ Transient
  \/ \E s \in Waits : ApplyServerWait(s)

CadenceSpec == CadenceInit /\ [][CadenceNext]_cadenceVars

-----------------------------------------------------------------------------
(* Properties.                                                             *)

\* Every variable has its type; the recovery steps are a suffix of the profile.
CadenceTypeOK ==
  /\ now \in Nat
  /\ target \in MinInterval..MaxInterval
  /\ interval \in MinInterval..MaxInterval
  /\ lastAttempt \in Nat \cup {Never}
  /\ serverWaitUntil \in Nat
  /\ recoverySteps \in Seq(MinInterval..MaxInterval)
  /\ phase \in {"sleep", "rpc"}
  /\ stable \in 0..StableCap

\* A step that sends a request after an earlier one.
NextRequest == lastAttempt' # lastAttempt /\ lastAttempt # Never

\* "Server restriction always overrides local cadence": no request is sent while
\* a server wait lasts, and two requests of one executor are never closer than
\* the shortest allowed interval, whatever answers lie between them.
NeverTooEarly ==
  [][/\ lastAttempt' # lastAttempt => lastAttempt' >= serverWaitUntil
     /\ NextRequest => lastAttempt' - lastAttempt >= MinInterval]_cadenceVars

\* "Recovery begins at 10s and moves 10 -> 8 -> target when stable": the request
\* after the first, second and every later stable candidate keeps the distance
\* of its step, across transient errors and renewed server waits.
RecoveryProfile ==
  [][NextRequest =>
       LET gap == lastAttempt' - lastAttempt
       IN CASE stable = 1 -> gap >= SlowStep
            [] stable = 2 -> gap >= MiddleStep
            [] OTHER      -> gap >= target]_cadenceVars

\* "Local cadence may become slower": an executor never works faster than the
\* interval the user has chosen.
NeverFasterThanTarget == interval >= target
=============================================================================
