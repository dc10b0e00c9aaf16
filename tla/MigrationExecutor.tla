-------------------------- MODULE MigrationExecutor --------------------------
(***************************************************************************)
(* The INVITE/REMOVE hot path: tms/migration/executor.py with its          *)
(* v12_executor.py, the job rows and items it persists (tms/jobs), the     *)
(* account lock of tms/runtime/resource_governor.py, the commands that     *)
(* start, pause, stop and resume a job (tms/runtime/command_handlers.py,   *)
(* tms/bootstrap.py), the shutdown, and the recovery at start-up           *)
(* (tms/migration/recovery.py).                                            *)
(*                                                                         *)
(* Every `await' of a coroutine on the network loop separates two steps.   *)
(* A coroutine that has a series of writes to await keeps the rest of the  *)
(* series in `todo' and the place where it goes on afterwards in `then'.   *)
(* Writes pass through a FIFO, which is what DBWriter (module DBWriter)    *)
(* guarantees: CommittedInOrder and CriticalIsBarrier.                     *)
(*                                                                         *)
(* Abstractions: time is a counter that only server waits depend on, and a *)
(* wait asked for after its end is too short for it to show; the local     *)
(* cadence and the transient delays may take any time; a chunk of          *)
(* candidates is a whole RAM window (CandidateBuffer); the checkpoint is   *)
(* reduced to the action it holds or no longer holds, since the position   *)
(* in it is never read back; job events and texts are left out.            *)
(***************************************************************************)
EXTENDS Integers, Sequences, FiniteSets

CONSTANTS
  Jobs, Accounts,
  NoJob,           \* nobody holds a lock
  AccountOf,       \* [Jobs -> Accounts], jobs.account_id
  PlanAction,      \* [Jobs -> Actions], what the plan was created for
  Ordinals,        \* 1..n, the ordinals of every job's items
  FlushBatch,      \* MIGRATION_DB_BATCH_SIZE
  TransientLimit,  \* len(TRANSIENT_RETRY_DELAYS_SECONDS)
  Waits,           \* the X of FLOOD_WAIT_X
  MaxTime,         \* bound: the clock stops there, and so does every wait
  MaxCommands,     \* bound: pause, stop, resume and close commands
  MaxCrashes,      \* bound: process crashes
  MaxFailures,     \* bound: failing writes and reads of the database
  MaxDisturbances  \* bound: all of these together

Actions == {"INVITE", "REMOVE"}

ASSUME ExecutorAssumption ==
  /\ AccountOf \in [Jobs -> Accounts]
  /\ PlanAction \in [Jobs -> Actions]
  /\ IsFiniteSet(Jobs) /\ NoJob \notin Jobs
  /\ IsFiniteSet(Ordinals) /\ Ordinals = 1..Cardinality(Ordinals)
  /\ Waits \subseteq Nat \ {0}
  /\ {FlushBatch, TransientLimit} \subseteq Nat \ {0}
  /\ {MaxTime, MaxCommands, MaxCrashes, MaxFailures, MaxDisturbances} \subseteq Nat

VARIABLES
  row,        \* jobs: state, waiting_until, action in checkpoint_json, failed
  item,       \* migration_items.state
  acct,       \* accounts.status
  restricted, \* accounts with an active row in account_restrictions
  ex,         \* the executor of each job, with the locals of run and _attempt
  lock,       \* who holds governor.mutation_lock(account)
  perf,       \* governor._performance_users
  wq,         \* the writes in the hands of DBWriter
  app,        \* "up", "closing" (prepare_shutdown has run) or "down"
  now,        \* the clock
  deadline,   \* history: until when the server refuses the account's requests
  lost,       \* history: results whose write failed
  broken,     \* history: jobs whose last run ended outside its try statement
  leaked,     \* history: runs that left performance mode on, in this process
  commands, crashes, failures, restarts  \* counters, all but the last bounded

dbVars     == <<row, item, acct, restricted>>
boundVars  == <<commands, crashes, failures, restarts>>
brokenVars == <<broken, leaked>>
vars == <<dbVars, ex, lock, perf, wq, app, now, deadline, lost, brokenVars,
          boundVars>>

Terminal     == {"COMPLETED", "COMPLETED_WITH_ERRORS", "FAILED", "CANCELLED"}
JobStates    == Terminal \cup {"READY", "RUNNING", "WAITING_SERVER", "PAUSED",
                               "RATE_LIMITED"}
Done         == {"SUCCESS", "SKIPPED", "FAILED"}
ItemStates   == Done \cup {"READY", "RETRY"}
AccountStates == {"READY", "BUSY", "WAITING_SERVER", "AUTH_REQUIRED", "ERROR"}

Keep == -1    \* the column is not assigned
None == 0     \* waiting_until is NULL, no candidate, no deadline

Larger(a, b) == IF a > b THEN a ELSE b

\* A job without an executor, and the fields of a new one.
NoExecutor ==
  [pc |-> "none", todo |-> <<>>, then |-> "none", guard |-> "none",
   cand |-> None, buf |-> {}, last |-> None, results |-> <<>>,
   flusher |-> "none", stop |-> FALSE, pause |-> FALSE,
   gate |-> None, transient |-> 0, action |-> "INVITE"]

Live(j) == ex[j].pc # "none"

-----------------------------------------------------------------------------
(* Database writes.                                                        *)

JobWrite(st, until, overwrite) ==
  [kind |-> "job", state |-> st, until |-> until, overwrite |-> overwrite]
AccountWrite(st)  == [kind |-> "account", state |-> st]
PauseAccount(g)   == [kind |-> "pauseAccount", gate |-> g]
RetryWrite(o)     == [kind |-> "retry", ordinal |-> o]
RestrictionWrite  == [kind |-> "restriction"]
ItemUpdate(o, st) == [ordinal |-> o, state |-> st]
ItemsWrite(ups)   == [kind |-> "items", updates |-> ups]

\* The batch `ups' has a result of item o.
Reports(ups, o) == \E i \in 1..Len(ups) : ups[i].ordinal = o

\* The state an item has after submit_update_items_batch.
Updated(j, ups) ==
  [o \in Ordinals |->
     IF Reports(ups, o)
     THEN ups[CHOOSE i \in 1..Len(ups) : ups[i].ordinal = o].state
     ELSE item[j][o]]

FailedCount(items) == Cardinality({o \in Ordinals : items[o] = "FAILED"})

\* The transaction of write w of job j commits.  The item batch recounts the
\* job's counters and overwrites the checkpoint with {"last_ordinal": ...}.
Commit(j, w) ==
  CASE w.kind = "job" ->
         /\ row' = [row EXCEPT ![j].state = w.state,
                               ![j].until = IF w.until = Keep THEN @ ELSE w.until,
                               ![j].action = IF w.overwrite THEN "none" ELSE @]
         /\ UNCHANGED <<item, acct, restricted>>
    [] w.kind = "account" ->
         /\ acct' = [acct EXCEPT ![AccountOf[j]] = w.state]
         /\ UNCHANGED <<row, item, restricted>>
    [] w.kind = "pauseAccount" ->
         /\ acct' = [acct EXCEPT ![AccountOf[j]] =
                       IF w.gate # None THEN "WAITING_SERVER" ELSE "READY"]
         /\ UNCHANGED <<row, item, restricted>>
    [] w.kind = "retry" ->
         /\ item' = [item EXCEPT ![j][w.ordinal] = "RETRY"]
         /\ UNCHANGED <<row, acct, restricted>>
    [] w.kind = "restriction" ->
         /\ restricted' = restricted \cup {AccountOf[j]}
         /\ UNCHANGED <<row, item, acct>>
    [] w.kind = "items" ->
         /\ item' = [item EXCEPT ![j] = Updated(j, w.updates)]
         /\ row' = [row EXCEPT ![j].failed = FailedCount(Updated(j, w.updates)),
                               ![j].action = "none"]
         /\ UNCHANGED <<acct, restricted>>

\* The coroutine `by' of job j hands w to DBWriter.
Entry(j, by, w) == [job |-> j, by |-> by, write |-> w]

\* server_wait_remaining() is read when the account's write is submitted.
Submitted(w) ==
  IF w.kind = "pauseAccount" /\ ~(w.gate > now) THEN PauseAccount(None) ELSE w

\* Executor j, with locals e, awaits the series `writes', preceded by a forced
\* _flush if `flush', and goes on at `then'.  An empty buffer is not written.
Await(j, e, flush, writes, then) ==
  LET ws == IF flush /\ e.results # <<>>
            THEN <<ItemsWrite(e.results)>> \o writes
            ELSE writes
      e1 == IF flush THEN [e EXCEPT !.results = <<>>] ELSE e
  IN IF ws = <<>>
     THEN /\ ex' = [ex EXCEPT ![j] = [e1 EXCEPT !.pc = then]]
          /\ UNCHANGED wq
     ELSE /\ ex' = [ex EXCEPT ![j] = [e1 EXCEPT !.pc = "await",
                                                !.todo = Tail(ws),
                                                !.then = then]]
          /\ wq' = Append(wq, Entry(j, "main", Head(ws)))

\* The counter of the governor, which is not allowed to go below zero.
EnablePerformanceMode  == perf' = perf + 1
DisablePerformanceMode == perf' = IF perf > 0 THEN perf - 1 ELSE 0

\* The finally clause of run: the flush task is cancelled; a write it has
\* already submitted stays with DBWriter.
Orphaned(j) ==
  [i \in 1..Len(wq) |->
     IF wq[i].job = j THEN [wq[i] EXCEPT !.by = "nobody"] ELSE wq[i]]

\* Slip: performance mode is not left.
FinishKeepsMode(j) ==
  /\ ex' = [ex EXCEPT ![j] = NoExecutor]
  /\ wq' = Orphaned(j)
  /\ UNCHANGED perf

Finish(j) ==
  /\ ex' = [ex EXCEPT ![j] = NoExecutor]
  /\ wq' = Orphaned(j)
  /\ DisablePerformanceMode

Released(j) == [lock EXCEPT ![AccountOf[j]] = IF @ = j THEN NoJob ELSE @]

-----------------------------------------------------------------------------
(* Starting and resuming: command handlers, then run up to the lock.       *)

\* account_waiting_until of the V1.2 repository: WAITING_SERVER jobs only.
AccountWaitingUntil(a) ==
  LET waits == {row[j].until : j \in {k \in Jobs : /\ AccountOf[k] = a
                                                   /\ row[k].state = "WAITING_SERVER"}}
  IN CHOOSE w \in waits \cup {None} : \A v \in waits : v <= w

\* _apply_account_server_wait: the new scheduler's deadline.
RemainingWait(a) == LET w == AccountWaitingUntil(a) IN IF w > now THEN w ELSE None

\* get_checkpoint(job_id).get("action", "INVITE").
ActionOf(r) == IF r.action = "none" THEN "INVITE" ELSE r.action

\* new_executor and run up to its first await.
Launch(j) ==
  LET e == [NoExecutor EXCEPT !.gate = RemainingWait(AccountOf[j]), !.action = ActionOf(row[j])]
  IN /\ Await(j, e, FALSE, <<JobWrite("RUNNING", Keep, FALSE),
                             AccountWrite("BUSY")>>, "prime")
     /\ EnablePerformanceMode
     /\ broken' = broken \ {j}
     /\ UNCHANGED <<dbVars, lock, app, now, deadline, lost, leaked,
                    crashes, failures, restarts>>

StartMigration(j) ==
  /\ app = "up" /\ ~Live(j)
  /\ row[j].state = "READY"
  /\ Launch(j)
  /\ UNCHANGED commands

\* There is still room for a command, a crash or a failure.
MayDisturb == commands + crashes + failures < MaxDisturbances

\* A command that the user gives beyond the start.
Dispatch ==
  /\ app = "up"
  /\ commands < MaxCommands /\ MayDisturb
  /\ commands' = commands + 1

ResumeMigration(j) ==
  /\ Dispatch /\ ~Live(j)
  /\ row[j].state \in {"PAUSED", "WAITING_SERVER"}
  /\ Launch(j)

\* request_pause and request_stop set the events of the executor.
RequestPause(e) == [e EXCEPT !.pause = TRUE]
RequestStop(e)  == [e EXCEPT !.stop = TRUE]

PauseMigration(j) ==
  /\ Dispatch /\ Live(j) /\ ~ex[j].pause
  /\ ex' = [ex EXCEPT ![j] = RequestPause(@)]
  /\ UNCHANGED <<dbVars, lock, perf, wq, app, now, deadline, lost, brokenVars,
                 crashes, failures, restarts>>

StopMigration(j) ==
  /\ Dispatch /\ Live(j) /\ ~ex[j].stop
  /\ ex' = [ex EXCEPT ![j] = RequestStop(@)]
  /\ UNCHANGED <<dbVars, lock, perf, wq, app, now, deadline, lost, brokenVars,
                 crashes, failures, restarts>>

\* What a step of an executor on the network loop leaves alone.
LoopUnchanged ==
  UNCHANGED <<dbVars, app, now, deadline, lost, brokenVars, boundVars>>

\* The items pending_chunk returns.  They are taken by ascending ordinal.
PendingAfter(j, last) ==
  {o \in Ordinals : o > last /\ item[j][o] \in {"READY", "RETRY"}}

Largest(S)  == CHOOSE o \in S : \A p \in S : p <= o
Smallest(S) == CHOOSE o \in S : \A p \in S : o <= p

\* Slip: last_loaded is not advanced.
FillAgain(e, j) == [e EXCEPT !.buf = PendingAfter(j, e.last)]

Fill(e, j) ==
  LET chunk == PendingAfter(j, e.last)
  IN [e EXCEPT !.buf = chunk, !.last = IF chunk = {} THEN @ ELSE Largest(chunk)]

\* buffer.prime(); from here on an exception is caught by run.
Prime(j) ==
  /\ ex[j].pc = "prime"
  /\ ex' = [ex EXCEPT ![j] = [Fill(@, j) EXCEPT !.pc = "lock",
                                                !.guard = "body"]]
  /\ LoopUnchanged
  /\ UNCHANGED <<lock, perf, wq>>

AcquireLock(j) ==
  /\ ex[j].pc = "lock"
  /\ lock[AccountOf[j]] = NoJob
  /\ lock' = [lock EXCEPT ![AccountOf[j]] = j]
  /\ ex' = [ex EXCEPT ![j].pc = "loop"]
  /\ LoopUnchanged
  /\ UNCHANGED <<perf, wq>>

-----------------------------------------------------------------------------
(* The candidate loop.                                                     *)

Control(e) == IF e.stop THEN "stop" ELSE IF e.pause THEN "pause" ELSE "none"

\* Slip: a stop during a server wait does not reach the job row.
HandleControlWaiting(j) ==
  /\ ex[j].pc \in {"loop", "delay", "wait", "backoff"}
  /\ CASE Control(ex[j]) = "stop" /\ ex[j].pc = "wait" ->
            Await(j, ex[j], TRUE, <<AccountWrite("READY")>>, "leave")
       [] Control(ex[j]) = "stop" /\ ex[j].pc # "wait" ->
            Await(j, ex[j], TRUE, <<JobWrite("CANCELLED", None, FALSE),
                                    AccountWrite("READY")>>, "leave")
       [] Control(ex[j]) = "pause" ->
            Await(j, ex[j], TRUE, <<JobWrite("PAUSED", Keep, FALSE),
                                    PauseAccount(ex[j].gate)>>, "leave")
       [] OTHER -> FALSE
  /\ LoopUnchanged
  /\ UNCHANGED <<lock, perf>>

\* _handle_control at the loop's head and after every _sleep.
HandleControl(j) ==
  /\ ex[j].pc \in {"loop", "delay", "wait", "backoff"}
  /\ CASE Control(ex[j]) = "stop" ->
            Await(j, ex[j], TRUE, <<JobWrite("CANCELLED", None, FALSE),
                                    AccountWrite("READY")>>, "leave")
       [] Control(ex[j]) = "pause" ->
            Await(j, ex[j], TRUE, <<JobWrite("PAUSED", Keep, FALSE),
                                    PauseAccount(ex[j].gate)>>, "leave")
       [] OTHER -> FALSE
  /\ LoopUnchanged
  /\ UNCHANGED <<lock, perf>>

\* The result of the candidate goes to the RAM buffer; _flush writes the buffer
\* when it is full or a second old; _schedule_flush makes sure that a flush task
\* sleeps while results wait.
Record(j, st) ==
  LET e == [ex[j] EXCEPT !.results = Append(@, ItemUpdate(ex[j].cand, st)),
                         !.cand = None, !.transient = 0,
                         !.flusher = IF @ = "none" THEN "sleep" ELSE @]
  IN \/ Await(j, e, TRUE, <<>>, "loop")
     \/ /\ Len(e.results) < FlushBatch
        /\ Await(j, e, FALSE, <<>>, "loop")

\* buffer.pop(), which fills the window again when it is empty.
PopCandidate(j) ==
  LET e == IF ex[j].buf = {} THEN Fill(ex[j], j) ELSE ex[j]
      o == Smallest(e.buf)
  IN
  /\ ex[j].pc = "loop" /\ Control(ex[j]) = "none"
  /\ e.buf # {}
  /\ ex' = [ex EXCEPT ![j] = [e EXCEPT !.cand = o, !.buf = @ \ {o},
                                       !.pc = "attempt"]]
  /\ LoopUnchanged
  /\ UNCHANGED <<lock, perf, wq>>

\* Slip: the results that are still in RAM are not flushed at the end.
NoCandidateNoFlush(j) ==
  /\ ex[j].pc = "loop" /\ Control(ex[j]) = "none"
  /\ ex[j].buf = {} /\ PendingAfter(j, ex[j].last) = {}
  /\ lock' = Released(j)
  /\ Await(j, ex[j], FALSE, <<>>, "summary")
  /\ LoopUnchanged
  /\ UNCHANGED perf

\* No candidate is left: the lock is released, then the results are flushed.
NoCandidate(j) ==
  /\ ex[j].pc = "loop" /\ Control(ex[j]) = "none"
  /\ ex[j].buf = {} /\ PendingAfter(j, ex[j].last) = {}
  /\ lock' = Released(j)
  /\ Await(j, ex[j], TRUE, <<>>, "summary")
  /\ LoopUnchanged
  /\ UNCHANGED perf

\* _attempt: a candidate without user id or access hash fails at once.
Attempt(j) ==
  /\ ex[j].pc = "attempt"
  /\ \/ Record(j, "FAILED")
     \/ ex' = [ex EXCEPT ![j].pc = "delay"] /\ UNCHANGED wq
  /\ LoopUnchanged
  /\ UNCHANGED <<lock, perf>>

\* remaining_delay() is over and nothing was requested: the RPC is sent.
SendRpc(j) ==
  /\ ex[j].pc = "delay" /\ Control(ex[j]) = "none"
  /\ now >= ex[j].gate
  /\ ex' = [ex EXCEPT ![j].pc = "rpc"]
  /\ LoopUnchanged
  /\ UNCHANGED <<lock, perf, wq>>

\* Slip: the lock covers one request only.
RpcSucceedsUnlocks(j) ==
  /\ ex[j].pc = "rpc"
  /\ lock' = Released(j)
  /\ Record(j, "SUCCESS")
  /\ LoopUnchanged
  /\ UNCHANGED perf

RpcSucceeds(j) ==
  /\ ex[j].pc = "rpc"
  /\ Record(j, "SUCCESS")
  /\ LoopUnchanged
  /\ UNCHANGED <<lock, perf>>

\* Already member, privacy, not eligible, invalid: SKIPPED; unknown: FAILED.
RpcRejected(j) ==
  /\ ex[j].pc = "rpc"
  /\ \E st \in {"SKIPPED", "FAILED"} : Record(j, st)
  /\ LoopUnchanged
  /\ UNCHANGED <<lock, perf>>

\* When a wait of w ends, as far as the clock shows it.
Until(w) == IF now + w <= MaxTime THEN now + w ELSE MaxTime

\* Slip: the scheduler is not told about the server's wait.
RpcFloodWaitUngated(j, w) ==
  /\ ex[j].pc = "rpc"
  /\ deadline' = [deadline EXCEPT ![AccountOf[j]] = Larger(@, Until(w))]
  /\ Await(j, ex[j], TRUE,
           <<RetryWrite(ex[j].cand), AccountWrite("WAITING_SERVER"),
             JobWrite("WAITING_SERVER", Until(w), TRUE)>>, "wait")
  /\ UNCHANGED <<dbVars, lock, perf, app, now, lost, brokenVars, boundVars>>

\* RATE_LIMIT: the wait is persisted and the same candidate will be retried.
RpcFloodWait(j, w) ==
  /\ ex[j].pc = "rpc"
  /\ deadline' = [deadline EXCEPT ![AccountOf[j]] = Larger(@, Until(w))]
  /\ Await(j, [ex[j] EXCEPT !.gate = Larger(@, Until(w))], TRUE,
           <<RetryWrite(ex[j].cand), AccountWrite("WAITING_SERVER"),
             JobWrite("WAITING_SERVER", Until(w), TRUE)>>, "wait")
  /\ UNCHANGED <<dbVars, lock, perf, app, now, lost, brokenVars, boundVars>>

\* The server wait is over.
WaitOver(j) ==
  /\ ex[j].pc = "wait" /\ Control(ex[j]) = "none"
  /\ now >= ex[j].gate
  /\ Await(j, ex[j], FALSE, <<JobWrite("RUNNING", None, FALSE),
                              AccountWrite("BUSY")>>, "delay")
  /\ LoopUnchanged
  /\ UNCHANGED <<lock, perf>>

\* RATE_LIMIT_INDEFINITE; V12MigrationExecutor adds the restriction.
RpcRateLimited(j) ==
  /\ ex[j].pc = "rpc"
  /\ Await(j, ex[j], TRUE,
           <<RetryWrite(ex[j].cand), JobWrite("RATE_LIMITED", Keep, TRUE),
             AccountWrite("ERROR"), RestrictionWrite>>, "leave")
  /\ LoopUnchanged
  /\ UNCHANGED <<lock, perf>>

\* PERMISSION or AUTH: the job is paused, the candidate stays to be retried.
RpcPausesJob(j) ==
  /\ ex[j].pc = "rpc"
  /\ \E st \in {"AUTH_REQUIRED", "ERROR"} :
       Await(j, ex[j], TRUE,
             <<RetryWrite(ex[j].cand), JobWrite("PAUSED", Keep, TRUE),
               AccountWrite(st)>>, "leave")
  /\ LoopUnchanged
  /\ UNCHANGED <<lock, perf>>

\* Slip: transient errors are not counted.
RpcTransientUncounted(j) ==
  /\ ex[j].pc = "rpc"
  /\ ex' = [ex EXCEPT ![j].pc = "backoff"]
  /\ LoopUnchanged
  /\ UNCHANGED <<lock, perf, wq>>

\* A transient error or the watchdog.
RpcTransient(j) ==
  /\ ex[j].pc = "rpc"
  /\ ex' = [ex EXCEPT ![j].pc = "backoff", ![j].transient = @ + 1]
  /\ LoopUnchanged
  /\ UNCHANGED <<lock, perf, wq>>

\* The delay after a transient error is over.
BackoffOver(j) ==
  /\ ex[j].pc = "backoff" /\ Control(ex[j]) = "none"
  /\ IF ex[j].transient >= TransientLimit
     THEN Record(j, "FAILED")
     ELSE ex' = [ex EXCEPT ![j].pc = "delay"] /\ UNCHANGED wq
  /\ LoopUnchanged
  /\ UNCHANGED <<lock, perf>>

-----------------------------------------------------------------------------
(* Leaving run.                                                            *)

\* The loop was interrupted: the lock is released and run ends.
Leave(j) ==
  /\ ex[j].pc = "leave"
  /\ lock' = Released(j)
  /\ Finish(j)
  /\ LoopUnchanged

\* jobs.summary() decides the final state.
Summarize(j) ==
  /\ ex[j].pc = "summary"
  /\ LET final == IF row[j].failed > 0 THEN "COMPLETED_WITH_ERRORS"
                                       ELSE "COMPLETED"
     IN Await(j, ex[j], FALSE, <<JobWrite(final, None, FALSE),
                                 AccountWrite("READY")>>, "exit")
  /\ LoopUnchanged
  /\ UNCHANGED <<lock, perf>>

Exit(j) ==
  /\ ex[j].pc = "exit"
  /\ Finish(j)
  /\ LoopUnchanged
  /\ UNCHANGED lock

\* The flush task wakes up after a second.
DelayedFlush(j) ==
  /\ ex[j].flusher = "sleep"
  /\ IF ex[j].results = <<>>
     THEN /\ ex' = [ex EXCEPT ![j].flusher = "none"]
          /\ UNCHANGED wq
     ELSE /\ ex' = [ex EXCEPT ![j].flusher = "write", ![j].results = <<>>]
          /\ wq' = Append(wq, Entry(j, "flusher", ItemsWrite(ex[j].results)))
  /\ LoopUnchanged
  /\ UNCHANGED <<lock, perf>>

\* What ErrorMapper and ResultClassifier make of the end of a request.
RpcEnds(j) ==
  \/ RpcSucceeds(j) \/ RpcRejected(j) \/ (\E w \in Waits : RpcFloodWait(j, w))
  \/ RpcRateLimited(j) \/ RpcPausesJob(j) \/ RpcTransient(j)

ExecutorStep(j) ==
  \/ Prime(j) \/ AcquireLock(j)
  \/ HandleControl(j) \/ PopCandidate(j) \/ NoCandidate(j) \/ Attempt(j)
  \/ SendRpc(j) \/ RpcEnds(j)
  \/ WaitOver(j) \/ BackoffOver(j)
  \/ Leave(j) \/ Summarize(j) \/ Exit(j)
  \/ DelayedFlush(j)

-----------------------------------------------------------------------------
(* Exceptions in run.                                                      *)

\* A read or a write of the database fails.
Failure ==
  /\ failures < MaxFailures /\ MayDisturb
  /\ failures' = failures + 1

\* Run ends where nothing catches the exception: before its try statement,
\* and then performance mode stays on, or in the except block.
Breaks(j) ==
  /\ ex' = [ex EXCEPT ![j] = NoExecutor]
  /\ broken' = broken \cup {j}

LeavesModeOn == leaked' = leaked + 1 /\ UNCHANGED perf

\* The read of the first window fails, before the try statement.
PrimeFails(j) ==
  /\ ex[j].pc = "prime"
  /\ Failure
  /\ Breaks(j)
  /\ LeavesModeOn
  /\ UNCHANGED <<dbVars, lock, wq, app, now, deadline, lost,
                 commands, crashes, restarts>>

\* The read of a later window or of the summary fails: the except block makes
\* the job FAILED.
ReadFails(j) ==
  /\ \/ ex[j].pc = "loop" /\ Control(ex[j]) = "none" /\ ex[j].buf = {}
     \/ ex[j].pc = "summary"
  /\ Failure
  /\ lock' = Released(j)
  /\ Await(j, [ex[j] EXCEPT !.guard = "except"], TRUE,
           <<JobWrite("FAILED", None, FALSE), AccountWrite("ERROR")>>, "exit")
  /\ UNCHANGED <<dbVars, perf, app, now, deadline, lost, brokenVars,
                 commands, crashes, restarts>>

-----------------------------------------------------------------------------
(* DBWriter answers the oldest write.                                      *)

\* The answer resumes the coroutine that waits for it: run submits the next
\* write of its series or goes on, the flush task ends.
WriteCommits ==
  /\ wq # <<>>
  /\ LET j == Head(wq).job
         e == ex[j]
     IN /\ Commit(j, Head(wq).write)
        /\ CASE Head(wq).by = "main" /\ e.todo # <<>> ->
                  /\ ex' = [ex EXCEPT ![j].todo = Tail(@)]
                  /\ wq' = Append(Tail(wq),
                                  Entry(j, "main", Submitted(Head(e.todo))))
             [] Head(wq).by = "main" /\ e.todo = <<>> ->
                  /\ ex' = [ex EXCEPT ![j].pc = e.then, ![j].then = "none"]
                  /\ wq' = Tail(wq)
             [] Head(wq).by = "flusher" ->
                  /\ ex' = [ex EXCEPT ![j].flusher = "none"]
                  /\ wq' = Tail(wq)
             [] OTHER ->
                  /\ UNCHANGED ex
                  /\ wq' = Tail(wq)
  /\ UNCHANGED <<lock, perf, app, now, deadline, lost, brokenVars, boundVars>>

\* The results a failed write held are gone: the buffer was swapped before.
LostBy(entry) ==
  IF entry.write.kind = "items"
  THEN {[job |-> entry.job, ordinal |-> entry.write.updates[i].ordinal] :
          i \in 1..Len(entry.write.updates)}
  ELSE {}

\* The write fails.  The flush task dies with the exception.  In run it is not
\* caught before the try statement, it makes the job FAILED inside it, and it
\* ends run in the except block.
WriteFails ==
  /\ wq # <<>>
  /\ Failure
  /\ lost' = lost \cup LostBy(Head(wq))
  /\ LET j == Head(wq).job
         e == [ex[j] EXCEPT !.todo = <<>>]
         rest == [Orphaned(j) EXCEPT ![1] = Head(wq)]
     IN CASE Head(wq).by = "main" /\ e.guard = "none" ->
               /\ Breaks(j) /\ LeavesModeOn
               /\ wq' = Tail(wq)
               /\ UNCHANGED lock
          [] Head(wq).by = "main" /\ e.guard = "body" ->
               LET flush == IF e.results = <<>> THEN <<>>
                            ELSE <<ItemsWrite(e.results)>>
                   ws == flush \o <<JobWrite("FAILED", None, FALSE),
                                    AccountWrite("ERROR")>>
               IN /\ lock' = Released(j)
                  /\ ex' = [ex EXCEPT ![j] =
                              [e EXCEPT !.guard = "except", !.results = <<>>,
                                        !.todo = Tail(ws), !.then = "exit"]]
                  /\ wq' = Append(Tail(wq), Entry(j, "main", Head(ws)))
                  /\ UNCHANGED <<perf, brokenVars>>
          [] Head(wq).by = "main" /\ e.guard = "except" ->
               /\ Breaks(j) /\ DisablePerformanceMode
               /\ wq' = Tail(rest)
               /\ UNCHANGED <<lock, leaked>>
          [] Head(wq).by = "flusher" ->
               /\ ex' = [ex EXCEPT ![j].flusher = "none"]
               /\ wq' = Tail(wq)
               /\ UNCHANGED <<lock, perf, brokenVars>>
          [] OTHER ->
               /\ wq' = Tail(wq)
               /\ UNCHANGED <<ex, lock, perf, brokenVars>>
  /\ UNCHANGED <<dbVars, app, now, deadline,
                 commands, crashes, restarts>>

-----------------------------------------------------------------------------
(* The process.                                                            *)

\* Time passes, which nobody notices but while a server wait runs.
Tick ==
  /\ now < MaxTime
  /\ \E a \in Accounts : now < deadline[a]
  /\ now' = now + 1
  /\ UNCHANGED <<dbVars, ex, lock, perf, wq, app, deadline, lost, brokenVars,
                 boundVars>>

\* prepare_shutdown: every executor is asked to pause.
Close ==
  /\ Dispatch
  /\ app' = "closing"
  /\ ex' = [j \in Jobs |-> IF Live(j) THEN RequestPause(ex[j]) ELSE ex[j]]
  /\ UNCHANGED <<dbVars, lock, perf, wq, now, deadline, lost, brokenVars,
                 crashes, failures, restarts>>

\* What is in memory disappears.
Vanish ==
  /\ app' = "down"
  /\ ex' = [j \in Jobs |-> NoExecutor]
  /\ lock' = [a \in Accounts |-> NoJob]
  /\ perf' = 0
  /\ broken' = {} /\ leaked' = 0

\* NetworkRuntime.stop cancels the coroutines, paused or not, and DBWriter.stop
\* drains the queue.
Quit ==
  /\ app = "closing"
  /\ Vanish
  /\ wq' = [i \in 1..Len(wq) |-> [wq[i] EXCEPT !.by = "nobody"]]
  /\ UNCHANGED <<dbVars, now, deadline, lost, boundVars>>

\* The process dies; uncommitted writes are gone.
Crash ==
  /\ app # "down"
  /\ crashes < MaxCrashes /\ MayDisturb
  /\ crashes' = crashes + 1
  /\ Vanish
  /\ wq' = <<>>
  /\ UNCHANGED <<dbVars, now, deadline, lost,
                 commands, failures, restarts>>

\* Slip: only expired waits are normalized.
NormalizedWaits(r) ==
  IF r.state = "WAITING_SERVER" /\ ~(r.until > now)
  THEN [r EXCEPT !.state = "PAUSED"]
  ELSE r

\* The rows that recoverable() gives, and normalize_after_restart for one row.
Recoverable(r) == r.state \in {"RUNNING", "WAITING_SERVER", "PAUSED", "RATE_LIMITED"}

Normalized(r) ==
  IF /\ Recoverable(r) /\ r.state \in {"RUNNING", "WAITING_SERVER"}
     /\ ~(r.state = "WAITING_SERVER" /\ r.until > now)
  THEN [r EXCEPT !.state = "PAUSED"]
  ELSE r

Restart ==
  /\ app = "down" /\ wq = <<>>
  /\ app' = "up"
  /\ row' = [j \in Jobs |-> Normalized(row[j])]
  /\ restarts' = restarts + 1
  /\ UNCHANGED <<item, acct, restricted, ex, lock, perf, wq, now, deadline,
                 lost, brokenVars, commands, crashes, failures>>

-----------------------------------------------------------------------------
\* Every job is planned and READY; the plan's checkpoint holds its action.
Init ==
  /\ row = [j \in Jobs |-> [state |-> "READY", until |-> None,
                            action |-> PlanAction[j], failed |-> 0]]
  /\ item = [j \in Jobs |-> [o \in Ordinals |-> "READY"]]
  /\ acct = [a \in Accounts |-> "READY"]
  /\ restricted = {}
  /\ ex = [j \in Jobs |-> NoExecutor]
  /\ lock = [a \in Accounts |-> NoJob]
  /\ perf = 0 /\ wq = <<>> /\ app = "up" /\ now = 0
  /\ deadline = [a \in Accounts |-> None]
  /\ lost = {} /\ broken = {} /\ leaked = 0
  /\ commands = 0 /\ crashes = 0 /\ failures = 0 /\ restarts = 0

Next ==
  \/ \E j \in Jobs :
       \/ StartMigration(j) \/ ResumeMigration(j)
       \/ PauseMigration(j) \/ StopMigration(j)
       \/ ExecutorStep(j)
       \/ PrimeFails(j) \/ ReadFails(j)
  \/ WriteCommits \/ WriteFails
  \/ Tick \/ Close \/ Quit \/ Crash \/ Restart

\* The network loop and the writer thread run, RPCs end (watchdog), time
\* passes.  asyncio.Lock serves its waiters in their order.  The user, crashes
\* and failures are not fair.
Fairness ==
  /\ \A j \in Jobs : WF_vars(ExecutorStep(j)) /\ SF_vars(AcquireLock(j))
  /\ WF_vars(WriteCommits \/ WriteFails)
  /\ WF_vars(Tick)

Spec == Init /\ [][Next]_vars /\ Fairness
-----------------------------------------------------------------------------
(* Properties.                                                             *)

\* The steps of _attempt and the head of the loop, under the account's lock.
InLoop(j) == ex[j].pc \in {"loop", "attempt", "delay", "rpc", "wait", "backoff",
                          "leave"}

\* Every variable has its type.
TypeOK ==
  /\ row \in [Jobs -> [state : JobStates, until : Nat,
                       action : Actions \cup {"none"}, failed : Nat]]
  /\ item \in [Jobs -> [Ordinals -> ItemStates]]
  /\ acct \in [Accounts -> AccountStates]
  /\ restricted \subseteq Accounts
  /\ \A j \in Jobs :
       /\ ex[j].guard \in {"none", "body", "except"}
       /\ ex[j].cand \in Ordinals \cup {None}
       /\ ex[j].transient \in 0..TransientLimit
       /\ ex[j].gate \in Nat
       /\ ex[j].pc = "await" => ex[j].then # "none"
  /\ lock \in [Accounts -> Jobs \cup {NoJob}]
  /\ perf \in Nat
  /\ app \in {"up", "closing", "down"}
  /\ now \in 0..MaxTime

\* LOCKED_SPEC: "One mutation job per account at a time."  Two executors of one
\* account are never inside the candidate loop together, although both may be
\* started, fail, be stopped and leave the loop on different paths.
OneMutationPerAccount ==
  \A j, k \in Jobs :
    /\ j # k /\ AccountOf[j] = AccountOf[k]
    => ~(InLoop(j) /\ InLoop(k))

\* Results that wait for their write, in DBWriter's hands or in the buffer.
Queued(j, o) ==
  \E n \in 1..Len(wq) :
    /\ wq[n].job = j /\ wq[n].write.kind = "items"
    /\ Reports(wq[n].write.updates, o)

KnownResult(j, o) ==
  item[j][o] \in Done \/ Reports(ex[j].results, o) \/ Queued(j, o)

\* A candidate whose result is known to the program is not asked again, over
\* pauses, resumes, shutdowns, restarts and the concurrent delayed flush: what
\* pending_chunk reads after a resume has every earlier result in it.
NoRepeatedCandidate ==
  \A j \in Jobs : ex[j].pc = "rpc" => ~KnownResult(j, ex[j].cand)

\* A job that calls itself completed has a final result for every candidate,
\* except those whose result write failed in the flush task.
CompletedIsComplete ==
  \A j \in Jobs :
    row[j].state \in {"COMPLETED", "COMPLETED_WITH_ERRORS"} =>
      \A o \in Ordinals :
        item[j][o] \in Done \/ [job |-> j, ordinal |-> o] \in lost

\* RecoveryService: "Make interrupted jobs explicit instead of pretending an
\* executor still exists."  While the program runs, a job that is shown as RUNNING
\* has an executor, and until a restart (which leaves accounts as they are) so has
\* an account that is shown as BUSY: every path out of run gives both back,
\* failures in its try statement included.  Only a failure that nothing in run
\* catches, in its first writes, its first read or its except block, leaves them.
RowsMatchWhatRuns ==
  app = "up" =>
    /\ \A j \in Jobs : row[j].state = "RUNNING" => Live(j) \/ j \in broken
    /\ restarts = 0 => \A a \in Accounts :
         acct[a] = "BUSY" =>
           \E j \in Jobs : AccountOf[j] = a /\ (Live(j) \/ j \in broken)

\* LOCKED_SPEC: "Never skip candidate, reset session or retry before the
\* deadline."  No request is on the wire while the server's wait for the
\* account lasts.
GateRespected ==
  \A j \in Jobs : ex[j].pc = "rpc" => now >= deadline[AccountOf[j]]

\* The same for two jobs of one account that nobody disturbs: the job that meets
\* the wait keeps the lock until the wait is over.  A pause, a stop, a failing
\* write or a restart hands the lock on earlier, and then the promise is broken.
GateIsHandedOn ==
  commands = 0 /\ crashes = 0 /\ failures = 0 /\ app = "up" => GateRespected

\* Performance mode, in which exports are refused (BackgroundTaskDeferred),
\* counts the running executors and the runs that a failure ended before their
\* try statement, which leave it on until the process ends, and nothing else: no
\* end of a run takes away another job's share, and none is counted twice.
PerformanceModeIsCounted ==
  perf = Cardinality({j \in Jobs : Live(j)}) + leaked

\* The server answers with waits for ever.
WaitsForEver(J) == []<><<\E j \in J, w \in Waits : RpcFloodWait(j, w)>>_vars

\* Every run of an executor ends, also when it has to wait for another job's lock
\* and whatever fails: transient errors are not repeated for ever, the lock is
\* handed on by every way out of the loop, pause and stop are noticed in every
\* sleep.  Nothing bounds how often the code accepts a server wait: only a server
\* that asks for waits for ever keeps a run from ending.
EveryRunEnds == (\A j \in Jobs : Live(j) ~> ~Live(j)) \/ WaitsForEver(Jobs)

\* A stop ends in a final state, wherever the executor is when it arrives (an
\* interruption that the server causes at the same moment may win, and so may
\* the end of the program and a failure that run does not catch).  Server waits
\* of its own do not delay it, those of a job that holds the lock do.
StopIsFinal ==
  \A j \in Jobs :
    \/ ex[j].stop ~> \/ row[j].state \in Terminal \cup {"PAUSED", "RATE_LIMITED"}
                     \/ app # "up" \/ j \in broken
    \/ WaitsForEver(Jobs \ {j})

\* LOCKED_SPEC: "INVITE and REMOVE share one executor."  The executor of a job
\* performs the action the job was planned for.
ActionIsKept ==
  \A j \in Jobs : Live(j) => ex[j].action = PlanAction[j]

=============================================================================
