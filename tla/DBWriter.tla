------------------------------ MODULE DBWriter ------------------------------
(***************************************************************************)
(* The single SQLite writer pipeline, tms/runtime/db_writer.py.            *)
(*                                                                         *)
(* Any thread may submit a write: submit() tests _stopped, starts the      *)
(* writer thread if there is none, and puts the task in a bounded queue,   *)
(* in three steps with no lock around them: stop() may set _stopped after  *)
(* the test, and start(), which clears it, may then undo that.  (The look  *)
(* at the thread and start(), which looks at it again, are one step: two   *)
(* callers inside start() at once are left out.)                           *)
(* The writer thread collects routine tasks in `pending', commits them as  *)
(* one transaction when the batch is full, when the queue stays empty for  *)
(* flush_interval, and before a critical task, which then gets a           *)
(* transaction of its own.  After a transaction it resolves the futures    *)
(* one by one: it looks at future.done() and then calls set_result() or    *)
(* set_exception(), and the owner of the future (asyncio.wrap_future in    *)
(* the network thread) may cancel it between the two.  The call then       *)
(* raises InvalidStateError, which leaves _commit_batch() and _run().      *)
(*                                                                         *)
(* A task stands for one submit() call; what its SQL does is left out.     *)
(***************************************************************************)
EXTENDS Integers, Sequences, FiniteSets

CONSTANTS
  Tasks,       \* the submit() calls of the repositories
  Critical,    \* those submitted with critical=True
  FlushTask,   \* the empty critical task of flush(), submitted by stop()
  Stop,        \* the _STOP marker
  NoItem,      \* no queue item is held
  BatchLimit,  \* batch_limit
  QueueLimit   \* queue_limit

AllTasks == Tasks \cup {FlushTask}
Items    == AllTasks \cup {Stop}

ASSUME ConstantsAssumption ==
  /\ Critical \subseteq Tasks
  /\ FlushTask \notin Tasks
  /\ Stop \notin AllTasks
  /\ NoItem \notin Items
  /\ BatchLimit \in Nat \ {0}
  /\ QueueLimit \in Nat \ {0}

VARIABLES
  queue,     \* _queue
  entered,   \* tasks whose submit() has found _stopped clear
  checked,   \* tasks whose submit() has a thread and is at _queue.put
  future,    \* the state of each task's Future, "none" before it exists
  thread,    \* where the writer thread is in _run/_commit_batch
  pending,   \* the local `pending' of _run
  item,      \* the queue item handled once `pending' is committed
  batch,     \* the `tasks' argument of the running _commit_batch
  batchOf,   \* which call of _commit_batch is running
  index,     \* the position of the future being resolved
  outcome,   \* what the futures of the batch are resolved with
  db,        \* history: the operations of the committed transactions, in order
  stopper,   \* where the thread in stop() is
  stopped,   \* _stopped: set at the end of stop(), cleared by start()
  accepted,  \* history: the items put in the queue, in order
  crashes    \* history: 1 when InvalidStateError has ended the writer thread

queueVars  == <<queue, entered, checked, accepted>>
threadVars == <<thread, pending, item, batch, batchOf, index, outcome>>
vars == <<queueVars, threadVars, stopper, stopped, future, db, crashes>>

ThreadStates  == {"down", "get", "txn", "resolve", "set"}
FutureStates  == {"none", "pending", "ok", "error", "cancelled"}
StopperStates == {"idle", "wait", "put", "join", "done"}

IsCritical(t) == t \in Critical \cup {FlushTask}

Elements(s) == {s[i] : i \in 1..Len(s)}

-----------------------------------------------------------------------------
(* Submitting.                                                             *)

\* submit() begins: a stopped writer answers with a failed future.
Test(t) ==
  /\ future[t] = "none" /\ t \notin entered \cup checked
  /\ IF stopped
     THEN future' = [future EXCEPT ![t] = "error"] /\ UNCHANGED entered
     ELSE entered' = entered \cup {t} /\ UNCHANGED future

\* A caller other than stop() enters submit().
SubmitTest(t) ==
  /\ t \in Tasks
  /\ Test(t)
  /\ UNCHANGED <<queue, checked, accepted, threadVars, stopper, stopped, db, crashes>>

\* submit() goes on: a missing thread is started.  start() clears _stopped and
\* waits for the thread to signal _started.
SubmitLook(t) ==
  /\ t \in entered
  /\ entered' = entered \ {t}
  /\ checked' = checked \cup {t}
  /\ IF thread = "down"
     THEN /\ stopped' = FALSE
          /\ thread' = "get"
          /\ pending' = <<>>
          /\ item' = NoItem
          /\ UNCHANGED <<batch, batchOf, index, outcome>>
     ELSE UNCHANGED <<stopped, threadVars>>
  /\ UNCHANGED <<queue, accepted, stopper, future, db, crashes>>

\* _queue.put of a task: blocks while the queue is full.
SubmitPut(t) ==
  /\ t \in checked
  /\ Len(queue) < QueueLimit
  /\ checked' = checked \ {t}
  /\ queue' = Append(queue, t)
  /\ accepted' = Append(accepted, t)
  /\ future' = [future EXCEPT ![t] = "pending"]
  /\ UNCHANGED <<entered, threadVars, stopper, stopped, db, crashes>>

\* The owner cancels its future: asyncio.wrap_future forwards the cancellation
\* of the awaiting coroutine (executor.py:110, network_runtime.py:42).  The
\* task stays in the queue: nothing marks a future as running.
Cancel(t) ==
  /\ t \in Tasks
  /\ future[t] = "pending"
  /\ future' = [future EXCEPT ![t] = "cancelled"]
  /\ UNCHANGED <<queueVars, threadVars, stopper, stopped, db, crashes>>

-----------------------------------------------------------------------------
(* The writer thread.                                                      *)

\* _commit_batch is entered with tasks s.
StartBatch(s, of) ==
  /\ batch' = s
  /\ batchOf' = of
  /\ index' = 1
  /\ thread' = "txn"
  /\ UNCHANGED outcome

\* Slip: pending.clear() is missing after a commit.
HandleHeldWithoutClear(i) ==
  /\ UNCHANGED pending
  /\ item' = NoItem
  /\ IF i \in AllTasks
     THEN StartBatch(<<i>>, "critical")
     ELSE /\ thread' = IF i = Stop THEN "down" ELSE "get"
          /\ UNCHANGED <<batch, batchOf, index, outcome>>

\* What _run does with the item i it took, once `pending' has been committed.
HandleHeld(i) ==
  /\ pending' = <<>>
  /\ item' = NoItem
  /\ IF i \in AllTasks
     THEN StartBatch(<<i>>, "critical")
     ELSE /\ thread' = IF i = Stop THEN "down" ELSE "get"
          /\ UNCHANGED <<batch, batchOf, index, outcome>>

\* Slip: a critical task overtakes the pending ones.
CriticalOvertakes(i) ==
  IF i \in AllTasks
  THEN StartBatch(<<i>>, "critical") /\ item' = NoItem /\ UNCHANGED pending
  ELSE item' = i /\ UNCHANGED pending /\ StartBatch(pending, "pending")

\* Slip: _STOP leaves the loop without committing `pending'.
StopDropsPending(i) ==
  IF pending = <<>> \/ i = Stop
  THEN HandleHeld(i)
  ELSE item' = i /\ UNCHANGED pending /\ StartBatch(pending, "pending")

\* _commit_batch(conn, pending), then pending.clear() and the held item; the
\* call returns at once when there is nothing to commit.
FlushPending(i) ==
  IF pending = <<>>
  THEN HandleHeld(i)
  ELSE /\ item' = i
       /\ UNCHANGED pending
       /\ StartBatch(pending, "pending")

\* _queue.get returns the head of the queue.
Get ==
  /\ thread = "get"
  /\ queue # <<>>
  /\ queue' = Tail(queue)
  /\ LET i == Head(queue) IN
       IF i = Stop \/ IsCritical(i)
       THEN FlushPending(i)
       ELSE LET p == Append(pending, i) IN
              /\ pending' = p
              /\ item' = NoItem
              /\ IF Len(p) >= BatchLimit
                 THEN StartBatch(p, "pending")
                 ELSE UNCHANGED <<thread, batch, batchOf, index, outcome>>
  /\ UNCHANGED <<entered, checked, accepted, stopper, stopped, future, db, crashes>>

\* Slip: only a full batch is committed when the queue is empty.
GetEmptyWaits ==
  /\ thread = "get" /\ queue = <<>>
  /\ Len(pending) >= BatchLimit
  /\ FlushPending(NoItem)
  /\ UNCHANGED <<queueVars, stopper, stopped, future, db, crashes>>

\* _queue.get times out (Empty): routine writes do not wait longer.
GetEmpty ==
  /\ thread = "get"
  /\ queue = <<>>
  /\ pending # <<>>
  /\ FlushPending(NoItem)
  /\ UNCHANGED <<queueVars, stopper, stopped, future, db, crashes>>

\* Slip: the failure of an earlier batch is not forgotten.
CommitTxnKeepsOutcome ==
  /\ thread = "txn"
  /\ db' = db \o batch
  /\ thread' = "resolve"
  /\ UNCHANGED <<queueVars, stopper, stopped, future, crashes,
                 pending, item, batch, batchOf, index, outcome>>

\* BEGIN IMMEDIATE, every operation of the batch, commit.
CommitTxn ==
  /\ thread = "txn"
  /\ db' = db \o batch
  /\ outcome' = "ok"
  /\ thread' = "resolve"
  /\ UNCHANGED <<queueVars, stopper, stopped, future, crashes,
                 pending, item, batch, batchOf, index>>

\* Slip: the exception is swallowed after the rollback.
RollbackTxnSilently ==
  /\ thread = "txn"
  /\ outcome' = "ok"
  /\ thread' = "resolve"
  /\ UNCHANGED <<queueVars, stopper, stopped, future, db, crashes,
                 pending, item, batch, batchOf, index>>

\* BEGIN, an operation or the commit raises: rollback, the whole batch fails.
RollbackTxn ==
  /\ thread = "txn"
  /\ outcome' = "error"
  /\ thread' = "resolve"
  /\ UNCHANGED <<queueVars, stopper, stopped, future, db, crashes,
                 pending, item, batch, batchOf, index>>

\* "if not task.future.done()" of the next task of the batch.
ResolveCheck ==
  /\ thread = "resolve"
  /\ index <= Len(batch)
  /\ IF future[batch[index]] = "pending"
     THEN thread' = "set" /\ UNCHANGED index
     ELSE index' = index + 1 /\ UNCHANGED thread
  /\ UNCHANGED <<queueVars, stopper, stopped, future, db, crashes,
                 pending, item, batch, batchOf, outcome>>

\* set_result() or set_exception() on a future that is still pending.
ResolveSet ==
  /\ thread = "set"
  /\ future[batch[index]] = "pending"
  /\ future' = [future EXCEPT ![batch[index]] = outcome]
  /\ index' = index + 1
  /\ thread' = "resolve"
  /\ UNCHANGED <<queueVars, stopper, stopped, db, crashes,
                 pending, item, batch, batchOf, outcome>>

\* The same call on a future cancelled since the check: InvalidStateError.
\* _run's finally commits `pending', which has not been cleared yet, and the
\* thread ends.  The held item is dropped.
ResolveRaises ==
  /\ thread = "set"
  /\ future[batch[index]] # "pending"
  /\ crashes' = 1
  /\ item' = NoItem
  /\ IF batchOf = "pending"
     THEN StartBatch(pending, "finally") /\ UNCHANGED pending
     ELSE /\ thread' = "down"
          /\ pending' = <<>>
          /\ UNCHANGED <<batch, batchOf, index, outcome>>
  /\ UNCHANGED <<queueVars, stopper, stopped, future, db>>

\* _commit_batch returns.
BatchDone ==
  /\ thread = "resolve"
  /\ index > Len(batch)
  /\ HandleHeld(IF batchOf = "finally" THEN Stop ELSE item)
  /\ UNCHANGED <<queueVars, stopper, stopped, future, db, crashes>>

WriterStep ==
  \/ Get \/ GetEmpty
  \/ CommitTxn \/ RollbackTxn
  \/ ResolveCheck \/ ResolveSet \/ ResolveRaises
  \/ BatchDone

-----------------------------------------------------------------------------
(* stop(), called once at the end of ApplicationRuntime.stop.              *)

\* flush(): submit the empty critical task ...
StopFlush ==
  /\ stopper = "idle"
  /\ Test(FlushTask)
  /\ stopper' = "wait"
  /\ UNCHANGED <<queue, checked, accepted, threadVars, stopped, db, crashes>>

\* Slip: a failed flush keeps stop() from going on.
StopFlushedStrictly ==
  /\ stopper = "wait"
  /\ future[FlushTask] = "ok"
  /\ stopper' = "put"
  /\ UNCHANGED <<queueVars, threadVars, stopped, future, db, crashes>>

\* ... and wait for its result; an exception or the timeout is swallowed.  The
\* timeout only starts once _queue.put has returned.
StopFlushed ==
  /\ stopper = "wait"
  /\ FlushTask \notin entered \cup checked
  /\ stopper' = "put"
  /\ UNCHANGED <<queueVars, threadVars, stopped, future, db, crashes>>

\* _queue.put(_STOP), which has no timeout.
StopPut ==
  /\ stopper = "put"
  /\ Len(queue) < QueueLimit
  /\ queue' = Append(queue, Stop)
  /\ accepted' = Append(accepted, Stop)
  /\ stopper' = "join"
  /\ UNCHANGED <<entered, checked, threadVars, stopped, future, db, crashes>>

\* join(timeout) returns, whether the thread has ended or not.
StopJoined ==
  /\ stopper = "join"
  /\ stopper' = "done"
  /\ stopped' = TRUE
  /\ UNCHANGED <<queueVars, threadVars, future, db, crashes>>

StopStep == StopFlushed \/ StopPut \/ StopJoined

-----------------------------------------------------------------------------
Init ==
  /\ queue = <<>> /\ entered = {} /\ checked = {} /\ accepted = <<>>
  /\ future = [t \in AllTasks |-> "none"]
  /\ thread = "get"
  /\ pending = <<>> /\ item = NoItem
  /\ batch = <<>> /\ batchOf = "pending" /\ index = 1 /\ outcome = "ok"
  /\ db = <<>>
  /\ stopper = "idle" /\ stopped = FALSE
  /\ crashes = 0

Next ==
  \/ \E t \in AllTasks : SubmitTest(t) \/ SubmitLook(t) \/ SubmitPut(t) \/ Cancel(t)
  \/ WriterStep
  \/ StopFlush \/ StopStep

\* A caller in submit() proceeds, the writer thread runs, and stop() goes on once it
\* was called.  Nobody has to submit, to cancel or to call stop().
Fairness ==
  /\ \A t \in AllTasks : WF_vars(SubmitLook(t) \/ SubmitPut(t))
  /\ WF_vars(WriterStep)
  /\ WF_vars(StopStep)

Spec == Init /\ [][Next]_vars /\ Fairness
-----------------------------------------------------------------------------
(* Properties.                                                             *)

\* u was put in the queue before t.
Before(u, t) ==
  \E i, j \in 1..Len(accepted) :
    i < j /\ accepted[i] = u /\ accepted[j] = t

\* Every variable has its type; a batch that is being resolved has an index.
TypeOK ==
  /\ queue \in Seq(Items)
  /\ entered \subseteq AllTasks
  /\ checked \subseteq AllTasks
  /\ accepted \in Seq(Items)
  /\ future \in [AllTasks -> FutureStates]
  /\ thread \in ThreadStates
  /\ pending \in Seq(Tasks)
  /\ item \in Items \cup {NoItem}
  /\ batch \in Seq(AllTasks)
  /\ batchOf \in {"pending", "critical", "finally"}
  /\ index \in Nat \ {0}
  /\ outcome \in {"ok", "error"}
  /\ db \in Seq(AllTasks)
  /\ stopper \in StopperStates
  /\ stopped \in BOOLEAN
  /\ crashes \in {0, 1}

\* A caller whose future has a result may rely on its write: _commit_batch
\* resolves a future with a result only when the transaction that holds the
\* operation has committed.
OkIsCommitted ==
  \A t \in AllTasks : future[t] = "ok" => t \in Elements(db)

\* A caller whose future has an exception may retry its write: the rollback
\* has undone it together with the rest of its batch.  (A writer thread that
\* was ended by InvalidStateError runs the batch a second time, and that run
\* may fail after the first has committed.)
ErrorIsRolledBack ==
  crashes = 0 =>
    \A t \in AllTasks : future[t] = "error" => t \notin Elements(db)

\* The database sees the writes in the order in which they were queued and
\* none of them twice, however routine and critical writes are interleaved:
\* _run empties `pending' before a critical task and clears it after a commit.
CommittedInOrder ==
  crashes = 0 =>
    \A i, j \in 1..Len(db) : i < j => Before(db[i], db[j])

\* A critical state write is a barrier: when its caller is answered, every
\* write queued before it has been answered too, so that the job or account
\* state in the database never runs ahead of the item results it refers to.
CriticalIsBarrier ==
  crashes = 0 =>
    \A t, u \in AllTasks :
      /\ IsCritical(t) /\ future[t] \in {"ok", "error"}
      /\ Before(u, t)
      => future[u] # "pending"

\* What was queued before _STOP is not lost by the shutdown: when the writer
\* thread is gone, all of it has been answered.
ShutdownDrains ==
  /\ crashes = 0
  /\ thread = "down"
  => \A u \in AllTasks : Before(u, Stop) => future[u] # "pending"

\* Every accepted write is answered, unless it was queued behind _STOP or the
\* writer thread was ended by InvalidStateError; a full queue and a batch that
\* never fills delay it only (flush_interval).
EveryWriteAnswered ==
  \/ <>(crashes = 1)
  \/ \A t \in AllTasks :
       future[t] = "pending" ~> (future[t] # "pending" \/ Before(Stop, t))

\* stop() returns, although flush() and _STOP compete with other callers for
\* the places in the queue and _queue.put(_STOP) has no timeout.
StopReturns ==
  \/ <>(crashes = 1)
  \/ stopper = "wait" ~> stopper = "done"
=============================================================================
