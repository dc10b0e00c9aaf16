-------------------------- MODULE ParticipantScanner --------------------------
(***************************************************************************)
(* Member collection: tms/telegram/participant_scanner.py, the commands    *)
(* that start, cancel and resume a scan (tms/runtime/command_handlers.py), *)
(* the read slots of tms/runtime/resource_governor.py, the rows a scan     *)
(* writes (tms/jobs/repository.py, tms/members/repository.py) and the      *)
(* recovery at start-up (tms/migration/recovery.py).                       *)
(*                                                                         *)
(* One scan job and the calls of scan() that work for it.  Nothing but the *)
(* state PAUSED guards resume_scan, so that two calls may run at the same  *)
(* time.  A call is a producer and a consumer coroutine in a TaskGroup,    *)
(* joined by a bounded queue, and a parent that writes the job row before  *)
(* and after.  Writes pass through the FIFO of DBWriter (module DBWriter). *)
(*                                                                         *)
(* Abstractions: a member is its Telegram id (every participant has one,   *)
(* so `invalid' stays 0); the group does not change during the scan, but   *)
(* the server may list a member twice; names, hashes and progress events   *)
(* are left out; cp.cancelled always agrees with the cancel event.         *)
(***************************************************************************)
EXTENDS Integers, Sequences, FiniteSets

CONSTANTS
  Scans,         \* the calls of scan() for the job
  NoScan,        \* nobody
  Participants,  \* the server's list of members, a sequence of ids
  PageLimit,     \* SCAN_PAGE_LIMIT
  BatchLimit,    \* SCAN_DB_BATCH_SIZE
  QueueMax,      \* SCAN_PAGE_QUEUE_MAX
  MaxReads,      \* ResourceGovernor(max_reads)
  MaxCommands,   \* bound: cancel and resume commands
  MaxCrashes,    \* bound: process crashes
  MaxFailures,   \* bound: failing database writes
  MaxRpcErrors   \* bound: failing participant requests

Members == {Participants[i] : i \in 1..Len(Participants)}

ASSUME ScannerAssumption ==
  /\ NoScan \notin Scans
  /\ Participants \in Seq(Members)
  /\ {PageLimit, BatchLimit, QueueMax, MaxReads} \subseteq Nat \ {0}
  /\ {MaxCommands, MaxCrashes, MaxFailures, MaxRpcErrors} \subseteq Nat

VARIABLES
  row,         \* jobs: state, offset and accepted of checkpoint_json
  dataset,     \* dataset_members of the scan's dataset
  scan,        \* the calls of scan(), with their locals
  registered,  \* whose event is in _cancel_events
  prepared,    \* the job exists, its start() callback has not run yet
  wq,          \* the writes in the hands of DBWriter
  app,         \* "up" or "down"
  doubled,     \* history: two calls were at work at a time
  commands, crashes, failures, rpcErrors, restarts

dbVars    == <<row, dataset>>
boundVars == <<commands, crashes, failures, rpcErrors, restarts, doubled>>
vars == <<dbVars, scan, registered, prepared, wq, app, boundVars>>

Terminal == {"COMPLETED", "FAILED", "CANCELLED"}
Sentinel == [ids |-> {}, next |-> 0]
Ended    == {"done", "failed", "cancelled"}

Smaller(a, b) == IF a < b THEN a ELSE b

\* No call, and the locals of a new one.
Idle ==
  [pc |-> "none", prod |-> "off", cons |-> "off", current |-> 0, page |-> Sentinel,
   error |-> FALSE, queue |-> <<>>, batch |-> {}, batchOffset |-> 0,
   last |-> FALSE, seen |-> {}, offset |-> 0, accepted |-> 0, cancel |-> FALSE]

Live(s) == scan[s].pc # "none"

\* What call s hands to DBWriter.
StateWrite(s, st) ==
  [by |-> s, kind |-> "state", state |-> st, ids |-> {},
   offset |-> scan[s].offset, accepted |-> scan[s].accepted]
IngestWrite(s, ids) ==
  [by |-> s, kind |-> "ingest", state |-> "none", ids |-> ids,
   offset |-> 0, accepted |-> 0]
CheckpointWrite(s, off, acc) ==
  [by |-> s, kind |-> "checkpoint", state |-> "none", ids |-> {},
   offset |-> off, accepted |-> acc]
EventWrite(s) ==
  [by |-> s, kind |-> "event", state |-> "none", ids |-> {},
   offset |-> 0, accepted |-> 0]

-----------------------------------------------------------------------------
(* Commands.                                                               *)

\* A call begins, perhaps while another one is at work.
Meets == doubled' = (doubled \/ \E s \in Scans : Live(s))

\* scan_source: the worker creates the dataset and the job.
ScanSource ==
  /\ app = "up" /\ row.state = "none"
  /\ row' = [row EXCEPT !.state = "READY"]
  /\ prepared' = TRUE
  /\ UNCHANGED <<dataset, scan, registered, wq, app, boundVars>>

\* ... and its callback submits scan() to the network loop.
StartScan(s) ==
  /\ app = "up" /\ prepared /\ ~Live(s)
  /\ prepared' = FALSE
  /\ scan' = [scan EXCEPT ![s] = [Idle EXCEPT !.pc = "queued"]]
  /\ Meets
  /\ UNCHANGED <<dbVars, registered, wq, app, commands, crashes, failures, rpcErrors, restarts>>

\* source.cancel_scan and resume_scan, up to MaxCommands of them.
Dispatch == app = "up" /\ commands < MaxCommands /\ commands' = commands + 1

\* Slip: a resumed scan starts from the beginning.
ResumeFromZero(s) ==
  /\ Dispatch /\ ~Live(s)
  /\ row.state = "PAUSED"
  /\ scan' = [scan EXCEPT ![s] = [Idle EXCEPT !.pc = "queued"]]
  /\ Meets
  /\ UNCHANGED <<dbVars, registered, prepared, wq, app,
                 crashes, failures, rpcErrors, restarts>>

\* resume_scan: the checkpoint is read where the state is checked.
ResumeScan(s) ==
  /\ Dispatch /\ ~Live(s)
  /\ row.state = "PAUSED"
  /\ scan' = [scan EXCEPT ![s] = [Idle EXCEPT !.pc = "queued",
                                              !.offset = row.offset,
                                              !.accepted = row.accepted]]
  /\ Meets
  /\ UNCHANGED <<dbVars, registered, prepared, wq, app,
                 crashes, failures, rpcErrors, restarts>>

\* ParticipantScanner.cancel reaches the call that registered last.
Cancel ==
  /\ registered # NoScan /\ Live(registered) /\ ~scan[registered].cancel
  /\ scan' = [scan EXCEPT ![registered].cancel = TRUE]

CancelScan ==
  /\ Dispatch /\ Cancel
  /\ UNCHANGED <<dbVars, registered, prepared, wq, app,
                 crashes, failures, rpcErrors, restarts, doubled>>

\* What a step of a call leaves alone.
ScanUnchanged ==
  UNCHANGED <<dbVars, prepared, app, commands, crashes, failures, restarts, doubled>>

\* scan() up to its first await.
Begin(s) ==
  /\ scan[s].pc = "queued"
  /\ scan' = [scan EXCEPT ![s].pc = "starting"]
  /\ registered' = s
  /\ wq' = Append(wq, StateWrite(s, "RUNNING"))
  /\ ScanUnchanged /\ UNCHANGED rpcErrors

-----------------------------------------------------------------------------
(* The producer.                                                           *)

Holds(s) == scan[s].prod \in {"fetch", "put"}

\* governor.read_slot() and the first request.
AcquireSlot(s) ==
  /\ scan[s].prod = "slot"
  /\ Cardinality({t \in Scans : Holds(t)}) < MaxReads
  /\ scan' = [scan EXCEPT ![s].prod = "fetch", ![s].current = scan[s].offset]
  /\ ScanUnchanged /\ UNCHANGED <<registered, wq, rpcErrors>>

\* The page of iter_participant_pages at offset `off'.
PageAt(off) ==
  LET next == Smaller(off + PageLimit, Len(Participants))
  IN [ids |-> {Participants[i] : i \in off + 1..next}, next |-> next]

\* A page arrives: an empty one or the cancel event ends the producer's loop.
Fetch(s) ==
  /\ scan[s].prod = "fetch"
  /\ LET page == PageAt(scan[s].current)
     IN scan' = [scan EXCEPT
                   ![s].prod = IF page.ids = {} \/ scan[s].cancel
                               THEN "sentinel" ELSE "put",
                   ![s].page = page]
  /\ ScanUnchanged /\ UNCHANGED <<registered, wq, rpcErrors>>

\* The request fails: the exception waits until the sentinel is queued.
FetchFails(s) ==
  /\ scan[s].prod = "fetch"
  /\ rpcErrors < MaxRpcErrors
  /\ rpcErrors' = rpcErrors + 1
  /\ scan' = [scan EXCEPT ![s].prod = "sentinel", ![s].error = TRUE]
  /\ ScanUnchanged /\ UNCHANGED <<registered, wq>>

\* queue.put(page); a short page is the last one.
PutPage(s) ==
  /\ scan[s].prod = "put"
  /\ Len(scan[s].queue) < QueueMax
  /\ LET page == scan[s].page
     IN scan' = [scan EXCEPT
          ![s].queue = Append(@, page),
          ![s].current = page.next,
          ![s].prod = IF page.next - scan[s].current < PageLimit
                      THEN "sentinel" ELSE "fetch"]
  /\ ScanUnchanged /\ UNCHANGED <<registered, wq, rpcErrors>>

\* The finally clause of the producer.
PutSentinel(s) ==
  /\ scan[s].prod = "sentinel"
  /\ Len(scan[s].queue) < QueueMax
  /\ scan' = [scan EXCEPT ![s].queue = Append(@, Sentinel),
                          ![s].prod = IF scan[s].error THEN "failed" ELSE "done"]
  /\ ScanUnchanged /\ UNCHANGED <<registered, wq, rpcErrors>>

-----------------------------------------------------------------------------
(* The consumer.                                                           *)

\* Slip: the sentinel ends the consumer without persisting the rest.
GetDropsRest(s) ==
  /\ scan[s].cons = "get" /\ scan[s].queue # <<>>
  /\ LET item == Head(scan[s].queue)
         c == [scan[s] EXCEPT
                 !.queue = Tail(@),
                 !.batch = @ \cup (item.ids \ scan[s].seen),
                 !.seen = @ \cup item.ids,
                 !.batchOffset = IF item = Sentinel THEN @ ELSE item.next]
     IN IF item # Sentinel /\ Cardinality(c.batch) >= BatchLimit
        THEN /\ scan' = [scan EXCEPT ![s] = [c EXCEPT !.cons = "ingest"]]
             /\ wq' = Append(wq, IngestWrite(s, c.batch))
        ELSE /\ scan' = [scan EXCEPT ![s] =
                           [c EXCEPT !.cons = IF item = Sentinel THEN "done"
                                                                 ELSE "get"]]
             /\ UNCHANGED wq
  /\ ScanUnchanged /\ UNCHANGED <<registered, rpcErrors>>

\* queue.get(): the new members of a page join the batch, a full batch is
\* persisted; the sentinel persists what is left.
Get(s) ==
  /\ scan[s].cons = "get" /\ scan[s].queue # <<>>
  /\ LET item == Head(scan[s].queue)
         c == [scan[s] EXCEPT
                 !.queue = Tail(@),
                 !.last = item = Sentinel,
                 !.batch = @ \cup (item.ids \ scan[s].seen),
                 !.seen = @ \cup item.ids,
                 !.batchOffset = IF item = Sentinel THEN @ ELSE item.next]
     IN IF IF c.last THEN c.batch # {} ELSE Cardinality(c.batch) >= BatchLimit
        THEN /\ scan' = [scan EXCEPT ![s] = [c EXCEPT !.cons = "ingest"]]
             /\ wq' = Append(wq, IngestWrite(s, c.batch))
        ELSE /\ scan' = [scan EXCEPT ![s] =
                           [c EXCEPT !.cons = IF c.last THEN "done" ELSE "get"]]
             /\ UNCHANGED wq
  /\ ScanUnchanged /\ UNCHANGED <<registered, rpcErrors>>

\* A write that is still with DBWriter when its call no longer waits for it.
Abandoned(s) ==
  [i \in 1..Len(wq) |-> IF wq[i].by = s THEN [wq[i] EXCEPT !.by = NoScan] ELSE wq[i]]

-----------------------------------------------------------------------------
(* The TaskGroup and the parent.                                           *)

\* Slip: a cancelled producer still queues its sentinel.
AbortWithSentinel(s) ==
  /\ scan[s].pc = "run"
  /\ \/ /\ scan[s].prod = "failed" /\ scan[s].cons \notin Ended
        /\ scan' = [scan EXCEPT ![s].cons = "cancelled"]
        /\ wq' = Abandoned(s)
     \/ /\ scan[s].cons = "failed" /\ scan[s].prod \notin Ended \cup {"sentinel"}
        /\ scan' = [scan EXCEPT ![s].prod = "sentinel"]
        /\ UNCHANGED wq
  /\ ScanUnchanged /\ UNCHANGED <<registered, rpcErrors>>

\* The failure of one child cancels the other; a cancelled producer queues
\* nothing, a cancelled consumer leaves its write to DBWriter.
Abort(s) ==
  /\ scan[s].pc = "run"
  /\ \/ /\ scan[s].prod = "failed" /\ scan[s].cons \notin Ended
        /\ scan' = [scan EXCEPT ![s].cons = "cancelled"]
        /\ wq' = Abandoned(s)
     \/ /\ scan[s].cons = "failed" /\ scan[s].prod \notin Ended
        /\ scan' = [scan EXCEPT ![s].prod = "cancelled"]
        /\ UNCHANGED wq
  /\ ScanUnchanged /\ UNCHANGED <<registered, rpcErrors>>

\* Both children have ended: the job row gets its final state.
Join(s) ==
  /\ scan[s].pc = "run"
  /\ scan[s].prod \in Ended /\ scan[s].cons \in Ended
  /\ IF scan[s].prod = "done" /\ scan[s].cons = "done"
     THEN /\ scan' = [scan EXCEPT ![s].pc = "final"]
          /\ wq' = Append(wq, StateWrite(s, IF scan[s].cancel THEN "CANCELLED"
                                                              ELSE "COMPLETED"))
     ELSE /\ scan' = [scan EXCEPT ![s].pc = "failing"]
          /\ wq' = Append(wq, StateWrite(s, "FAILED"))
  /\ ScanUnchanged /\ UNCHANGED <<registered, rpcErrors>>

ScanStep(s) ==
  \/ Begin(s)
  \/ AcquireSlot(s) \/ Fetch(s) \/ FetchFails(s) \/ PutPage(s) \/ PutSentinel(s)
  \/ Get(s) \/ Abort(s) \/ Join(s)

-----------------------------------------------------------------------------
(* DBWriter answers the oldest write.                                      *)

Commit(w) ==
  CASE w.kind = "state" ->
         /\ row' = [state |-> w.state, offset |-> w.offset, accepted |-> w.accepted]
         /\ UNCHANGED dataset
    [] w.kind = "checkpoint" ->
         /\ row' = [row EXCEPT !.offset = w.offset, !.accepted = w.accepted]
         /\ UNCHANGED dataset
    [] w.kind = "ingest" ->
         /\ dataset' = dataset \cup w.ids
         /\ UNCHANGED row
    [] w.kind = "event" -> UNCHANGED dbVars

\* The finally clause of scan(): whatever call is registered is forgotten.
Forget == registered' = NoScan

\* Slip: the checkpoint runs ahead of the members.
AfterIngestAhead(s, w) ==
  LET c == [scan[s] EXCEPT !.accepted = @ + Cardinality(w.ids \ dataset),
                           !.offset = scan[s].current]
  IN /\ scan' = [scan EXCEPT ![s] = [c EXCEPT !.cons = "check"]]
     /\ wq' = Append(Tail(wq), CheckpointWrite(s, c.offset, c.accepted))

\* Slip: every member of the batch counts as accepted.
AfterIngestCountsAll(s, w) ==
  LET c == [scan[s] EXCEPT !.accepted = @ + Cardinality(w.ids),
                           !.offset = scan[s].batchOffset]
  IN /\ scan' = [scan EXCEPT ![s] = [c EXCEPT !.cons = "check"]]
     /\ wq' = Append(Tail(wq), CheckpointWrite(s, c.offset, c.accepted))

\* persist_batch between its two writes: only members that were not in the
\* dataset count as accepted.
AfterIngest(s, w) ==
  LET c == [scan[s] EXCEPT !.accepted = @ + Cardinality(w.ids \ dataset),
                           !.offset = scan[s].batchOffset]
  IN /\ scan' = [scan EXCEPT ![s] = [c EXCEPT !.cons = "check"]]
     /\ wq' = Append(Tail(wq), CheckpointWrite(s, c.offset, c.accepted))

\* The write of call s is done: the coroutine that awaits it goes on.
Answered(s, w) ==
  CASE w.kind = "ingest" ->
         AfterIngest(s, w) /\ UNCHANGED registered
    [] w.kind = "checkpoint" ->
         /\ scan' = [scan EXCEPT ![s].batch = {},
                                 ![s].cons = IF scan[s].last THEN "done" ELSE "get"]
         /\ wq' = Tail(wq)
         /\ UNCHANGED registered
    [] w.kind = "state" ->
         /\ scan' = [scan EXCEPT ![s].pc = CASE @ = "starting" -> "started"
                                             [] @ = "final"    -> "finalEvent"
                                             [] OTHER          -> "failedEvent"]
         /\ wq' = Append(Tail(wq), EventWrite(s))
         /\ UNCHANGED registered
    [] w.kind = "event" /\ scan[s].pc = "started" ->
         /\ scan' = [scan EXCEPT ![s].pc = "run", ![s].prod = "slot",
                                 ![s].cons = "get",
                                 ![s].batchOffset = scan[s].offset]
         /\ wq' = Tail(wq)
         /\ UNCHANGED registered
    [] OTHER ->
         /\ scan' = [scan EXCEPT ![s] = Idle]
         /\ wq' = Tail(wq)
         /\ Forget

WriteCommits ==
  /\ wq # <<>>
  /\ Commit(Head(wq))
  /\ IF Head(wq).by = NoScan
     THEN wq' = Tail(wq) /\ UNCHANGED <<scan, registered>>
     ELSE Answered(Head(wq).by, Head(wq))
  /\ UNCHANGED <<prepared, app, boundVars>>

\* Call s gets the exception.  Before the try block it ends the call, in the
\* consumer it fails the TaskGroup, after it the job becomes FAILED, and in the
\* except block it ends the call.
Raised(s) ==
  CASE scan[s].pc \in {"starting", "started"} ->
         /\ scan' = [scan EXCEPT ![s] = Idle]
         /\ wq' = Tail(wq)
         /\ UNCHANGED registered
    [] scan[s].pc = "run" ->
         /\ scan' = [scan EXCEPT ![s].cons = "failed"]
         /\ wq' = Tail(wq)
         /\ UNCHANGED registered
    [] scan[s].pc \in {"final", "finalEvent"} ->
         /\ scan' = [scan EXCEPT ![s].pc = "failing"]
         /\ wq' = Append(Tail(wq), StateWrite(s, "FAILED"))
         /\ UNCHANGED registered
    [] OTHER ->
         /\ scan' = [scan EXCEPT ![s] = Idle]
         /\ wq' = Tail(wq)
         /\ Forget

WriteFails ==
  /\ wq # <<>>
  /\ failures < MaxFailures
  /\ failures' = failures + 1
  /\ IF Head(wq).by = NoScan
     THEN wq' = Tail(wq) /\ UNCHANGED <<scan, registered>>
     ELSE Raised(Head(wq).by)
  /\ UNCHANGED <<dbVars, prepared, app, commands, crashes, rpcErrors,
                 restarts, doubled>>

-----------------------------------------------------------------------------
(* The process.                                                            *)

Vanish ==
  /\ app' = "down"
  /\ scan' = [s \in Scans |-> Idle]
  /\ registered' = NoScan
  /\ prepared' = FALSE

\* NetworkRuntime.stop cancels every call; DBWriter.stop drains the queue.
Quit ==
  /\ app = "up"
  /\ crashes < MaxCrashes
  /\ crashes' = crashes + 1
  /\ Vanish
  /\ wq' = [i \in 1..Len(wq) |-> [wq[i] EXCEPT !.by = NoScan]]
  /\ UNCHANGED <<dbVars, commands, failures, rpcErrors, restarts, doubled>>

Crash ==
  /\ app = "up"
  /\ crashes < MaxCrashes
  /\ crashes' = crashes + 1
  /\ Vanish
  /\ wq' = <<>>
  /\ UNCHANGED <<dbVars, commands, failures, rpcErrors, restarts, doubled>>

\* normalize_after_restart.
Restart ==
  /\ app = "down" /\ wq = <<>>
  /\ app' = "up"
  /\ row' = IF row.state = "RUNNING" THEN [row EXCEPT !.state = "PAUSED"] ELSE row
  /\ restarts' = restarts + 1
  /\ UNCHANGED <<dataset, scan, registered, prepared, wq,
                 commands, crashes, failures, rpcErrors, doubled>>

Init ==
  /\ row = [state |-> "none", offset |-> 0, accepted |-> 0]
  /\ dataset = {}
  /\ scan = [s \in Scans |-> Idle]
  /\ registered = NoScan /\ prepared = FALSE
  /\ wq = <<>> /\ app = "up"
  /\ commands = 0 /\ crashes = 0 /\ failures = 0 /\ rpcErrors = 0 /\ restarts = 0
  /\ doubled = FALSE

Next ==
  \/ ScanSource \/ CancelScan
  \/ \E s \in Scans : StartScan(s) \/ ResumeScan(s) \/ ScanStep(s)
  \/ WriteCommits \/ WriteFails
  \/ Quit \/ Crash \/ Restart

\* The network loop and the writer thread run and a participant request is
\* answered or fails.  The user, the process and failures are not fair.
Fairness ==
  /\ \A s \in Scans : WF_vars(ScanStep(s))
  /\ WF_vars(WriteCommits \/ WriteFails)

Spec == Init /\ [][Next]_vars /\ Fairness

-----------------------------------------------------------------------------
(* Properties.                                                             *)

\* Every variable has its type; a call waits for at most one write.
TypeOK ==
  /\ row \in [state : Terminal \cup {"none", "READY", "RUNNING", "PAUSED"},
             offset : 0..Len(Participants), accepted : Nat]
  /\ dataset \subseteq Members
  /\ \A s \in Scans :
       /\ scan[s].prod \in Ended \cup {"off", "slot", "fetch", "put", "sentinel"}
       /\ scan[s].cons \in Ended \cup {"off", "get", "ingest", "check"}
       /\ Len(scan[s].queue) <= QueueMax
       /\ Cardinality({i \in 1..Len(wq) : wq[i].by = s}) <= 1
  /\ registered \in Scans \cup {NoScan} /\ prepared \in BOOLEAN
  /\ app \in {"up", "down"} /\ doubled \in BOOLEAN

\* docs/ARCHITECTURE.md: "Checkpoints contain the last persisted offset [...] so
\* a paused/recovered scan can safely replay a small suffix".  Whatever fails or
\* is cancelled, and also when two calls scan for the same job, every member
\* before the offset of the checkpoint is in the dataset: a resumed scan skips
\* nobody.
CheckpointIsPersisted ==
  \A i \in 1..row.offset : Participants[i] \in dataset

\* A scan that calls itself COMPLETED has collected the whole group.
CompletedIsComplete == row.state = "COMPLETED" => dataset = Members

\* "... without duplicating dataset membership": a replayed suffix, a member the
\* server lists twice and a member that another call has added are not counted
\* again, so that the counter never exceeds the dataset; without a restart the
\* counter of a finished scan is exact.  (After a crash it may be too low.)
AcceptedIsExact ==
  /\ row.accepted <= Cardinality(dataset)
  /\ (row.state = "COMPLETED" /\ restarts = 0) => row.accepted = Cardinality(dataset)

\* While one call at a time works for the job, its progress never shrinks: not
\* by a resume, not by the final state, not by a failure.
ProgressIsKept == [][doubled \/ row'.offset >= row.offset]_vars

\* "Structured concurrency [...] preventing bounded-queue shutdown deadlocks":
\* every call of scan() ends, whichever child fails, with the queue full or
\* empty, with read slots scarce, cancelled or not.
EveryScanEnds == \A s \in Scans : Live(s) ~> ~Live(s)
=============================================================================
