# Telegram Migration Studio: a TLA+ verification project

Telegram Migration Studio is a desktop program (PySide6, Telethon, SQLite) that collects the members of
Telegram groups into datasets and then invites a dataset to a group, or removes it, one request at a time.
This directory models the parts of it where things can go wrong between two steps: the single database
writer, the executor of a migration with its candidate buffer and scheduler, the member scan, the check
that leads to a plan, the Telegram clients and the login, the job rows as the commands and pages see them, the member store, and the
way from a group reference to a request. `src/` below is the repository; the package is `src/src/tms/` and paths without a
prefix are relative to it. The directories `src/migration`, `src/runtime`, ... at the repository root are older copies
that nothing imports.

## 1. Inventory

Four execution domains share the state: the Qt thread (pages, dialogs, a 150 ms timer that drains events),
one network thread with one asyncio loop (all Telegram requests, executors, scanners), one database writer
thread, and a pool of two workers. Commands go from a page through the command bus to
`runtime/command_handlers.py`, which submits work to the loop or to the pool; results come back through the
state store and through events.

| Component | State it keeps | Operations | What is hard | What makes it correct | Module |
|---|---|---|---|---|---|
| `runtime/db_writer.py` | queue, pending batch, futures, thread, stop flag | submit, flush, stop, commit a batch | full queue, failing batch, cancelled futures, shutdown | a future tells the truth; order; critical writes are barriers; everyone is answered | `DBWriter` |
| `migration/executor.py`, `v12_executor.py` | running job, result buffer, flush task, stop and pause events | run, attempt, flush, control | a flush task next to the loop, pause or stop in any sleep, server waits, failing reads and writes inside and outside the try, crash | one mutation per account; no candidate twice; rows match what runs; a run ends unless the server makes it wait for ever | `MigrationExecutor` |
| `migration/candidate_buffer.py` | window of candidates, last ordinal, read in flight | prime, pop, background refill | refill next to pop and to the writes of results | it is the list of pending items | `CandidateBuffer` implements `PendingItems` |
| `migration/scheduler.py` | interval, last attempt, server wait, recovery steps | remaining_delay, mark_attempt, mark_stable_candidate, apply_server_wait | any order of answers | never early; 10 -> 8 -> target | `InviteScheduler` |
| `telegram/participant_scanner.py` | queue of pages, batch, offset, counters, cancel events | scan, cancel, resume | producer and consumer fail separately, bounded queue, crash between ingest and checkpoint, two calls for one job | checkpoint behind the dataset; exact counters; every scan ends | `ParticipantScanner` |
| check, pre-check and planning (`ui/pages/migration_page.py`, `migration/precheck.py`, `migration/planner.py`, `bootstrap.py`) | state store, page fields, plan rows | resolve_target, precheck_target, plan_action | a chain of tasks whose steps read shared state, overlapping clicks, modal dialogs that reorder events | a plan fits its target and account; coverage honest; every check ends | `TargetPlanning` |
| `telegram/client_manager.py`, `telegram/auth_service.py`, `accounts/`, `config.py` | clients, reaper task, credentials, account rows, phone code hashes, settings file | get, disconnect, reap, close_all, connect, send_code, sign_in, enable, delete, update settings | every await lets another command at the registry; the end of the process; failing writes | one client per session; CONNECTING means that a dialogue is on its way; idle clients are closed | `TelegramClients` |
| the table jobs, `runtime/command_handlers.py`, `migration/recovery.py`, `import_export/service.py`, `runtime/event_aggregator.py`, jobs and migration page | rows of every job type, executors, performance counter, event queue, job shown, jobs listed | create, start, resume, end, delete or disable an account, restart | tests made long before the write; dropped events; exceptions outside every try; jobs that nothing can end | a job keeps its account; stuck jobs are of known kinds | `Workbench` |
| `members/`, `datasets/`, `import_export/service.py` | members with id or name, memberships, provenance, items | ingest, merge, promote, set operators, page, export | a member under two identities, rows deleted by a merge while others read | nobody is lost; merges are never refused; exports miss nobody who stays | `MemberStore` |
| `groups/`, `telegram/telethon_gateway.py`, `peer_cache.py`, `utilities/group_membership.py`, source and tools page | access hashes in contexts, rows and page fields; the mutation lock | resolve, joined groups, select, scan, resume, join, leave | contexts outlive the account selection; a lock that a migration holds for a whole run; restart | a request carries the account's own hash; paused scans can be resumed; join and leave end once no run holds the lock for ever | `SourceAccess` |
| `runtime/resource_governor.py`, `application_runtime.py`, `network_runtime.py`, `worker_pool.py`, `state_store.py`, `event_bus.py` | locks, slots, counters, loop, hooks | lock, slot, performance mode, start, stop, submit, publish | release on every path, shutdown order | part of the modules that use them | |
| dashboard, metrics, filters, table layout | widgets | render | - | - | not modelled |

`PROJECT.json` lists the components with what of each is modelled, and the hazards with the line where each one
bites.

## 2. Modules

| Module | Models | State and actions |
|---|---|---|
| `DBWriter` | `runtime/db_writer.py`, whole | `queue`, `pending`, `batch`, `item`, `future`, `stopper` are the program's; `accepted`, `db`, `crashes` are history. `submit` is three steps with no lock around them: `SubmitTest` reads `_stopped`, `SubmitLook` looks at the thread and starts it (`start()` clears `_stopped`), `SubmitPut` is `queue.put`; `entered` and `checked` hold the callers in between. Two callers inside `start()` at once are left out. `_run` and `_commit_batch` are `Get`, `GetEmpty`, `CommitTxn`, `RollbackTxn`, `ResolveCheck`, `ResolveSet`, `ResolveRaises`, `BatchDone`; resolving is two steps because `future.done()` and `set_result()` are. `stop` is `StopFlush`, `StopFlushed`, `StopPut`, `StopJoined`. |
| `MigrationExecutor` | `executor.py`, `v12_executor.py`, the result classifier, start/pause/stop/resume of `command_handlers.py`, the job, item and account writes, mutation locks, performance mode, shutdown, recovery | one record `ex[j]` per executor with the locals of `run` and `_attempt`; `row`, `item`, `acct` are tables; `wq` is the FIFO that DBWriter is for its callers. A step lies between two awaits; a series of awaited writes is kept in `todo`, its continuation in `then`. The window of candidates is a set of ordinals, of which the smallest is popped. Reads and writes may fail: before the `try` (`PrimeFails`, `WriteFails`), inside it (`ReadFails`, `WriteFails`) and in the except block; `broken` records the jobs whose last run ended where nothing catches the exception, `leaked` counts the runs that left the performance mode on. |
| `CandidateBuffer` | `candidate_buffer.py`, `pending_chunk` on a worker, and the run that uses them | `queue`, `lastLoaded`, `loading`, `exhausted` are the buffer's fields; `SubmitFill`, `WorkerReads` and `FinishFill` separate asking for a chunk, reading it and adopting it; `Settle`, `Flush`, `MarkRetry`, `Interrupt`, `Crash` are what the executor does meanwhile. |
| `PendingItems` | what a run may expect of the buffer | the items, the last one offered, the status of the run |
| `InviteScheduler` | `scheduler.py` as the executor drives it | one variable per field, one action per method; seconds are integers. |
| `ParticipantScanner` | `participant_scanner.py`, `scan_source`, `cancel_scan`, `resume_scan`, read slots, ingest and checkpoint writes, shutdown, recovery | one record `scan[s]` per call of `scan()` with a producer and a consumer counter; `registered` is `_cancel_events`; `wq` as above. |
| `TargetPlanning` | the check behind KIEM TRA: the page, the handlers it chains, the state store, `precheck.py`, `planner.py`, the pages the gateway asks for, event delivery, recovery | `chain[c]` is the task a click has reached, with the arguments that task was started with; `store`, `page`, `dialog`, `events` are shared by all clicks. `Listed(g)` is what the gateway lists of a group, which stops at the first short page. `DropEvent` is the bounded event queue that loses its oldest event. |
| `TelegramClients` | `client_manager.py`, `auth_service.py`, the account and settings commands, the end of the process | `slot` is `_clients`, `reaper` is `_reaper_task`, `task[t]` a command with the await it has reached (`dial`, `redial`, `close`, ...). `get` is `GetHit`, `GetMiss`, `Reconnect`, `Register`, `ConnectFails`; the reaper is `ReaperWakes`, `ReaperPops`, `ReaperCloses`. Each write of a command may fail (`WriteFails`), inside the dialogue's `try` or outside of it. `disturbed` records the accounts for which a client was replaced, taken away or made outdated while one was being connected, `interrupted` those whose dialogue ended without its last write. |
| `Workbench` | job rows of every type from creation to end, account.delete and account.enable, the events to the migration page, the list of jobs, recovery | `work[j]` is what is in flight for a job; `asked`, `leaving`, `disabling` are commands between their test and their write; `cur` is the job of the migration page, `listed` the rows of the jobs page. `WorkRaises` and `RunBreaks` are the exceptions that leave the row as it is: `broken`, `cutoff` and `overtaken` record for each job whether it raised, was cut off by a restart, or was given up or lost by the page; `leaked` is a performance mode that nobody takes back. What scans, checks and migrations do inside is left to their modules. |
| `MemberStore` | `members/repository.py`, `datasets/`, ingest by scans and imports, plans as references to rows, the export of a dataset | `db` holds the tables; `Upsert` is `_upsert_one` with `Promoted`, `Stored`, `Merge`, `StoredByName`; a transaction is a step. |
| `SourceAccess` | resolving and listing groups, the source page, source.scan and job.resume up to the first request, join and leave, disabling, restart | a hash is the account it was given to; it travels in `source`, `page`, `events`, `task` and rests in `peer`; `queue[a]` is the asyncio lock with its waiters. A migration asks for it once per run and holds it until the run is over (`MutationAsks`, `RunHolds`, `MutationEnds`). |
| `MC...` | instances for TLC | sets of model values and small tables |
| `DBWriterProofs`, `MigrationExecutorProofs`, `ParticipantScannerProofs`, `TargetPlanningProofs`, `TelegramClientsProofs`, `WorkbenchProofs`, `SourceAccessProofs` | TLAPS proofs about the module of that name (section 4) | |
| `StoreAndRunProofs` | TLAPS proofs about `MemberStore`, `InviteScheduler` and `CandidateBuffer`. It extends all three; so the last two have no `Init`, `Next`, `Spec` and `TypeOK`, but `CadenceInit`, `BufferInit` and so on | |

How the modules fit together: `MigrationExecutor` and `ParticipantScanner` use a FIFO of writes in place of DBWriter: that is the
interface that `CommittedInOrder`, `CriticalIsBarrier`, `ErrorIsRolledBack` and `OkIsCommitted` establish
in `DBWriter` as long as no future is cancelled at the wrong moment (section 6). A write whose awaiter is
cancelled stays in the FIFO, as it stays in DBWriter's queue. `MigrationExecutor` loads the whole window of candidates at once; `CandidateBuffer`
shows that the real buffer with its background reads offers the same items, because it implements `PendingItems`.
`Workbench` is the composition seen from above: the detailed modules give it the states and events it may use.

Definitions commented with `Slip:` are wrong on purpose: each is a small mistake that could have been made in the code, used
to see that a property notices it. No specification refers to them.

`TypeOK` of each module (`CadenceTypeOK`, `BufferTypeOK`) documents the variables. It is proved for `DBWriter`, `MigrationExecutor`, `InviteScheduler`, `TelegramClients` and `MemberStore`; in the other
modules with proofs the conjunct `TypeInv` of the inductive invariant has the types that the proof needs. `TypeOK` can be added to the
INVARIANTS of any config; the runs below spend their time on the other properties.

### Refinement

`CandidateBuffer` implements `PendingItems` under the mapping `last <- cand`, `status <- Status`: a run that is between
`pop` and its candidate is "asked", one that works on a candidate is "given". `OffersPendingInOrder` is the abstract
specification with its liveness: `Offer` allows only the smallest pending ordinal after the last one, `End` only when there is none, and
weak fairness of `Answer` says that a run which asks is answered. Reads by a worker that see rows from before or after a
flush, chunks adopted later, the low-water mark and the exhausted flag are all stuttering steps. That every step of the buffer is a step of
`PendingItems` or none is proved for all sets of items, chunk sizes and watermarks (`BufferImplementsPromise`); that the run is always answered is checked on the instance.

## 3. Runs

`tlc -workers 2 -config X.cfg M` in this directory, with M the `MC` module.

| Run | Config | Checks | Shows |
|---|---|---|---|
| db_writer | `DBWriter.cfg` | OkIsCommitted, ErrorIsRolledBack, CommittedInOrder, CriticalIsBarrier, ShutdownDrains, EveryWriteAnswered, StopReturns | what a caller may conclude from its future, and that it gets an answer, while callers between the steps of `submit`, `stop()` and a writer with failing transactions compete for one queue place |
| executor_one_job | `ExecutorOneJob.cfg` | NoRepeatedCandidate, CompletedIsComplete, RowsMatchWhatRuns, StopIsFinal | one job under every answer, pause, stop, resume, close, shutdown, crash, failing read or failing write |
| executor_two_jobs | `ExecutorTwoJobs.cfg` | OneMutationPerAccount, GateIsHandedOn, PerformanceModeIsCounted, EveryRunEnds | two jobs that contend for the lock of one account, with a command, a failing read or a failing write at any point |
| candidate_buffer | `CandidateBuffer.cfg` | OffersPendingInOrder | the refinement above, with read errors, interruptions, crashes and resumed runs |
| scheduler_profiles | `SchedulerProfiles.cfg` | NeverFasterThanTarget, NeverTooEarly, RecoveryProfile | the cadence for the three speeds the page offers |
| scanner | `Scanner.cfg` | CheckpointIsPersisted, AcceptedIsExact, CompletedIsComplete, ProgressIsKept, EveryScanEnds | one or two calls for one job share one read slot and a queue of one place, with cancel, resume, a failing request, a failing write, a crash and a member listed twice |
| planning_checks | `PlanningChecks.cfg` | CoverageIsHonest, PlanIsAddressable, ShownPlanIsWhole, UndisturbedPlanMatches, EveryCheckEnds | two checks, overlapping or one after the other, with a short page, a failing request, a failing write, a dropped event or a crash |
| clients | `Clients.cfg` | OneClientPerSession, ConnectingIsLive, IdleClientsGo | two commands at a time, two settings updates, a lost connection, failing writes or the end of the process, interleaved at every await |
| workbench | `Workbench.cfg` | JobsHaveAccounts, StuckJobsAreKnown | three jobs, one of them left from an earlier session, every job type, account commands, exceptions at any point and a restart |
| member_store | `MemberStore.cfg` | NobodyIsLost, MergeIsNeverBlocked, StayersAreExported | three batches of names, ids and both, set operations, plans and an export in any order |
| source_access | `SourceAccess.cfg` | AccessHashIsOwn, PausedScanIsResumable, EveryUtilityEnds | two accounts and two groups, a migration that runs again and again, disabling and a restart |
| executor_action | `ExecutorAction.cfg` | ActionIsKept | violated: see section 6 |

### Bounds

* DBWriter: two routine writes, one critical write and the flush of `stop()`; a batch of two; one place in the
  queue. A batch can fill, time out, be cut short by a critical write, fail and be drained by the stop marker;
  with four items and one place every caller can find the queue full. Nothing else is bounded.
* MigrationExecutor: two candidates for one job, one candidate each for two jobs; `FlushBatch = 2` (1), so that the
  buffer can be full and can be left to the flush task; two (one) transient retries; the server may ask for a wait of one tick, and as often as it
  likes. `MaxTime` stops the clock and cuts a wait that would end behind it (`Until`), so a wait asked for at the horizon is over at once; nothing else depends on the time. With one job, two
  commands (a pause followed by a resume or a stop), one crash and one failing read or write can happen in one behaviour. With two jobs one of
  them can: a command, or a failing read or write (`MaxDisturbances = 1`). No symmetry is used, because that run checks liveness too.
* CandidateBuffer: five items in chunks of two with a low-water mark of one, so that a chunk is prefetched while the one before is in use, the last
  chunk is short, and the empty one that ends the list is read; three runs, one read error.
* InviteScheduler: the program's constants, speeds 3, 5 and 8, waits of 2 s (shorter than any interval) and 12 s
  (longer than every interval), 45 s: enough for a wait and the recovery profile, and for a wait during the recovery.
* ParticipantScanner: four entries with one member twice, pages of one, a batch of two and a queue of one place; two calls, two commands, one
  crash, one failing write, one failing request. `BatchLimit` is larger than a page and smaller than the group,
  so that a batch spans pages and a rest remains.
* TargetPlanning: two accounts, a basic chat, and a supergroup of three pages, the second of which is short: a read can be partial, and it never reaches the third; five
  users so that every combination of known, listed, missed and already processed occurs, one read slot, one fault (a failing request or write, a dropped event, a crash). Two checks are what it takes to overlap.
* TelegramClients: one account, because commands of different accounts meet only in `close_all` and the reaper's list, which treat accounts alike (so a second entry of the reaper's list is not reached by the run);
  two tasks and two clients are what it takes for two `get` calls to meet; two commands beside two settings updates, one fault.
* Workbench: one account; a paused migration of an earlier session and two new jobs, such as a check and its plan. One job at a time is broken by an exception (`MaxBroken`), any number one after the other. Two events and two listed jobs, so
  that both limits (500 and 200 in the program) are exceeded.
* MemberStore: two people, two names, five batches that make every case of `_upsert_one` happen, one of them with a name spelled with "@"; four rows, three datasets (the third by combining), pages of one.
* SourceAccess: a public channel, a basic group behind an invite link, two accounts, one of them migrating and in both groups; two commands at a time, one account disabled, one restart; the runs of the migration are not bounded.

Deadlock is checked for MemberStore and SourceAccess, where something is always possible; in the other modules the program may
have nothing left to do.

### Fairness

* The writer thread, the network loop, the workers and the Qt timer run: weak fairness of their steps.
* A request ends. In the executor the 30 s watchdog (`asyncio.wait_for`) guarantees it; for other requests
  Telethon answers or raises; a disconnect returns.
* What the code does not bound is not assumed to end. A migration repeats a request as often as the server answers FloodWait (`migration/executor.py:77-80`), so `EveryRunEnds` and
  `StopIsFinal` are stated for servers that do not do so for ever (`WaitsForEver`), and `EveryUtilityEnds` for migrations that do not hold the lock for ever
  (`[]<>~RunHolds(a)`); no fairness is put on `MutationEnds`.
* `asyncio.Lock` and `asyncio.Semaphore` are FIFO, so that a waiter is served in the end even when the lock is taken again
  in between: strong fairness of `AcquireLock` and, in TargetPlanning, of `AcquireSlot`. In SourceAccess the queue of the lock is
  modelled, and weak fairness is enough.
* Time passes (`Tick`, while a wait runs), and the reaper's timer fires (`ReaperWakes`).
* Users, crashes, restarts, lost connections and failing requests or writes are never assumed to happen.

## 4. Proofs

`tlapm M.tla` checks the proofs of module M. They hold for every value of the constants that satisfies the module's `ASSUME`, which only says
that markers differ from the values they mark, that tables have the right domains, that the sets of jobs, ordinals and clients that are
counted or chosen from are finite, and that limits are natural numbers (positive where the program's are). The bounds on commands, faults and crashes are
constants too, so a theorem covers any number of them. Every proof has the same shape: an inductive invariant made of named parts, one lemma per
action (or per group of actions that touch the same state) for each part, and a theorem that combines them.

`DBWriterProofs`
: `TypeCorrect`: `TypeOK`, strengthened by `IndexOK` (the index of the future being resolved lies in the batch),
  which is what makes `batch[index]` a task.
: `OkIsCommittedCorrect`: the inductive invariant `CommitInv` adds `BatchCommitted`, that while a batch
  is resolved with "ok" all of its operations are in the database. No assumption excludes the death and the restart of the writer thread.
: `FlowInv`: as long as the writer thread has not died (`crashes = 0`), `accepted` is, in this order, what has been answered, what the thread has in its hands (the
  batch from `index` on, or `pending`, or the item just taken) and what is still in the queue; nothing is accepted twice, and what is committed was
  committed in that order. The order of the answers, the barrier of a critical write and the drained queue are three views of this one fact:
  `ErrorIsRolledBackCorrect`, `CommittedInOrderCorrect`, `CriticalIsBarrierCorrect`, `ShutdownDrainsCorrect`.

`MigrationExecutorProofs`
: `ExecutorInv` is the conjunction of `TypeInv` and the nine parts below, for any number of jobs, accounts and candidates. It is one invariant because the parts need each other: `RetryInv` needs `FreshInv` and `OweInv`,
  `CompleteInv` needs `RetryInv`.
: `MainInv`: at most one write in the FIFO belongs to a run, and that run waits for it. The flush task has writes of its own, which is why the owner is part of the statement.
: `LockInv`: every position from the granted lock to its release, the one a run returns to after its writes included, holds the lock of the account. `OneMutationPerAccountCorrect` follows.
: `CountInv` is `PerformanceModeIsCounted` with the types of `failures` and `leaked`: the counter is the number of live runs and of those that a failing read or write ended before their `try`. It is inductive once `MainInv` is known.
: `FreshInv`: neither the window nor the candidate of a run contains an ordinal with a known result; results that wait for their write (in
  the buffer, in the hands of the flush task, in the FIFO) count as known and lie behind the last ordinal read, and the window of a new run is read only when none of an earlier run is left. `NoRepeatedCandidateCorrect` follows, across pauses, failing writes and crashes.
: `GateInv`: without a command, crash or failing write, a server wait that still runs has a holder of the account's lock who sleeps it out. `GateIsHandedOnCorrect` follows.
: `OweInv`: `Owed(j)` is what a run still has to say about its row and its account, the rest of its series (`todo`) and its write in the FIFO. On its way out a run owes nothing that would mark them RUNNING or BUSY
  again, it puts back no candidate but its own, and only a run that starts a series can claim that the job is completed. A run that has ended leaves nothing but results in the FIFO, unless the process ends.
: `RowInv`: a row that says RUNNING, or an account that says BUSY (until the first restart), belongs to a run that is not on its way out or still owes the write that changes it, or to a job whose run ended where nothing catches the exception (`broken`). The debt is what the
  property itself lacks: between the end of the loop and the commit of the last write the row is RUNNING and the run is nearly gone. `RowsMatchWhatRunsCorrect` follows.
: `RetryInv`: no RETRY in the FIFO is for an item whose result is known. Without it a commit could undo a result.
: `CompleteInv`: `Accounted` says that every ordinal up to the last one read is in the window, is the candidate, or has a result that is committed, lost with a failed write, in the buffer or in the FIFO, and that at the
  summary all of them have one and the buffer is empty; `Claimed`, that all results are committed or lost, or stand in the FIFO before the write, wherever a row or a write in the FIFO says COMPLETED. What carries it from state to state is
  the order of the FIFO (`Stays`, `Ordered`: writes only move forward, and a claim that joins comes after all results). `CompletedIsCompleteCorrect` follows.

`ParticipantScannerProofs`
: `ScannerInv`: `WaitInv` ties every write in the FIFO to the call that awaits it and to the stage that call is in; `FlowInv`: the pages in the bounded queue
  follow each other without a gap from the consumer's offset to the producer's, and only the last entry is the sentinel; `PersistInv`: every offset that a call,
  a write or the row carries has only members of the dataset before it, and those before the batch's offset are in the dataset or the batch;
  `CompleteInv`: nobody is about to write COMPLETED before the dataset is the group; `BeginInv`: nothing is written before the first call; `CountInv`: no counter exceeds the dataset.
  `CheckpointIsPersistedCorrect` and `CompletedIsCompleteCorrect` follow, for two calls of one job as well.
: `AloneInv`: while calls do not overlap (`~doubled`), one call lives, its own write is the last in the FIFO and the offsets in the FIFO ascend from the
  row to the call. The action property `ProgressIsKeptCorrect` follows.
: `FirstInv`: before the first restart there is one call and its counter is exact. `AcceptedIsExactCorrect` follows.

`TargetPlanningProofs`
: `PlanningInv == TypeInv /\ PeerInv /\ PlanIsAddressable /\ ReadInv /\ CoverageIsHonest`. `PeerInv`: the account and the
  group in the state store, and those of a task that is about to store them or that plans with them, are a pair in the peer
  cache; this is where the comparison of `store.account` with the account of the page is needed. `ReadInv`: a
  read in progress holds exactly the pages before its position, none of which was the last to be asked for; so a complete read holds `Listed`. One lemma per action or group of actions.
: `LongPagesListAll` says when that is the whole group: when no page but the last is short.
: `PlanIsAddressableCorrect` and `CoverageIsHonestCorrect` follow, for any number of checks, accounts, groups and faults.
: `UndisturbedInv == PlanningInv /\ ShownInv /\ AloneInv`. `ShownInv`: the step of a task determines how much of its row is written, and the page
  shows only tasks that have ended; `AloneInv`: as long as no check overlaps another, at most one is under way, and its task, its row and the store agree on group, account and
  result. `ShownPlanIsWholeCorrect` and `UndisturbedPlanMatchesCorrect` follow.

`TelegramClientsProofs`
: `ClientsInv == TypeInv /\ TaskInv /\ ClientInv /\ ConnectingIsLive`. `TaskInv` says what a task carries at each await. `ConnectingIsLive` is inductive with it: a dialogue leaves the row behind only by its own end or that of the process, and then the account is `interrupted`. `ClientInv`: until an account is
  disturbed, slots hold different clients with the current credentials, every connected client is in a slot or being closed, and a client
  being connected is known to its task alone. `OneClientPerSessionCorrect` and `ConnectingIsLiveCorrect` follow, for any number of accounts, tasks and clients.

`WorkbenchProofs`
: `WorkbenchInv`: what is in flight for a job determines the type and the state of its row (`StageOk`; without anything in flight an open job is resumable, shown or listed as `broken`, `cutoff` or `overtaken`), a job that is not finished and needs an account has one whose row exists (`KeepsAccount`), and no
  command that needs an account is under way without one (`AskedOk`). `JobsHaveAccountsCorrect` and `StuckJobsAreKnownCorrect` follow;
  the second is the strongest: it says that the listed kinds of jobs nothing can end are all there are.

`SourceAccessProofs`
: `AccessInv == TypeInv /\ ContextInv /\ PausedScanIsResumable`. `ContextInv`: every context in the store, on the page, in an event or in a task is one that the
  account stored beside it was given. Each of the two needs the other: a resumed scan takes its context from the peer rows, and a paused scan has its
  row because its context was usable. `AccessHashIsOwnCorrect` and `PausedScanIsResumableCorrect` follow.

`StoreAndRunProofs`, about `MemberStore`
: `StoreInv` is `Consistent(db)`, `ExportOk` and `TakenOk`. `Consistent`: unused ids have no row, memberships refer to rows, an id and a name-only row are unique, plans refer to rows with an id.
  `Follows(t, s)` says what tables `s` keep of tables `t`: whoever a dataset covers stays covered, a row leaves a dataset only by being deleted, and a deleted id is not given again. It holds for
  every case of `_upsert_one` (insert, new name, promotion, merge) and is transitive, so it holds for a batch: `Ingested` is a recursive function over the records, `LoopExists` shows that it is defined, and
  `IngestedGrows` counts up its steps (`UpTo`, from the well-foundedness of the naturals). `NobodyIsLostCorrect` and `MergeIsNeverBlockedCorrect` follow, and `IngestIsNeverRolledBack`: the foreign key of
  `migration_items` has nothing to refuse.
: `ExportOk`: whoever was in the dataset when an export began is in it or gone for good, and those it has passed are written. Paging is about ranks: the first `offset` rows of a dataset stay the first while none of them
  goes (`FirstStays`), a page has at most `PageSize` rows (`PageRows`), and an empty page comes only after the last row (`EmptyPage`). `StayersAreExportedCorrect` follows.

`StoreAndRunProofs`, about `InviteScheduler`
: `SchedulerInv == CadenceTypeOK /\ RecoveryInv /\ GateInv`. `RecoveryInv` ties the steps that are left and the interval to the number of
  stable candidates since the last wait; `GateInv` says that a request on the wire was sent after the wait.
: `NeverTooEarlyCorrect` needs nothing more. `NeverFasterCorrect` and `RecoveryProfileCorrect` assume that no
  target is above `MiddleStep` or `SlowStep`; the speeds of the page are 3, 5 and 8, so it holds, and section 6 says what happens otherwise.

`StoreAndRunProofs`, about `CandidateBuffer`
: `BufferInv`: while a run uses its window, `Holds` says that the queue is, in order, exactly the pending items after the candidate up to `lastLoaded`; `FillOk`, that a fill under way asks for, or has read, what
  comes after `lastLoaded` (`Continues`); and `exhausted` means that nothing is pending after it. A read stays valid while results are written, because they concern ordinals up to the candidate only (`WindowKept`);
  an empty window after a fill means that all is read (`FinishFillResult`). `ChunkContinues` is the lemma about `pending_chunk`: what ORDER BY and LIMIT return, from the counting of ranks that the export also rests on.
: `BufferImplementsPromise` follows: initial states map to initial states, and every step to a step of `PendingItems` or to none.

Only model-checked:

* the liveness properties (EveryWriteAnswered, StopReturns, EveryRunEnds, StopIsFinal, EveryScanEnds, EveryCheckEnds, IdleClientsGo, EveryUtilityEnds), and of the
  refinement `OffersPendingInOrder` the conjunct `WF_vars(Answer)`: fairness and ENABLED are out of the prover's reach.

## 5. What is abstracted, and what is not modelled

Progress events, texts and layout are left out. A candidate is its ordinal, a group
its list of pages or its name, an access hash the account it belongs to. SQLite transactions are atomic. A request that the server carried out and whose answer the watchdog cut off (`migration/executor.py:62`) is an error like any other, as it is to the code, which asks again: the model does not know what the server did, so `NoRepeatedCandidate` is about results that
the program knows. The rows that scans write to `peer_cache` for the users they meet (`members/repository.py:206-222`) share the table and the key (account, id) with the rows
of groups; in `SourceAccess` users and groups have different ids, so one overwriting the other is not modelled. The checkpoint of a migration is reduced to the action in it, because the position in it is
never read back. The local cadence is in `InviteScheduler` only; in
`MigrationExecutor` a local delay may take any time. In `TargetPlanning` the shutdown is a crash, because nothing in that chain
survives it but committed rows. In `Workbench` the four final states are one.

Not modelled:

* code without a caller: `validate_transition`, `reset_target`, `request_resume`, `submit_upsert_many`, `PeerCache.get` and `warm`, the filter engine, the dataset
  engines beside `DatasetService`, the invite, join/leave, group, peer-resolver and capability services, `plan_migration` and `_new_executor` of
  the handlers, which `bootstrap.py` replaces;
* the fake gateway, which serves the tests, and the older copies at the repository root;
* code that only reads and renders: dashboard and metrics, the pages of the member table, the exports of a job's results and log, layout;
* the coalescing of progress events, file formats, the predicates of the member filter, paths.

## 6. Where code and documents disagree

With a run:

* **A resumed REMOVE job invites** (`executor_action`). The action is kept in the checkpoint only, and every flush
  (`migration/executor.py:49`) replaces the checkpoint; `new_executor` then defaults to INVITE.

Without a run of their own. Where a property had to leave a case out, it names it:

* **A paused wait is forgotten.** `jobs/v12_repository.py:7` reads `waiting_until` of
  WAITING_SERVER jobs only; pausing during a wait makes the job PAUSED, and a resume sends at once. `LOCKED_SPEC.md:15`: "Never skip candidate, reset session or
  retry before the deadline." (`GateRespected` in `MigrationExecutor` states it; `GateIsHandedOn` is what holds.)
* **A job with a failed item may be COMPLETED.** `run` reads the counters while the delayed flush still waits for its write (`migration/executor.py:106`).
  The integration test that expects COMPLETED_WITH_ERRORS runs with a clock that never starts the delayed flush.
* **A plan may be made from another group's participants.** `done()` of the pre-check
  (`runtime/command_handlers.py:555`) stores its result whatever target the store holds by then.
  `UndisturbedPlanMatches` shows that overlapping checks are the only way.
* **Some jobs cannot be ended.** `runtime/command_handlers.py:199` advises "Complete/cancel those jobs before deletion."; for the kinds that
  `StuckJobsAreKnown` lists there is no command that does: RATE_LIMITED migrations, imports, exports and checks that raised or were cut off
  (`migration/recovery.py:36` makes them PAUSED, and `resume_job` refuses their type), scans that raised in, or were cut off before, the writes in front of their `try`
  (`telegram/participant_scanner.py:80-95`), scans and migrations left RUNNING by an exception that nothing catches (until a restart makes them PAUSED), plans no longer on the page.
* **A run that fails before its `try` is not cleaned up.** The first writes and the first read of a run (`migration/executor.py:95`) stand in front of the `try` whose `finally` gives the performance mode
  back: when one of them raises, the performance mode stays on until the process ends and exports are refused; after the first write the row stays RUNNING, after the second the account stays BUSY. A write that fails in the except block
  (line 108) leaves the row and the account too. `RowsMatchWhatRuns` and `PerformanceModeIsCounted` name these runs (`broken`, `leaked`) and show that there are no others.
* **A server that keeps answering FloodWait keeps a run.** The loop of `_attempt` repeats the request after every wait (`migration/executor.py:77-80`), without a limit such as the transient errors have, and holds the mutation
  lock of the account meanwhile: other migrations, joins and leaves of the account wait as long. `EveryRunEnds` and `EveryUtilityEnds` state this condition.
* **COMPLETE means all that the gateway lists.** `iter_participant_pages` takes a page shorter than the limit for the last (`telegram/telethon_gateway.py:194`); if the server ever shortens a page before, the pre-check
  calls a part of the group COMPLETE. `CoverageIsHonest` is therefore about `Listed`.
* **A dropped event leaves its page waiting.** The queue between the network thread and the Qt timer keeps 500 events (`runtime/event_aggregator.py:9`) and drops the oldest; the check whose event is dropped goes no further, and the page
  shows it as going on (`DropEvent`).
* A task queued behind `_STOP` (`runtime/db_writer.py:113`) is never executed and its future never resolved; the comment at line 111 promises an exception.
* A future cancelled between `done()` and `set_result()` (`runtime/db_writer.py:141`) ends the writer thread, and a critical task in its hands is dropped. The properties
  with `crashes = 0` in `DBWriter` exclude this case, and say so.
* The account's wait is read before the mutation lock is granted (`runtime/command_handlers.py:672`): when the job that met the wait is paused or stopped, the
  job that waits for the lock sends early.
* FAILED replaces CANCELLED or COMPLETED when the account write after it fails (`migration/executor.py:108`), against `jobs/state_machine.py:5`.
* With a target of 9 or 10 s, which `InviteScheduler` accepts and the page does not offer, the second recovery step of 8 s is faster than the target (`migration/scheduler.py:11`).
* When a participant request fails, the pages in the queue are lost (`telegram/participant_scanner.py:120`), against the comment at line 116; the checkpoint does not pass them, so a resume reads them again.
* `resume_scan` twice (`runtime/command_handlers.py:375`) runs two scans for one job and can take it out of a final state.
* `plan_action` (`bootstrap.py:60`) drops the tests of `can_invite` and of the account's enabled flag that the comment at `runtime/command_handlers.py:670` relies on.
* Two first `get()` calls of one account connect two clients on one session file (`telegram/client_manager.py:32`), and the first is never closed; credentials
  changed during a connect give a client with the old ones. `OneClientPerSession` excludes these two and shows that there is no third way.
* An account left CONNECTING by the end of the process, or by a dialogue whose last write fails (`telegram/auth_service.py:42` and `100`, and `44`, which is outside the `try`), is repaired by nothing at start-up, and cannot be disabled; the next dialogue takes it up again.
* Two phone numbers that differ in the leading "+" share one session file (`accounts/service.py:12`).
* Disabling an account tests on the Qt thread and writes on a worker (`runtime/command_handlers.py:178`): work begun in between goes on.
* `settings.json` is written in place (`config.py:103`): a process that ends during the write leaves a file that `load()` discards. Two settings
  updates (`runtime/command_handlers.py:143`) may be applied in one order and saved in the other. The model writes the file in one step and says nothing of either.
* An import writes the access hashes of its file over those of the selected account (`members/repository.py:210`); whether they belong to it cannot be told.
* Exports refused in performance mode are announced as "BackgroundTaskDeferred", but nothing takes them up later.
* After a merge the `member_count` of other datasets is stale, and an export in progress may pass over a row (`members/repository.py:284`; `StayersAreExported` states what holds).
* A dataset intersected with itself is empty (`datasets/service.py:14`).
* `JobsPage._load_log` calls `jobs.event_rows`, which no repository has.

## 7. Plan

The model is complete in the sense of section 5, and the safety invariants and action properties of the runs that pass are proved. What remains is left to TLC for the reasons given at the end of section 4: the liveness properties and the fairness
of the refinement.
