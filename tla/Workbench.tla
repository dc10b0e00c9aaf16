------------------------------ MODULE Workbench ------------------------------
(***************************************************************************)
(* The rows of the table jobs, of every type, seen from the commands: who  *)
(* creates, starts, resumes and ends them (tms/runtime/command_handlers.py *)
(* with tms/bootstrap.py), which accounts they keep alive (account.delete, *)
(* account.enable), what the recovery makes of them, and which job the     *)
(* migration page shows, through the event bus and its aggregator.         *)
(*                                                                         *)
(* Three threads meet here: the UI thread dispatches commands and drains   *)
(* events, worker threads create rows and run imports and exports, the     *)
(* network loop runs scans, checks and migrations.                         *)
(*                                                                         *)
(* Abstractions: what a scan, a check or a migration does in between is    *)
(* the subject of modules ParticipantScanner, TargetPlanning and           *)
(* MigrationExecutor; here only the states they write and the events they  *)
(* publish remain.  ENDED stands for the four terminal states; pause and   *)
(* stop are two of the ways a run may end.                                 *)
(***************************************************************************)
EXTENDS Integers, Sequences, FiniteSets, SequencesExt

CONSTANTS
  Accounts,
  Jobs,         \* bound: job ids, natural numbers from 1
  Left,         \* jobs of earlier sessions, paused migrations of some account
  MaxRecent,    \* max_recent of EventAggregator
  MaxListed,    \* the 200 jobs that JobsPage lists
  MaxAsked,     \* bound: job creations waiting for a worker
  MaxBroken,    \* bound: jobs whose code has raised, at one time
  MaxRestarts   \* bound: restarts of the program

\* account_id and current_job_id of nobody.
None == 0

ASSUME WorkbenchAssumption ==
  /\ None \notin Accounts
  /\ Jobs \subseteq Nat \ {0} /\ Left \subseteq Jobs
  /\ {MaxRecent, MaxListed} \subseteq Nat \ {0} /\ {MaxAsked, MaxBroken, MaxRestarts} \subseteq Nat

VARIABLES
  account,    \* rows of accounts
  enabled,    \* ... with enabled = 1
  job,        \* rows of jobs: type, state, account_id
  work,       \* what is in flight for the job, see Stages
  executors,  \* CommandHandlers._executors
  leaked,     \* the enable_performance_mode of some run was never taken back
  asked,      \* job creations handed to the worker pool
  leaving,    \* account.delete between its test and its transaction
  disabling,  \* account.enable(False) between its test and its write
  checked,    \* accounts whose pre-check is in the state store
  events,     \* EventAggregator._events, the ones MigrationPage reacts to
  cur,        \* MigrationPage.current_job_id
  listed,     \* JobTableModel.rows, as of its last refresh
  broken,     \* history: jobs whose code raised past every handler, in this
              \* session, and that nobody has resumed since
  cutoff,     \* history: jobs whose code a restart cut off, or found broken,
              \* and that nobody has resumed since
  overtaken,  \* history: jobs the page gave up, or lost by a dropped event or a
              \* restart, before or after it showed them
  restarts

rowVars     == <<account, enabled, job>>
pendingVars == <<asked, leaving, disabling>>
pageVars    == <<events, cur, listed, overtaken>>
sessionVars == <<broken, cutoff, restarts>>
vars == <<rowVars, work, executors, leaked, pendingVars, checked, pageVars, sessionVars>>

Terminal == {"ENDED"}
Types    == {"MIGRATION", "SCAN", "TARGET_SCAN", "IMPORT", "EXPORT"}
States   == Terminal \cup {"READY", "RUNNING", "WAITING_SERVER", "PAUSED", "RATE_LIMITED"}

\* plan: the row exists, its items do not; prepare: the scan's coroutine is to
\* be submitted; go: run is submitted; done: run ended, its callback did not run.
Stages   == {"none", "plan", "prepare", "go", "run", "done"}

NoRow == [type |-> "none", state |-> "none", acc |-> None]
Used(j) == job[j] # NoRow

\* list_recent(200).
Recent == {j \in Jobs : Used(j) /\ Cardinality({k \in Jobs : Used(k) /\ k > j}) < MaxListed}

Open(j) == Used(j) /\ job[j].state \notin Terminal

\* has_nonterminal_jobs, and the query inside submit_delete.
HasNonterminal(a) == \E j \in Jobs : Open(j) /\ job[j].acc = a

-----------------------------------------------------------------------------
(* Events: EventBus.publish, EventAggregator.push and drain.               *)

PlanReady(j) == [name |-> "PlanReady", job |-> j]
StateOf(j)   == [name |-> "JobStateChanged", job |-> j]
Item(j)      == [name |-> "MigrationItem", job |-> j]

\* The page shows j, or will when it drains its events.
Shows(j) == cur = j \/ \E i \in 1..Len(events) : events[i] = PlanReady(j)

\* A plan that nobody has started.
Unstarted(j) == job[j].state = "READY" /\ j \notin executors

\* deque(maxlen=MaxRecent): the oldest events fall out.
Publish(evs) ==
  LET all == events \o evs  n == Len(all) - MaxRecent IN
  /\ events' = IF n <= 0 THEN all ELSE SubSeq(all, n + 1, Len(all))
  /\ overtaken' = overtaken \cup {j \in Jobs : Unstarted(j) /\ \E i \in 1..n : all[i] = PlanReady(j)}
  /\ UNCHANGED <<cur, listed>>

\* MigrationPage.handle_event: the job shown after event e.
Shown(c, e) ==
  IF e.name = "JobStateChanged" /\ c \notin {None, e.job} THEN c ELSE e.job

DrainEvents ==
  LET after == FoldLeft(Shown, cur, events) IN
  /\ events # <<>>
  /\ cur' = after
  /\ events' = <<>>
  /\ listed' = IF \E i \in 1..Len(events) : events[i].name # "PlanReady"
                THEN Recent ELSE listed
  /\ overtaken' = overtaken \cup {j \in Jobs \ {after} : Unstarted(j) /\ Shows(j)}
  /\ UNCHANGED <<rowVars, work, executors, leaked, pendingVars, checked, sessionVars>>

-----------------------------------------------------------------------------
Init ==
  /\ account = Accounts /\ enabled = Accounts
  /\ \E a \in Accounts :
       job = [j \in Jobs |-> IF j \in Left THEN [type |-> "MIGRATION", state |-> "PAUSED", acc |-> a]
                             ELSE NoRow]
  /\ work = [j \in Jobs |-> "none"]
  /\ executors = {} /\ leaked = FALSE
  /\ asked = {} /\ leaving = {} /\ disabling = {} /\ checked = {}
  /\ events = <<>> /\ cur = None /\ listed = Recent
  /\ broken = {} /\ cutoff = {} /\ overtaken = {} /\ restarts = 0

-----------------------------------------------------------------------------
(* New jobs.                                                               *)

Asks(type, a) ==
  /\ Cardinality(asked) < MaxAsked
  /\ asked' = asked \cup {<<type, a>>}
  /\ UNCHANGED <<rowVars, work, executors, leaked, leaving, disabling, checked, sessionVars>>

\* ... of a row, as long as Jobs has one left.
AsksRow(type, a) == (\E j \in Jobs : ~Used(j)) /\ Asks(type, a)

\* The accounts that the boxes of the pages offer.
Offered == enabled

\* source.scan and dataset.import, with the account selected on SourcePage.
AskScan(a)   == a \in Offered /\ AsksRow("SCAN", a)
AskImport(a) == (a \in Offered \/ (a = None /\ Offered = {})) /\ AsksRow("IMPORT", a)

\* performance_mode: _performance_users counts the runs between their first line
\* and their finally, and those that ended without it.
Migrating(j) == job[j].type = "MIGRATION" /\ work[j] = "run"
PerformanceMode == leaked \/ \E j \in Jobs : Migrating(j)

\* dataset.export, with the active account of the state store, which may be gone
\* by now.  A running migration turns it into a message.
AskExport(a) == ~PerformanceMode /\ AsksRow("EXPORT", a)

\* job.export_log and job.export_results: files about a job, without a row of
\* their own.  A running migration turns them into a message, too.
AskReport == ~PerformanceMode /\ Asks("REPORT", None)

WriteReport ==
  /\ <<"REPORT", None>> \in asked
  /\ asked' = asked \ {<<"REPORT", None>>}
  /\ UNCHANGED <<rowVars, work, executors, leaked, leaving, disabling, checked, pageVars,
                 sessionVars>>

AskJob(a) == (AskScan(a) \/ AskImport(a) \/ AskExport(a)) /\ UNCHANGED pageVars

\* The check button: the page forgets its job and starts resolving and checking.
Check(a) ==
  /\ a \in Offered
  /\ AsksRow("TARGET_SCAN", a)
  /\ cur' = None /\ overtaken' = overtaken \cup {j \in Jobs : Unstarted(j) /\ cur = j}
  /\ UNCHANGED <<events, listed>>

\* The page reacts to the completed check; plan_action asks nothing else.
AskPlan(a) == a \in checked /\ AsksRow("MIGRATION", a) /\ UNCHANGED pageVars

\* A worker inserts the row; the write may fail, and the foreign key makes it
\* fail for an account that is gone.
CreateJob(type, a) ==
  /\ <<type, a>> \in asked
  /\ asked' = asked \ {<<type, a>>}
  /\ \/ UNCHANGED <<job, work>>
     \/ /\ a = None \/ a \in account
        /\ \E j \in Jobs : ~Used(j) /\ (\A k \in Jobs : ~Used(k) => j <= k) /\
             /\ job' = [job EXCEPT ![j] =
                  [type |-> type, acc |-> a,
                   state |-> IF type \in {"SCAN", "MIGRATION"} THEN "READY" ELSE "RUNNING"]]
             /\ work' = [work EXCEPT ![j] = CASE type = "SCAN"      -> "prepare"
                                              [] type = "MIGRATION" -> "plan"
                                              [] OTHER              -> "run"]
  /\ checked' = IF type = "MIGRATION" THEN checked \ {a} ELSE checked
  /\ UNCHANGED <<account, enabled, executors, leaked, leaving, disabling, pageVars, sessionVars>>

\* The planner has written the items; MigrationPlanReady.
Planned(j) ==
  /\ work[j] = "plan"
  /\ work' = [work EXCEPT ![j] = "none"]
  /\ Publish(<<PlanReady(j)>>)
  /\ UNCHANGED <<rowVars, executors, leaked, pendingVars, checked, sessionVars>>

\* scan's first write, also of a resumed scan.
ScanBegins(j) ==
  /\ work[j] = "prepare"
  /\ job' = [job EXCEPT ![j].state = "RUNNING"]
  /\ work' = [work EXCEPT ![j] = "run"]
  /\ UNCHANGED <<account, enabled, executors, leaked, pendingVars, checked, pageVars, sessionVars>>

\* The code of a job that is no migration reaches its end; a check that has
\* not failed leaves its result in the state store.
WorkEnds(j) ==
  /\ work[j] = "run" /\ job[j].type # "MIGRATION"
  /\ job' = [job EXCEPT ![j].state = "ENDED"]
  /\ \/ UNCHANGED checked
     \/ job[j].type = "TARGET_SCAN" /\ checked' = checked \cup {job[j].acc}
  /\ work' = [work EXCEPT ![j] = "none"]
  /\ UNCHANGED <<account, enabled, executors, leaked, pendingVars, pageVars, sessionVars>>

\* An exception that no handler turns into a state, and that leaves the row as
\* it is: inside the planner, from a file, from the writes before the try of a
\* scan or a check, or from the write of FAILED itself.
WorkRaises(j) ==
  /\ work[j] \in {"plan", "prepare", "run"} /\ Cardinality(broken) < MaxBroken
  /\ work[j] = "run" => job[j].type # "MIGRATION"
  /\ work' = [work EXCEPT ![j] = "none"]
  /\ broken' = broken \cup {j}
  /\ UNCHANGED <<rowVars, executors, leaked, pendingVars, checked, pageVars, cutoff, restarts>>

-----------------------------------------------------------------------------
(* Migrations.                                                             *)

Submit(j) ==
  /\ executors' = executors \cup {j}
  /\ work' = [work EXCEPT ![j] = "go"]
  /\ broken' = broken \ {j} /\ cutoff' = cutoff \ {j}
  /\ UNCHANGED <<rowVars, leaked, pendingVars, checked, pageVars, restarts>>

MayRun(j) == job[j].type = "MIGRATION" /\ j \notin executors /\ job[j].acc \in enabled

\* migration.start: from the page, with the plan's own account selected.
Start(j) == cur = j /\ MayRun(j) /\ job[j].state = "READY" /\ Submit(j)

\* migration.resume and job.resume.
Resumable(j) ==
  \/ MayRun(j) /\ job[j].state \in {"PAUSED", "WAITING_SERVER"}
  \/ job[j].type = "SCAN" /\ job[j].state = "PAUSED" /\ job[j].acc \in enabled

ResumeMigration(j) == Resumable(j) /\ job[j].type = "MIGRATION" /\ Submit(j)

ResumeScan(j) ==
  /\ Resumable(j) /\ job[j].type = "SCAN"
  /\ work' = [work EXCEPT ![j] = "prepare"]
  /\ broken' = broken \ {j} /\ cutoff' = cutoff \ {j}
  /\ UNCHANGED <<rowVars, executors, leaked, pendingVars, checked, pageVars, restarts>>

\* The button of MigrationPage, for the job shown there.
ResumeShown(j) == cur = j /\ ResumeMigration(j)

\* _selected_job_id of JobsPage: a row of its table.
Selected(j) == j \in listed

\* job.resume of that page, for a job of any type.
ResumeJob(j) == Selected(j) /\ (ResumeMigration(j) \/ ResumeScan(j))

\* _export and _export_log of that page.
ReportJob(j) == Selected(j) /\ AskReport /\ UNCHANGED pageVars

\* JobTableModel.refresh.
Relist == listed' = Recent

\* The page's refresh button, which reads the log of the selected job as well,
\* and the events about imports, exports and scans.
RefreshJobs ==
  /\ Relist
  /\ UNCHANGED <<rowVars, work, executors, leaked, pendingVars, checked, events, cur, overtaken,
                 sessionVars>>

\* _set_job: the row, then the event.
SetJob(j, st, more) ==
  /\ job' = [job EXCEPT ![j].state = st]
  /\ Publish(<<StateOf(j)>> \o more)

RunBegins(j) ==
  /\ work[j] = "go"
  /\ SetJob(j, "RUNNING", <<>>)
  /\ work' = [work EXCEPT ![j] = "run"]
  /\ UNCHANGED <<account, enabled, executors, leaked, pendingVars, checked, sessionVars>>

\* A candidate is done, a server wait begins, or it is over.
RunReports(j) ==
  /\ Migrating(j)
  /\ \/ job[j].state = "RUNNING" /\ Publish(<<Item(j)>>) /\ UNCHANGED job
     \/ job[j].state = "RUNNING" /\ SetJob(j, "WAITING_SERVER", <<>>)
     \/ job[j].state = "WAITING_SERVER" /\ SetJob(j, "RUNNING", <<>>)
  /\ UNCHANGED <<account, enabled, work, executors, leaked, pendingVars, checked, sessionVars>>

\* Paused, stopped, rate limited, completed or failed.
RunEnds(j) ==
  /\ Migrating(j)
  /\ \/ SetJob(j, "ENDED", <<Item(j)>>)     \* MigrationCompleted
     \/ \E st \in {"ENDED", "PAUSED", "RATE_LIMITED"} : SetJob(j, st, <<>>)
  /\ work' = [work EXCEPT ![j] = "done"]
  /\ UNCHANGED <<account, enabled, executors, leaked, pendingVars, checked, sessionVars>>

\* A run that ends without a state of its own.  What comes before its try, the
\* first writes and prime, leaves the performance mode on when it raises; inside
\* it, the write of FAILED may be the one that fails.
RunBreaks(j) ==
  /\ \/ work[j] = "go" /\ leaked' = TRUE
     \/ Migrating(j) /\ job[j].state = "RUNNING" /\ leaked' = TRUE
     \/ Migrating(j) /\ UNCHANGED leaked
  /\ Cardinality(broken) < MaxBroken
  /\ work' = [work EXCEPT ![j] = "done"]
  /\ broken' = broken \cup {j}
  /\ UNCHANGED <<rowVars, executors, pendingVars, checked, pageVars, cutoff, restarts>>

\* on_finished forgets the executor.
Forget(j) ==
  /\ work[j] = "done"
  /\ work' = [work EXCEPT ![j] = "none"]
  /\ executors' = executors \ {j}
  /\ UNCHANGED <<rowVars, leaked, pendingVars, checked, pageVars, sessionVars>>

-----------------------------------------------------------------------------
(* Accounts.                                                               *)

AskDelete(a) ==
  /\ a \in account /\ ~HasNonterminal(a)
  /\ leaving' = leaving \cup {a}
  /\ UNCHANGED <<rowVars, work, executors, leaked, asked, disabling, checked, pageVars,
                 sessionVars>>

\* Slip: the transaction does not test again.
DeleteAccountUntested(a) ==
  /\ a \in leaving
  /\ leaving' = leaving \ {a}
  /\ account' = account \ {a} /\ enabled' = enabled \ {a}
  /\ job' = [j \in Jobs |-> IF job[j].acc = a THEN [job[j] EXCEPT !.acc = None] ELSE job[j]]
  /\ UNCHANGED <<work, executors, leaked, asked, disabling, checked, pageVars, sessionVars>>

\* submit_delete tests again, inside its transaction, after the disconnect.
DeleteAccount(a) ==
  /\ a \in leaving
  /\ leaving' = leaving \ {a}
  /\ IF HasNonterminal(a) THEN UNCHANGED rowVars
     ELSE /\ account' = account \ {a} /\ enabled' = enabled \ {a}
          /\ job' = [j \in Jobs |-> IF job[j].acc = a THEN [job[j] EXCEPT !.acc = None]
                                    ELSE job[j]]
  /\ UNCHANGED <<work, executors, leaked, asked, disabling, checked, pageVars, sessionVars>>

AskDisable(a) ==
  /\ a \in enabled /\ ~HasNonterminal(a)
  /\ disabling' = disabling \cup {a}
  /\ UNCHANGED <<rowVars, work, executors, leaked, asked, leaving, checked, pageVars, sessionVars>>

\* account.enable, and the write of a disabling one, which tests nothing again.
EnableAccount(a, on) ==
  /\ a \in account /\ (IF on THEN a \notin enabled ELSE a \in disabling)
  /\ enabled' = IF on THEN enabled \cup {a} ELSE enabled \ {a}
  /\ disabling' = IF on THEN disabling ELSE disabling \ {a}
  /\ UNCHANGED <<account, job, work, executors, leaked, asked, leaving, checked, pageVars,
                 sessionVars>>

-----------------------------------------------------------------------------
\* Slip: only migrations are paused.
RecoveredMigrations(waits) ==
  [j \in Jobs |-> IF job[j].type = "MIGRATION" /\ job[j].state = "RUNNING"
                   THEN [job[j] EXCEPT !.state = "PAUSED"] ELSE job[j]]

\* normalize_after_restart pauses what was running, but not a server wait that
\* is still to come.
Recovered(waits) ==
  [j \in Jobs |->
     IF job[j].state = "RUNNING" \/ (job[j].state = "WAITING_SERVER" /\ j \notin waits)
     THEN [job[j] EXCEPT !.state = "PAUSED"] ELSE job[j]]

\* The program ends, properly or not, and starts again.
Restart ==
  /\ restarts < MaxRestarts
  /\ restarts' = restarts + 1
  /\ \E waits \in SUBSET {j \in Jobs : job[j].state = "WAITING_SERVER"} :
       job' = Recovered(waits)
  /\ work' = [j \in Jobs |-> "none"]
  /\ executors' = {} /\ leaked' = FALSE
  /\ asked' = {} /\ leaving' = {} /\ disabling' = {} /\ checked' = {}
  /\ events' = <<>> /\ cur' = None /\ listed' = Recent
  /\ overtaken' = overtaken \cup {j \in Jobs : Unstarted(j) /\ Shows(j)}
  /\ broken' = {}
  /\ cutoff' = cutoff \cup {j \in Jobs : Open(j) /\ (work[j] # "none" \/ j \in broken)}
  /\ UNCHANGED <<account, enabled>>

Next ==
  \/ \E a \in Accounts \cup {None} : AskJob(a) \/ \E type \in Types : CreateJob(type, a)
  \/ \E a \in Accounts : Check(a) \/ AskPlan(a) \/ AskDelete(a) \/ DeleteAccount(a)
                           \/ AskDisable(a) \/ \E on \in BOOLEAN : EnableAccount(a, on)
  \/ \E j \in Jobs : \/ Planned(j) \/ ScanBegins(j) \/ WorkEnds(j) \/ WorkRaises(j)
                     \/ Start(j) \/ ResumeShown(j) \/ ResumeJob(j) \/ ReportJob(j)
                     \/ RunBegins(j) \/ RunReports(j) \/ RunEnds(j) \/ RunBreaks(j) \/ Forget(j)
  \/ WriteReport \/ DrainEvents \/ RefreshJobs
  \/ Restart

Spec == Init /\ [][Next]_vars

-----------------------------------------------------------------------------
\* Rows and fields have their types.
TypeOK ==
  /\ account \subseteq Accounts /\ enabled \subseteq account
  /\ job \in [Jobs -> [type : Types \cup {"none"}, state : States \cup {"none"},
                       acc : Accounts \cup {None}]]
  /\ work \in [Jobs -> Stages] /\ executors \subseteq Jobs /\ leaked \in BOOLEAN
  /\ cur \in Jobs \cup {None} /\ listed \subseteq Jobs
  /\ broken \subseteq Jobs /\ cutoff \subseteq Jobs /\ overtaken \subseteq Jobs
  /\ restarts \in 0..MaxRestarts

\* A job that is not finished keeps its account: whatever lies between the test
\* of account.delete and its transaction, no migration, scan or check is left
\* with an account_id that is NULL or names no row.
JobsHaveAccounts ==
  \A j \in Jobs :
    /\ Open(j) /\ job[j].type \in {"MIGRATION", "SCAN", "TARGET_SCAN"} => job[j].acc \in account
    /\ job[j].acc # None => job[j].acc \in account

\* Some command takes the job on: something is in flight, a page offers to resume
\* it (once its account is enabled), or to start it.
HasWayOut(j) ==
  \/ work[j] # "none" \/ j \in executors
  \/ job[j].type = "MIGRATION" /\ job[j].state \in {"PAUSED", "WAITING_SERVER"}
       /\ j \in Recent \cup {cur}
  \/ job[j].type = "SCAN" /\ job[j].state = "PAUSED" /\ j \in Recent
  \/ job[j].type = "MIGRATION" /\ job[j].state = "READY" /\ Shows(j)

\* The jobs no command can end, for whose account account.delete and disabling
\* are refused for good, are these and no others: imports, exports and checks
\* that raised or were cut off by a restart; rate-limited migrations; migrations
\* and scans whose code raised and left them RUNNING (until a restart); scans
\* that raised, or were cut off, before their first write; plans whose making
\* raised or was cut off, and plans the page itself has given up or lost; and
\* resumable jobs that newer jobs have pushed off the list.  Every other
\* interrupted job can be resumed.
StuckJobsAreKnown ==
  \A j \in Jobs : Open(j) /\ ~HasWayOut(j) =>
    \/ job[j].state \in {"PAUSED", "WAITING_SERVER"} /\ job[j].type \in {"MIGRATION", "SCAN"}
         /\ j \notin Recent
    \/ job[j].type \in {"IMPORT", "EXPORT", "TARGET_SCAN"} /\ j \in broken \cup cutoff
    \/ job[j].type = "MIGRATION" /\ job[j].state = "RATE_LIMITED"
    \/ job[j].type \in {"MIGRATION", "SCAN"} /\ job[j].state = "RUNNING" /\ j \in broken
    \/ job[j].type = "SCAN" /\ job[j].state = "READY" /\ j \in broken \cup cutoff
    \/ job[j].type = "MIGRATION" /\ job[j].state = "READY"
         /\ j \in broken \cup cutoff \cup overtaken

=============================================================================
