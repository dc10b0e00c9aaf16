---------------------------- MODULE WorkbenchProofs ----------------------------
(***************************************************************************)
(* Proofs about Workbench, for every number of accounts and jobs, every    *)
(* length of the event queue and of the list of jobs: a job that is not    *)
(* finished keeps its account (JobsHaveAccounts), and the jobs that no     *)
(* command can end are the known ones (StuckJobsAreKnown).                 *)
(*                                                                         *)
(* The invariant ties the row of a job to what is in flight for it: every  *)
(* stage has its types and states, and a job with nothing in flight is     *)
(* finished, can be resumed or started, or was cut off in a known way.     *)
(***************************************************************************)
EXTENDS Workbench, TLAPS

AccountJobs == {"MIGRATION", "SCAN", "TARGET_SCAN"}
FileJobs    == {"IMPORT", "EXPORT"}

Row    == [type : Types \cup {"none"}, state : States \cup {"none"}, acc : Accounts \cup {None}]
Events == [name : {"PlanReady", "JobStateChanged", "MigrationItem"}, job : Jobs]

TypeInv ==
  /\ account \subseteq Accounts /\ enabled \subseteq account
  /\ job \in [Jobs -> Row] /\ work \in [Jobs -> Stages]
  /\ executors \subseteq Jobs /\ broken \subseteq Jobs /\ overtaken \subseteq Jobs
  /\ cutoff \subseteq Jobs /\ events \in Seq(Events) /\ restarts \in Nat

\* The plan of j is shown, or about to be, or the page has lost it.
Visible(j) == Shows(j) \/ j \in overtaken

\* Nothing is in flight for j, and it is not finished.
IdleOk(j) ==
  \/ job[j].type \in FileJobs \cup {"TARGET_SCAN"} /\ j \in broken \cup cutoff
  \/ job[j].type = "MIGRATION" /\ job[j].state \in {"PAUSED", "WAITING_SERVER", "RATE_LIMITED"}
  \/ job[j].type = "MIGRATION" /\ job[j].state = "RUNNING" /\ j \in broken
  \/ job[j].type = "MIGRATION" /\ job[j].state = "READY" /\ (j \in broken \cup cutoff \/ Visible(j))
  \/ job[j].type = "SCAN" /\ job[j].state = "PAUSED"
  \/ job[j].type = "SCAN" /\ job[j].state = "READY" /\ j \in broken \cup cutoff
  \/ job[j].type = "SCAN" /\ job[j].state = "RUNNING" /\ j \in broken

StageOk(j) ==
  /\ job[j] # NoRow => job[j].type \in Types /\ job[j].state \in States
  /\ job[j] = NoRow => work[j] = "none"
  /\ j \in executors <=> job[j].type = "MIGRATION" /\ work[j] \in {"go", "run", "done"}
  /\ work[j] = "plan" => job[j].type = "MIGRATION" /\ job[j].state = "READY"
  /\ work[j] = "prepare" => job[j].type = "SCAN" /\ job[j].state \in {"READY", "PAUSED"}
  /\ work[j] = "go" =>
       job[j].type = "MIGRATION" /\ job[j].state \in {"READY", "PAUSED", "WAITING_SERVER"}
  /\ work[j] = "run" =>
       \/ job[j].state = "RUNNING"
       \/ job[j].type = "MIGRATION" /\ job[j].state = "WAITING_SERVER"
  /\ work[j] = "done" =>
       /\ job[j].type = "MIGRATION"
       /\ \/ job[j].state \in {"ENDED", "PAUSED", "RATE_LIMITED"}
          \/ job[j].state \in {"READY", "RUNNING", "WAITING_SERVER"} /\ j \in broken
  /\ work[j] = "none" /\ Open(j) => IdleOk(j)

\* JobsHaveAccounts, job by job.
KeepsAccount(j) ==
  /\ Open(j) /\ job[j].type \in AccountJobs => job[j].acc \in account
  /\ job[j].acc # None => job[j].acc \in account

\* Only files are read and written for nobody.
AskedOk == \A type \in AccountJobs : <<type, None>> \notin asked

WorkbenchInv ==
  TypeInv /\ AskedOk /\ \A j \in Jobs : StageOk(j) /\ KeepsAccount(j)

-----------------------------------------------------------------------------
\* A job that a step leaves alone stays as good as it was.
LEMMA StageKept ==
  ASSUME NEW j \in Jobs, StageOk(j), job'[j] = job[j], work'[j] = work[j],
         j \in executors' <=> j \in executors, j \in broken => j \in broken',
         j \in cutoff => j \in cutoff',
         Unstarted(j) /\ Visible(j) => Visible(j)'
  PROVE  StageOk(j)'
<1>1. work[j] = "none" /\ IdleOk(j) => IdleOk(j)'
  BY DEF IdleOk, Unstarted, StageOk
<1>2. Open(j)' <=> Open(j)
  BY DEF Open, Used
<1> QED BY <1>1, <1>2 DEF StageOk

LEMMA AccountKept ==
  ASSUME NEW j \in Jobs, KeepsAccount(j), job'[j] = job[j], UNCHANGED account
  PROVE  KeepsAccount(j)'
  BY DEF KeepsAccount, Open, Used

\* What the page sees stays, as long as the page and its events do.
LEMMA PageKept ==
  ASSUME NEW j \in Jobs, UNCHANGED <<events, cur, overtaken>>, Visible(j)
  PROVE  Visible(j)'
  BY DEF Visible, Shows

\* Publishing drops the oldest events only, and notices the plans among them.
LEMMA PublishOk ==
  ASSUME TypeInv, NEW evs \in Seq(Events), Publish(evs)
  PROVE  /\ events' \in Seq(Events) /\ overtaken' \subseteq Jobs
         /\ \A j \in Jobs : Unstarted(j) /\ Visible(j) => Visible(j)'
         /\ \A i \in 1..Len(evs) : \A j \in Jobs :
              Unstarted(j) /\ evs[i] = PlanReady(j) => Visible(j)'
<1> DEFINE all == events \o evs
           n == Len(all) - MaxRecent
           kept(e) == e = IF n <= 0 THEN all ELSE SubSeq(all, n + 1, Len(all))
<1>0. /\ kept(events')
      /\ overtaken' = overtaken \cup
           {j \in Jobs : Unstarted(j) /\ \E i \in 1..n : all[i] = PlanReady(j)}
      /\ UNCHANGED cur
  BY DEF Publish
<1>1. events \in Seq(Events) /\ MaxRecent \in Nat \ {0} /\ overtaken \subseteq Jobs
  BY WorkbenchAssumption DEF TypeInv
<1>2. /\ all \in Seq(Events) /\ Len(all) = Len(events) + Len(evs) /\ n \in Int
      /\ \A i \in 1..Len(events) : all[i] = events[i]
      /\ \A i \in 1..Len(evs) : all[Len(events) + i] = evs[i]
  BY <1>1
<1> HIDE DEF all
<1>3. events' \in Seq(Events) /\ overtaken' \subseteq Jobs
  BY <1>0, <1>1, <1>2
<1>4. ASSUME NEW i \in 1..Len(all), ~(i \in 1..n)
      PROVE  \E k \in 1..Len(events') : events'[k] = all[i]
  <2>1. CASE n <= 0
    BY <1>0, <1>2, <1>4, <2>1
  <2>2. CASE n > 0
    <3>1. i - n \in 1..Len(SubSeq(all, n + 1, Len(all)))
      BY <1>1, <1>2, <1>4, <2>2
    <3>2. SubSeq(all, n + 1, Len(all))[i - n] = all[i]
      BY <1>1, <1>2, <1>4, <2>2
    <3> QED BY <1>0, <2>2, <3>1, <3>2
  <2> QED BY <1>2, <2>1, <2>2
<1>5. ASSUME NEW j \in Jobs, Unstarted(j), NEW i \in 1..Len(all), all[i] = PlanReady(j)
      PROVE  Visible(j)'
  BY <1>0, <1>4, <1>5 DEF Visible, Shows
<1>6. \A j \in Jobs : Unstarted(j) /\ Visible(j) => Visible(j)'
  <2> SUFFICES ASSUME NEW j \in Jobs, Unstarted(j), Visible(j) PROVE Visible(j)'
    OBVIOUS
  <2>1. CASE cur = j \/ j \in overtaken
    BY <1>0, <2>1 DEF Visible, Shows
  <2>2. CASE \E i \in 1..Len(events) : events[i] = PlanReady(j)
    <3>1. PICK i \in 1..Len(events) : events[i] = PlanReady(j)
      BY <2>2
    <3>2. i \in 1..Len(all) /\ all[i] = PlanReady(j)
      BY <1>1, <1>2, <3>1
    <3> QED BY <1>5, <3>2
  <2> QED BY <2>1, <2>2 DEF Visible, Shows
<1>7. ASSUME NEW i \in 1..Len(evs), NEW j \in Jobs, Unstarted(j), evs[i] = PlanReady(j)
      PROVE  Visible(j)'
  <2>1. Len(events) + i \in 1..Len(all) /\ all[Len(events) + i] = PlanReady(j)
    BY <1>1, <1>2, <1>7
  <2> QED BY <1>5, <1>7, <2>1
<1> QED BY <1>3, <1>6, <1>7

\* A step about one job, k, has k alone to answer for.
LEMMA OneJob ==
  ASSUME WorkbenchInv, NEW k \in Jobs, TypeInv', AskedOk', UNCHANGED account,
         \A j \in Jobs \ {k} :
           /\ job'[j] = job[j] /\ work'[j] = work[j]
           /\ j \in executors' <=> j \in executors
           /\ j \in broken => j \in broken'
           /\ j \in cutoff => j \in cutoff',
         \A j \in Jobs : Unstarted(j) /\ Visible(j) => Visible(j)',
         StageOk(k)', KeepsAccount(k)'
  PROVE  WorkbenchInv'
<1>1. \A j \in Jobs \ {k} : StageOk(j)'
  BY StageKept DEF WorkbenchInv
<1>2. \A j \in Jobs \ {k} : KeepsAccount(j)'
  BY AccountKept DEF WorkbenchInv
<1> QED BY <1>1, <1>2 DEF WorkbenchInv

\* A step that concerns no job.
LEMMA NoJob ==
  ASSUME WorkbenchInv, TypeInv', AskedOk',
         UNCHANGED <<account, job, work, executors, broken, cutoff>>,
         \A j \in Jobs : Unstarted(j) /\ Visible(j) => Visible(j)'
  PROVE  WorkbenchInv'
<1>1. \A j \in Jobs : StageOk(j)'
  BY StageKept DEF WorkbenchInv
<1>2. \A j \in Jobs : KeepsAccount(j)'
  BY AccountKept DEF WorkbenchInv
<1> QED BY <1>1, <1>2 DEF WorkbenchInv

-----------------------------------------------------------------------------
\* Asking for a job.
LEMMA AsksOk ==
  ASSUME WorkbenchInv, NEW type, NEW a, type \in AccountJobs => a # None, Asks(type, a),
         UNCHANGED events, overtaken' \subseteq Jobs,
         \A j \in Jobs : Unstarted(j) /\ Visible(j) => Visible(j)'
  PROVE  WorkbenchInv'
<1>1. /\ UNCHANGED <<rowVars, work, executors, broken, cutoff, restarts>>
      /\ asked' = asked \cup {<<type, a>>}
  BY DEF Asks, sessionVars
<1>2. TypeInv'
  BY <1>1 DEF WorkbenchInv, TypeInv, rowVars
<1>3. AskedOk'
  BY <1>1 DEF WorkbenchInv, AskedOk
<1> QED BY <1>1, <1>2, <1>3, NoJob DEF rowVars

LEMMA AskJobOk ==
  ASSUME WorkbenchInv, NEW a \in Accounts \cup {None}, AskJob(a) PROVE WorkbenchInv'
<1>1. UNCHANGED <<events, cur, overtaken>> /\ overtaken' \subseteq Jobs
  BY DEF AskJob, pageVars, WorkbenchInv, TypeInv
<1>2. \A j \in Jobs : Unstarted(j) /\ Visible(j) => Visible(j)'
  BY <1>1, PageKept
<1>3. CASE AskScan(a)
  <2>1. a # None
    BY <1>3, WorkbenchAssumption DEF AskScan, Offered, WorkbenchInv, TypeInv
  <2> QED BY <1>1, <1>2, <1>3, <2>1, AsksOk DEF AskScan, AsksRow
<1>4. CASE AskImport(a)
  BY <1>1, <1>2, <1>4, AsksOk DEF AskImport, AsksRow, AccountJobs
<1>5. CASE AskExport(a)
  BY <1>1, <1>2, <1>5, AsksOk DEF AskExport, AsksRow, AccountJobs
<1> QED BY <1>3, <1>4, <1>5 DEF AskJob

\* The page gives up its job, and the invariant knows that it did.
LEMMA CheckOk ==
  ASSUME WorkbenchInv, NEW a \in Accounts, Check(a) PROVE WorkbenchInv'
<1>1. /\ Asks("TARGET_SCAN", a) /\ UNCHANGED events
      /\ cur' = None /\ overtaken' = overtaken \cup {j \in Jobs : Unstarted(j) /\ cur = j}
  BY DEF Check, AsksRow
<1>2. \A j \in Jobs : Unstarted(j) /\ Visible(j) => Visible(j)'
  BY <1>1 DEF Visible, Shows
<1>3. a # None /\ overtaken' \subseteq Jobs
  BY <1>1, WorkbenchAssumption DEF WorkbenchInv, TypeInv
<1> QED BY <1>1, <1>2, <1>3, AsksOk

LEMMA AskPlanOk ==
  ASSUME WorkbenchInv, NEW a \in Accounts, AskPlan(a) PROVE WorkbenchInv'
<1>1. /\ Asks("MIGRATION", a) /\ UNCHANGED <<events, cur, overtaken>>
      /\ overtaken' \subseteq Jobs
  BY DEF AskPlan, AsksRow, pageVars, WorkbenchInv, TypeInv
<1>2. a # None
  BY WorkbenchAssumption
<1> QED BY <1>1, <1>2, AsksOk, PageKept

LEMMA ReportOk ==
  ASSUME WorkbenchInv, (\E j \in Jobs : ReportJob(j)) \/ WriteReport PROVE WorkbenchInv'
<1>1. CASE \E j \in Jobs : ReportJob(j)
  <2>1. /\ Asks("REPORT", None) /\ UNCHANGED <<events, cur, overtaken>>
        /\ overtaken' \subseteq Jobs
    BY <1>1 DEF ReportJob, AskReport, pageVars, WorkbenchInv, TypeInv
  <2> QED BY <2>1, AsksOk, PageKept DEF AccountJobs
<1>2. CASE WriteReport
  <2>1. /\ UNCHANGED <<rowVars, work, executors, broken, cutoff, restarts, events, cur, overtaken>>
        /\ asked' \subseteq asked
    BY <1>2 DEF WriteReport, pageVars, sessionVars
  <2>2. TypeInv'
    BY <2>1 DEF WorkbenchInv, TypeInv, rowVars
  <2>3. AskedOk'
    BY <2>1 DEF WorkbenchInv, AskedOk
  <2> QED BY <2>1, <2>2, <2>3, NoJob, PageKept DEF rowVars
<1> QED BY <1>1, <1>2

\* A new row: the foreign key sees to its account, its worker to its stage.
LEMMA CreateJobOk ==
  ASSUME WorkbenchInv, NEW type \in Types, NEW a \in Accounts \cup {None}, CreateJob(type, a)
  PROVE  WorkbenchInv'
<1> DEFINE row == [type |-> type, acc |-> a,
                   state |-> IF type \in {"SCAN", "MIGRATION"} THEN "READY" ELSE "RUNNING"]
           stage == CASE type = "SCAN" -> "prepare" [] type = "MIGRATION" -> "plan"
                      [] OTHER -> "run"
<1>0. TypeInv /\ AskedOk /\ \A j \in Jobs : StageOk(j) /\ KeepsAccount(j)
  BY DEF WorkbenchInv
<1>1. /\ <<type, a>> \in asked /\ asked' = asked \ {<<type, a>>}
      /\ UNCHANGED <<account, enabled, executors, events, cur, overtaken, broken, cutoff, restarts>>
  BY DEF CreateJob, pageVars, sessionVars
<1>2. AskedOk' /\ (type \in AccountJobs => a # None)
  BY <1>0, <1>1 DEF AskedOk
<1>3. \A j \in Jobs : Unstarted(j) /\ Visible(j) => Visible(j)'
  BY <1>1, PageKept
<1>4. CASE UNCHANGED <<job, work>>
  <2>1. TypeInv'
    BY <1>0, <1>1, <1>4 DEF TypeInv
  <2> QED BY <1>1, <1>2, <1>3, <1>4, <2>1, NoJob
<1>5. CASE ~UNCHANGED <<job, work>>
  <2>1. PICK k \in Jobs :
          /\ ~Used(k) /\ (a = None \/ a \in account)
          /\ job' = [job EXCEPT ![k] = row] /\ work' = [work EXCEPT ![k] = stage]
    BY <1>5 DEF CreateJob
  <2>2. /\ row \in Row /\ row # NoRow /\ stage \in Stages
        /\ row.type = type /\ row.acc = a
        /\ row.state = IF type \in {"SCAN", "MIGRATION"} THEN "READY" ELSE "RUNNING"
    BY DEF Row, NoRow, States, Stages, Types
  <2>3. /\ stage = "prepare" <=> type = "SCAN"
        /\ stage = "plan" <=> type = "MIGRATION"
        /\ stage \in {"prepare", "plan", "run"}
    OBVIOUS
  <2>4. job[k] = NoRow /\ k \notin executors
    BY <1>0, <2>1 DEF Used, StageOk, NoRow
  <2> HIDE DEF row, stage
  <2>5. job'[k] = row /\ work'[k] = stage
    BY <1>0, <2>1 DEF TypeInv
  <2>6. \A j \in Jobs \ {k} : job'[j] = job[j] /\ work'[j] = work[j]
    BY <1>0, <2>1 DEF TypeInv
  <2>7. TypeInv'
    BY <1>0, <1>1, <2>1, <2>2 DEF TypeInv
  <2>8. StageOk(k)'
    BY <1>1, <2>2, <2>3, <2>4, <2>5 DEF StageOk, States, Types
  <2>9. KeepsAccount(k)'
    BY <1>1, <1>2, <2>1, <2>2, <2>5 DEF KeepsAccount
  <2> QED BY <1>1, <1>2, <1>3, <2>6, <2>7, <2>8, <2>9, OneJob
<1> QED BY <1>4, <1>5

-----------------------------------------------------------------------------
\* A job moves from a stage to another one and keeps its row.
LEMMA StageMoves ==
  ASSUME WorkbenchInv, NEW k \in Jobs, NEW stage \in Stages,
         work' = [work EXCEPT ![k] = stage],
         UNCHANGED <<account, enabled, job, asked, restarts>>,
         executors' \subseteq Jobs, broken' \subseteq Jobs, overtaken' \subseteq Jobs, cutoff' \subseteq Jobs,
         events' \in Seq(Events),
         \A j \in Jobs \ {k} :
           (j \in executors' <=> j \in executors) /\ (j \in broken => j \in broken')
           /\ (j \in cutoff => j \in cutoff'),
         \A j \in Jobs : Unstarted(j) /\ Visible(j) => Visible(j)',
         work'[k] = stage => StageOk(k)'
  PROVE  WorkbenchInv'
<1>0. TypeInv /\ AskedOk /\ KeepsAccount(k)
  BY DEF WorkbenchInv
<1>1. TypeInv' /\ AskedOk'
  BY <1>0 DEF TypeInv, AskedOk
<1>2. /\ \A j \in Jobs \ {k} : work'[j] = work[j]
      /\ work'[k] = stage
  BY <1>0 DEF TypeInv
<1>3. KeepsAccount(k)'
  BY <1>0, AccountKept
<1> QED BY <1>1, <1>2, <1>3, OneJob

\* A job gets another state: its account is there, if it was not finished.
LEMMA StateMoves ==
  ASSUME WorkbenchInv, NEW k \in Jobs, NEW st \in States, NEW stage \in Stages, Open(k),
         job' = [job EXCEPT ![k].state = st], work' = [work EXCEPT ![k] = stage],
         UNCHANGED <<account, enabled, asked, cutoff, restarts, executors, broken>>,
         events' \in Seq(Events), overtaken' \subseteq Jobs,
         \A j \in Jobs : Unstarted(j) /\ Visible(j) => Visible(j)',
         /\ job'[k].type = job[k].type /\ job'[k].state = st /\ work'[k] = stage
         /\ job'[k] # NoRow /\ job[k].type \in Types
         => StageOk(k)'
  PROVE  WorkbenchInv'
<1>0. TypeInv /\ AskedOk /\ KeepsAccount(k) /\ StageOk(k)
  BY DEF WorkbenchInv
<1>1. job[k] \in Row /\ job[k] # NoRow /\ job[k].type \in Types
  BY <1>0 DEF TypeInv, Open, Used, StageOk
<1>2. [job[k] EXCEPT !.state = st] \in Row
  BY <1>1 DEF Row
<1>3. /\ job'[k] = [job[k] EXCEPT !.state = st] /\ work'[k] = stage
      /\ \A j \in Jobs \ {k} : job'[j] = job[j] /\ work'[j] = work[j]
  BY <1>0 DEF TypeInv
<1>4. TypeInv' /\ AskedOk'
  BY <1>0, <1>2 DEF TypeInv, AskedOk
<1>5. job'[k].type = job[k].type /\ job'[k].state = st /\ job'[k].acc = job[k].acc
  BY <1>1, <1>3 DEF Row
<1>6. job'[k] # NoRow
  BY <1>1, <1>5 DEF NoRow, Types
<1>7. KeepsAccount(k)'
  BY <1>0, <1>5 DEF KeepsAccount
<1> QED BY <1>1, <1>3, <1>4, <1>5, <1>6, <1>7, OneJob

LEMMA PlannedOk ==
  ASSUME WorkbenchInv, NEW k \in Jobs, Planned(k) PROVE WorkbenchInv'
<1>0. TypeInv /\ StageOk(k) /\ work[k] = "plan"
  BY DEF WorkbenchInv, Planned
<1>1. /\ work' = [work EXCEPT ![k] = "none"] /\ Publish(<<PlanReady(k)>>)
      /\ UNCHANGED <<rowVars, executors, asked, broken, cutoff, restarts>>
  BY DEF Planned, pendingVars, sessionVars
<1>2. <<PlanReady(k)>> \in Seq(Events)
  BY DEF PlanReady, Events
<1>3. Unstarted(k)
  BY <1>0 DEF StageOk, Unstarted
<1>4. /\ events' \in Seq(Events) /\ overtaken' \subseteq Jobs /\ Visible(k)'
      /\ \A j \in Jobs : Unstarted(j) /\ Visible(j) => Visible(j)'
  <2>1. /\ events' \in Seq(Events) /\ overtaken' \subseteq Jobs
        /\ \A j \in Jobs : Unstarted(j) /\ Visible(j) => Visible(j)'
        /\ \A i \in 1..Len(<<PlanReady(k)>>) : \A j \in Jobs :
             Unstarted(j) /\ <<PlanReady(k)>>[i] = PlanReady(j) => Visible(j)'
    BY <1>0, <1>1, <1>2, PublishOk
  <2>2. 1 \in 1..Len(<<PlanReady(k)>>) /\ <<PlanReady(k)>>[1] = PlanReady(k)
    OBVIOUS
  <2> QED BY <1>3, <2>1, <2>2
<1>5. work'[k] = "none" => StageOk(k)'
  BY <1>0, <1>1, <1>4 DEF StageOk, IdleOk, rowVars
<1>6. "none" \in Stages
  BY DEF Stages
<1> QED BY <1>0, <1>1, <1>4, <1>5, <1>6, StageMoves DEF rowVars, TypeInv

LEMMA ScanBeginsOk ==
  ASSUME WorkbenchInv, NEW k \in Jobs, ScanBegins(k) PROVE WorkbenchInv'
<1>0. TypeInv /\ StageOk(k) /\ work[k] = "prepare"
  BY DEF WorkbenchInv, ScanBegins
<1>1. /\ job' = [job EXCEPT ![k].state = "RUNNING"] /\ work' = [work EXCEPT ![k] = "run"]
      /\ UNCHANGED <<account, enabled, executors, asked, broken, cutoff, restarts, events, cur, overtaken>>
  BY DEF ScanBegins, pendingVars, pageVars, sessionVars
<1>2. Open(k) /\ "RUNNING" \in States /\ "run" \in Stages
  BY <1>0 DEF StageOk, Open, Used, NoRow, Terminal, States, Stages
<1>3. /\ job'[k].type = job[k].type /\ job'[k].state = "RUNNING" /\ work'[k] = "run"
      /\ job'[k] # NoRow /\ job[k].type \in Types
      => StageOk(k)'
  BY <1>0, <1>1, <1>2 DEF StageOk
<1>4. /\ events' \in Seq(Events) /\ overtaken' \subseteq Jobs
      /\ \A j \in Jobs : Unstarted(j) /\ Visible(j) => Visible(j)'
  BY <1>0, <1>1, PageKept DEF TypeInv
<1> QED BY <1>1, <1>2, <1>3, <1>4, StateMoves

LEMMA WorkEndsOk ==
  ASSUME WorkbenchInv, NEW k \in Jobs, WorkEnds(k) PROVE WorkbenchInv'
<1>0. TypeInv /\ StageOk(k) /\ work[k] = "run" /\ job[k].type # "MIGRATION"
  BY DEF WorkbenchInv, WorkEnds
<1>1. /\ job' = [job EXCEPT ![k].state = "ENDED"] /\ work' = [work EXCEPT ![k] = "none"]
      /\ UNCHANGED <<account, enabled, executors, asked, broken, cutoff, restarts, events, cur, overtaken>>
  BY DEF WorkEnds, pendingVars, pageVars, sessionVars
<1>2. Open(k) /\ "ENDED" \in States /\ "none" \in Stages
  BY <1>0 DEF StageOk, Open, Used, NoRow, Terminal, States, Stages
<1>3. /\ job'[k].type = job[k].type /\ job'[k].state = "ENDED" /\ work'[k] = "none"
      /\ job'[k] # NoRow /\ job[k].type \in Types
      => StageOk(k)'
  BY <1>0, <1>1, <1>2 DEF StageOk, Open, Terminal
<1>4. /\ events' \in Seq(Events) /\ overtaken' \subseteq Jobs
      /\ \A j \in Jobs : Unstarted(j) /\ Visible(j) => Visible(j)'
  BY <1>0, <1>1, PageKept DEF TypeInv
<1> QED BY <1>1, <1>2, <1>3, <1>4, StateMoves

LEMMA WorkRaisesOk ==
  ASSUME WorkbenchInv, NEW k \in Jobs, WorkRaises(k) PROVE WorkbenchInv'
<1>0. /\ TypeInv /\ StageOk(k)
      /\ work[k] \in {"plan", "prepare", "run"}
      /\ work[k] = "run" => job[k].type # "MIGRATION"
  BY DEF WorkbenchInv, WorkRaises
<1>1. /\ work' = [work EXCEPT ![k] = "none"] /\ broken' = broken \cup {k}
      /\ UNCHANGED <<rowVars, executors, asked, cutoff, restarts, events, cur, overtaken>>
  BY DEF WorkRaises, pendingVars, pageVars, sessionVars
<1>2. "none" \in Stages /\ events' \in Seq(Events) /\ broken' \subseteq Jobs
  BY <1>0, <1>1 DEF Stages, TypeInv
<1>3. job[k].type \in FileJobs \cup {"TARGET_SCAN", "MIGRATION", "SCAN"}
  BY <1>0 DEF StageOk, NoRow, Types, FileJobs
<1>4. work'[k] = "none" => StageOk(k)'
  BY <1>0, <1>1, <1>3 DEF StageOk, IdleOk, rowVars
<1> QED BY <1>0, <1>1, <1>2, <1>4, PageKept, StageMoves DEF rowVars, TypeInv

\* A migration that is started or resumed.
LEMMA SubmitOk ==
  ASSUME WorkbenchInv, NEW k \in Jobs, job[k].type = "MIGRATION",
         job[k].state \in {"READY", "PAUSED", "WAITING_SERVER"}, Submit(k)
  PROVE  WorkbenchInv'
<1>0. TypeInv /\ StageOk(k)
  BY DEF WorkbenchInv
<1>1. /\ work' = [work EXCEPT ![k] = "go"] /\ executors' = executors \cup {k}
      /\ broken' = broken \ {k} /\ cutoff' = cutoff \ {k}
      /\ UNCHANGED <<rowVars, asked, restarts, events, cur, overtaken>>
  BY DEF Submit, pendingVars, pageVars, sessionVars
<1>2. "go" \in Stages /\ events' \in Seq(Events) /\ executors' \subseteq Jobs
  BY <1>0, <1>1 DEF Stages, TypeInv
<1>3. work'[k] = "go" => StageOk(k)'
  BY <1>0, <1>1 DEF StageOk, rowVars, NoRow
<1> QED BY <1>0, <1>1, <1>2, <1>3, PageKept, StageMoves DEF rowVars, TypeInv

LEMMA ResumeScanOk ==
  ASSUME WorkbenchInv, NEW k \in Jobs, ResumeScan(k) PROVE WorkbenchInv'
<1>0. TypeInv /\ StageOk(k) /\ job[k].type = "SCAN" /\ job[k].state = "PAUSED"
  BY DEF WorkbenchInv, ResumeScan, Resumable, MayRun
<1>1. /\ work' = [work EXCEPT ![k] = "prepare"]
      /\ broken' = broken \ {k} /\ cutoff' = cutoff \ {k}
      /\ UNCHANGED <<rowVars, executors, asked, restarts, events, cur, overtaken>>
  BY DEF ResumeScan, pendingVars, pageVars, sessionVars
<1>2. "prepare" \in Stages /\ events' \in Seq(Events)
  BY <1>0, <1>1 DEF Stages, TypeInv
<1>3. work'[k] = "prepare" => StageOk(k)'
  BY <1>0, <1>1 DEF StageOk, rowVars, NoRow
<1> QED BY <1>0, <1>1, <1>2, <1>3, PageKept, StageMoves DEF rowVars, TypeInv

LEMMA StartOrResumeOk ==
  ASSUME WorkbenchInv, NEW k \in Jobs, Start(k) \/ ResumeShown(k) \/ ResumeJob(k)
  PROVE  WorkbenchInv'
<1>1. CASE Start(k)
  BY <1>1, SubmitOk DEF Start, MayRun
<1>2. CASE ResumeMigration(k)
  BY <1>2, SubmitOk DEF ResumeMigration, Resumable
<1>3. CASE ResumeScan(k)
  BY <1>3, ResumeScanOk
<1> QED BY <1>1, <1>2, <1>3 DEF ResumeShown, ResumeJob

-----------------------------------------------------------------------------
\* Events about a run.
LEMMA RunEvents ==
  ASSUME NEW k \in Jobs, NEW more \in {<<>>, <<Item(k)>>}
  PROVE  <<StateOf(k)>> \o more \in Seq(Events) /\ <<Item(k)>> \in Seq(Events)
<1>1. StateOf(k) \in Events /\ Item(k) \in Events
  BY DEF StateOf, Item, Events
<1> DEFINE s == <<StateOf(k)>>
<1>2. s \in Seq(Events) /\ <<Item(k)>> \in Seq(Events) /\ <<>> \in Seq(Events)
  BY <1>1
<1> HIDE DEF s
<1>3. more \in Seq(Events)
  BY <1>2
<1>4. s \o more \in Seq(Events)
  BY <1>2, <1>3
<1> QED BY <1>2, <1>4 DEF s

\* _set_job of a run that goes on, or ends, in a stage that fits the state.
LEMMA SetJobOk ==
  ASSUME WorkbenchInv, NEW k \in Jobs, NEW st \in States, NEW stage \in Stages,
         NEW more \in {<<>>, <<Item(k)>>}, SetJob(k, st, more),
         work' = [work EXCEPT ![k] = stage],
         UNCHANGED <<account, enabled, asked, cutoff, restarts, executors, broken>>,
         job[k].type = "MIGRATION", work[k] \in {"go", "run"},
         \/ stage = "run" /\ st \in {"RUNNING", "WAITING_SERVER"}
         \/ stage = "done" /\ st \in {"ENDED", "PAUSED", "RATE_LIMITED"}
  PROVE  WorkbenchInv'
<1>0. TypeInv /\ StageOk(k)
  BY DEF WorkbenchInv
<1>1. job' = [job EXCEPT ![k].state = st] /\ Publish(<<StateOf(k)>> \o more)
  BY DEF SetJob
<1>2. /\ events' \in Seq(Events) /\ overtaken' \subseteq Jobs
      /\ \A j \in Jobs : Unstarted(j) /\ Visible(j) => Visible(j)'
  BY <1>0, <1>1, RunEvents, PublishOk
<1>3. Open(k)
  BY <1>0 DEF StageOk, Open, Used, NoRow, Terminal
<1>4. /\ job'[k].type = job[k].type /\ job'[k].state = st /\ work'[k] = stage
      /\ job'[k] # NoRow /\ job[k].type \in Types
      => StageOk(k)'
  BY <1>0 DEF StageOk
<1> QED BY <1>1, <1>2, <1>3, <1>4, StateMoves

LEMMA RunBeginsOk ==
  ASSUME WorkbenchInv, NEW k \in Jobs, RunBegins(k) PROVE WorkbenchInv'
<1>0. StageOk(k) /\ work[k] = "go"
  BY DEF WorkbenchInv, RunBegins
<1>1. job[k].type = "MIGRATION"
  BY <1>0 DEF StageOk
<1>2. "RUNNING" \in States /\ "run" \in Stages
  BY DEF States, Stages
<1> QED BY <1>0, <1>1, <1>2, SetJobOk DEF RunBegins, pendingVars, sessionVars

LEMMA RunReportsOk ==
  ASSUME WorkbenchInv, NEW k \in Jobs, RunReports(k) PROVE WorkbenchInv'
<1>0. TypeInv /\ StageOk(k) /\ job[k].type = "MIGRATION" /\ work[k] = "run"
  BY DEF WorkbenchInv, RunReports, Migrating
<1>1. UNCHANGED <<account, enabled, work, executors, asked, broken, cutoff, restarts>>
  BY DEF RunReports, pendingVars, sessionVars
<1>2. CASE Publish(<<Item(k)>>) /\ UNCHANGED job
  <2>1. /\ events' \in Seq(Events) /\ overtaken' \subseteq Jobs
        /\ \A j \in Jobs : Unstarted(j) /\ Visible(j) => Visible(j)'
    BY <1>0, <1>2, RunEvents, PublishOk
  <2>2. TypeInv' /\ AskedOk'
    BY <1>0, <1>1, <1>2, <2>1 DEF TypeInv, AskedOk, WorkbenchInv
  <2> QED BY <1>1, <1>2, <2>1, <2>2, NoJob
<1>3. CASE \E st \in {"RUNNING", "WAITING_SERVER"} : SetJob(k, st, <<>>)
  <2>1. work' = [work EXCEPT ![k] = "run"]
    BY <1>0, <1>1 DEF TypeInv
  <2>2. {"RUNNING", "WAITING_SERVER"} \subseteq States /\ "run" \in Stages
    BY DEF States, Stages
  <2> QED BY <1>0, <1>1, <1>3, <2>1, <2>2, SetJobOk
<1> QED BY <1>2, <1>3 DEF RunReports

LEMMA RunEndsOk ==
  ASSUME WorkbenchInv, NEW k \in Jobs, RunEnds(k) PROVE WorkbenchInv'
<1>0. job[k].type = "MIGRATION" /\ work[k] = "run"
  BY DEF RunEnds, Migrating
<1>1. /\ UNCHANGED <<account, enabled, executors, asked, broken, cutoff, restarts>>
      /\ work' = [work EXCEPT ![k] = "done"]
  BY DEF RunEnds, pendingVars, sessionVars
<1>2. {"ENDED", "PAUSED", "RATE_LIMITED"} \subseteq States /\ "done" \in Stages
  BY DEF States, Stages, Terminal
<1>3. \E st \in {"ENDED", "PAUSED", "RATE_LIMITED"}, more \in {<<>>, <<Item(k)>>} :
        SetJob(k, st, more)
  BY DEF RunEnds
<1> QED BY <1>0, <1>1, <1>2, <1>3, SetJobOk

LEMMA RunBreaksOk ==
  ASSUME WorkbenchInv, NEW k \in Jobs, RunBreaks(k) PROVE WorkbenchInv'
<1>0. TypeInv /\ StageOk(k) /\ work[k] \in {"go", "run"}
  BY DEF WorkbenchInv, RunBreaks, Migrating
<1>1. /\ work' = [work EXCEPT ![k] = "done"] /\ broken' = broken \cup {k}
      /\ UNCHANGED <<rowVars, executors, asked, cutoff, restarts, events, cur, overtaken>>
  BY DEF RunBreaks, pendingVars, pageVars, sessionVars
<1>2. "done" \in Stages /\ events' \in Seq(Events) /\ broken' \subseteq Jobs
  BY <1>0, <1>1 DEF Stages, TypeInv
<1>3. job[k].type = "MIGRATION"
  BY <1>0 DEF StageOk, RunBreaks, Migrating
<1>4. work'[k] = "done" => StageOk(k)'
  BY <1>0, <1>1, <1>3 DEF StageOk, rowVars, NoRow
<1> QED BY <1>0, <1>1, <1>2, <1>4, PageKept, StageMoves DEF rowVars, TypeInv

LEMMA ForgetOk ==
  ASSUME WorkbenchInv, NEW k \in Jobs, Forget(k) PROVE WorkbenchInv'
<1>0. TypeInv /\ StageOk(k) /\ work[k] = "done"
  BY DEF WorkbenchInv, Forget
<1>1. /\ work' = [work EXCEPT ![k] = "none"] /\ executors' = executors \ {k}
      /\ UNCHANGED <<rowVars, asked, broken, cutoff, restarts, events, cur, overtaken>>
  BY DEF Forget, pendingVars, pageVars, sessionVars
<1>2. "none" \in Stages /\ events' \in Seq(Events) /\ executors' \subseteq Jobs
  BY <1>0, <1>1 DEF Stages, TypeInv
<1>3. work'[k] = "none" => StageOk(k)'
  BY <1>0, <1>1 DEF StageOk, IdleOk, Open, Terminal, rowVars
<1> QED BY <1>0, <1>1, <1>2, <1>3, PageKept, StageMoves DEF rowVars, TypeInv

-----------------------------------------------------------------------------
\* Accounts: the transaction of a deletion finds no open job, and clears the
\* account of the others.
LEMMA DeleteAccountOk ==
  ASSUME WorkbenchInv, NEW a \in Accounts, DeleteAccount(a) PROVE WorkbenchInv'
<1>0. TypeInv /\ AskedOk /\ \A j \in Jobs : StageOk(j) /\ KeepsAccount(j)
  BY DEF WorkbenchInv
<1>1. UNCHANGED <<work, executors, asked, broken, cutoff, restarts, events, cur, overtaken>>
  BY DEF DeleteAccount, pageVars, sessionVars
<1>2. AskedOk' /\ \A j \in Jobs : Unstarted(j) /\ Visible(j) => Visible(j)'
  BY <1>0, <1>1, PageKept DEF AskedOk
<1>3. CASE UNCHANGED rowVars
  <2>1. TypeInv'
    BY <1>0, <1>1, <1>3 DEF TypeInv, rowVars
  <2> QED BY <1>1, <1>2, <1>3, <2>1, NoJob DEF rowVars
<1>4. CASE ~UNCHANGED rowVars
  <2>1. /\ ~HasNonterminal(a)
        /\ account' = account \ {a} /\ enabled' = enabled \ {a}
        /\ job' = [j \in Jobs |-> IF job[j].acc = a THEN [job[j] EXCEPT !.acc = None] ELSE job[j]]
    BY <1>4 DEF DeleteAccount
  <2>2. \A j \in Jobs : job[j] \in Row
    BY <1>0 DEF TypeInv
  <2>3. \A j \in Jobs : [job[j] EXCEPT !.acc = None] \in Row
    BY <2>2 DEF Row
  <2>4. TypeInv'
    BY <1>0, <1>1, <2>1, <2>2, <2>3 DEF TypeInv
  <2>5. ASSUME NEW j \in Jobs PROVE StageOk(j)' /\ KeepsAccount(j)'
    <3>1. StageOk(j) /\ KeepsAccount(j) /\ job[j] \in Row
      BY <1>0, <2>2
    <3>2. CASE job[j].acc # a
      <4>1. job'[j] = job[j]
        BY <2>1, <3>2
      <4>2. StageOk(j)'
        BY <1>1, <1>2, <3>1, <4>1, StageKept
      <4>3. KeepsAccount(j)'
        BY <2>1, <3>1, <3>2, <4>1 DEF KeepsAccount, Open, Used
      <4> QED BY <4>2, <4>3
    <3>3. CASE job[j].acc = a
      <4>1. ~Open(j) /\ job[j] # NoRow
        BY <2>1, <3>3, WorkbenchAssumption DEF HasNonterminal, NoRow
      <4>2. job'[j] = [job[j] EXCEPT !.acc = None]
        BY <2>1, <3>3
      <4>3. job'[j].type = job[j].type /\ job'[j].state = job[j].state /\ job'[j].acc = None
        BY <3>1, <4>2 DEF Row
      <4>4. job[j].state \in Terminal /\ job[j].type \in Types
        BY <3>1, <4>1 DEF Open, Used, StageOk
      <4>5. job'[j] # NoRow /\ ~Open(j)'
        BY <4>3, <4>4 DEF NoRow, Types, Open
      <4>6. StageOk(j)'
        BY <1>1, <3>1, <4>1, <4>3, <4>5 DEF StageOk
      <4> QED BY <4>3, <4>5, <4>6 DEF KeepsAccount
    <3> QED BY <3>2, <3>3
  <2> QED BY <1>2, <2>4, <2>5 DEF WorkbenchInv
<1> QED BY <1>3, <1>4

LEMMA AccountStepsOk ==
  ASSUME WorkbenchInv, NEW a \in Accounts,
         AskDelete(a) \/ AskDisable(a) \/ \E on \in BOOLEAN : EnableAccount(a, on)
  PROVE  WorkbenchInv'
<1>1. UNCHANGED <<account, job, work, executors, asked, broken, cutoff, restarts, events, cur, overtaken>>
  BY DEF AskDelete, AskDisable, EnableAccount, rowVars, pageVars, sessionVars
<1>2. TypeInv'
  <2>1. enabled' \subseteq account'
    BY <1>1 DEF AskDelete, AskDisable, EnableAccount, rowVars, WorkbenchInv, TypeInv
  <2> QED BY <1>1, <2>1 DEF WorkbenchInv, TypeInv
<1>3. AskedOk'
  BY <1>1 DEF WorkbenchInv, AskedOk
<1> QED BY <1>1, <1>2, <1>3, PageKept, NoJob

\* Draining: a plan among the events is shown afterwards, or the page has lost it.
LEMMA DrainOk ==
  ASSUME WorkbenchInv, DrainEvents PROVE WorkbenchInv'
<1> DEFINE after == FoldLeft(Shown, cur, events)
<1>1. /\ cur' = after /\ events' = <<>>
      /\ overtaken' = overtaken \cup {j \in Jobs \ {after} : Unstarted(j) /\ Shows(j)}
      /\ UNCHANGED <<rowVars, work, executors, asked, broken, cutoff, restarts>>
  BY DEF DrainEvents, pendingVars, sessionVars
<1> HIDE DEF after
<1>2. \A j \in Jobs : Unstarted(j) /\ Visible(j) => after = j \/ j \in overtaken'
  BY <1>1 DEF Visible
<1>3. \A j \in Jobs : Unstarted(j) /\ Visible(j) => Visible(j)'
  BY <1>1, <1>2 DEF Visible, Shows
<1>4. TypeInv' /\ AskedOk'
  BY <1>1 DEF WorkbenchInv, TypeInv, AskedOk, rowVars
<1> QED BY <1>1, <1>3, <1>4, NoJob DEF rowVars

LEMMA RefreshOk ==
  ASSUME WorkbenchInv, RefreshJobs PROVE WorkbenchInv'
<1>1. UNCHANGED <<rowVars, work, executors, asked, broken, cutoff, restarts, events, cur, overtaken>>
  BY DEF RefreshJobs, pendingVars, sessionVars
<1>2. TypeInv' /\ AskedOk'
  BY <1>1 DEF WorkbenchInv, TypeInv, AskedOk, rowVars
<1> QED BY <1>1, <1>2, PageKept, NoJob DEF rowVars

\* A restart: what ran is paused, and nothing is in flight.
LEMMA RestartOk ==
  ASSUME WorkbenchInv, Restart PROVE WorkbenchInv'
<1>0. TypeInv /\ \A j \in Jobs : StageOk(j) /\ KeepsAccount(j)
  BY DEF WorkbenchInv
<1>1. /\ work' = [j \in Jobs |-> "none"] /\ executors' = {} /\ asked' = {}
      /\ broken' = {}
      /\ cutoff' = cutoff \cup {j \in Jobs : Open(j) /\ (work[j] # "none" \/ j \in broken)}
      /\ overtaken' = overtaken \cup {j \in Jobs : Unstarted(j) /\ Shows(j)}
      /\ events' = <<>> /\ restarts' = restarts + 1 /\ UNCHANGED <<account, enabled>>
  BY DEF Restart
<1>2. PICK waits \in SUBSET {j \in Jobs : job[j].state = "WAITING_SERVER"} :
        job' = Recovered(waits)
  BY DEF Restart
<1>3. restarts' \in Nat
  BY <1>0, <1>1 DEF TypeInv
<1>4. \A j \in Jobs : job[j] \in Row /\ [job[j] EXCEPT !.state = "PAUSED"] \in Row
  <2>1. \A j \in Jobs : job[j] \in Row
    BY <1>0 DEF TypeInv
  <2> QED BY <2>1 DEF Row, States
<1>5. job' \in [Jobs -> Row]
  BY <1>2, <1>4 DEF Recovered
<1>6. TypeInv'
  BY <1>0, <1>1, <1>3, <1>5 DEF TypeInv, Stages
<1>7. AskedOk'
  BY <1>1 DEF AskedOk
<1>8. ASSUME NEW j \in Jobs PROVE StageOk(j)' /\ KeepsAccount(j)'
  <2>1. StageOk(j) /\ KeepsAccount(j) /\ job[j] \in Row /\ work'[j] = "none"
    BY <1>0, <1>1, <1>4
  <2>2. CASE job'[j] = [job[j] EXCEPT !.state = "PAUSED"] /\ job[j].state \in {"RUNNING", "WAITING_SERVER"}
    <3>1. job'[j].type = job[j].type /\ job'[j].state = "PAUSED" /\ job'[j].acc = job[j].acc
      BY <2>1, <2>2 DEF Row
    <3>2. Open(j) /\ job[j].type \in Types
      BY <2>1, <2>2 DEF Open, Used, NoRow, Terminal, StageOk
    <3>3. job'[j] # NoRow
      BY <3>1 DEF NoRow
    <3>4. IdleOk(j)'
      <4>1. job[j].type \in FileJobs \cup {"TARGET_SCAN"} => j \in cutoff'
        <5>1. CASE work[j] = "none"
          BY <1>1, <2>1, <2>2, <3>2, <5>1 DEF StageOk, IdleOk, FileJobs
        <5>2. CASE work[j] # "none"
          BY <1>1, <3>2, <5>2
        <5> QED BY <5>1, <5>2
      <4> QED BY <3>1, <3>2, <4>1 DEF IdleOk, Types, FileJobs
    <3>5. StageOk(j)'
      BY <1>1, <2>1, <3>1, <3>2, <3>3, <3>4 DEF StageOk, States
    <3>6. KeepsAccount(j)'
      BY <1>1, <2>1, <3>1, <3>2 DEF KeepsAccount
    <3> QED BY <3>5, <3>6
  <2>3. CASE job'[j] = job[j] /\ job[j].state # "RUNNING"
    <3>1. Open(j)' => Open(j)
      BY <2>3 DEF Open, Used
    <3>2. Open(j) => job[j].type \in Types /\ job[j].state \in States
      BY <2>1 DEF Open, Used, StageOk
    <3>3. Open(j) => IdleOk(j)'
      <4>1. CASE work[j] = "none"
        <5>1. Unstarted(j) /\ Visible(j) => Visible(j)'
          BY <1>1 DEF Visible
        <5> QED BY <1>1, <2>1, <2>3, <4>1, <5>1 DEF StageOk, IdleOk, Unstarted
      <4>2. CASE work[j] # "none"
        <5>1. work[j] \in {"plan", "prepare", "go", "run", "done"}
          BY <1>0, <4>2 DEF TypeInv, Stages
        <5>2. Open(j) => job[j].type = "MIGRATION" \/ job[j].type = "SCAN"
          BY <2>1, <2>3, <5>1 DEF StageOk
        <5>3. Open(j) /\ job[j].type = "SCAN" => job[j].state \in {"READY", "PAUSED"}
          BY <2>1, <2>3, <5>1 DEF StageOk
        <5>4. Open(j) => j \in cutoff'
          BY <1>1, <4>2
        <5> QED BY <2>3, <3>2, <5>2, <5>3, <5>4 DEF IdleOk, States, Terminal, Open
      <4> QED BY <4>1, <4>2
    <3>4. StageOk(j)'
      BY <1>1, <2>1, <2>3, <3>1, <3>3 DEF StageOk
    <3>5. KeepsAccount(j)'
      BY <1>1, <2>1, <2>3, AccountKept
    <3> QED BY <3>4, <3>5
  <2> QED BY <1>2, <2>2, <2>3 DEF Recovered
<1> QED BY <1>6, <1>7, <1>8 DEF WorkbenchInv

-----------------------------------------------------------------------------
LEMMA InitWorkbench == Init => WorkbenchInv
<1> SUFFICES ASSUME Init PROVE WorkbenchInv
  OBVIOUS
<1>1. PICK a \in Accounts :
        job = [j \in Jobs |-> IF j \in Left THEN [type |-> "MIGRATION", state |-> "PAUSED", acc |-> a]
                              ELSE NoRow]
  BY DEF Init
<1>2. /\ account = Accounts /\ enabled = Accounts /\ work = [j \in Jobs |-> "none"]
      /\ executors = {} /\ asked = {} /\ events = <<>> /\ restarts = 0
      /\ broken = {} /\ cutoff = {} /\ overtaken = {}
  BY DEF Init
<1>3. TypeInv /\ AskedOk
  BY <1>1, <1>2 DEF TypeInv, AskedOk, Row, NoRow, Types, States, Stages
<1>4. \A j \in Jobs : StageOk(j) /\ KeepsAccount(j)
  BY <1>1, <1>2, WorkbenchAssumption
     DEF StageOk, KeepsAccount, IdleOk, Open, Used, NoRow, Types, States
<1> QED BY <1>3, <1>4 DEF WorkbenchInv

LEMMA NextWorkbench == WorkbenchInv /\ [Next]_vars => WorkbenchInv'
<1> SUFFICES ASSUME WorkbenchInv, [Next]_vars PROVE WorkbenchInv'
  OBVIOUS
<1>1. CASE \E a \in Accounts \cup {None} : AskJob(a) \/ \E type \in Types : CreateJob(type, a)
  BY <1>1, AskJobOk, CreateJobOk
<1>2. CASE \E a \in Accounts : Check(a) \/ AskPlan(a) \/ DeleteAccount(a)
  BY <1>2, CheckOk, AskPlanOk, DeleteAccountOk
<1>3. CASE \E a \in Accounts :
             AskDelete(a) \/ AskDisable(a) \/ \E on \in BOOLEAN : EnableAccount(a, on)
  BY <1>3, AccountStepsOk
<1>4. CASE \E j \in Jobs : Planned(j) \/ ScanBegins(j) \/ WorkEnds(j) \/ WorkRaises(j)
  BY <1>4, PlannedOk, ScanBeginsOk, WorkEndsOk, WorkRaisesOk
<1>5. CASE \E j \in Jobs : Start(j) \/ ResumeShown(j) \/ ResumeJob(j)
  BY <1>5, StartOrResumeOk
<1>6. CASE \E j \in Jobs : RunBegins(j) \/ RunReports(j) \/ RunEnds(j) \/ RunBreaks(j) \/ Forget(j)
  BY <1>6, RunBeginsOk, RunReportsOk, RunEndsOk, RunBreaksOk, ForgetOk
<1>7. CASE (\E j \in Jobs : ReportJob(j)) \/ WriteReport
  BY <1>7, ReportOk
<1>8. CASE DrainEvents \/ RefreshJobs \/ Restart
  BY <1>8, DrainOk, RefreshOk, RestartOk
<1>9. CASE UNCHANGED vars
  <2>1. UNCHANGED <<rowVars, work, executors, asked, broken, cutoff, restarts, events, cur, overtaken>>
    BY <1>9 DEF vars, pendingVars, pageVars, sessionVars
  <2>2. TypeInv' /\ AskedOk'
    BY <2>1 DEF WorkbenchInv, TypeInv, AskedOk, rowVars
  <2> QED BY <2>1, <2>2, PageKept, NoJob DEF rowVars
<1> QED BY <1>1, <1>2, <1>3, <1>4, <1>5, <1>6, <1>7, <1>8, <1>9 DEF Next

\* Every row fits what is in flight for it, whatever the commands, workers, runs,
\* the page and a restart do to it.
THEOREM WorkbenchInvCorrect == Spec => []WorkbenchInv
  BY InitWorkbench, NextWorkbench, PTL DEF Spec

\* No unfinished job loses its account, although account.delete tests for such
\* jobs long before its transaction.
THEOREM JobsHaveAccountsCorrect == Spec => []JobsHaveAccounts
<1>1. WorkbenchInv => JobsHaveAccounts
  BY DEF WorkbenchInv, KeepsAccount, JobsHaveAccounts, AccountJobs
<1> QED BY <1>1, WorkbenchInvCorrect, PTL

\* The list of ways in which a job can get stuck is complete.
THEOREM StuckJobsAreKnownCorrect == Spec => []StuckJobsAreKnown
<1>1. WorkbenchInv => StuckJobsAreKnown
  <2> SUFFICES ASSUME WorkbenchInv, NEW j \in Jobs, Open(j), ~HasWayOut(j)
               PROVE  \/ job[j].state \in {"PAUSED", "WAITING_SERVER"}
                            /\ job[j].type \in {"MIGRATION", "SCAN"} /\ j \notin Recent
                      \/ job[j].type \in {"IMPORT", "EXPORT", "TARGET_SCAN"}
                            /\ j \in broken \cup cutoff
                      \/ job[j].type = "MIGRATION" /\ job[j].state = "RATE_LIMITED"
                      \/ job[j].type \in {"MIGRATION", "SCAN"} /\ job[j].state = "RUNNING"
                            /\ j \in broken
                      \/ job[j].type = "SCAN" /\ job[j].state = "READY"
                            /\ j \in broken \cup cutoff
                      \/ job[j].type = "MIGRATION" /\ job[j].state = "READY"
                            /\ j \in broken \cup cutoff \cup overtaken
    BY DEF StuckJobsAreKnown
  <2>1. work[j] = "none"
    BY DEF HasWayOut
  <2>2. IdleOk(j)
    BY <2>1 DEF WorkbenchInv, StageOk
  <2> QED BY <2>1, <2>2 DEF IdleOk, Visible, HasWayOut, FileJobs
<1> QED BY <1>1, WorkbenchInvCorrect, PTL
=============================================================================
