--------------------------- MODULE TargetPlanning ---------------------------
(***************************************************************************)
(* From the KIEM TRA button to a migration plan: the check of the          *)
(* migration page (tms/ui/pages/migration_page.py), the commands it chains *)
(* (resolve_target and precheck_target of tms/runtime/command_handlers.py, *)
(* plan_action of tms/bootstrap.py), the results they share in             *)
(* tms/runtime/state_store.py, the pre-check itself                        *)
(* (tms/migration/precheck.py), the planner (tms/migration/planner.py) and *)
(* the recovery at start-up (tms/migration/recovery.py).                   *)
(*                                                                         *)
(* One click is a chain of tasks on the network loop and on the worker     *)
(* pool.  A task ends by storing its result and publishing an event; the   *)
(* page, on the Qt thread, starts the next task when the event arrives and *)
(* takes what that task needs from the page and from the state store, not  *)
(* from the event.  Nothing but an open warning stops the user from        *)
(* clicking again while a chain is under way, and an open warning runs its *)
(* own event loop, which delivers newer events before the rest of the      *)
(* batch that it interrupts.                                               *)
(*                                                                         *)
(* Abstractions: there is one dataset, of which Valid[a] are the members   *)
(* whose id and access hash account a knows and whom the filter lets pass; *)
(* the participants of a group do not change while it is checked; users    *)
(* with a SUCCESS item for the target are a constant; the accounts stay    *)
(* enabled; progress texts, counters and the stored job id, which nothing  *)
(* reads, are left out.                                                    *)
(***************************************************************************)
EXTENDS Integers, Sequences, FiniteSets

CONSTANTS
  Accounts, NoAccount,
  Groups, NoGroup,
  Users,
  Pages,          \* the participant pages the server has for a group
  PageLimit,      \* the number of participants a request asks for
  BasicChats,     \* the groups of type chat
  Valid,          \* account -> members of the dataset that pass _valid
  Processed,      \* group -> users with a SUCCESS item for it
  MaxReads,       \* ResourceGovernor(max_reads)
  Checks, NoCheck,\* bound: the clicks on the button
  MaxFaults       \* bound: failing requests, failing writes and crashes together

ASSUME PlanningAssumption ==
  /\ NoAccount \notin Accounts /\ NoGroup \notin Groups /\ NoCheck \notin Checks
  /\ Pages \in [Groups -> Seq(SUBSET Users)] /\ PageLimit \in Nat \ {0}
  /\ BasicChats \subseteq Groups
  /\ Valid \in [Accounts -> SUBSET Users]
  /\ Processed \in [Groups -> SUBSET Users]
  /\ MaxReads \in Nat \ {0}
  /\ MaxFaults \in Nat

VARIABLES
  store,      \* StateStore: target_group, target_account_id, precheck
  page,       \* MigrationPage: _checking, _check_account, current_job_id
  chain,      \* check -> the task the check has reached, with its arguments
  events,     \* the events that have not reached the page yet
  dialog,     \* a QMessageBox is open
  slots,      \* read slots in use
  peers,      \* peer_cache: the groups whose access hash an account holds
  scanJob,    \* check -> state of its TARGET_SCAN job
  plan,       \* check -> its MIGRATION job with its items
  app,        \* "up" or "down"
  overlapped, \* history: a check was started while another was under way
  errors, failures, crashes

uiVars    == <<page, dialog>>
dbVars    == <<peers, scanJob, plan>>
boundVars == <<overlapped, errors, failures, crashes>>
vars == <<store, uiVars, chain, events, slots, dbVars, app, boundVars>>

NoResult == [of |-> NoGroup, ids |-> {}, coverage |-> "none"]
NoPlan   == [state |-> "none", account |-> NoAccount, group |-> NoGroup,
             action |-> "none", known |-> FALSE, items |-> {}]
NoTask   == [step |-> "idle", account |-> NoAccount, group |-> NoGroup, at |-> 1,
             pre |-> NoResult, action |-> "none"]
NoStore  == [target |-> NoGroup, account |-> NoAccount, precheck |-> NoResult]
NoPage   == [checking |-> FALSE, account |-> NoAccount, job |-> NoCheck]

\* iter_participant_pages asks for no more after a page that is shorter than it
\* asked for, and only once for a basic chat.
Final(g, i) == g \in BasicChats \/ Cardinality(Pages[g][i]) < PageLimit

\* Its requests; the one behind the last page is answered with nobody.
Asked(g) == {i \in 1..(Len(Pages[g]) + 1) : \A j \in 1..(i - 1) : ~Final(g, j)}

\* Everyone it lists: the whole group, unless a page before the last is short.
Listed(g) == UNION {Pages[g][i] : i \in Asked(g) \ {Len(Pages[g]) + 1}}

-----------------------------------------------------------------------------
(* Steps of a chain.                                                       *)

At(c, step) == app = "up" /\ chain[c].step = step

Goto(c, step) == chain' = [chain EXCEPT ![c].step = step]

\* The task publishes an event for the page, see DropEvent.
Publish(c, step) == Goto(c, step) /\ events' = Append(events, c)

RemoveAt(s, i) == SubSeq(s, 1, i - 1) \o SubSeq(s, i + 1, Len(s))

\* A Telegram request, or a database write, fails.
Faulty  == errors + failures + crashes < MaxFaults
Error   == Faulty /\ errors' = errors + 1
           /\ UNCHANGED <<overlapped, failures, crashes>>
Failure == Faulty /\ failures' = failures + 1
           /\ UNCHANGED <<overlapped, errors, crashes>>

\* Something of the check is still to come.
UnderWay(c) == chain[c].step \notin {"idle", "done", "lost"}

\* The button: what the page remembers, and resolve_target.
Check(c, a, g) ==
  /\ At(c, "idle") /\ ~dialog
  /\ overlapped' = (overlapped \/ \E d \in Checks : UnderWay(d))
  /\ page' = [checking |-> TRUE, account |-> a, job |-> NoCheck]
  /\ chain' = [chain EXCEPT ![c] = [NoTask EXCEPT !.step = "resolve", !.account = a,
                                                  !.group = g]]
  /\ UNCHANGED <<store, dialog, events, slots, dbVars, app, errors, failures, crashes>>

\* PeerCache.put: the access hash of group g, for account a only.
Put(a, g) == peers' = peers \cup {<<a, g>>}

\* resolve_group finds the group and caches its access hash.
ResolveGroup(c) ==
  /\ At(c, "resolve")
  /\ Put(chain[c].account, chain[c].group)
  /\ Goto(c, "upsert")
  /\ UNCHANGED <<store, uiVars, events, slots, scanJob, plan, app, boundVars>>

\* The row of the group is written, done() stores the target.
Resolved(c) ==
  /\ At(c, "upsert")
  /\ store' = [target |-> chain[c].group, account |-> chain[c].account,
               precheck |-> NoResult]
  /\ Publish(c, "resolved")
  /\ UNCHANGED <<uiVars, slots, dbVars, app, boundVars>>

ResolveFails(c) ==
  /\ At(c, "resolve")
  /\ Error
  /\ Publish(c, "failed")
  /\ UNCHANGED <<store, uiVars, slots, dbVars, app>>

\* The Qt timer hands an event to the page: the oldest one, unless the event loop of
\* a dialog is running.
Deliver(c) ==
  \E i \in 1..Len(events) :
    /\ events[i] = c
    /\ i = 1 \/ dialog
    /\ events' = RemoveAt(events, i)

\* The page does nothing more for c, with or without a warning.
Refuse(c, warns) == Goto(c, "done") /\ dialog' = (dialog \/ warns)

\* CommandFailed, whichever task it comes from.
OnFailed(c) ==
  /\ At(c, "failed") /\ Deliver(c)
  /\ Refuse(c, TRUE)
  /\ UNCHANGED <<store, page, slots, dbVars, app, boundVars>>

\* The queue keeps max_recent events of all commands: when others fill it between
\* two ticks of the timer, the oldest is gone, and with it the rest of its check.
\* The page goes on waiting for it.
DropEvent(c) ==
  /\ app = "up" /\ Failure
  /\ events # <<>> /\ Head(events) = c
  /\ chain[c].step \in {"resolved", "checked", "ready", "failed"}
  /\ events' = Tail(events)
  /\ Goto(c, "lost")
  /\ UNCHANGED <<store, uiVars, slots, dbVars, app>>

CloseDialog ==
  /\ dialog
  /\ dialog' = FALSE
  /\ UNCHANGED <<store, page, chain, events, slots, dbVars, app, boundVars>>

\* TargetGroupResolved: precheck_target takes the target from the store.
OnResolved(c) ==
  /\ At(c, "resolved") /\ Deliver(c)
  /\ IF page.checking /\ store.target # NoGroup /\ store.account = page.account
       THEN chain' = [chain EXCEPT ![c] = [NoTask EXCEPT !.step = "prepare",
                                             !.account = page.account,
                                             !.group = store.target]]
            /\ UNCHANGED dialog
       ELSE Refuse(c, page.checking)
  /\ UNCHANGED <<store, page, slots, dbVars, app, boundVars>>

\* prepare() on a worker creates the job.
Prepare(c) ==
  /\ At(c, "prepare")
  /\ scanJob' = [scanJob EXCEPT ![c] = "RUNNING"]
  /\ Goto(c, "start")
  /\ UNCHANGED <<store, uiVars, events, slots, peers, plan, app, boundVars>>

\* The first write of operation(), outside its try statement.
Start(c) ==
  /\ At(c, "start")
  /\ Goto(c, "slot")
  /\ UNCHANGED <<store, uiVars, events, slots, dbVars, app, boundVars>>

\* async with governor.read_slot().
AcquireSlot(c) ==
  /\ At(c, "slot") /\ slots < MaxReads
  /\ slots' = slots + 1
  /\ chain' = [chain EXCEPT ![c].step = "read",
                            ![c].pre = [of |-> chain[c].group, ids |-> {},
                                        coverage |-> "reading"]]
  /\ UNCHANGED <<store, uiVars, events, dbVars, app, boundVars>>

ReadPage(c) ==
  /\ At(c, "read") /\ chain[c].at \in Asked(chain[c].group)
  /\ chain[c].at <= Len(Pages[chain[c].group])
  /\ chain' = [chain EXCEPT
       ![c].pre.ids = @ \cup Pages[chain[c].group][chain[c].at],
       ![c].at = @ + 1]
  /\ UNCHANGED <<store, uiVars, events, slots, dbVars, app, boundVars>>

\* The answer is empty, or the page before was the last to be asked for.
ReadEnds(c) ==
  LET g == chain[c].group IN
  /\ At(c, "read") /\ chain[c].at \notin Asked(g) \ {Len(Pages[g]) + 1}
  /\ slots' = slots - 1
  /\ chain' = [chain EXCEPT ![c].step = "settle", ![c].pre.coverage = "COMPLETE"]
  /\ UNCHANGED <<store, uiVars, events, dbVars, app, boundVars>>

\* Slips: an interrupted read counts as complete; it keeps its slot.
ReadFailsComplete(c) ==
  /\ At(c, "read") /\ chain[c].at \in Asked(chain[c].group) /\ Error
  /\ slots' = slots - 1
  /\ chain' = [chain EXCEPT ![c].step = "settle", ![c].pre.coverage = "COMPLETE"]
  /\ UNCHANGED <<store, uiVars, events, dbVars, app>>
ReadFailsLeaks(c) ==
  /\ At(c, "read") /\ chain[c].at \in Asked(chain[c].group) /\ Error
  /\ chain' = [chain EXCEPT ![c].step = "settle", ![c].pre.coverage = "PARTIAL"]
  /\ UNCHANGED <<store, uiVars, events, slots, dbVars, app>>

\* A request fails.  TargetPrecheck.run never raises: it reports what it has.
ReadFails(c) ==
  /\ At(c, "read") /\ chain[c].at \in Asked(chain[c].group) /\ Error
  /\ slots' = slots - 1
  /\ chain' = [chain EXCEPT
       ![c].step = "settle",
       ![c].pre.coverage = IF chain[c].pre.ids = {} THEN "UNAVAILABLE" ELSE "PARTIAL"]
  /\ UNCHANGED <<store, uiVars, events, dbVars, app>>

Settle(c) ==
  /\ At(c, "settle")
  /\ scanJob' = [scanJob EXCEPT ![c] = "COMPLETED"]
  /\ Goto(c, "log")
  /\ UNCHANGED <<store, uiVars, events, slots, peers, plan, app, boundVars>>

\* The last write of operation(), then done(): whatever the store holds by now.
Checked(c) ==
  /\ At(c, "log")
  /\ store' = [store EXCEPT !.precheck = chain[c].pre]
  /\ Publish(c, "checked")
  /\ UNCHANGED <<uiVars, slots, dbVars, app, boundVars>>

\* The except branch of operation().
MarkFailed(c) ==
  /\ At(c, "failing")
  /\ scanJob' = [scanJob EXCEPT ![c] = "FAILED"]
  /\ Publish(c, "failed")
  /\ UNCHANGED <<store, uiVars, slots, peers, plan, app, boundVars>>

\* Slip: plan_action does not compare the accounts.
OnCheckedAnyAccount(c) ==
  /\ At(c, "checked") /\ Deliver(c)
  /\ \E action \in {"INVITE", "REMOVE"} :
       IF page.checking /\ store.target # NoGroup /\ store.precheck # NoResult
         THEN chain' = [chain EXCEPT ![c] = [NoTask EXCEPT !.step = "plan",
                          !.account = page.account, !.group = store.target,
                          !.pre = store.precheck, !.action = action]]
              /\ UNCHANGED dialog
         ELSE Refuse(c, page.checking)
  /\ UNCHANGED <<store, page, slots, dbVars, app, boundVars>>

\* TargetPrecheckCompleted: plan_action takes target and pre-check from the store
\* and the action from the combo box.
OnChecked(c) ==
  /\ At(c, "checked") /\ Deliver(c)
  /\ \E action \in {"INVITE", "REMOVE"} :
       IF /\ page.checking
          /\ store.target # NoGroup /\ store.precheck # NoResult
          /\ store.account = page.account
          /\ ~(action = "INVITE" /\ store.target \in BasicChats)
         THEN chain' = [chain EXCEPT ![c] = [NoTask EXCEPT !.step = "plan",
                          !.account = page.account, !.group = store.target,
                          !.pre = store.precheck, !.action = action]]
              /\ UNCHANGED dialog
         ELSE Refuse(c, page.checking)
  /\ UNCHANGED <<store, page, slots, dbVars, app, boundVars>>

-----------------------------------------------------------------------------
(* The planner.                                                            *)

\* processed_user_ids_for_target.
ProcessedUserIds(g) == Processed[g]

\* The rows that create_plan and create_remove_plan keep.
Items(t) ==
  IF t.action = "INVITE"
    THEN (Valid[t.account] \ ProcessedUserIds(t.group)) \ t.pre.ids
    ELSE Valid[t.account] \cap t.pre.ids

\* create() of _persist; create_remove_plan refuses an unavailable pre-check.
CreateJob(c) ==
  LET t == chain[c] IN
  /\ At(c, "plan")
  /\ IF t.action = "REMOVE" /\ t.pre.coverage = "UNAVAILABLE"
       THEN Publish(c, "failed") /\ UNCHANGED plan
       ELSE /\ plan' = [plan EXCEPT ![c] = [NoPlan EXCEPT
                          !.state = "READY", !.account = t.account, !.group = t.group]]
            /\ Goto(c, "items")
            /\ UNCHANGED events
  /\ UNCHANGED <<store, uiVars, slots, peers, scanJob, app, boundVars>>

\* Slip: the plan is announced before its action is written.
AddItemsAnnounces(c) ==
  /\ At(c, "items")
  /\ plan' = [plan EXCEPT ![c].items = Items(chain[c]),
                          ![c].known = TRUE]
  /\ Publish(c, "ready")
  /\ UNCHANGED <<store, uiVars, slots, peers, scanJob, app, boundVars>>

\* Slip: whoever a partial read did not show counts as absent.
AddItemsPartialIsKnown(c) ==
  LET t == chain[c] IN
  /\ At(c, "items")
  /\ plan' = [plan EXCEPT
       ![c].items = Items(t),
       ![c].known = (t.action = "REMOVE" \/ t.pre.coverage # "UNAVAILABLE")]
  /\ Goto(c, "action")
  /\ UNCHANGED <<store, uiVars, events, slots, peers, scanJob, app, boundVars>>

\* submit_add_items, with the target state of the items: KNOWN_ABSENT or unknown.
AddItems(c) ==
  LET t == chain[c] IN
  /\ At(c, "items")
  /\ plan' = [plan EXCEPT
       ![c].items = Items(t),
       ![c].known = (t.action = "REMOVE" \/ t.pre.coverage = "COMPLETE")]
  /\ Goto(c, "action")
  /\ UNCHANGED <<store, uiVars, events, slots, peers, scanJob, app, boundVars>>

\* submit_checkpoint with the action, then done() of plan_action.
WriteAction(c) ==
  /\ At(c, "action")
  /\ plan' = [plan EXCEPT ![c].action = chain[c].action]
  /\ Publish(c, "ready")
  /\ UNCHANGED <<store, uiVars, slots, peers, scanJob, app, boundVars>>

\* MigrationPlanReady: the check is over, the buttons act on this job.
OnReady(c) ==
  /\ At(c, "ready") /\ Deliver(c)
  /\ page' = [page EXCEPT !.checking = FALSE, !.job = c]
  /\ Goto(c, "done")
  /\ UNCHANGED <<store, dialog, slots, dbVars, app, boundVars>>

\* A write fails where the chain waits for it: inside the try of operation() the
\* job is marked, everywhere else only CommandFailed is published.
WriteFails(c) ==
  /\ app = "up" /\ Failure
  /\ \/ /\ chain[c].step \in {"settle", "log"}
        /\ Goto(c, "failing")
        /\ UNCHANGED events
     \/ /\ chain[c].step \in {"resolve", "upsert", "prepare", "start", "failing", "plan",
                              "items", "action"}
        /\ Publish(c, "failed")
  /\ UNCHANGED <<store, uiVars, slots, dbVars, app>>

-----------------------------------------------------------------------------
(* The process ends, by a crash or with the window, and starts again.      *)

Crash ==
  /\ app = "up" /\ Faulty
  /\ app' = "down"
  /\ crashes' = crashes + 1
  /\ store' = NoStore /\ page' = NoPage /\ dialog' = FALSE /\ events' = <<>> /\ slots' = 0
  /\ chain' = [c \in Checks |->
                 IF chain[c].step = "idle" THEN NoTask ELSE [NoTask EXCEPT !.step = "done"]]
  /\ UNCHANGED <<dbVars, overlapped, errors, failures>>

\* normalize_after_restart: what ran is PAUSED.
Restart ==
  /\ app = "down"
  /\ app' = "up"
  /\ scanJob' = [c \in Checks |-> IF scanJob[c] = "RUNNING" THEN "PAUSED" ELSE scanJob[c]]
  /\ UNCHANGED <<store, uiVars, chain, events, slots, peers, plan, boundVars>>

-----------------------------------------------------------------------------
Init ==
  /\ store = NoStore /\ page = NoPage /\ dialog = FALSE
  /\ chain = [c \in Checks |-> NoTask]
  /\ events = <<>> /\ slots = 0
  /\ peers = {}
  /\ scanJob = [c \in Checks |-> "none"]
  /\ plan = [c \in Checks |-> NoPlan]
  /\ app = "up"
  /\ overlapped = FALSE /\ errors = 0 /\ failures = 0 /\ crashes = 0

\* The steps of check c that happen by themselves.
ChainStep(c) ==
  \/ ResolveGroup(c) \/ Resolved(c) \/ OnResolved(c) \/ Prepare(c) \/ Start(c) \/ AcquireSlot(c)
  \/ ReadPage(c) \/ ReadEnds(c) \/ Settle(c) \/ Checked(c) \/ MarkFailed(c)
  \/ OnFailed(c) \/ OnChecked(c) \/ CreateJob(c) \/ AddItems(c) \/ WriteAction(c) \/ OnReady(c)

Next ==
  \/ \E c \in Checks :
       \/ \E a \in Accounts, g \in Groups : Check(c, a, g)
       \/ ChainStep(c)
       \/ ResolveFails(c) \/ ReadFails(c) \/ WriteFails(c) \/ DropEvent(c)
  \/ CloseDialog \/ Crash \/ Restart

Spec == Init /\ [][Next]_vars

\* Requests are answered, the writer, the workers and the Qt timer run; the
\* semaphore of the read slots is FIFO, so that a waiter gets one in the end.
FairSpec ==
  Spec /\ \A c \in Checks : WF_vars(ChainStep(c)) /\ SF_vars(AcquireSlot(c))

-----------------------------------------------------------------------------
Steps == {"idle", "resolve", "upsert", "resolved", "prepare", "start", "slot", "read",
          "settle", "log", "checked", "failing", "plan", "items", "action", "ready", "failed",
          "done", "lost"}

Coverages == {"reading", "COMPLETE", "PARTIAL", "UNAVAILABLE"}

Results == [of : Groups, ids : SUBSET Users, coverage : Coverages] \cup {NoResult}

\* Types of the state store, the page, the chains and the rows; a step that names a
\* group or an account has one, and the slots in use are within the semaphore.
TypeOK ==
  /\ store \in [target : Groups \cup {NoGroup}, account : Accounts \cup {NoAccount},
                precheck : Results]
  /\ page \in [checking : BOOLEAN, account : Accounts \cup {NoAccount},
               job : Checks \cup {NoCheck}]
  /\ chain \in [Checks -> [step : Steps, account : Accounts \cup {NoAccount},
                           group : Groups \cup {NoGroup}, at : Nat \ {0}, pre : Results,
                           action : {"none", "INVITE", "REMOVE"}]]
  /\ events \in Seq(Checks) /\ dialog \in BOOLEAN
  /\ slots \in 0..MaxReads
  /\ peers \subseteq Accounts \X Groups
  /\ scanJob \in [Checks -> {"none", "RUNNING", "COMPLETED", "FAILED", "PAUSED"}]
  /\ plan \in [Checks -> [state : {"none", "READY"}, account : Accounts \cup {NoAccount},
                          group : Groups \cup {NoGroup},
                          action : {"none", "INVITE", "REMOVE"}, known : BOOLEAN,
                          items : SUBSET Users]]
  /\ app \in {"up", "down"} /\ overlapped \in BOOLEAN
  /\ {errors, failures, crashes} \subseteq 0..MaxFaults

\* TargetPrecheck.run claims no more than it read: COMPLETE means that everybody
\* whom the gateway lists for the group that was read is in target_ids,
\* UNAVAILABLE that nobody is, in the task, in the state store and in the plan
\* made from it.
HonestResult(r) ==
  /\ r.coverage = "COMPLETE" => r.ids = Listed(r.of)
  /\ r.coverage \in {"PARTIAL", "UNAVAILABLE"} => r.ids \subseteq Listed(r.of)
  /\ r.coverage = "UNAVAILABLE" => r.ids = {}
CoverageIsHonest ==
  /\ HonestResult(store.precheck)
  /\ \A c \in Checks : HonestResult(chain[c].pre)

\* However the clicks, tasks and events of several checks interleave, a migration
\* job pairs a target with an account that resolved it: the executor finds the
\* access hash of the group in the peer cache of the job's account.
PlanIsAddressable ==
  \A c \in Checks : plan[c].state # "none" => <<plan[c].account, plan[c].group>> \in peers

\* The job that the buttons of the page act on is whole: its items and its action
\* are in the database, whatever failed or crashed on the way, and a basic chat
\* never gets an INVITE plan.
ShownPlanIsWhole ==
  page.job # NoCheck =>
    LET p == plan[page.job] IN
    /\ p.state = "READY" /\ p.action # "none"
    /\ p.items \subseteq Valid[p.account]
    /\ p.action = "INVITE" => p.group \notin BasicChats /\ p.items \cap Processed[p.group] = {}

\* A plan is made from what was read of its own target: nobody of a complete
\* INVITE plan was listed, and a REMOVE plan names only participants.
PlanMatchesTarget ==
  \A c \in Checks :
    LET p == plan[c] IN
    /\ p.action = "INVITE" /\ p.known => p.items \cap Listed(p.group) = {}
    /\ p.action = "REMOVE" => p.items \subseteq Listed(p.group)

\* ... which is so as long as no check is started before the one before it has ended,
\* whatever fails and wherever the process crashes: neither the state store nor the
\* page carries anything from one check into the next.
UndisturbedPlanMatches == ~overlapped => PlanMatchesTarget

\* Every check ends: in a plan on the page, in an error message, in the page's
\* refusal, or because its event was pushed out of the full queue, also when the
\* checks share one read slot and reads fail.
EveryCheckEnds ==
  \A c \in Checks : chain[c].step # "idle" ~> chain[c].step \in {"done", "lost"}
=============================================================================
