----------------------------- MODULE SourceAccess -----------------------------
(***************************************************************************)
(* How an account gets hold of a group and what it then asks Telegram with *)
(* it: resolving a reference, listing the joined groups, choosing the      *)
(* source on the page, scanning and resuming a scan, and the two utilities *)
(* that join and leave (tms/telegram/telethon_gateway.py, peer_cache.py,   *)
(* tms/groups, tms/utilities/group_membership.py, the commands source.*    *)
(* and utility.*, SourcePage and ToolsPage).                               *)
(*                                                                         *)
(* A channel can only be addressed with an access hash, and Telegram gives *)
(* every account another one.  A hash is modelled by the account that it   *)
(* was given to.  The hash travels in GroupContext objects through the     *)
(* store, the page and the coroutines, and rests in peer_cache.            *)
(*                                                                         *)
(* Join and leave share the account's mutation lock, an asyncio.Lock, with *)
(* the migrations of that account: a run takes it once and holds it until  *)
(* it is over, over every invite and over waits that the server asks for,  *)
(* however often and long.                                                 *)
(*                                                                         *)
(* Abstractions: a reference names one group; what a scan reads is module  *)
(* ParticipantScanner; PeerCache's dictionary is never read by the program *)
(* and left out; the rows of groups that one listing writes are written at *)
(* once.  Scans also write peer_cache rows of the users they meet, in the  *)
(* same table and under the same key of account and id: a user whose id is *)
(* that of a channel would overwrite the channel's row, which is not       *)
(* modelled: ids of users and groups are taken to be different.            *)
(***************************************************************************)
EXTENDS Integers, Sequences, FiniteSets

CONSTANTS
  Accounts, Groups, NoAccount,
  Chats,        \* groups of type Chat: addressed without an access hash
  Private,      \* groups whose reference is an invite link
  Migrating,    \* accounts with a migration job, which may run again and again
  Joined,       \* the groups each account is in at the start
  Left,         \* scans paused in an earlier session: account and group
  Slots,        \* bound: commands in progress, natural numbers
  MaxAsked,     \* bound: commands
  MaxDisabled,  \* bound: how often accounts are disabled
  MaxRestarts   \* bound: restarts of the program

ASSUME AccessAssumption ==
  /\ NoAccount \notin Accounts
  /\ Chats \subseteq Groups /\ Private \subseteq Groups /\ Migrating \subseteq Accounts
  /\ Joined \in [Accounts -> SUBSET Groups] /\ Left \subseteq Accounts \X Groups
  /\ Slots \subseteq Nat \ {0} /\ {MaxAsked, MaxDisabled, MaxRestarts} \subseteq Nat

VARIABLES
  member,     \* Telegram's: the groups each account is in
  enabled,    \* accounts with enabled = 1
  disabling,  \* account.enable(False) between its test and its write
  peer,       \* peer_cache: whose hash the row of an account and a group holds
  known,      \* rows of groups
  paused,     \* paused scan jobs: account and group
  source,     \* StateStore: source_group with source_account_id
  page,       \* SourcePage: offered and selected account, joined_groups and whose
  events,     \* on their way to the page
  task,       \* coroutines of the network loop
  queue,      \* mutation_lock of an account: the holder and the waiters
  asked, disabled, restarts   \* counters for the bounds

dbVars   == <<enabled, peer, known, paused>>
uiVars   == <<source, page, events>>
counters == <<asked, disabled, restarts>>
vars == <<member, disabling, dbVars, uiVars, task, queue, counters>>

Mutation == 0                   \* a run of the migration, in a queue
Context  == [g : Groups, hash : Accounts \cup {NoAccount}]

\* What Telegram gives account a for g (external), in _group_context.
ContextOf(a, g) == [g |-> g, hash |-> IF g \in Chats THEN NoAccount ELSE a]

NoTask == [kind |-> "none", acc |-> NoAccount, pc |-> "none", ctx |-> {}, g |-> {}]
NoSource == [acc |-> NoAccount, ctx |-> {}]
NoPage(on) == [shown |-> on, acc |-> NoAccount, list |-> {}, of |-> NoAccount]

Utilities == {"join", "leave"}
Scans     == {"scan", "resume"}
PCs == {"none", "lock", "enter", "join", "client", "ask", "persist", "upsert", "done",
        "prepare", "running", "read", "back", "leave"}

Init ==
  /\ member = Joined
  /\ enabled = Accounts /\ disabling = {}
  /\ peer = [p \in Accounts \X Groups |->
               IF p \in Left THEN ContextOf(p[1], p[2]).hash ELSE NoAccount]
  /\ known = {p[2] : p \in Left} /\ paused = Left
  /\ source = NoSource /\ events = <<>>
  /\ \E a \in Accounts : page = [NoPage(Accounts) EXCEPT !.acc = a]
  /\ task = [t \in Slots |-> NoTask]
  /\ queue = [a \in Accounts |-> <<>>]
  /\ asked = 0 /\ disabled = 0 /\ restarts = 0

-----------------------------------------------------------------------------
(* Commands.  A handler raises, and nothing happens, unless                *)
(* _require_enabled_account lets it pass.                                  *)

\* asyncio.Lock: who cannot have it waits in line.
Waits(t, a) == queue' = [queue EXCEPT ![a] = Append(@, t)]

Submit(kind, a, g, ctx, pc) ==
  /\ asked < MaxAsked /\ asked' = asked + 1
  /\ a \in enabled
  /\ \E t \in Slots :
       /\ task[t] = NoTask /\ \A s \in Slots : task[s] = NoTask => t <= s
       /\ task' = [task EXCEPT ![t] =
                     [kind |-> kind, acc |-> a, pc |-> pc, ctx |-> ctx, g |-> g]]
       /\ IF pc = "lock" THEN Waits(t, a) ELSE UNCHANGED queue
  /\ UNCHANGED <<member, disabling, dbVars, uiVars, disabled, restarts>>

\* SourcePage._resolve and _load_joined, with the account selected there.
ResolveSource(g) == Submit("resolve", page.acc, {g}, {}, "client")
JoinedGroups     == Submit("joined", page.acc, {}, {}, "client")

\* ToolsPage, with an account of its own box.
JoinGroup(a, g)  == Submit("join", a, {g}, {}, "lock")
LeaveGroup(a, g) == Submit("leave", a, {g}, {}, "client")
UseTool(a, g)    == JoinGroup(a, g) \/ LeaveGroup(a, g)

\* StateStore.snapshot, as far as it is about the source.
Snapshot == source

\* scan_source: the stored group, if it is the selected account's.
ScanSource ==
  LET snap == Snapshot IN
  /\ snap # NoSource /\ snap.acc = page.acc
  /\ Submit("scan", page.acc, {c.g : c \in snap.ctx}, snap.ctx, "prepare")

\* GroupRepository.get: groups LEFT JOIN the account's row of peer_cache.
GroupOf(g, a) == [g |-> g, hash |-> peer[a, g]]

ResumeScan(a, g) ==
  /\ <<a, g>> \in paused /\ g \in known
  /\ Submit("resume", a, {g}, {GroupOf(g, a)}, "running")

\* StateStore.update(source_group, source_account_id).
StoreSource(a, ctx) == source' = [acc |-> a, ctx |-> ctx]

\* source.select_group believes what the page says.
SelectSourceGroup(a, c) == StoreSource(a, {c})

\* Slip: the list may be another account's.
SelectJoinedUnchecked(c) ==
  /\ page.acc # NoAccount /\ c \in page.list
  /\ SelectSourceGroup(page.acc, c)
  /\ UNCHANGED <<member, disabling, dbVars, page, events, task, queue, counters>>

\* The page's _select_joined.
SelectJoined(c) ==
  /\ page.acc # NoAccount /\ c \in page.list
  /\ page.of = page.acc
  /\ SelectSourceGroup(page.acc, c)
  /\ UNCHANGED <<member, disabling, dbVars, page, events, task, queue, counters>>

-----------------------------------------------------------------------------
(* The page.                                                               *)

SelectAccount(a) ==
  /\ a \in page.shown /\ a # page.acc
  /\ page' = [page EXCEPT !.acc = a]
  /\ UNCHANGED <<member, disabling, dbVars, source, events, task, queue, counters>>

\* refresh_accounts fills the box again: the selection stays if it is still
\* offered, else the box shows another account by itself.
RefreshAccounts ==
  \E a \in enabled \cup {NoAccount} :
    /\ page.acc \in enabled => a = page.acc
    /\ a = NoAccount => enabled = {}
    /\ page' = [page EXCEPT !.shown = enabled, !.acc = a]

HandleEvent ==
  /\ events # <<>> /\ events' = Tail(events)
  /\ LET e == Head(events) IN
     \/ /\ e.name = "JoinedGroupsLoaded"
        /\ page' = [page EXCEPT !.list = e.list, !.of = e.acc]
     \/ e.name = "AccountsChanged" /\ RefreshAccounts
  /\ UNCHANGED <<member, disabling, dbVars, source, task, queue, counters>>

\* account.enable.  A migration or an unfinished scan forbids to disable, when
\* it is tested.
HasWork(a) ==
  \/ a \in Migrating \/ \E g \in Groups : <<a, g>> \in paused
  \/ \E t \in Slots : task[t].kind \in Scans /\ task[t].acc = a /\ task[t].pc # "prepare"

AskDisable(a) ==
  /\ a \in enabled \ disabling /\ ~HasWork(a)
  /\ disabled < MaxDisabled /\ disabled' = disabled + 1
  /\ disabling' = disabling \cup {a}
  /\ UNCHANGED <<member, dbVars, uiVars, task, queue, asked, restarts>>

WriteEnabled(a) ==
  /\ \/ a \in disabling /\ enabled' = enabled \ {a} /\ disabling' = disabling \ {a}
     \/ a \notin enabled /\ enabled' = enabled \cup {a} /\ UNCHANGED disabling
  /\ events' = Append(events, [name |-> "AccountsChanged", acc |-> a, list |-> {}])
  /\ UNCHANGED <<member, peer, known, paused, source, page, task, queue, counters>>

-----------------------------------------------------------------------------
(* Coroutines.                                                             *)

Goes(t, pc) == task' = [task EXCEPT ![t].pc = pc]

\* The next waiter has the lock as soon as it is released.
Released(q) == Tail(q)

\* The coroutine returns or raises; async with gives the lock back.
Ends(t) ==
  /\ task' = [task EXCEPT ![t] = NoTask]
  /\ LET a == task[t].acc IN
     IF queue[a] # <<>> /\ Head(queue[a]) = t
     THEN queue' = [queue EXCEPT ![a] = Released(@)] ELSE UNCHANGED queue

\* async with mutation_lock(account_id) is entered.
Enter(t) ==
  /\ task[t].pc = "lock" /\ Head(queue[task[t].acc]) = t
  /\ Goes(t, IF task[t].kind = "join" THEN "enter" ELSE "back")
  /\ UNCHANGED <<member, dbVars, uiVars, queue>>

\* Slip: acquire and release without a finally; what raises keeps the lock.
ClientRaisesHolding(t) ==
  /\ task[t].pc \in {"enter", "client", "back"}
  /\ \/ /\ task[t].acc \in enabled
        /\ Goes(t, CASE task[t].pc = "enter" -> "join" [] task[t].pc = "back" -> "leave"
                     [] task[t].kind \in Scans -> "read" [] OTHER -> "ask")
     \/ task' = [task EXCEPT ![t] = NoTask]
  /\ UNCHANGED <<member, dbVars, uiVars, queue>>

\* _client: a disabled account raises; or the client connects or raises.
Client(t) ==
  /\ task[t].pc \in {"enter", "client", "back"}
  /\ \/ /\ task[t].acc \in enabled
        /\ Goes(t, CASE task[t].pc = "enter" -> "join" [] task[t].pc = "back" -> "leave"
                     [] task[t].kind \in Scans -> "read" [] OTHER -> "ask")
        /\ UNCHANGED queue
     \/ Ends(t)
  /\ UNCHANGED <<member, dbVars, uiVars>>

\* invite_hash: a link to a private group is resolved for members only.
Resolvable(a, g) == g \in Private => g \in member[a]

\* resolve_group's request, answered or not.
ResolveGroup(t) ==
  LET a == task[t].acc  found == {g \in task[t].g : Resolvable(a, g)} IN
  /\ task[t].kind # "joined" /\ found # {}
  /\ task' = [task EXCEPT ![t].ctx = {ContextOf(a, g) : g \in found}, ![t].pc = "persist"]
  /\ UNCHANGED queue

\* get_joined_groups: all of them, and nothing to persist when there is none.
GetJoinedGroups(t) ==
  LET a == task[t].acc IN
  /\ task[t].kind = "joined"
  /\ task' = [task EXCEPT ![t].ctx = {ContextOf(a, g) : g \in member[a]},
                          ![t].pc = IF member[a] = {} THEN "done" ELSE "persist"]
  /\ UNCHANGED queue

Ask(t) ==
  /\ task[t].pc = "ask"
  /\ ResolveGroup(t) \/ GetJoinedGroups(t) \/ Ends(t)
  /\ UNCHANGED <<member, dbVars, uiVars>>

\* Slip: the access hash is not written.
PersistNothing(t) ==
  /\ task[t].pc = "persist"
  /\ IF task[t].kind = "join" THEN Ends(t) ELSE Goes(t, "upsert") /\ UNCHANGED queue
  /\ UNCHANGED <<member, dbVars, uiVars>>

\* submit_persist_many: ON CONFLICT DO UPDATE.
PersistMany(a, ctx) ==
  peer' = [p \in DOMAIN peer |->
             IF p[1] = a /\ \E c \in ctx : c.g = p[2]
             THEN (CHOOSE c \in ctx : c.g = p[2]).hash ELSE peer[p]]

\* PeerCache.put or submit_persist_many, awaited.
Persist(t) ==
  /\ task[t].pc = "persist"
  /\ PersistMany(task[t].acc, task[t].ctx)
  /\ IF task[t].kind = "join" THEN Ends(t) ELSE Goes(t, "upsert") /\ UNCHANGED queue
  /\ UNCHANGED <<member, enabled, known, paused, uiVars>>

\* GroupRepository.submit_upsert, awaited.  Then leave asks for the lock.
Upsert(t) ==
  /\ task[t].pc = "upsert"
  /\ known' = known \cup {c.g : c \in task[t].ctx}
  /\ IF task[t].kind = "leave" THEN Goes(t, "lock") /\ Waits(t, task[t].acc)
     ELSE Goes(t, "done") /\ UNCHANGED queue
  /\ UNCHANGED <<member, enabled, peer, paused, uiVars>>

\* The callbacks of resolve_source and joined_groups.
SourceResolved(t) ==
  task[t].kind = "resolve" /\ StoreSource(task[t].acc, task[t].ctx) /\ UNCHANGED events

JoinedLoaded(t) ==
  /\ task[t].kind = "joined"
  /\ events' = Append(events, [name |-> "JoinedGroupsLoaded", acc |-> task[t].acc,
                               list |-> task[t].ctx])
  /\ UNCHANGED source

Done(t) ==
  /\ task[t].pc = "done"
  /\ SourceResolved(t) \/ JoinedLoaded(t)
  /\ Ends(t)
  /\ UNCHANGED <<member, dbVars, page>>

\* join_group: an invite gives the chat, which is cached; a public channel is
\* joined and resolved once more; a chat is just returned.  The answer may be
\* lost after the account has joined.
Join(t) ==
  LET a == task[t].acc  g == CHOOSE x \in task[t].g : TRUE
      joined == [member EXCEPT ![a] = @ \cup {g}]
  IN
  /\ task[t].pc = "join"
  /\ \/ /\ g \in Private /\ member' = joined
        /\ task' = [task EXCEPT ![t].ctx = {ContextOf(a, g)}, ![t].pc = "persist"]
        /\ UNCHANGED queue
     \/ /\ g \notin Private \cup Chats /\ member' = joined
        /\ Goes(t, "client") /\ UNCHANGED queue
     \/ Ends(t) /\ (UNCHANGED member \/ (g \notin Chats \ Private /\ member' = joined))
  /\ UNCHANGED <<dbVars, uiVars>>

\* _input_channel raises when there is no access hash.
Addressable(t) == \A c \in task[t].ctx : c.g \in Chats \/ c.hash # NoAccount

\* leave_group's request, made with the context resolved before the wait.
Leave(t) ==
  /\ task[t].pc = "leave"
  /\ \/ Addressable(t) /\ member' = [member EXCEPT ![task[t].acc] = @ \ task[t].g]
     \/ UNCHANGED member
  /\ Ends(t)
  /\ UNCHANGED <<dbVars, uiVars>>

\* prepare creates the job on a worker; scan then writes RUNNING.  A job that is
\* resumed twice before that runs twice.
Prepare(t) ==
  /\ task[t].pc \in {"prepare", "running"}
  /\ Goes(t, IF task[t].pc = "prepare" THEN "running" ELSE "client")
  /\ paused' = IF task[t].kind = "resume" THEN paused \ ({task[t].acc} \X task[t].g) ELSE paused
  /\ UNCHANGED <<member, enabled, peer, known, uiVars, queue>>

\* iter_participant_pages until the end, an error, or cancel_scan: the job is
\* finished in each case, only a restart pauses it.
Read(t) ==
  /\ task[t].pc = "read"
  /\ Ends(t)
  /\ UNCHANGED <<member, dbVars, uiVars>>

Step(t) ==
  /\ Enter(t) \/ Client(t) \/ Ask(t) \/ Persist(t) \/ Upsert(t) \/ Done(t)
     \/ Join(t) \/ Leave(t) \/ Prepare(t) \/ Read(t)
  /\ UNCHANGED <<disabling, counters>>

-----------------------------------------------------------------------------
(* MigrationExecutor.run takes the same lock around its loop.              *)

MutationAsks(a) ==
  /\ a \in Migrating /\ Mutation \notin {queue[a][i] : i \in 1..Len(queue[a])}
  /\ Waits(Mutation, a)
  /\ UNCHANGED <<member, disabling, dbVars, uiVars, task, counters>>

RunHolds(a) == queue[a] # <<>> /\ Head(queue[a]) = Mutation

\* The run is over, whichever way it ends; the next one asks again.
MutationEnds(a) ==
  /\ RunHolds(a)
  /\ queue' = [queue EXCEPT ![a] = Released(@)]
  /\ UNCHANGED <<member, disabling, dbVars, uiVars, task, counters>>

\* Only the database survives; recovery pauses the scans that were running.
Restart ==
  /\ restarts < MaxRestarts /\ restarts' = restarts + 1
  /\ paused' = paused \cup UNION {{task[t].acc} \X task[t].g :
                  t \in {s \in Slots : task[s].kind \in Scans /\ task[s].pc \in {"client", "read"}}}
  /\ disabling' = {} /\ source' = NoSource /\ events' = <<>>
  /\ \E a \in enabled \cup {NoAccount} :
       (a = NoAccount => enabled = {}) /\ page' = [NoPage(enabled) EXCEPT !.acc = a]
  /\ task' = [t \in Slots |-> NoTask]
  /\ queue' = [a \in Accounts |-> <<>>]
  /\ UNCHANGED <<member, enabled, peer, known, asked, disabled>>

Next ==
  \/ JoinedGroups \/ ScanSource \/ HandleEvent \/ Restart
  \/ \E g \in Groups : ResolveSource(g)
  \/ \E a \in Accounts :
       \/ SelectAccount(a) \/ AskDisable(a) \/ WriteEnabled(a)
       \/ MutationAsks(a) \/ MutationEnds(a)
       \/ \E g \in Groups : UseTool(a, g) \/ ResumeScan(a, g)
  \/ \E c \in Context : SelectJoined(c)
  \/ \E t \in Slots : Step(t)

\* The loop runs what is ready, and the requests of these coroutines end with an
\* answer or an error.  Nothing is assumed of a migration run, which waits for
\* as long as the server says and does so again.
Fairness == \A t \in Slots : WF_vars(Step(t))

Spec == Init /\ [][Next]_vars /\ Fairness

-----------------------------------------------------------------------------
\* Rows, contexts and queues hold what they are declared for.
TypeOK ==
  /\ member \in [Accounts -> SUBSET Groups]
  /\ enabled \subseteq Accounts /\ disabling \subseteq Accounts
  /\ peer \in [Accounts \X Groups -> Accounts \cup {NoAccount}]
  /\ known \subseteq Groups /\ paused \subseteq Accounts \X Groups
  /\ source.ctx \subseteq Context /\ page.list \subseteq Context
  /\ \A t \in Slots : task[t].pc \in PCs /\ task[t].ctx \subseteq Context
  /\ \A a \in Accounts : \A i \in 1..Len(queue[a]) : queue[a][i] \in Slots \cup {Mutation}

\* Whenever an account asks Telegram for the participants of a channel or leaves
\* one, it does so with a hash, and with one that was given to this account,
\* whatever was selected, resolved, listed or disabled meanwhile, and also when
\* the group was read back from the database.
AccessHashIsOwn ==
  \A t \in Slots : task[t].pc \in {"read", "leave"} =>
    task[t].ctx = {ContextOf(task[t].acc, g) : g \in task[t].g}

\* A scan that a crash or a shutdown has cut off can be resumed without resolving
\* its group again: the group has its row, and the account its row for it.
PausedScanIsResumable ==
  \A p \in paused : p[2] \in known /\ peer[p] = ContextOf(p[1], p[2]).hash

\* If no migration run holds an account's lock for ever, every join and every
\* leave comes to its turn and ends, although run after run asks for the same
\* lock and whatever raises while the lock is held.
EveryUtilityEnds ==
  (\A a \in Accounts : []<>~RunHolds(a)) =>
    \A t \in Slots : task[t].kind \in Utilities ~> task[t].kind \notin Utilities
=============================================================================
