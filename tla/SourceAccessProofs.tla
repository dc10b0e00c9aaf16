-------------------------- MODULE SourceAccessProofs --------------------------
(***************************************************************************)
(* Proofs about SourceAccess, for every set of accounts, groups and        *)
(* commands in progress: a request carries the hash of the account that    *)
(* makes it (AccessHashIsOwn), and a paused scan finds the rows it needs   *)
(* (PausedScanIsResumable).                                                *)
(*                                                                         *)
(* Each rests on the other.  A scan that is resumed takes its context from *)
(* the rows, so its request is right because they are; and a scan can be   *)
(* cut off at any moment, so the rows are right because every context that *)
(* a scan may start with was persisted for its own account before.  The    *)
(* invariant says so of every place where a context may rest: the store,   *)
(* the page, the events on their way, and the coroutines.                  *)
(***************************************************************************)
EXTENDS SourceAccess, TLAPS

Kinds == {"none", "resolve", "joined"} \cup Utilities \cup Scans
Anyone == Accounts \cup {NoAccount}

Tasks == [kind : Kinds, acc : Anyone, pc : PCs, ctx : SUBSET Context, g : SUBSET Groups]
Event == [name : {"AccountsChanged", "JoinedGroupsLoaded"}, acc : Anyone,
          list : SUBSET Context]

TypeInv ==
  /\ member \in [Accounts -> SUBSET Groups]
  /\ enabled \subseteq Accounts
  /\ peer \in [Accounts \X Groups -> Anyone]
  /\ known \subseteq Groups
  /\ paused \subseteq Accounts \X Groups
  /\ source \in [acc : Anyone, ctx : SUBSET Context]
  /\ page \in [shown : SUBSET Accounts, acc : Anyone, list : SUBSET Context, of : Anyone]
  /\ events \in Seq(Event)
  /\ task \in [Slots -> Tasks]

\* With rows pr of peer_cache and kn of groups, the database knows the hash of
\* account a for group g, and the group.
Cached(pr, a, g)     == pr[<<a, g>>] = ContextOf(a, g).hash
Stored(kn, pr, a, g) == g \in kn /\ Cached(pr, a, g)

\* Contexts as Telegram gave them to a, and with their rows.
Own(a, ctx) == \A c \in ctx : c = ContextOf(a, c.g)
Usable(kn, pr, a, ctx) ==
  ctx # {} => a \in Accounts /\ Own(a, ctx) /\ \A c \in ctx : Stored(kn, pr, a, c.g)

\* All that a command is about, as its account sees it.
Whole(k) == k.ctx = {ContextOf(k.acc, g) : g \in k.g}

\* Where each kind of command can be, and what its context is worth there.
PlaceOk(k) ==
  /\ k.kind # "none" => k.acc \in Accounts
  /\ k.kind = "none" => k.pc = "none"
  /\ k.kind \in {"resolve", "join", "leave"} => \E g \in Groups : k.g = {g}
  /\ k.kind \in {"resolve", "joined"} => k.pc \in {"client", "ask", "persist", "upsert", "done"}
  /\ k.kind = "join" => k.pc \in {"lock", "enter", "join", "client", "ask", "persist"}
  /\ k.kind = "leave" =>
       /\ k.pc \in {"client", "ask", "persist", "upsert", "lock", "back", "leave"}
       /\ k.pc \notin {"client", "ask"} => Whole(k)
  /\ k.kind \in {"scan", "resume"} =>
       k.pc \in {"prepare", "running", "client", "read"} /\ Whole(k)
  /\ k.pc \in {"persist", "upsert", "done"} => Own(k.acc, k.ctx)

RowsOk(kn, pr, k) ==
  /\ k.kind \in {"scan", "resume"} => \A g \in k.g : Stored(kn, pr, k.acc, g)
  /\ k.pc \in {"upsert", "done"} => \A c \in k.ctx : Cached(pr, k.acc, c.g)
  /\ k.pc = "done" => \A c \in k.ctx : c.g \in kn

TaskOk(kn, pr, k) == k \in Tasks /\ PlaceOk(k) /\ RowsOk(kn, pr, k)

EventOk(kn, pr, e) == e \in Event /\ Usable(kn, pr, e.acc, e.list)

ContextInv ==
  /\ Usable(known, peer, source.acc, source.ctx)
  /\ Usable(known, peer, page.of, page.list)
  /\ \A i \in 1..Len(events) : EventOk(known, peer, events[i])
  /\ \A t \in Slots : TaskOk(known, peer, task[t])

AccessInv == TypeInv /\ ContextInv /\ PausedScanIsResumable

-----------------------------------------------------------------------------
LEMMA ContextTypes ==
  ASSUME NEW a \in Accounts, NEW g \in Groups
  PROVE  ContextOf(a, g) \in Context /\ ContextOf(a, g).g = g
  BY DEF ContextOf, Context

\* Rows keep what they hold about anybody, and may hold more.
Kept(kn, pr, kn2, pr2) ==
  /\ kn \subseteq kn2
  /\ \A a \in Accounts, g \in Groups : Cached(pr, a, g) => Cached(pr2, a, g)

LEMMA UsableKept ==
  ASSUME NEW kn, NEW pr, NEW kn2, NEW pr2, Kept(kn, pr, kn2, pr2),
         NEW a, NEW ctx \in SUBSET Context, Usable(kn, pr, a, ctx)
  PROVE  Usable(kn2, pr2, a, ctx)
<1>1. \A c \in ctx : c.g \in Groups
  BY DEF Context
<1> QED BY <1>1 DEF Usable, Kept, Stored

LEMMA TaskKept ==
  ASSUME NEW kn, NEW pr, NEW kn2, NEW pr2, Kept(kn, pr, kn2, pr2),
         NEW k, TaskOk(kn, pr, k)
  PROVE  TaskOk(kn2, pr2, k)
<1>0. k \in Tasks /\ PlaceOk(k) /\ RowsOk(kn, pr, k)
  BY DEF TaskOk
<1>1. \A c \in k.ctx : c.g \in Groups
  BY <1>0 DEF Tasks, Context
<1>2. k.pc \in {"upsert", "done"} => k.acc \in Accounts
  BY <1>0 DEF PlaceOk
<1>3. k.g \subseteq Groups
  BY <1>0 DEF Tasks
<1>4. k.kind \in {"scan", "resume"} => \A g \in k.g : Stored(kn2, pr2, k.acc, g)
  BY <1>0, <1>3 DEF PlaceOk, RowsOk, Kept, Stored
<1>5. k.pc \in {"upsert", "done"} => \A c \in k.ctx : Cached(pr2, k.acc, c.g)
  BY <1>0, <1>1, <1>2 DEF RowsOk, Kept
<1>6. k.pc = "done" => \A c \in k.ctx : c.g \in kn2
  BY <1>0 DEF RowsOk, Kept
<1> QED BY <1>0, <1>4, <1>5, <1>6 DEF TaskOk, RowsOk

LEMMA EventKept ==
  ASSUME NEW kn, NEW pr, NEW kn2, NEW pr2, Kept(kn, pr, kn2, pr2),
         NEW e, EventOk(kn, pr, e)
  PROVE  EventOk(kn2, pr2, e)
<1>1. e.list \in SUBSET Context
  BY DEF EventOk, Event
<1> QED BY <1>1, UsableKept DEF EventOk

\* What is left alone stays right.
LEMMA Frame ==
  ASSUME TypeInv, ContextInv, Kept(known, peer, known', peer')
  PROVE  /\ UNCHANGED source => Usable(known', peer', source'.acc, source'.ctx)
         /\ UNCHANGED page => Usable(known', peer', page'.of, page'.list)
         /\ UNCHANGED events => \A i \in 1..Len(events') : EventOk(known', peer', events'[i])
         /\ \A s \in Slots : TaskOk(known', peer', task[s])
<1>1. UNCHANGED source => Usable(known', peer', source'.acc, source'.ctx)
  <2>1. Usable(known, peer, source.acc, source.ctx) /\ source.ctx \in SUBSET Context
    BY DEF TypeInv, ContextInv
  <2> QED BY <2>1, UsableKept
<1>2. UNCHANGED page => Usable(known', peer', page'.of, page'.list)
  <2>1. Usable(known, peer, page.of, page.list) /\ page.list \in SUBSET Context
    BY DEF TypeInv, ContextInv
  <2> QED BY <2>1, UsableKept
<1>3. UNCHANGED events => \A i \in 1..Len(events') : EventOk(known', peer', events'[i])
  <2>1. \A i \in 1..Len(events) : EventOk(known', peer', events[i])
    BY EventKept DEF ContextInv
  <2> QED BY <2>1
<1>4. \A s \in Slots : TaskOk(known', peer', task[s])
  BY TaskKept DEF ContextInv
<1> QED BY <1>1, <1>2, <1>3, <1>4

LEMMA SameRows ==
  ASSUME UNCHANGED <<peer, known>>
  PROVE  Kept(known, peer, known', peer')
  BY DEF Kept

\* One coroutine moves, to something that is right; the others stay right.
LEMMA TaskStep ==
  ASSUME TypeInv, ContextInv, Kept(known, peer, known', peer'),
         NEW t \in Slots, NEW k, task' = [task EXCEPT ![t] = k], TaskOk(known', peer', k)
  PROVE  /\ task' \in [Slots -> Tasks]
         /\ \A s \in Slots : TaskOk(known', peer', task'[s])
<1>1. task \in [Slots -> Tasks] /\ k \in Tasks
  BY DEF TypeInv, TaskOk
<1>2. \A s \in Slots : TaskOk(known', peer', task[s])
  BY Frame
<1> QED BY <1>1, <1>2

LEMMA NoTaskOk ==
  ASSUME NEW kn, NEW pr PROVE TaskOk(kn, pr, NoTask)
<1>1. NoTask \in Tasks
  BY DEF NoTask, Tasks, Kinds, Anyone, PCs
<1>2. PlaceOk(NoTask)
  BY DEF NoTask, PlaceOk
<1>3. RowsOk(kn, pr, NoTask)
  BY DEF NoTask, RowsOk
<1> QED BY <1>1, <1>2, <1>3 DEF TaskOk

\* Where a coroutine ends, nothing else need be looked at.
LEMMA EndsOk ==
  ASSUME TypeInv, ContextInv, Kept(known, peer, known', peer'), NEW t \in Slots, Ends(t)
  PROVE  /\ task' \in [Slots -> Tasks]
         /\ \A s \in Slots : TaskOk(known', peer', task'[s])
<1>1. task' = [task EXCEPT ![t] = NoTask]
  BY DEF Ends
<1> QED BY <1>1, NoTaskOk, TaskStep

\* A new command.
LEMMA SubmitOk ==
  ASSUME AccessInv, NEW kind, NEW a, NEW g, NEW ctx, NEW pc, Submit(kind, a, g, ctx, pc),
         TaskOk(known, peer, [kind |-> kind, acc |-> a, pc |-> pc, ctx |-> ctx, g |-> g])
  PROVE  AccessInv'
<1> DEFINE k == [kind |-> kind, acc |-> a, pc |-> pc, ctx |-> ctx, g |-> g]
<1>0. TypeInv /\ ContextInv /\ PausedScanIsResumable
  BY DEF AccessInv
<1>1. UNCHANGED <<member, dbVars, uiVars>>
  BY DEF Submit
<1>2. PICK t \in Slots : task' = [task EXCEPT ![t] = k]
  BY DEF Submit
<1>3. UNCHANGED <<peer, known>> /\ Kept(known, peer, known', peer')
  BY <1>1, SameRows DEF dbVars
<1>4. TaskOk(known', peer', k)
  BY <1>3
<1> HIDE DEF k
<1>5. task' \in [Slots -> Tasks] /\ \A s \in Slots : TaskOk(known', peer', task'[s])
  BY <1>0, <1>2, <1>3, <1>4, TaskStep
<1>6. TypeInv'
  BY <1>0, <1>1, <1>5 DEF TypeInv, dbVars, uiVars
<1>7. ContextInv'
  BY <1>0, <1>1, <1>3, <1>5, Frame DEF ContextInv, uiVars
<1>8. PausedScanIsResumable'
  BY <1>0, <1>1 DEF PausedScanIsResumable, dbVars
<1> QED BY <1>6, <1>7, <1>8 DEF AccessInv

\* A new command that carries no context.
LEMMA BareSubmitOk ==
  ASSUME AccessInv, NEW kind \in {"resolve", "joined", "join", "leave"},
         NEW a, NEW g \in SUBSET Groups, NEW pc \in PCs,
         kind # "joined" => \E x \in Groups : g = {x},
         pc = IF kind = "join" THEN "lock" ELSE "client",
         Submit(kind, a, g, {}, pc)
  PROVE  AccessInv'
<1> DEFINE k == [kind |-> kind, acc |-> a, pc |-> pc, ctx |-> {}, g |-> g]
<1>0. a \in Accounts
  BY DEF AccessInv, TypeInv, Submit
<1>1. k \in Tasks
  BY <1>0 DEF Tasks, Kinds, Anyone, Utilities, Scans
<1>2. PlaceOk(k)
  BY <1>0 DEF PlaceOk
<1>3. RowsOk(known, peer, k)
  BY DEF RowsOk
<1>4. TaskOk(known, peer, k)
  BY <1>1, <1>2, <1>3 DEF TaskOk
<1> QED BY <1>4, SubmitOk

LEMMA ScanSourceOk ==
  ASSUME AccessInv, ScanSource PROVE AccessInv'
<1> DEFINE g == {c.g : c \in source.ctx}
           k == [kind |-> "scan", acc |-> page.acc, pc |-> "prepare", ctx |-> source.ctx, g |-> g]
<1>0. source.acc = page.acc /\ Submit("scan", page.acc, g, source.ctx, "prepare")
  BY DEF ScanSource, Snapshot
<1>1. page.acc \in Accounts
  BY <1>0 DEF Submit, AccessInv, TypeInv
<1>2. source.ctx \in SUBSET Context /\ Usable(known, peer, page.acc, source.ctx)
  BY <1>0 DEF AccessInv, TypeInv, ContextInv
<1>3. g \subseteq Groups
  BY <1>2 DEF Context
<1>4. \A c \in source.ctx : c = ContextOf(page.acc, c.g) /\ Stored(known, peer, page.acc, c.g)
  BY <1>2 DEF Usable, Own
<1>5. k \in Tasks
  BY <1>1, <1>2, <1>3 DEF Tasks, Kinds, Anyone, Scans, PCs
<1>6. source.ctx = {ContextOf(page.acc, x) : x \in g}
  BY <1>4
<1>7. PlaceOk(k)
  BY <1>1, <1>6 DEF PlaceOk, Whole
<1>8. RowsOk(known, peer, k)
  BY <1>4 DEF RowsOk
<1>9. TaskOk(known, peer, k)
  BY <1>5, <1>7, <1>8 DEF TaskOk
<1> QED BY <1>0, <1>9, SubmitOk

\* A resumed scan reads its hash back: the paused job vouches for the row.
LEMMA ResumeScanOk ==
  ASSUME AccessInv, NEW a \in Accounts, NEW g \in Groups, ResumeScan(a, g) PROVE AccessInv'
<1> DEFINE c == GroupOf(g, a)
           k == [kind |-> "resume", acc |-> a, pc |-> "running", ctx |-> {c}, g |-> {g}]
<1>0. <<a, g>> \in paused /\ Submit("resume", a, {g}, {c}, "running")
  BY DEF ResumeScan
<1>1. Stored(known, peer, a, g)
  BY <1>0 DEF AccessInv, PausedScanIsResumable, Stored, Cached
<1>2. c = ContextOf(a, g)
  BY <1>1 DEF GroupOf, Stored, Cached, ContextOf
<1>3. c \in Context
  BY <1>2, ContextTypes
<1> HIDE DEF c
<1>4. k \in Tasks
  BY <1>3 DEF Tasks, Kinds, Anyone, Scans, PCs
<1>5. {c} = {ContextOf(a, x) : x \in {g}}
  BY <1>2
<1>6. PlaceOk(k)
  BY <1>5 DEF PlaceOk, Whole
<1>7. RowsOk(known, peer, k)
  BY <1>1 DEF RowsOk
<1>8. TaskOk(known, peer, k)
  BY <1>4, <1>6, <1>7 DEF TaskOk
<1> QED BY <1>0, <1>8, SubmitOk

-----------------------------------------------------------------------------
\* Jobs that were paused before stay resumable; new ones need their rows.
LEMMA PausedKept ==
  ASSUME AccessInv, Kept(known, peer, known', peer'), paused' \subseteq Accounts \X Groups,
         \A a \in Accounts, g \in Groups :
           <<a, g>> \in paused' \ paused => Stored(known', peer', a, g)
  PROVE  PausedScanIsResumable'
<1>1. \A a \in Accounts, g \in Groups : <<a, g>> \in paused' => Stored(known', peer', a, g)
  BY DEF AccessInv, PausedScanIsResumable, Kept, Stored, Cached
<1> QED BY <1>1 DEF PausedScanIsResumable, Stored, Cached

\* A step of a coroutine that leaves the page and the store alone.
LEMMA QuietStep ==
  ASSUME AccessInv, Kept(known, peer, known', peer'),
         member' \in [Accounts -> SUBSET Groups], UNCHANGED enabled,
         peer' \in [Accounts \X Groups -> Anyone], known' \subseteq Groups,
         paused' \subseteq Accounts \X Groups, PausedScanIsResumable',
         UNCHANGED uiVars,
         task' \in [Slots -> Tasks], \A s \in Slots : TaskOk(known', peer', task'[s])
  PROVE  AccessInv'
<1>0. TypeInv /\ ContextInv
  BY DEF AccessInv
<1>1. TypeInv'
  BY <1>0 DEF TypeInv, uiVars
<1>2. ContextInv'
  BY <1>0, Frame DEF ContextInv, uiVars
<1> QED BY <1>1, <1>2 DEF AccessInv

\* The same, when no row is written.
LEMMA RowlessStep ==
  ASSUME AccessInv, member' \in [Accounts -> SUBSET Groups],
         UNCHANGED <<dbVars, uiVars>>,
         task' \in [Slots -> Tasks], \A s \in Slots : TaskOk(known', peer', task'[s])
  PROVE  AccessInv'
<1>1. UNCHANGED <<enabled, peer, known, paused>> /\ Kept(known, peer, known', peer')
  BY SameRows DEF dbVars
<1>2. PausedScanIsResumable'
  BY <1>1 DEF AccessInv, PausedScanIsResumable
<1> QED BY <1>1, <1>2, QuietStep DEF AccessInv, TypeInv

\* A coroutine goes on from one await to the next.
LEMMA GoesOk ==
  ASSUME AccessInv, NEW t \in Slots, NEW pc \in PCs, Goes(t, pc),
         Kept(known, peer, known', peer'),
         PlaceOk([task[t] EXCEPT !.pc = pc]),
         RowsOk(known', peer', [task[t] EXCEPT !.pc = pc])
  PROVE  /\ task' \in [Slots -> Tasks]
         /\ \A s \in Slots : TaskOk(known', peer', task'[s])
<1> DEFINE k == [task[t] EXCEPT !.pc = pc]
<1>0. TypeInv /\ ContextInv /\ task[t] \in Tasks
  BY DEF AccessInv, TypeInv
<1>1. task' = [task EXCEPT ![t] = k]
  BY DEF Goes
<1>2. k \in Tasks
  BY <1>0 DEF Tasks
<1>3. TaskOk(known', peer', k)
  BY <1>2 DEF TaskOk
<1> HIDE DEF k
<1> QED BY <1>0, <1>1, <1>3, TaskStep

LEMMA EnterOk ==
  ASSUME AccessInv, NEW t \in Slots, Enter(t) PROVE AccessInv'
<1> DEFINE pc == IF task[t].kind = "join" THEN "enter" ELSE "back"
           k == [task[t] EXCEPT !.pc = pc]
<1>0. /\ task[t] \in Tasks /\ PlaceOk(task[t]) /\ RowsOk(known, peer, task[t])
      /\ member \in [Accounts -> SUBSET Groups]
  BY DEF AccessInv, TypeInv, ContextInv, TaskOk
<1>1. task[t].pc = "lock" /\ Goes(t, pc) /\ UNCHANGED <<member, dbVars, uiVars>>
  BY DEF Enter
<1>2. task[t].kind \in {"join", "leave"}
  BY <1>0, <1>1 DEF PlaceOk, Tasks, Kinds, Utilities, Scans
<1>3. PlaceOk(k)
  BY <1>0, <1>1, <1>2 DEF PlaceOk, Tasks, Whole
<1>4. RowsOk(known, peer, k) /\ UNCHANGED <<known, peer>>
  BY <1>0, <1>1, <1>2 DEF RowsOk, Tasks, dbVars
<1>5. pc \in PCs
  BY DEF PCs
<1> HIDE DEF pc
<1> QED BY <1>0, <1>1, <1>3, <1>4, <1>5, GoesOk, SameRows, RowlessStep

LEMMA ClientOk ==
  ASSUME AccessInv, NEW t \in Slots, Client(t) PROVE AccessInv'
<1> DEFINE pc == CASE task[t].pc = "enter" -> "join" [] task[t].pc = "back" -> "leave"
                   [] task[t].kind \in Scans -> "read" [] OTHER -> "ask"
           k == [task[t] EXCEPT !.pc = pc]
<1>0. /\ task[t] \in Tasks /\ PlaceOk(task[t]) /\ RowsOk(known, peer, task[t])
      /\ TypeInv /\ ContextInv
  BY DEF AccessInv, TypeInv, ContextInv, TaskOk
<1>1. task[t].pc \in {"enter", "client", "back"} /\ UNCHANGED <<member, dbVars, uiVars>>
  BY DEF Client
<1>2. UNCHANGED <<known, peer>> /\ Kept(known, peer, known', peer')
  BY <1>1, SameRows DEF dbVars
<1>3. member' \in [Accounts -> SUBSET Groups]
  BY <1>0, <1>1 DEF TypeInv
<1>4. CASE Goes(t, pc)
  <2>1. pc \in PCs /\ pc \notin {"persist", "upsert", "done"}
    BY DEF PCs
  <2>2. /\ task[t].kind \in {"resolve", "joined"} => pc = "ask"
        /\ task[t].kind = "join" => pc \in {"join", "ask"}
        /\ task[t].kind = "leave" => pc \in {"ask", "leave"} /\ (pc = "leave" => Whole(task[t]))
        /\ task[t].kind \in {"scan", "resume"} => pc = "read" /\ Whole(task[t])
        /\ task[t].kind # "none"
    BY <1>0, <1>1 DEF PlaceOk, Scans
  <2> HIDE DEF pc
  <2>3. PlaceOk(k)
    BY <1>0, <2>1, <2>2 DEF PlaceOk, Tasks, Whole
  <2>4. RowsOk(known', peer', k)
    BY <1>0, <1>2, <2>1 DEF RowsOk, Tasks
  <2> QED BY <1>1, <1>2, <1>3, <1>4, <2>1, <2>3, <2>4, GoesOk, RowlessStep
<1>5. CASE Ends(t)
  BY <1>0, <1>1, <1>2, <1>3, <1>5, EndsOk, RowlessStep
<1> QED BY <1>4, <1>5 DEF Client

\* What Telegram gives an account is its own.
LEMMA GivenOk ==
  ASSUME NEW a \in Accounts, NEW gs \in SUBSET Groups
  PROVE  /\ {ContextOf(a, g) : g \in gs} \in SUBSET Context
         /\ Own(a, {ContextOf(a, g) : g \in gs})
  BY ContextTypes DEF Own

\* A coroutine gets an answer.
LEMMA AnswerOk ==
  ASSUME AccessInv, NEW t \in Slots, NEW gs \in SUBSET Groups, NEW pc \in {"persist", "done"},
         task[t].kind \in {"resolve", "joined", "join", "leave"},
         task[t].kind \in {"join", "leave"} => pc = "persist",
         task[t].kind = "leave" => gs = task[t].g,
         pc = "done" => gs = {},
         task' = [task EXCEPT ![t].ctx = {ContextOf(task[t].acc, g) : g \in gs}, ![t].pc = pc],
         member' \in [Accounts -> SUBSET Groups],
         UNCHANGED <<dbVars, uiVars>>
  PROVE  AccessInv'
<1> DEFINE ctx == {ContextOf(task[t].acc, g) : g \in gs}
           k == [task[t] EXCEPT !.ctx = ctx, !.pc = pc]
<1>0. /\ task[t] \in Tasks /\ PlaceOk(task[t]) /\ RowsOk(known, peer, task[t])
      /\ TypeInv /\ ContextInv /\ task \in [Slots -> Tasks]
  BY DEF AccessInv, TypeInv, ContextInv, TaskOk
<1>1. task[t].acc \in Accounts
  BY <1>0 DEF PlaceOk
<1>2. ctx \in SUBSET Context /\ Own(task[t].acc, ctx)
  BY <1>1, GivenOk
<1>3. pc = "done" => ctx = {}
  OBVIOUS
<1>4. task[t].kind = "leave" => ctx = {ContextOf(task[t].acc, g) : g \in task[t].g}
  OBVIOUS
<1>5. task' = [task EXCEPT ![t] = k]
  BY <1>0
<1> HIDE DEF ctx
<1>6. k \in Tasks
  BY <1>0, <1>2 DEF Tasks, PCs
<1>7. PlaceOk(k)
  BY <1>0, <1>1, <1>2, <1>4 DEF PlaceOk, Tasks, Whole
<1>8. RowsOk(known', peer', k)
  BY <1>0, <1>3 DEF RowsOk, Tasks
<1>9. TaskOk(known', peer', k)
  BY <1>6, <1>7, <1>8 DEF TaskOk
<1> HIDE DEF k
<1>10. UNCHANGED <<known, peer>> /\ Kept(known, peer, known', peer')
  BY SameRows DEF dbVars
<1> QED BY <1>0, <1>5, <1>9, <1>10, TaskStep, RowlessStep

LEMMA AskOk ==
  ASSUME AccessInv, NEW t \in Slots, Ask(t) PROVE AccessInv'
<1>0. /\ task[t] \in Tasks /\ PlaceOk(task[t])
      /\ TypeInv /\ ContextInv /\ member \in [Accounts -> SUBSET Groups]
  BY DEF AccessInv, TypeInv, ContextInv, TaskOk
<1>1. task[t].pc = "ask" /\ UNCHANGED <<member, dbVars, uiVars>>
  BY DEF Ask
<1>2. task[t].kind \in {"resolve", "joined", "join", "leave"} /\ task[t].acc \in Accounts
  BY <1>0, <1>1 DEF PlaceOk, Tasks, Kinds, Utilities, Scans
<1>3. CASE ResolveGroup(t)
  <2> DEFINE found == {g \in task[t].g : Resolvable(task[t].acc, g)}
  <2>1. task[t].kind # "joined" /\ found # {}
    BY <1>3 DEF ResolveGroup
  <2>2. found = task[t].g /\ found \in SUBSET Groups
    BY <1>0, <1>2, <2>1 DEF PlaceOk
  <2>3. task' = [task EXCEPT ![t].ctx = {ContextOf(task[t].acc, g) : g \in found},
                             ![t].pc = "persist"]
    BY <1>3 DEF ResolveGroup
  <2> HIDE DEF found
  <2> QED BY <1>0, <1>1, <1>2, <2>2, <2>3, AnswerOk
<1>4. CASE GetJoinedGroups(t)
  <2> DEFINE gs == member[task[t].acc]
             pc == IF gs = {} THEN "done" ELSE "persist"
  <2>1. gs \in SUBSET Groups /\ task[t].kind = "joined"
    BY <1>0, <1>2, <1>4 DEF GetJoinedGroups
  <2>2. task' = [task EXCEPT ![t].ctx = {ContextOf(task[t].acc, g) : g \in gs}, ![t].pc = pc]
    BY <1>4 DEF GetJoinedGroups
  <2>3. pc \in {"persist", "done"} /\ (pc = "done" => gs = {})
    OBVIOUS
  <2> HIDE DEF gs, pc
  <2> QED BY <1>0, <1>1, <1>2, <2>1, <2>2, <2>3, AnswerOk
<1>5. CASE Ends(t)
  <2>1. UNCHANGED <<known, peer>> /\ Kept(known, peer, known', peer')
    BY <1>1, SameRows DEF dbVars
  <2> QED BY <1>0, <1>1, <1>5, <2>1, EndsOk, RowlessStep
<1> QED BY <1>3, <1>4, <1>5 DEF Ask

\* The rows written are the account's own, so no other knowledge is lost.
LEMMA PersistKept ==
  ASSUME NEW a \in Accounts, NEW ctx \in SUBSET Context, Own(a, ctx),
         peer \in [Accounts \X Groups -> Anyone], PersistMany(a, ctx), UNCHANGED known
  PROVE  /\ peer' \in [Accounts \X Groups -> Anyone]
         /\ Kept(known, peer, known', peer')
         /\ \A c \in ctx : Cached(peer', a, c.g)
<1>0. \A c \in ctx : c.g \in Groups /\ c.hash \in Anyone /\ c = ContextOf(a, c.g)
  BY DEF Context, Anyone, Own
<1>1. \A p \in Accounts \X Groups : (\E c \in ctx : c.g = p[2]) =>
        (CHOOSE c \in ctx : c.g = p[2]) = ContextOf(a, p[2])
  <2> TAKE p \in Accounts \X Groups
  <2> HAVE \E c \in ctx : c.g = p[2]
  <2> DEFINE d == CHOOSE c \in ctx : c.g = p[2]
  <2>1. d \in ctx /\ d.g = p[2]
    OBVIOUS
  <2> QED BY <1>0, <2>1
<1>2. \A x \in Accounts, g \in Groups :
        peer'[<<x, g>>] = IF x = a /\ \E c \in ctx : c.g = g
                          THEN ContextOf(a, g).hash ELSE peer[<<x, g>>]
  <2> TAKE x \in Accounts, g \in Groups
  <2>1. <<x, g>> \in DOMAIN peer /\ <<x, g>> \in Accounts \X Groups
    OBVIOUS
  <2>2. peer'[<<x, g>>] = IF x = a /\ \E c \in ctx : c.g = g
                          THEN (CHOOSE c \in ctx : c.g = g).hash ELSE peer[<<x, g>>]
    BY <2>1 DEF PersistMany
  <2>3. (\E c \in ctx : c.g = g) => (CHOOSE c \in ctx : c.g = g) = ContextOf(a, g)
    BY <1>1, <2>1
  <2> QED BY <2>2, <2>3
<1>3. peer' \in [Accounts \X Groups -> Anyone]
  <2>1. \A p \in Accounts \X Groups :
          (IF p[1] = a /\ \E c \in ctx : c.g = p[2]
           THEN (CHOOSE c \in ctx : c.g = p[2]).hash ELSE peer[p]) \in Anyone
    <3> TAKE p \in Accounts \X Groups
    <3> DEFINE d == CHOOSE c \in ctx : c.g = p[2]
    <3>1. (\E c \in ctx : c.g = p[2]) => d \in ctx
      OBVIOUS
    <3> HIDE DEF d
    <3>2. (\E c \in ctx : c.g = p[2]) => d.hash \in Anyone
      BY <1>0, <3>1
    <3> USE DEF d
    <3> QED BY <3>2
  <2> QED BY <2>1 DEF PersistMany
<1>4. Kept(known, peer, known', peer')
  BY <1>2 DEF Kept, Cached
<1>5. \A c \in ctx : Cached(peer', a, c.g)
  BY <1>0, <1>2 DEF Cached
<1> QED BY <1>3, <1>4, <1>5

LEMMA PersistOk ==
  ASSUME AccessInv, NEW t \in Slots, Persist(t) PROVE AccessInv'
<1> DEFINE k == [task[t] EXCEPT !.pc = "upsert"]
<1>0. /\ task[t] \in Tasks /\ PlaceOk(task[t]) /\ RowsOk(known, peer, task[t])
      /\ TypeInv /\ ContextInv /\ peer \in [Accounts \X Groups -> Anyone]
  BY DEF AccessInv, TypeInv, ContextInv, TaskOk
<1>1. /\ task[t].pc = "persist" /\ PersistMany(task[t].acc, task[t].ctx)
      /\ UNCHANGED <<member, enabled, known, paused, uiVars>>
  BY DEF Persist
<1>2. /\ task[t].acc \in Accounts /\ Own(task[t].acc, task[t].ctx)
      /\ task[t].ctx \in SUBSET Context
      /\ task[t].kind \in {"resolve", "joined", "join", "leave"}
  BY <1>0, <1>1 DEF PlaceOk, Tasks, Kinds, Utilities, Scans
<1>3. /\ peer' \in [Accounts \X Groups -> Anyone]
      /\ Kept(known, peer, known', peer')
      /\ \A c \in task[t].ctx : Cached(peer', task[t].acc, c.g)
  BY <1>0, <1>1, <1>2, PersistKept
<1>4. task' \in [Slots -> Tasks] /\ \A s \in Slots : TaskOk(known', peer', task'[s])
  <2>1. CASE task[t].kind = "join"
    BY <1>0, <1>3, <2>1, EndsOk DEF Persist
  <2>2. CASE task[t].kind # "join"
    <3>1. Goes(t, "upsert")
      BY <2>2 DEF Persist
    <3>2. PlaceOk(k)
      BY <1>0, <1>1, <1>2, <2>2 DEF PlaceOk, Tasks, Whole
    <3>3. RowsOk(known', peer', k)
      BY <1>0, <1>2, <1>3 DEF RowsOk, Tasks
    <3>4. "upsert" \in PCs
      BY DEF PCs
    <3> QED BY <1>3, <3>1, <3>2, <3>3, <3>4, GoesOk
  <2> QED BY <2>1, <2>2
<1>5. PausedScanIsResumable'
  BY <1>0, <1>1, <1>3, PausedKept DEF TypeInv
<1> QED BY <1>0, <1>1, <1>3, <1>4, <1>5, QuietStep DEF TypeInv

LEMMA UpsertOk ==
  ASSUME AccessInv, NEW t \in Slots, Upsert(t) PROVE AccessInv'
<1>0. /\ task[t] \in Tasks /\ PlaceOk(task[t]) /\ RowsOk(known, peer, task[t])
      /\ TypeInv /\ ContextInv
  BY DEF AccessInv, TypeInv, ContextInv, TaskOk
<1>1. /\ task[t].pc = "upsert" /\ known' = known \cup {c.g : c \in task[t].ctx}
      /\ UNCHANGED <<member, enabled, peer, paused, uiVars>>
  BY DEF Upsert
<1>2. known' \subseteq Groups /\ Kept(known, peer, known', peer')
  BY <1>0, <1>1 DEF TypeInv, Tasks, Context, Kept
<1>3. task[t].kind \in {"resolve", "joined", "leave"}
  BY <1>0, <1>1 DEF PlaceOk, Tasks, Kinds, Utilities, Scans
<1>4. \A c \in task[t].ctx : c.g \in known' /\ Cached(peer', task[t].acc, c.g)
  BY <1>0, <1>1 DEF RowsOk
<1>5. task' \in [Slots -> Tasks] /\ \A s \in Slots : TaskOk(known', peer', task'[s])
  <2>1. CASE task[t].kind = "leave"
    <3> DEFINE k == [task[t] EXCEPT !.pc = "lock"]
    <3>1. Goes(t, "lock") /\ "lock" \in PCs
      BY <2>1 DEF Upsert, PCs
    <3>2. PlaceOk(k)
      BY <1>0, <1>1, <2>1 DEF PlaceOk, Tasks, Whole
    <3>3. RowsOk(known', peer', k)
      BY <1>0, <2>1 DEF RowsOk, Tasks
    <3> QED BY <1>2, <3>1, <3>2, <3>3, GoesOk
  <2>2. CASE task[t].kind # "leave"
    <3> DEFINE k == [task[t] EXCEPT !.pc = "done"]
    <3>1. Goes(t, "done") /\ "done" \in PCs
      BY <2>2 DEF Upsert, PCs
    <3>2. PlaceOk(k)
      BY <1>0, <1>1, <1>3, <2>2 DEF PlaceOk, Tasks
    <3>3. RowsOk(known', peer', k)
      BY <1>0, <1>3, <1>4, <2>2 DEF RowsOk, Tasks
    <3> QED BY <1>2, <3>1, <3>2, <3>3, GoesOk
  <2> QED BY <2>1, <2>2
<1>6. PausedScanIsResumable'
  BY <1>0, <1>1, <1>2, PausedKept DEF TypeInv
<1> QED BY <1>0, <1>1, <1>2, <1>5, <1>6, QuietStep DEF TypeInv

\* Only now does a context leave its coroutine, with both its rows written.
LEMMA DoneOk ==
  ASSUME AccessInv, NEW t \in Slots, Done(t) PROVE AccessInv'
<1> DEFINE a == task[t].acc
           ctx == task[t].ctx
           e == [name |-> "JoinedGroupsLoaded", acc |-> a, list |-> ctx]
<1>0. /\ task[t] \in Tasks /\ PlaceOk(task[t]) /\ RowsOk(known, peer, task[t])
      /\ TypeInv /\ ContextInv /\ PausedScanIsResumable
  BY DEF AccessInv, TypeInv, ContextInv, TaskOk
<1>1. task[t].pc = "done" /\ Ends(t) /\ UNCHANGED <<member, dbVars, page>>
  BY DEF Done
<1>2. UNCHANGED <<enabled, peer, known, paused>> /\ Kept(known, peer, known', peer')
  BY <1>1, SameRows DEF dbVars
<1>3. a \in Accounts /\ a \in Anyone /\ ctx \in SUBSET Context /\ Usable(known', peer', a, ctx)
  BY <1>0, <1>1, <1>2 DEF PlaceOk, RowsOk, Tasks, Anyone, Usable, Stored
<1>4. task' \in [Slots -> Tasks] /\ \A s \in Slots : TaskOk(known', peer', task'[s])
  BY <1>0, <1>1, <1>2, EndsOk
<1>5. PausedScanIsResumable'
  BY <1>0, <1>2 DEF PausedScanIsResumable
<1>6. CASE SourceResolved(t)
  <2>1. source' = [acc |-> a, ctx |-> ctx] /\ UNCHANGED events
    BY <1>6 DEF SourceResolved, StoreSource
  <2> HIDE DEF a, ctx
  <2>2. TypeInv'
    BY <1>0, <1>1, <1>2, <1>3, <1>4, <2>1 DEF TypeInv
  <2>3. Usable(known', peer', source'.acc, source'.ctx)
    BY <1>3, <2>1
  <2>4. ContextInv'
    BY <1>0, <1>1, <1>2, <1>4, <2>1, <2>3, Frame DEF ContextInv
  <2> QED BY <1>5, <2>2, <2>4 DEF AccessInv
<1>7. CASE JoinedLoaded(t)
  <2>1. events' = Append(events, e) /\ UNCHANGED source
    BY <1>7 DEF JoinedLoaded
  <2>2. e \in Event /\ Usable(known', peer', e.acc, e.list)
    BY <1>3 DEF Event
  <2>3. EventOk(known', peer', e) /\ e \in Event
    BY <2>2 DEF EventOk
  <2> HIDE DEF e
  <2>4. TypeInv'
    BY <1>0, <1>1, <1>2, <1>4, <2>1, <2>3 DEF TypeInv
  <2>5. \A i \in 1..Len(events') : EventOk(known', peer', events'[i])
    BY <1>0, <1>2, <2>1, <2>3 DEF ContextInv, TypeInv
  <2>6. ContextInv'
    BY <1>0, <1>1, <1>2, <1>4, <2>1, <2>5, Frame DEF ContextInv
  <2> QED BY <1>5, <2>4, <2>6 DEF AccessInv
<1> QED BY <1>6, <1>7 DEF Done

LEMMA JoinOk ==
  ASSUME AccessInv, NEW t \in Slots, Join(t) PROVE AccessInv'
<1> DEFINE a == task[t].acc
           g == CHOOSE x \in task[t].g : TRUE
           joined == [member EXCEPT ![a] = @ \cup {g}]
<1>0. /\ task[t] \in Tasks /\ PlaceOk(task[t]) /\ RowsOk(known, peer, task[t])
      /\ TypeInv /\ ContextInv /\ member \in [Accounts -> SUBSET Groups]
  BY DEF AccessInv, TypeInv, ContextInv, TaskOk
<1>1. task[t].pc = "join" /\ UNCHANGED <<dbVars, uiVars>>
  BY DEF Join
<1>2. UNCHANGED <<known, peer>> /\ Kept(known, peer, known', peer')
  BY <1>1, SameRows DEF dbVars
<1>3. task[t].kind = "join" /\ a \in Accounts
  BY <1>0, <1>1 DEF PlaceOk, Tasks, Kinds, Utilities, Scans
<1>4. g \in Groups /\ task[t].g = {g}
  BY <1>0, <1>3 DEF PlaceOk
<1>5. joined \in [Accounts -> SUBSET Groups]
  BY <1>0, <1>3, <1>4
<1>6. member' \in [Accounts -> SUBSET Groups]
  BY <1>0, <1>5 DEF Join
<1>7. CASE task' = [task EXCEPT ![t].ctx = {ContextOf(a, g)}, ![t].pc = "persist"]
  <2>1. {ContextOf(a, g)} = {ContextOf(a, x) : x \in {g}} /\ {g} \in SUBSET Groups
    BY <1>4
  <2>2. task' = [task EXCEPT ![t].ctx = {ContextOf(a, x) : x \in {g}}, ![t].pc = "persist"]
    BY <1>7, <2>1
  <2> HIDE DEF g
  <2> QED BY <1>1, <1>3, <1>6, <2>1, <2>2, AnswerOk
<1>8. CASE Goes(t, "client")
  <2> DEFINE k == [task[t] EXCEPT !.pc = "client"]
  <2>1. PlaceOk(k)
    BY <1>0, <1>3 DEF PlaceOk, Tasks
  <2>2. RowsOk(known', peer', k)
    BY <1>0, <1>2, <1>3 DEF RowsOk, Tasks
  <2>3. "client" \in PCs
    BY DEF PCs
  <2> QED BY <1>1, <1>2, <1>6, <1>8, <2>1, <2>2, <2>3, GoesOk, RowlessStep
<1>9. CASE Ends(t)
  BY <1>0, <1>1, <1>2, <1>6, <1>9, EndsOk, RowlessStep
<1> QED BY <1>7, <1>8, <1>9 DEF Join

LEMMA LeaveOk ==
  ASSUME AccessInv, NEW t \in Slots, Leave(t) PROVE AccessInv'
<1>0. TypeInv /\ ContextInv /\ member \in [Accounts -> SUBSET Groups]
  BY DEF AccessInv, TypeInv
<1>1. Ends(t) /\ UNCHANGED <<dbVars, uiVars>>
  BY DEF Leave
<1>2. UNCHANGED <<known, peer>> /\ Kept(known, peer, known', peer')
  BY <1>1, SameRows DEF dbVars
<1>3. member' \in [Accounts -> SUBSET Groups]
  BY <1>0 DEF Leave
<1> QED BY <1>0, <1>1, <1>2, <1>3, EndsOk, RowlessStep

LEMMA PrepareOk ==
  ASSUME AccessInv, NEW t \in Slots, Prepare(t) PROVE AccessInv'
<1> DEFINE pc == IF task[t].pc = "prepare" THEN "running" ELSE "client"
           k == [task[t] EXCEPT !.pc = pc]
<1>0. /\ task[t] \in Tasks /\ PlaceOk(task[t]) /\ RowsOk(known, peer, task[t])
      /\ TypeInv /\ ContextInv
  BY DEF AccessInv, TypeInv, ContextInv, TaskOk
<1>1. /\ task[t].pc \in {"prepare", "running"} /\ Goes(t, pc) /\ paused' \subseteq paused
      /\ UNCHANGED <<member, enabled, peer, known, uiVars>>
  BY DEF Prepare
<1>2. Kept(known, peer, known', peer')
  BY <1>1, SameRows
<1>3. task[t].kind \in {"scan", "resume"}
  BY <1>0, <1>1 DEF PlaceOk, Tasks, Kinds, Utilities, Scans
<1>4. pc \in PCs /\ pc \in {"running", "client"}
  BY DEF PCs
<1> HIDE DEF pc
<1>5. PlaceOk(k)
  BY <1>0, <1>3, <1>4 DEF PlaceOk, Tasks, Whole
<1>6. RowsOk(known', peer', k)
  BY <1>0, <1>1, <1>3, <1>4 DEF RowsOk, Tasks
<1>7. task' \in [Slots -> Tasks] /\ \A s \in Slots : TaskOk(known', peer', task'[s])
  BY <1>1, <1>2, <1>4, <1>5, <1>6, GoesOk
<1>8. paused' \subseteq Accounts \X Groups /\ PausedScanIsResumable'
  BY <1>0, <1>1 DEF AccessInv, TypeInv, PausedScanIsResumable
<1> QED BY <1>0, <1>1, <1>2, <1>7, <1>8, QuietStep DEF TypeInv

LEMMA ReadOk ==
  ASSUME AccessInv, NEW t \in Slots, Read(t) PROVE AccessInv'
<1>0. TypeInv /\ ContextInv
  BY DEF AccessInv
<1>1. Ends(t) /\ UNCHANGED <<member, dbVars, uiVars>>
  BY DEF Read
<1>2. Kept(known, peer, known', peer')
  BY <1>1, SameRows DEF dbVars
<1>3. member' \in [Accounts -> SUBSET Groups]
  BY <1>0, <1>1 DEF TypeInv
<1> QED BY <1>0, <1>1, <1>2, <1>3, EndsOk, RowlessStep

-----------------------------------------------------------------------------
\* The page: what it shows as an account's is that account's.
LEMMA SelectJoinedOk ==
  ASSUME AccessInv, NEW c \in Context, SelectJoined(c) PROVE AccessInv'
<1>0. TypeInv /\ ContextInv /\ PausedScanIsResumable
  BY DEF AccessInv
<1>1. /\ page.acc # NoAccount /\ c \in page.list /\ page.of = page.acc
      /\ source' = [acc |-> page.acc, ctx |-> {c}]
      /\ UNCHANGED <<member, dbVars, page, events, task>>
  BY DEF SelectJoined, SelectSourceGroup, StoreSource
<1>2. UNCHANGED <<enabled, peer, known, paused>> /\ Kept(known, peer, known', peer')
  BY <1>1, SameRows DEF dbVars
<1>3. Usable(known', peer', page.acc, {c})
  BY <1>0, <1>1, <1>2 DEF ContextInv, Usable, Own
<1>4. TypeInv'
  BY <1>0, <1>1, <1>2 DEF TypeInv
<1>5. Usable(known', peer', source'.acc, source'.ctx)
  BY <1>1, <1>3
<1>6. ContextInv'
  BY <1>0, <1>1, <1>2, <1>5, Frame DEF ContextInv
<1>7. PausedScanIsResumable'
  BY <1>0, <1>2 DEF PausedScanIsResumable
<1> QED BY <1>4, <1>6, <1>7 DEF AccessInv

LEMMA SelectAccountOk ==
  ASSUME AccessInv, NEW a \in Accounts, SelectAccount(a) PROVE AccessInv'
<1>0. TypeInv /\ ContextInv /\ PausedScanIsResumable
  BY DEF AccessInv
<1>1. /\ page' = [page EXCEPT !.acc = a]
      /\ UNCHANGED <<member, dbVars, source, events, task>>
  BY DEF SelectAccount
<1>2. UNCHANGED <<enabled, peer, known, paused>> /\ Kept(known, peer, known', peer')
  BY <1>1, SameRows DEF dbVars
<1>3. TypeInv'
  BY <1>0, <1>1, <1>2 DEF TypeInv, Anyone
<1>4. page'.of = page.of /\ page'.list = page.list
  BY <1>0, <1>1 DEF TypeInv
<1>5. Usable(known', peer', page'.of, page'.list)
  BY <1>0, <1>2, <1>4 DEF ContextInv
<1>6. ContextInv'
  BY <1>0, <1>1, <1>2, <1>5, Frame DEF ContextInv
<1>7. PausedScanIsResumable'
  BY <1>0, <1>2 DEF PausedScanIsResumable
<1> QED BY <1>3, <1>6, <1>7 DEF AccessInv

LEMMA HandleEventOk ==
  ASSUME AccessInv, HandleEvent PROVE AccessInv'
<1> DEFINE e == Head(events)
<1>0. TypeInv /\ ContextInv /\ PausedScanIsResumable
  BY DEF AccessInv
<1>1. /\ events # <<>> /\ events' = Tail(events)
      /\ UNCHANGED <<member, dbVars, source, task>>
  BY DEF HandleEvent
<1>2. UNCHANGED <<enabled, peer, known, paused>> /\ Kept(known, peer, known', peer')
  BY <1>1, SameRows DEF dbVars
<1>3. events \in Seq(Event) /\ events' \in Seq(Event) /\ Len(events) > 0
  BY <1>0, <1>1 DEF TypeInv
<1>4. e \in Event /\ EventOk(known', peer', e)
  BY <1>0, <1>2, <1>3 DEF ContextInv
<1>5. \A i \in 1..Len(events') : EventOk(known', peer', events'[i])
  <2>1. \A i \in 1..Len(events') : i + 1 \in 1..Len(events) /\ events'[i] = events[i + 1]
    BY <1>1, <1>3
  <2> QED BY <1>0, <1>2, <2>1 DEF ContextInv
<1>6. PausedScanIsResumable'
  BY <1>0, <1>2 DEF PausedScanIsResumable
<1>7. /\ page' \in [shown : SUBSET Accounts, acc : Anyone, list : SUBSET Context, of : Anyone]
      /\ Usable(known', peer', page'.of, page'.list)
  <2>1. CASE page' = [page EXCEPT !.list = e.list, !.of = e.acc]
    <3>1. e.list \in SUBSET Context /\ e.acc \in Anyone /\ Usable(known', peer', e.acc, e.list)
      BY <1>4 DEF Event, EventOk
    <3> HIDE DEF e
    <3>2. page' \in [shown : SUBSET Accounts, acc : Anyone, list : SUBSET Context, of : Anyone]
      BY <1>0, <2>1, <3>1 DEF TypeInv
    <3>3. page'.of = e.acc /\ page'.list = e.list
      BY <1>0, <2>1, <3>1 DEF TypeInv
    <3> QED BY <3>1, <3>2, <3>3
  <2>2. CASE RefreshAccounts
    <3>1. PICK a \in enabled \cup {NoAccount} : page' = [page EXCEPT !.shown = enabled, !.acc = a]
      BY <2>2 DEF RefreshAccounts
    <3>2. page' \in [shown : SUBSET Accounts, acc : Anyone, list : SUBSET Context, of : Anyone]
      BY <1>0, <3>1 DEF TypeInv, Anyone
    <3>3. page'.of = page.of /\ page'.list = page.list
      BY <1>0, <3>1 DEF TypeInv
    <3> QED BY <1>0, <1>2, <3>2, <3>3 DEF ContextInv
  <2> QED BY <2>1, <2>2 DEF HandleEvent
<1>8. TypeInv'
  BY <1>0, <1>1, <1>2, <1>3, <1>7 DEF TypeInv
<1>9. ContextInv'
  BY <1>0, <1>1, <1>2, <1>5, <1>7, Frame DEF ContextInv
<1> QED BY <1>6, <1>8, <1>9 DEF AccessInv

LEMMA AskDisableOk ==
  ASSUME AccessInv, NEW a \in Accounts, AskDisable(a) PROVE AccessInv'
  BY DEF AskDisable, AccessInv, TypeInv, ContextInv, PausedScanIsResumable, dbVars, uiVars

LEMMA WriteEnabledOk ==
  ASSUME AccessInv, NEW a \in Accounts, WriteEnabled(a) PROVE AccessInv'
<1> DEFINE e == [name |-> "AccountsChanged", acc |-> a, list |-> {}]
<1>0. TypeInv /\ ContextInv /\ PausedScanIsResumable
  BY DEF AccessInv
<1>1. events' = Append(events, e) /\ UNCHANGED <<member, peer, known, paused, source, page, task>>
  BY DEF WriteEnabled
<1>2. Kept(known, peer, known', peer')
  BY <1>1, SameRows
<1>3. enabled' \subseteq Accounts
  BY <1>0 DEF WriteEnabled, TypeInv
<1>4. e \in Event /\ EventOk(known', peer', e)
  BY DEF Event, EventOk, Anyone, Usable
<1> HIDE DEF e
<1>5. TypeInv'
  BY <1>0, <1>1, <1>3, <1>4 DEF TypeInv
<1>6. \A i \in 1..Len(events') : EventOk(known', peer', events'[i])
  BY <1>0, <1>1, <1>4 DEF ContextInv, TypeInv
<1>7. ContextInv'
  BY <1>0, <1>1, <1>2, <1>6, Frame DEF ContextInv
<1>8. PausedScanIsResumable'
  BY <1>0, <1>1 DEF PausedScanIsResumable
<1> QED BY <1>5, <1>7, <1>8 DEF AccessInv

\* A crash: every coroutine is gone, and the scans that were running are paused.
LEMMA RestartOk ==
  ASSUME AccessInv, Restart PROVE AccessInv'
<1>0. TypeInv /\ ContextInv /\ PausedScanIsResumable
  BY DEF AccessInv
<1>1. /\ source' = NoSource /\ events' = <<>> /\ task' = [t \in Slots |-> NoTask]
      /\ UNCHANGED <<member, enabled, peer, known>>
  BY DEF Restart
<1>2. Kept(known, peer, known', peer')
  BY <1>1, SameRows
<1>3. PICK chosen \in enabled \cup {NoAccount} : page' = [NoPage(enabled) EXCEPT !.acc = chosen]
  BY DEF Restart
<1>4. /\ page' \in [shown : SUBSET Accounts, acc : Anyone, list : SUBSET Context, of : Anyone]
      /\ page'.list = {}
  BY <1>0, <1>3 DEF NoPage, TypeInv, Anyone
<1>5. source' \in [acc : Anyone, ctx : SUBSET Context] /\ source'.ctx = {}
  BY <1>1 DEF NoSource, Anyone
<1>6. \A s \in Slots : task'[s] = NoTask
  BY <1>1
<1>7. task' \in [Slots -> Tasks] /\ \A s \in Slots : TaskOk(known', peer', task'[s])
  BY <1>1, <1>6, NoTaskOk DEF TaskOk
<1>8. \A a \in Accounts, g \in Groups :
        <<a, g>> \in paused' \ paused => Stored(known', peer', a, g)
  <2> SUFFICES ASSUME NEW a \in Accounts, NEW g \in Groups, <<a, g>> \in paused' \ paused
               PROVE  Stored(known', peer', a, g)
    OBVIOUS
  <2>1. PICK t \in Slots : task[t].kind \in Scans /\ a = task[t].acc /\ g \in task[t].g
    BY DEF Restart
  <2>2. RowsOk(known, peer, task[t])
    BY <1>0, <2>1 DEF ContextInv, TaskOk
  <2> QED BY <1>1, <2>1, <2>2 DEF RowsOk, Scans
<1>9. paused' \subseteq Accounts \X Groups
  <2>1. \A t \in Slots : task[t].kind \in Scans =>
          {task[t].acc} \X task[t].g \subseteq Accounts \X Groups
    BY <1>0 DEF ContextInv, TaskOk, PlaceOk, Tasks, Scans
  <2> QED BY <1>0, <2>1 DEF Restart, TypeInv
<1>10. PausedScanIsResumable'
  BY <1>2, <1>8, <1>9, PausedKept
<1>11. TypeInv'
  BY <1>0, <1>1, <1>4, <1>5, <1>7, <1>9 DEF TypeInv
<1>12. \A i \in 1..Len(events') : EventOk(known', peer', events'[i])
  BY <1>1
<1>13. ContextInv'
  BY <1>4, <1>5, <1>7, <1>12 DEF ContextInv, Usable
<1> QED BY <1>10, <1>11, <1>13 DEF AccessInv

-----------------------------------------------------------------------------
LEMMA InitAccess == Init => AccessInv
<1> SUFFICES ASSUME Init PROVE AccessInv
  OBVIOUS
<1> USE DEF Init
<1>1. \A p \in Accounts \X Groups : ContextOf(p[1], p[2]).hash \in Anyone
  BY DEF ContextOf, Anyone
<1>2. peer \in [Accounts \X Groups -> Anyone]
  BY <1>1 DEF Anyone
<1>3. PICK a \in Accounts : page = [NoPage(Accounts) EXCEPT !.acc = a]
  OBVIOUS
<1>4. /\ page \in [shown : SUBSET Accounts, acc : Anyone, list : SUBSET Context, of : Anyone]
      /\ page.list = {}
  BY <1>3 DEF NoPage, Anyone
<1>5. source \in [acc : Anyone, ctx : SUBSET Context] /\ source.ctx = {}
  BY DEF NoSource, Anyone
<1>6. task \in [Slots -> Tasks] /\ \A s \in Slots : TaskOk(known, peer, task[s])
  BY NoTaskOk DEF TaskOk
<1>7. TypeInv
  BY <1>2, <1>4, <1>5, <1>6, AccessAssumption DEF TypeInv
<1>8. ContextInv
  <2>1. 1..Len(events) = {}
    OBVIOUS
  <2>2. Usable(known, peer, source.acc, source.ctx) /\ Usable(known, peer, page.of, page.list)
    BY <1>4, <1>5 DEF Usable
  <2> QED BY <1>6, <2>1, <2>2 DEF ContextInv
<1>9. PausedScanIsResumable
  BY AccessAssumption DEF PausedScanIsResumable
<1> QED BY <1>7, <1>8, <1>9 DEF AccessInv

LEMMA NextAccess == AccessInv /\ [Next]_vars => AccessInv'
<1> SUFFICES ASSUME AccessInv, [Next]_vars PROVE AccessInv'
  OBVIOUS
<1>1. CASE JoinedGroups
  BY <1>1, BareSubmitOk DEF JoinedGroups, PCs
<1>2. CASE \E g \in Groups : ResolveSource(g)
  BY <1>2, BareSubmitOk DEF ResolveSource, PCs
<1>3. CASE \E a \in Accounts, g \in Groups : UseTool(a, g)
  <2>1. PICK a \in Accounts, g \in Groups : JoinGroup(a, g) \/ LeaveGroup(a, g)
    BY <1>3 DEF UseTool
  <2>2. CASE JoinGroup(a, g)
    BY <2>2, BareSubmitOk DEF JoinGroup, PCs
  <2>3. CASE LeaveGroup(a, g)
    BY <2>3, BareSubmitOk DEF LeaveGroup, PCs
  <2> QED BY <2>1, <2>2, <2>3
<1>4. CASE \E a \in Accounts, g \in Groups : ResumeScan(a, g)
  BY <1>4, ResumeScanOk
<1>5. CASE \E a \in Accounts : SelectAccount(a) \/ AskDisable(a) \/ WriteEnabled(a)
  BY <1>5, SelectAccountOk, AskDisableOk, WriteEnabledOk
<1>6. CASE \E a \in Accounts : MutationAsks(a) \/ MutationEnds(a)
  <2>1. UNCHANGED <<member, disabling, dbVars, uiVars, task, counters>>
    BY <1>6 DEF MutationAsks, MutationEnds
  <2> QED BY <2>1 DEF AccessInv, TypeInv, ContextInv, PausedScanIsResumable, dbVars, uiVars
<1>7. CASE \E t \in Slots : Step(t)
  <2>1. PICK t \in Slots : Step(t)
    BY <1>7
  <2> QED BY <2>1, EnterOk, ClientOk, AskOk, PersistOk, UpsertOk, DoneOk, JoinOk, LeaveOk,
             PrepareOk, ReadOk DEF Step
<1>8. CASE UNCHANGED vars
  BY <1>8 DEF vars, AccessInv, TypeInv, ContextInv, PausedScanIsResumable, dbVars, uiVars
<1> QED BY <1>1, <1>2, <1>3, <1>4, <1>5, <1>6, <1>7, <1>8, ScanSourceOk, HandleEventOk,
           RestartOk, SelectJoinedOk DEF Next

\* Wherever a context rests, in the store, on the page, in an event or in a
\* coroutine, it is its account's own, and has its rows from the moment on that
\* it leaves the coroutine which resolved it.
THEOREM AccessInvCorrect == Spec => []AccessInv
  BY InitAccess, NextAccess, PTL DEF Spec

\* Every request for participants and every leave carries the hash that was
\* given to the account which makes it.
THEOREM AccessHashIsOwnCorrect == Spec => []AccessHashIsOwn
<1>1. AccessInv => AccessHashIsOwn
  <2> SUFFICES ASSUME AccessInv, NEW t \in Slots, task[t].pc \in {"read", "leave"}
               PROVE  Whole(task[t])
    BY DEF AccessHashIsOwn, Whole
  <2>1. task[t] \in Tasks /\ PlaceOk(task[t])
    BY DEF AccessInv, ContextInv, TaskOk
  <2> QED BY <2>1 DEF PlaceOk, Tasks, Kinds, Utilities, Scans
<1> QED BY <1>1, AccessInvCorrect, PTL

\* A scan that a crash or a shutdown has cut off finds the group's row and its
\* account's hash when it is resumed.
THEOREM PausedScanIsResumableCorrect == Spec => []PausedScanIsResumable
<1>1. AccessInv => PausedScanIsResumable
  BY DEF AccessInv
<1> QED BY <1>1, AccessInvCorrect, PTL
=============================================================================
