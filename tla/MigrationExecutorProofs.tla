----------------------- MODULE MigrationExecutorProofs -----------------------
(***************************************************************************)
(* Proofs about MigrationExecutor: what two executors of one account, the  *)
(* delayed flush, failing writes and the end of the process may do to the  *)
(* account lock, to the counter of performance mode, to the candidates and *)
(* their results, and to what the job rows and the accounts say.           *)
(***************************************************************************)
EXTENDS MigrationExecutor, FiniteSetTheorems, WellFoundedInduction, TLAPS

-----------------------------------------------------------------------------
(* Smallest and largest numbers.                                           *)

LEMMA LeastNatural ==
  ASSUME NEW S, S \subseteq Nat, S # {}
  PROVE  \E o \in S : \A p \in S : o <= p
<1>1. PICK o \in S : \A p \in S : ~(<<p, o>> \in OpToRel(<, Nat))
  BY NatLessThanWellFounded, WFMin, Zenon
<1>2. \A p \in S : ~(p < o)
  BY <1>1 DEF OpToRel
<1>3. \A p \in S : o <= p
  BY <1>2
<1> QED BY <1>3

LEMMA GreatestNatural ==
  ASSUME NEW S, S \subseteq Nat, S # {}, NEW n \in Nat, \A p \in S : p <= n
  PROVE  \E o \in S : \A p \in S : p <= o
<1> DEFINE B == {b \in Nat : \A p \in S : p <= b}
<1>1. n \in B
  OBVIOUS
<1>2. PICK b \in B : \A c \in B : b <= c
  BY <1>1, LeastNatural
<1>3. b \in S
  <2> SUFFICES ASSUME b \notin S PROVE FALSE
    OBVIOUS
  <2>1. PICK q \in S : TRUE
    OBVIOUS
  <2>2. \A p \in S : p <= b - 1
    BY <1>2
  <2>3. b - 1 \in Nat
    BY <1>2, <2>1, <2>2
  <2> QED BY <1>2, <2>2, <2>3
<1> QED BY <1>2, <1>3

\* The numbers that finitely many jobs have are bounded.
LEMMA Bounded ==
  ASSUME NEW S, IsFiniteSet(S), NEW f \in [S -> Nat]
  PROVE  \E b \in Nat : \A s \in S : f[s] <= b
<1> DEFINE n == Cardinality(S)
<1>1. n \in Nat
  BY FS_CardinalityType
<1>2. PICK g \in [1..n -> S] : \A s \in S : \E i \in 1..n : g[i] = s
  BY FS_CardinalityType, Zenon DEF ExistsBijection, Bijection, Injection, Surjection
<1> HIDE DEF n
<1> DEFINE Open == {m \in 0..n : ~\E b \in Nat : \A i \in 1..m : f[g[i]] <= b}
<1>3. Open = {}
  <2> SUFFICES ASSUME Open # {} PROVE FALSE
    OBVIOUS
  <2>1. Open \subseteq 0..n /\ Open \subseteq Nat
    <3>1. \A m \in Open : m \in 0..n
      BY Zenon
    <3> HIDE DEF Open
    <3> QED BY <1>1, <3>1
  <2>2. PICK m \in Open : \A k \in Open : m <= k
    <3> HIDE DEF Open
    <3> QED BY <2>1, LeastNatural
  <2>3. m \in 0..n /\ ~\E b \in Nat : \A i \in 1..m : f[g[i]] <= b
    OBVIOUS
  <2>4. m # 0
    <3>1. \A i \in 1..0 : f[g[i]] <= 0
      OBVIOUS
    <3> QED BY <2>3, <3>1
  <2>5. m - 1 \in 0..n /\ m \in 1..n /\ ~(m <= m - 1)
    BY <1>1, <2>3, <2>4
  <2>6. m - 1 \notin Open
    <3> HIDE DEF Open
    <3> QED BY <2>2, <2>5
  <2>7. PICK b \in Nat : \A i \in 1..(m - 1) : f[g[i]] <= b
    BY <2>5, <2>6
  <2> HIDE DEF Open
  <2>8. \A i \in 1..m : i \in 1..n
    BY <1>1, <2>5
  <2>9. PICK h \in [1..m -> Nat] : \A i \in 1..m : h[i] = f[g[i]]
    <3>1. [i \in 1..m |-> f[g[i]]] \in [1..m -> Nat]
      BY <1>2, <2>8
    <3> QED BY <3>1
  <2>10. m \in 1..m /\ h[m] \in Nat /\ \A i \in 1..m : i \in 1..(m - 1) \/ i = m
    BY <2>5
  <2>11. \A i \in 1..(m - 1) : i \in 1..m /\ h[i] <= b
    BY <2>5, <2>7, <2>9
  <2>12. \A i \in 1..m : h[i] <= b + h[m]
    BY <2>10, <2>11
  <2>13. b + h[m] \in Nat
    BY <2>10
  <2> QED BY <2>3, <2>9, <2>12, <2>13
<1>4. n \in 0..n
  BY <1>1
<1>5. PICK b \in Nat : \A i \in 1..n : f[g[i]] <= b
  BY <1>3, <1>4
<1> QED BY <1>2, <1>5

LEMMA OrdinalNumbers ==
  /\ Cardinality(Ordinals) \in Nat /\ Ordinals = 1..Cardinality(Ordinals)
  /\ Ordinals \subseteq Nat /\ None \notin Ordinals
<1>1. Cardinality(Ordinals) \in Nat /\ Ordinals = 1..Cardinality(Ordinals)
  BY ExecutorAssumption, FS_CardinalityType
<1> QED BY <1>1 DEF None

LEMMA SmallestOrdinal ==
  ASSUME NEW S \in SUBSET Ordinals, S # {}
  PROVE  Smallest(S) \in S
  BY OrdinalNumbers, LeastNatural DEF Smallest

LEMMA LargestOrdinal ==
  ASSUME NEW S \in SUBSET Ordinals, S # {}
  PROVE  Largest(S) \in S /\ \A p \in S : p <= Largest(S)
<1>1. S \subseteq Nat /\ \A p \in S : p <= Cardinality(Ordinals)
  BY OrdinalNumbers
<1> QED BY <1>1, OrdinalNumbers, GreatestNatural DEF Largest

-----------------------------------------------------------------------------
(* Types.                                                                  *)

Places == {"none", "prime", "lock", "loop", "attempt", "delay", "rpc", "wait",
           "backoff", "leave", "summary", "exit"}
Asking == {"attempt", "delay", "rpc", "wait", "backoff"}

\* Where an executor is, or where it goes on when its writes are answered.
Pos(e) == IF e.pc = "await" THEN e.then ELSE e.pc

Updates == [ordinal : Ordinals, state : Done]

PlainWrites ==
  [kind : {"job"}, state : JobStates, until : Nat \cup {Keep}, overwrite : BOOLEAN]
  \cup [kind : {"account"}, state : AccountStates]
  \cup [kind : {"pauseAccount"}, gate : Nat]
  \cup [kind : {"retry"}, ordinal : Ordinals]
  \cup [kind : {"restriction"}]

ItemWrites == [kind : {"items"}, updates : Seq(Updates)]
Writes     == PlainWrites \cup ItemWrites

Entries == [job : Jobs, by : {"main", "flusher", "nobody"}, write : Writes]

Executors ==
  [pc : Places \cup {"await"}, todo : Seq(PlainWrites), then : Places,
   guard : {"none", "body", "except"}, cand : Ordinals \cup {None},
   buf : SUBSET Ordinals, last : Nat, results : Seq(Updates),
   flusher : {"none", "sleep", "write"}, stop : BOOLEAN, pause : BOOLEAN,
   gate : Nat, transient : 0..TransientLimit, action : Actions]

\* A candidate is there where one is needed, and transient errors are counted
\* up to the limit only.
Sound(e) ==
  /\ e.pc = "await" => e.then # "none"
  /\ Pos(e) \in Asking => e.cand \in Ordinals
  /\ Pos(e) \in {"prime", "lock", "loop", "attempt", "delay", "rpc", "wait"}
       => e.transient < TransientLimit

TypeDb ==
  /\ row \in [Jobs -> [state : JobStates, until : Nat,
                       action : Actions \cup {"none"}, failed : Nat]]
  /\ item \in [Jobs -> [Ordinals -> ItemStates]]
  /\ acct \in [Accounts -> AccountStates]
  /\ restricted \subseteq Accounts

TypeRest ==
  /\ lock \in [Accounts -> Jobs \cup {NoJob}]
  /\ perf \in Nat
  /\ app \in {"up", "closing", "down"}
  /\ now \in 0..MaxTime

TypeEx == ex \in [Jobs -> Executors] /\ \A j \in Jobs : Sound(ex[j])
TypeWq == wq \in Seq(Entries)

TypeInv == TypeDb /\ TypeRest /\ TypeEx /\ TypeWq

LEMMA TypeInvImplies == TypeInv => TypeOK
  BY DEF TypeInv, TypeDb, TypeRest, TypeEx, TypeOK, Executors, Sound

LEMMA NoExecutorType == NoExecutor \in Executors /\ Sound(NoExecutor)
  BY ExecutorAssumption DEF NoExecutor, Executors, Sound, Pos, Places, Asking, Actions, None

LEMMA PutExecutor ==
  ASSUME TypeEx, NEW j \in Jobs, NEW f \in Executors, Sound(f), ex' = [ex EXCEPT ![j] = f]
  PROVE  TypeEx' /\ ex'[j] = f /\ \A k \in Jobs \ {j} : ex'[k] = ex[k]
  BY DEF TypeEx

LEMMA PutEntry ==
  ASSUME TypeWq, NEW en \in Entries, wq' = Append(wq, en)
  PROVE  TypeWq'
  BY DEF TypeWq

\* Await, in one formula: executor j goes from e to f, and the first of its
\* writes, which may hold the results, is with DBWriter.
Awaited(j, e, f, then) ==
  /\ f \in Executors /\ ex' = [ex EXCEPT ![j] = f] /\ Pos(f) = then
  /\ f.guard = e.guard /\ f.cand = e.cand /\ f.buf = e.buf /\ f.last = e.last
  /\ f.flusher = e.flusher /\ f.transient = e.transient
  /\ \/ wq' = wq /\ f.pc = then /\ f.results = e.results
     \/ \E w \in Writes :
          /\ wq' = Append(wq, Entry(j, "main", w)) /\ f.pc = "await"
          /\ \/ f.results = e.results /\ w.kind # "items"
             \/ f.results = <<>> /\ w = ItemsWrite(e.results)

LEMMA AwaitIsAwaited ==
  ASSUME TypeInv, NEW j \in Jobs, NEW e \in Executors, NEW flush \in BOOLEAN,
         NEW writes \in Seq(PlainWrites), NEW then \in Places,
         Await(j, e, flush, writes, then)
  PROVE  \E f \in Executors : Awaited(j, e, f, then)
<1> DEFINE ws == IF flush /\ e.results # <<>> THEN <<ItemsWrite(e.results)>> \o writes
                                              ELSE writes
           e1 == IF flush THEN [e EXCEPT !.results = <<>>] ELSE e
<1>0. /\ "await" \notin Places /\ e.results \in Seq(Updates)
      /\ \A w \in PlainWrites : w.kind # "items"
  BY DEF Executors, Places, PlainWrites
<1>1. e1 \in Executors
  <2>1. <<>> \in Seq(Updates)
    OBVIOUS
  <2> QED BY <2>1 DEF Executors
<1>2. CASE ws = <<>>
  <2> DEFINE f == [e1 EXCEPT !.pc = then]
  <2>1. ex' = [ex EXCEPT ![j] = f] /\ wq' = wq
    BY <1>2 DEF Await
  <2>2. ~(flush /\ e.results # <<>>)
    BY <1>2
  <2>3. f \in Executors /\ f.pc = then
    BY <1>1 DEF Executors
  <2>4. /\ f.guard = e.guard /\ f.cand = e.cand /\ f.buf = e.buf /\ f.last = e.last
        /\ f.flusher = e.flusher /\ f.transient = e.transient /\ f.results = e.results
    BY <2>2 DEF Executors
  <2>5. Awaited(j, e, f, then)
    BY <1>0, <2>1, <2>3, <2>4 DEF Awaited, Pos
  <2> QED BY <2>3, <2>5
<1>3. CASE ws # <<>>
  <2> DEFINE f == [e1 EXCEPT !.pc = "await", !.todo = Tail(ws), !.then = then]
             w == Head(ws)
  <2>1. ex' = [ex EXCEPT ![j] = f] /\ wq' = Append(wq, Entry(j, "main", w))
    BY <1>3 DEF Await
  <2>2. /\ w \in Writes /\ Tail(ws) \in Seq(PlainWrites)
        /\ \/ flush /\ w = ItemsWrite(e.results)
           \/ e1.results = e.results /\ w.kind # "items"
    <3>1. CASE flush /\ e.results # <<>>
      <4>1. w = ItemsWrite(e.results) /\ Tail(ws) = writes
        BY <3>1
      <4>2. ItemsWrite(e.results) \in Writes
        BY <1>0 DEF Writes, ItemWrites, ItemsWrite
      <4> QED BY <3>1, <4>1, <4>2
    <3>2. CASE ~(flush /\ e.results # <<>>)
      <4>1. ws = writes /\ writes # <<>> /\ e1.results = e.results
        BY <1>3, <3>2 DEF Executors
      <4>2. Head(writes) \in PlainWrites /\ Tail(writes) \in Seq(PlainWrites)
        BY <4>1
      <4> QED BY <1>0, <4>1, <4>2 DEF Writes
    <3> QED BY <3>1, <3>2
  <2> HIDE DEF ws, w
  <2>3. f \in Executors /\ f.pc = "await" /\ f.then = then /\ f.results = e1.results
    BY <1>1, <2>2 DEF Executors
  <2>4. /\ f.guard = e.guard /\ f.cand = e.cand /\ f.buf = e.buf /\ f.last = e.last
        /\ f.flusher = e.flusher /\ f.transient = e.transient
        /\ flush => f.results = <<>>
    BY DEF Executors
  <2> HIDE DEF f, e1
  <2>5. Awaited(j, e, f, then)
    BY <2>1, <2>2, <2>3, <2>4 DEF Awaited, Pos
  <2> QED BY <2>3, <2>5
<1> QED BY <1>2, <1>3

Counting == {"prime", "lock", "loop", "attempt", "delay", "rpc", "wait"}

LEMMA AwaitedType ==
  ASSUME TypeInv, NEW j \in Jobs, NEW e, NEW f \in Executors, NEW then \in Places \ {"none"},
         Awaited(j, e, f, then), e.results \in Seq(Updates),
         then \in Asking => e.cand \in Ordinals,
         then \in Counting => e.transient < TransientLimit
  PROVE  TypeEx' /\ TypeWq'
<1>2. Sound(f)
  BY DEF Awaited, Sound, Counting, Pos
<1>3. TypeEx'
  BY <1>2, PutExecutor DEF Awaited, TypeInv
<1>4. TypeWq'
  <2>1. CASE wq' = wq
    BY <2>1 DEF TypeInv, TypeWq
  <2>2. ASSUME NEW w \in Writes, wq' = Append(wq, Entry(j, "main", w))
        PROVE  TypeWq'
    <3>1. Entry(j, "main", w) \in Entries
      BY DEF Entry, Entries
    <3> QED BY <2>2, <3>1, PutEntry DEF TypeInv
  <2> QED BY <2>1, <2>2 DEF Awaited
<1> QED BY <1>3, <1>4

\* The writes that executors await.
LEMMA WriteTypes ==
  /\ \A st \in JobStates, until \in Nat \cup {Keep}, o \in BOOLEAN :
       JobWrite(st, until, o) \in PlainWrites
  /\ \A st \in AccountStates : AccountWrite(st) \in PlainWrites
  /\ \A g \in Nat : PauseAccount(g) \in PlainWrites
  /\ \A o \in Ordinals : RetryWrite(o) \in PlainWrites
  /\ RestrictionWrite \in PlainWrites
  BY DEF PlainWrites, JobWrite, AccountWrite, PauseAccount, RetryWrite, RestrictionWrite

LEMMA Tuples ==
  ASSUME NEW S, NEW a \in S, NEW b \in S, NEW c \in S, NEW d \in S
  PROVE  /\ <<a>> \in Seq(S) /\ <<a, b>> \in Seq(S)
         /\ <<a, b, c>> \in Seq(S) /\ <<a, b, c, d>> \in Seq(S)
  OBVIOUS

LEMMA Prefixed ==
  ASSUME NEW S, NEW s \in Seq(S), NEW c
  PROVE  Head(<<c>> \o s) = c /\ Tail(<<c>> \o s) = s
  OBVIOUS

LEMMA StateNames ==
  /\ {"RUNNING", "PAUSED", "CANCELLED", "FAILED", "COMPLETED", "COMPLETED_WITH_ERRORS",
      "WAITING_SERVER", "RATE_LIMITED", "READY"} \subseteq JobStates
  /\ {"READY", "BUSY", "WAITING_SERVER", "AUTH_REQUIRED", "ERROR"} \subseteq AccountStates
  /\ {"SUCCESS", "SKIPPED", "FAILED"} = Done
  BY DEF JobStates, Terminal, AccountStates, Done

LEMMA CommitType ==
  ASSUME TypeDb, NEW j \in Jobs, NEW w \in Writes, Commit(j, w)
  PROVE  TypeDb'
<1>0. AccountOf[j] \in Accounts
  BY ExecutorAssumption
<1>1. CASE w.kind = "job"
  <2>1. w \in [kind : {"job"}, state : JobStates, until : Nat \cup {Keep}, overwrite : BOOLEAN]
    BY <1>1 DEF Writes, PlainWrites, ItemWrites
  <2> QED BY <1>1, <2>1 DEF Commit, TypeDb
<1>2. CASE w.kind = "account"
  <2>1. w.state \in AccountStates
    BY <1>2 DEF Writes, PlainWrites, ItemWrites
  <2> QED BY <1>0, <1>2, <2>1 DEF Commit, TypeDb
<1>3. CASE w.kind = "pauseAccount"
  BY <1>0, <1>3, StateNames DEF Commit, TypeDb
<1>4. CASE w.kind = "retry"
  <2>1. w.ordinal \in Ordinals
    BY <1>4 DEF Writes, PlainWrites, ItemWrites
  <2>2. item' = [item EXCEPT ![j] = [item[j] EXCEPT ![w.ordinal] = "RETRY"]]
    BY <1>4 DEF Commit
  <2>3. [item[j] EXCEPT ![w.ordinal] = "RETRY"] \in [Ordinals -> ItemStates]
    BY DEF TypeDb, ItemStates
  <2>4. UNCHANGED <<row, acct, restricted>>
    BY <1>4 DEF Commit
  <2> QED BY <2>2, <2>3, <2>4 DEF TypeDb
<1>5. CASE w.kind = "restriction"
  BY <1>0, <1>5 DEF Commit, TypeDb
<1>6. CASE w.kind = "items"
  <2>1. w.updates \in Seq(Updates)
    BY <1>6 DEF Writes, PlainWrites, ItemWrites
  <2>2. Updated(j, w.updates) \in [Ordinals -> ItemStates]
    <3> SUFFICES ASSUME NEW o \in Ordinals, Reports(w.updates, o)
                 PROVE  w.updates[CHOOSE i \in 1..Len(w.updates) : w.updates[i].ordinal = o].state
                          \in ItemStates
      BY DEF Updated, TypeDb
    <3>1. PICK i \in 1..Len(w.updates) : i = CHOOSE k \in 1..Len(w.updates) : w.updates[k].ordinal = o
      BY DEF Reports
    <3>2. w.updates[i] \in Updates
      BY <2>1
    <3> QED BY <3>1, <3>2 DEF Updates, ItemStates
  <2>3. FailedCount(Updated(j, w.updates)) \in Nat
    <3> DEFINE F == {o \in Ordinals : Updated(j, w.updates)[o] = "FAILED"}
    <3>1. F \in SUBSET Ordinals /\ IsFiniteSet(Ordinals)
      BY ExecutorAssumption
    <3>2. IsFiniteSet(F)
      BY <3>1, FS_Subset
    <3> QED BY <3>2, FS_CardinalityType DEF FailedCount
  <2>4. item' = [item EXCEPT ![j] = Updated(j, w.updates)] /\ UNCHANGED <<acct, restricted>>
    BY <1>6 DEF Commit
  <2>5. row' = [row EXCEPT ![j] = [row[j] EXCEPT !.failed = FailedCount(Updated(j, w.updates)),
                                                 !.action = "none"]]
    BY <1>6 DEF Commit, TypeDb
  <2>6. item' \in [Jobs -> [Ordinals -> ItemStates]]
    BY <2>2, <2>4 DEF TypeDb
  <2>7. row' \in [Jobs -> [state : JobStates, until : Nat,
                           action : Actions \cup {"none"}, failed : Nat]]
    BY <2>3, <2>5 DEF TypeDb
  <2> QED BY <2>4, <2>6, <2>7 DEF TypeDb
<1> QED BY <1>1, <1>2, <1>3, <1>4, <1>5, <1>6 DEF Writes, PlainWrites, ItemWrites

\* A server wait of the account is a time, also when no job has one.
LEMMA RemainingWaitType ==
  ASSUME TypeInv, NEW a \in Accounts
  PROVE  RemainingWait(a) \in Nat
<1> DEFINE K == {k \in Jobs : AccountOf[k] = a /\ row[k].state = "WAITING_SERVER"}
           waits == {row[j].until : j \in K}
           f == [k \in Jobs |-> row[k].until]
<1>1. f \in [Jobs -> Nat]
  BY DEF TypeInv, TypeDb
<1>2. PICK b \in Nat : \A k \in Jobs : f[k] <= b
  <2> HIDE DEF f
  <2> QED BY <1>1, Bounded, ExecutorAssumption
<1>3. waits \cup {None} \subseteq Nat /\ \A v \in waits \cup {None} : v <= b
  BY <1>1, <1>2 DEF None
<1> HIDE DEF waits
<1>4. \E w \in waits \cup {None} : \A v \in waits \cup {None} : v <= w
  <2> DEFINE W == waits \cup {None}
  <2>1. W \subseteq Nat /\ W # {} /\ \A v \in W : v <= b
    BY <1>3
  <2> HIDE DEF W
  <2>2. \E w \in W : \A v \in W : v <= w
    BY <2>1, GreatestNatural
  <2> QED BY <2>2 DEF W
<1>5. (CHOOSE w \in waits \cup {None} : \A v \in waits : v <= w) \in waits \cup {None}
  BY <1>4
<1>6. AccountWaitingUntil(a) \in Nat
  BY <1>3, <1>5 DEF AccountWaitingUntil, waits
<1> QED BY <1>6 DEF RemainingWait, None

LEMMA LaunchType ==
  ASSUME TypeInv, NEW j \in Jobs, Launch(j)
  PROVE  /\ TypeInv' /\ perf' = perf + 1 /\ UNCHANGED <<dbVars, lock, app, now, lost, leaked>>
         /\ broken' = broken \ {j}
         /\ \E f \in Executors, g \in Nat, a \in Actions :
              Awaited(j, [NoExecutor EXCEPT !.gate = g, !.action = a], f, "prime")
<1> DEFINE e == [NoExecutor EXCEPT !.gate = RemainingWait(AccountOf[j]), !.action = ActionOf(row[j])]
           writes == <<JobWrite("RUNNING", Keep, FALSE), AccountWrite("BUSY")>>
<1>1. RemainingWait(AccountOf[j]) \in Nat
  BY RemainingWaitType, ExecutorAssumption
<1>2. ActionOf(row[j]) \in Actions
  BY DEF TypeInv, TypeDb, ActionOf, Actions
<1>3. e \in Executors /\ e.cand = None /\ e.transient = 0
  BY <1>1, <1>2, NoExecutorType DEF Executors, NoExecutor
<1>4. writes \in Seq(PlainWrites)
  <2>1. JobWrite("RUNNING", Keep, FALSE) \in PlainWrites /\ AccountWrite("BUSY") \in PlainWrites
    BY WriteTypes, StateNames
  <2> QED BY <2>1, Tuples
<1>5. Await(j, e, FALSE, writes, "prime") /\ perf' = perf + 1
      /\ UNCHANGED <<dbVars, lock, app, now, lost, leaked>> /\ broken' = broken \ {j}
  BY DEF Launch, EnablePerformanceMode
<1>6. 0 < TransientLimit /\ "prime" \in Places \ {"none"} /\ "prime" \notin Asking
  BY ExecutorAssumption DEF Places, Asking
<1> HIDE DEF e, writes
<1>7. PICK f \in Executors : Awaited(j, e, f, "prime")
  BY <1>3, <1>4, <1>5, <1>6, AwaitIsAwaited
<1>8. TypeEx' /\ TypeWq'
  BY <1>3, <1>6, <1>7, AwaitedType DEF Executors
<1>9. TypeInv'
  BY <1>5, <1>8 DEF TypeInv, TypeDb, TypeRest, dbVars
<1> QED BY <1>1, <1>2, <1>5, <1>7, <1>9 DEF e

\* The executor that has recorded its candidate's result.
Recorded(e, st) == [e EXCEPT !.results = Append(@, ItemUpdate(e.cand, st)),
                             !.cand = None, !.transient = 0,
                             !.flusher = IF @ = "none" THEN "sleep" ELSE @]

LEMMA RecordType ==
  ASSUME TypeInv, NEW j \in Jobs, NEW st \in Done, Pos(ex[j]) \in Asking, Record(j, st)
  PROVE  /\ Recorded(ex[j], st) \in Executors /\ TypeEx' /\ TypeWq'
         /\ \E f \in Executors : Awaited(j, Recorded(ex[j], st), f, "loop")
<1> DEFINE e == Recorded(ex[j], st)
<1>1. ex[j] \in Executors /\ ex[j].cand \in Ordinals /\ ex[j].results \in Seq(Updates)
  BY DEF TypeInv, TypeEx, Sound, Executors
<1>2. ItemUpdate(ex[j].cand, st) \in Updates
  BY <1>1 DEF ItemUpdate, Updates
<1>3. Append(ex[j].results, ItemUpdate(ex[j].cand, st)) \in Seq(Updates)
  BY <1>1, <1>2
<1>4. e \in Executors /\ e.transient = 0
  <2>1. 0 \in 0..TransientLimit
    BY ExecutorAssumption
  <2>2. PICK r \in Seq(Updates) : r = Append(ex[j].results, ItemUpdate(ex[j].cand, st))
    BY <1>3
  <2>3. e = [ex[j] EXCEPT !.results = r, !.cand = None, !.transient = 0,
                          !.flusher = IF @ = "none" THEN "sleep" ELSE @]
    BY <1>1, <2>2 DEF Executors, Recorded
  <2> HIDE DEF e
  <2> QED BY <1>1, <2>1, <2>3 DEF Executors
<1>5. <<>> \in Seq(PlainWrites) /\ 0 < TransientLimit
      /\ "loop" \in Places \ {"none"} /\ "loop" \notin Asking
  BY ExecutorAssumption DEF Places, Asking
<1>6. \E flush \in BOOLEAN : Await(j, e, flush, <<>>, "loop")
  BY DEF Record, Recorded
<1> HIDE DEF e
<1>7. PICK f \in Executors : Awaited(j, e, f, "loop")
  BY <1>4, <1>5, <1>6, AwaitIsAwaited
<1>8. TypeEx' /\ TypeWq'
  BY <1>4, <1>5, <1>7, AwaitedType DEF Executors
<1> QED BY <1>4, <1>7, <1>8 DEF e

LEMMA ReleasedType ==
  ASSUME TypeInv, NEW j \in Jobs, lock' = Released(j)
  PROVE  lock' \in [Accounts -> Jobs \cup {NoJob}]
  BY ExecutorAssumption DEF Released, TypeInv, TypeRest

LEMMA FillType ==
  ASSUME TypeInv, NEW j \in Jobs, NEW e \in Executors
  PROVE  /\ Fill(e, j) \in Executors
         /\ Fill(e, j).pc = e.pc /\ Fill(e, j).then = e.then /\ Fill(e, j).guard = e.guard
         /\ Fill(e, j).todo = e.todo
         /\ Fill(e, j).cand = e.cand /\ Fill(e, j).results = e.results
         /\ Fill(e, j).flusher = e.flusher /\ Fill(e, j).transient = e.transient
         /\ Fill(e, j).buf = PendingAfter(j, e.last) /\ Fill(e, j).last >= e.last
         /\ \A o \in PendingAfter(j, e.last) : o <= Fill(e, j).last
<1> DEFINE chunk == PendingAfter(j, e.last)
           last == IF chunk = {} THEN e.last ELSE Largest(chunk)
<1>1. chunk \in SUBSET Ordinals /\ \A o \in chunk : o > e.last
  BY DEF PendingAfter
<1>2. chunk # {} => Largest(chunk) \in chunk /\ \A o \in chunk : o <= Largest(chunk)
  BY <1>1, LargestOrdinal
<1>3. e.last \in Nat /\ Ordinals \subseteq Nat
  BY OrdinalNumbers DEF Executors
<1>4. last \in Nat /\ last >= e.last /\ \A o \in chunk : o <= last
  <2> HIDE DEF chunk
  <2>1. CASE chunk = {}
    BY <1>3, <2>1
  <2>2. CASE chunk # {}
    <3>1. last = Largest(chunk) /\ last \in chunk /\ last \in Nat /\ last > e.last
      BY <1>1, <1>2, <1>3, <2>2
    <3> QED BY <1>2, <1>3, <2>2, <3>1
  <2> QED BY <2>1, <2>2
<1>5. Fill(e, j) = [e EXCEPT !.buf = chunk, !.last = last]
  BY DEF Fill, Executors
<1> HIDE DEF chunk, last
<1>6. /\ [e EXCEPT !.buf = chunk, !.last = last] \in Executors
      /\ [e EXCEPT !.buf = chunk, !.last = last].last = last
      /\ [e EXCEPT !.buf = chunk, !.last = last].buf = chunk
  BY <1>1, <1>4 DEF Executors
<1> QED BY <1>4, <1>5, <1>6 DEF Executors, chunk

\* The end of a server wait is a time that the clock can reach.
LEMMA UntilType ==
  ASSUME TypeInv, NEW w \in Waits
  PROVE  Until(w) \in 0..MaxTime /\ Until(w) >= now /\ Until(w) <= now + w
<1>1. MaxTime \in Nat /\ w \in Nat
  BY ExecutorAssumption
<1>2. now \in 0..MaxTime
  BY DEF TypeInv, TypeRest
<1> QED BY <1>1, <1>2 DEF Until

\* The ways from one place to the next over a series of writes.
Moves == ({"loop", "delay", "wait", "backoff", "rpc"} \X {"leave"})
         \cup {<<"rpc", "wait">>, <<"wait", "delay">>, <<"loop", "summary">>,
                <<"summary", "exit">>}

AwaitStep(j) ==
  \/ HandleControl(j) \/ NoCandidate(j) \/ (\E w \in Waits : RpcFloodWait(j, w))
  \/ RpcRateLimited(j) \/ RpcPausesJob(j) \/ WaitOver(j) \/ Summarize(j)

LEMMA AwaitSteps ==
  ASSUME TypeInv, NEW j \in Jobs, AwaitStep(j)
  PROVE  /\ TypeInv' /\ UNCHANGED <<dbVars, perf, app, now, lost, boundVars, broken, leaked>>
         /\ \E f \in Executors, then \in Places \ {"none"} :
              /\ Awaited(j, ex[j], f, then) /\ <<ex[j].pc, then>> \in Moves
              /\ lock' = IF then = "summary" THEN Released(j) ELSE lock
<1> DEFINE Good(then) ==
      /\ \E f \in Executors : Awaited(j, ex[j], f, then)
      /\ then \in Places \ {"none"} /\ <<ex[j].pc, then>> \in Moves
      /\ lock' = IF then = "summary" THEN Released(j) ELSE lock
<1>0. /\ ex[j] \in Executors /\ Sound(ex[j]) /\ ex[j].gate \in Nat /\ now \in Nat
      /\ ex[j].pc \in Asking => ex[j].cand \in Ordinals
  BY ExecutorAssumption DEF TypeInv, TypeEx, TypeRest, Executors, Sound, Pos, Asking
<1>1. UNCHANGED <<dbVars, perf, app, now, lost, boundVars, broken, leaked>>
  BY DEF AwaitStep, HandleControl, NoCandidate, RpcFloodWait, RpcRateLimited, RpcPausesJob,
         WaitOver, Summarize, LoopUnchanged, brokenVars
<1>2. ASSUME HandleControl(j) PROVE Good("leave")
  <2>1. \E writes \in Seq(PlainWrites) : Await(j, ex[j], TRUE, writes, "leave")
    <3>1. /\ JobWrite("CANCELLED", None, FALSE) \in PlainWrites
          /\ AccountWrite("READY") \in PlainWrites
          /\ JobWrite("PAUSED", Keep, FALSE) \in PlainWrites
          /\ PauseAccount(ex[j].gate) \in PlainWrites
      BY <1>0, WriteTypes, StateNames DEF None
    <3>2. /\ <<JobWrite("CANCELLED", None, FALSE), AccountWrite("READY")>> \in Seq(PlainWrites)
          /\ <<JobWrite("PAUSED", Keep, FALSE), PauseAccount(ex[j].gate)>> \in Seq(PlainWrites)
      BY <3>1, Tuples
    <3> QED BY <1>2, <3>2, Zenon DEF HandleControl
  <2>2. "leave" \in Places \ {"none"} /\ <<ex[j].pc, "leave">> \in Moves /\ lock' = lock
    BY <1>2 DEF HandleControl, Places, Moves
  <2> QED BY <1>0, <2>1, <2>2, AwaitIsAwaited
<1>3. ASSUME NoCandidate(j) PROVE Good("summary")
  <2>1. /\ "summary" \in Places \ {"none"} /\ <<ex[j].pc, "summary">> \in Moves
        /\ lock' = Released(j) /\ Await(j, ex[j], TRUE, <<>>, "summary")
    BY <1>3 DEF NoCandidate, Places, Moves
  <2>2. <<>> \in Seq(PlainWrites)
    OBVIOUS
  <2> QED BY <1>0, <2>1, <2>2, AwaitIsAwaited
<1>4. ASSUME NEW w \in Waits, RpcFloodWait(j, w) PROVE Good("wait")
  <2> DEFINE until == Until(w)
             e == [ex[j] EXCEPT !.gate = Larger(@, until)]
             writes == <<RetryWrite(ex[j].cand), AccountWrite("WAITING_SERVER"),
                         JobWrite("WAITING_SERVER", until, TRUE)>>
  <2>0. until \in Nat
    BY UntilType
  <2>1. until \in Nat /\ ex[j].pc = "rpc" /\ lock' = lock /\ Await(j, e, TRUE, writes, "wait")
    BY <1>4, <2>0, Zenon DEF RpcFloodWait
  <2>2. e \in Executors
    BY <1>0, <2>1 DEF Executors, Larger
  <2>3. writes \in Seq(PlainWrites)
    <3>1. /\ RetryWrite(ex[j].cand) \in PlainWrites /\ AccountWrite("WAITING_SERVER") \in PlainWrites
          /\ JobWrite("WAITING_SERVER", until, TRUE) \in PlainWrites
      BY <1>0, <2>1, WriteTypes, StateNames DEF Asking
    <3> QED BY <3>1, Tuples
  <2>4. "wait" \in Places \ {"none"} /\ <<ex[j].pc, "wait">> \in Moves
    BY <2>1 DEF Places, Moves
  <2>5. /\ e.guard = ex[j].guard /\ e.cand = ex[j].cand /\ e.buf = ex[j].buf
        /\ e.last = ex[j].last /\ e.flusher = ex[j].flusher
        /\ e.transient = ex[j].transient /\ e.results = ex[j].results
    BY <1>0 DEF Executors
  <2> HIDE DEF e, writes
  <2>6. PICK f \in Executors : Awaited(j, e, f, "wait")
    BY <2>1, <2>2, <2>3, <2>4, AwaitIsAwaited
  <2>7. Awaited(j, ex[j], f, "wait")
    BY <2>5, <2>6 DEF Awaited
  <2> QED BY <2>1, <2>4, <2>7
<1>5. ASSUME RpcRateLimited(j) \/ RpcPausesJob(j) PROVE Good("leave")
  <2>1. ex[j].pc = "rpc" /\ lock' = lock
    BY <1>5 DEF RpcRateLimited, RpcPausesJob
  <2>2. /\ RetryWrite(ex[j].cand) \in PlainWrites /\ RestrictionWrite \in PlainWrites
        /\ JobWrite("RATE_LIMITED", Keep, TRUE) \in PlainWrites
        /\ JobWrite("PAUSED", Keep, TRUE) \in PlainWrites
        /\ \A st \in {"AUTH_REQUIRED", "ERROR"} : AccountWrite(st) \in PlainWrites
    BY <1>0, <2>1, WriteTypes, StateNames DEF Asking
  <2>3. \E writes \in Seq(PlainWrites) : Await(j, ex[j], TRUE, writes, "leave")
    <3>1. CASE RpcRateLimited(j)
      <4>1. <<RetryWrite(ex[j].cand), JobWrite("RATE_LIMITED", Keep, TRUE),
              AccountWrite("ERROR"), RestrictionWrite>> \in Seq(PlainWrites)
        BY <2>2, Tuples
      <4> QED BY <3>1, <4>1 DEF RpcRateLimited
    <3>2. CASE RpcPausesJob(j)
      <4>1. PICK st \in {"AUTH_REQUIRED", "ERROR"} :
              Await(j, ex[j], TRUE, <<RetryWrite(ex[j].cand), JobWrite("PAUSED", Keep, TRUE),
                                      AccountWrite(st)>>, "leave")
        BY <3>2 DEF RpcPausesJob
      <4>2. <<RetryWrite(ex[j].cand), JobWrite("PAUSED", Keep, TRUE), AccountWrite(st)>>
              \in Seq(PlainWrites)
        BY <2>2, Tuples
      <4> QED BY <4>1, <4>2
    <3> QED BY <1>5, <3>1, <3>2
  <2>4. "leave" \in Places \ {"none"} /\ <<ex[j].pc, "leave">> \in Moves
    BY <2>1 DEF Places, Moves
  <2> QED BY <1>0, <2>1, <2>3, <2>4, AwaitIsAwaited
<1>6. ASSUME WaitOver(j) PROVE Good("delay")
  <2>1. <<JobWrite("RUNNING", None, FALSE), AccountWrite("BUSY")>> \in Seq(PlainWrites)
    <3>1. JobWrite("RUNNING", None, FALSE) \in PlainWrites /\ AccountWrite("BUSY") \in PlainWrites
      BY WriteTypes, StateNames DEF None
    <3> QED BY <3>1, Tuples
  <2>2. "delay" \in Places \ {"none"} /\ <<ex[j].pc, "delay">> \in Moves /\ lock' = lock
    BY <1>6 DEF WaitOver, Places, Moves
  <2>3. Await(j, ex[j], FALSE, <<JobWrite("RUNNING", None, FALSE), AccountWrite("BUSY")>>, "delay")
    BY <1>6 DEF WaitOver
  <2> QED BY <1>0, <2>1, <2>2, <2>3, AwaitIsAwaited
<1>7. ASSUME Summarize(j) PROVE Good("exit")
  <2>1. PICK final \in {"COMPLETED_WITH_ERRORS", "COMPLETED"} :
          Await(j, ex[j], FALSE, <<JobWrite(final, None, FALSE), AccountWrite("READY")>>, "exit")
    BY <1>7 DEF Summarize
  <2>2. <<JobWrite(final, None, FALSE), AccountWrite("READY")>> \in Seq(PlainWrites)
    <3>1. JobWrite(final, None, FALSE) \in PlainWrites /\ AccountWrite("READY") \in PlainWrites
      BY WriteTypes, StateNames DEF None
    <3> QED BY <3>1, Tuples
  <2>3. "exit" \in Places \ {"none"} /\ <<ex[j].pc, "exit">> \in Moves /\ lock' = lock
    BY <1>7 DEF Summarize, Places, Moves
  <2> QED BY <1>0, <2>1, <2>2, <2>3, AwaitIsAwaited
<1>8. PICK then : Good(then)
  BY <1>2, <1>3, <1>4, <1>5, <1>6, <1>7 DEF AwaitStep
<1>9. PICK f \in Executors : Awaited(j, ex[j], f, then)
  BY <1>8
<1>10. TypeEx' /\ TypeWq'
  <2>1. then \in Asking => ex[j].pc \in {"rpc", "wait"}
    BY <1>8 DEF Moves, Asking
  <2>2. then \in Counting => ex[j].pc \in {"rpc", "wait"}
    BY <1>8 DEF Moves, Counting
  <2>3. ex[j].pc \in {"rpc", "wait"} => ex[j].cand \in Ordinals /\ ex[j].transient < TransientLimit
    BY <1>0 DEF Sound, Pos, Asking
  <2>4. ex[j].results \in Seq(Updates)
    BY <1>0 DEF Executors
  <2> QED BY <1>8, <1>9, <2>1, <2>2, <2>3, <2>4, AwaitedType
<1>11. lock' \in [Accounts -> Jobs \cup {NoJob}]
  BY <1>8, ReleasedType DEF TypeInv, TypeRest
<1>12. TypeInv'
  BY <1>1, <1>10, <1>11 DEF TypeInv, TypeDb, TypeRest, dbVars
<1> QED BY <1>1, <1>8, <1>9, <1>12

\* Steps that change the place and little else.
GoOn(j) ==
  /\ ex[j].pc = "attempt" \/ (ex[j].pc = "backoff" /\ ~(ex[j].transient >= TransientLimit))
  /\ ex' = [ex EXCEPT ![j].pc = "delay"]
  /\ LoopUnchanged
  /\ UNCHANGED <<lock, perf, wq>>

SimpleStep(j) ==
  \/ AcquireLock(j) \/ GoOn(j) \/ SendRpc(j) \/ RpcTransient(j)
  \/ PauseMigration(j) \/ StopMigration(j)

SameWork(e, f) ==
  /\ f.guard = e.guard /\ f.cand = e.cand /\ f.buf = e.buf /\ f.last = e.last
  /\ f.results = e.results /\ f.flusher = e.flusher /\ f.todo = e.todo

Simple(j, f) ==
  /\ f \in Executors /\ ex' = [ex EXCEPT ![j] = f] /\ SameWork(ex[j], f)
  /\ \/ f.pc = ex[j].pc /\ f.then = ex[j].then
     \/ <<ex[j].pc, f.pc>> \in {<<"lock", "loop">>, <<"attempt", "delay">>, <<"delay", "rpc">>,
                                <<"rpc", "backoff">>, <<"backoff", "delay">>}
  /\ \/ lock' = lock /\ (ex[j].pc # "lock" \/ f.pc = ex[j].pc)
     \/ lock[AccountOf[j]] = NoJob /\ lock' = [lock EXCEPT ![AccountOf[j]] = j]

LEMMA SimpleSteps ==
  ASSUME TypeInv, NEW j \in Jobs, SimpleStep(j)
  PROVE  /\ TypeInv' /\ UNCHANGED <<dbVars, wq, perf, app, now, lost, failures, broken, leaked>>
         /\ \E f \in Executors : Simple(j, f)
<1>0. /\ ex \in [Jobs -> Executors] /\ ex[j] \in Executors /\ Sound(ex[j])
      /\ AccountOf[j] \in Accounts /\ TransientLimit \in Nat
  BY ExecutorAssumption DEF TypeInv, TypeEx
<1>1. UNCHANGED <<dbVars, wq, perf, app, now, lost, failures, broken, leaked>>
  BY DEF SimpleStep, AcquireLock, GoOn, SendRpc, RpcTransient, PauseMigration, StopMigration,
         LoopUnchanged, boundVars, brokenVars, Dispatch
<1>2. ASSUME NEW f, ex' = [ex EXCEPT ![j] = f], Simple(j, f), Sound(f),
             lock' = lock \/ lock' = [lock EXCEPT ![AccountOf[j]] = j]
      PROVE  TypeInv'
  <2>1. TypeEx'
    BY <1>2, PutExecutor DEF TypeInv, Simple
  <2>2. TypeRest'
    BY <1>0, <1>1, <1>2 DEF TypeInv, TypeRest
  <2> QED BY <1>1, <2>1, <2>2 DEF TypeInv, TypeDb, TypeWq, dbVars
<1>3. CASE AcquireLock(j)
  <2> DEFINE f == [ex[j] EXCEPT !.pc = "loop"]
  <2>1. /\ f \in Executors /\ SameWork(ex[j], f) /\ f.pc = "loop" /\ ex[j].pc = "lock"
        /\ ex' = [ex EXCEPT ![j] = f]
        /\ lock[AccountOf[j]] = NoJob /\ lock' = [lock EXCEPT ![AccountOf[j]] = j]
    BY <1>0, <1>3 DEF AcquireLock, Executors, SameWork, Places
  <2>2. Sound(f)
    BY <1>0, <2>1 DEF Sound, Pos, Asking, Executors
  <2> HIDE DEF f
  <2>3. Simple(j, f)
    BY <2>1 DEF Simple
  <2> QED BY <1>1, <1>2, <2>1, <2>2, <2>3
<1>4. CASE GoOn(j) \/ SendRpc(j)
  <2> DEFINE f == [ex[j] EXCEPT !.pc = IF ex[j].pc = "delay" THEN "rpc" ELSE "delay"]
  <2>1. /\ f \in Executors /\ SameWork(ex[j], f)
        /\ ex' = [ex EXCEPT ![j] = f] /\ lock' = lock
        /\ f.pc = IF ex[j].pc = "delay" THEN "rpc" ELSE "delay"
        /\ f.transient = ex[j].transient
        /\ \/ ex[j].pc \in {"attempt", "delay"}
           \/ ex[j].pc = "backoff" /\ ~(ex[j].transient >= TransientLimit)
    BY <1>0, <1>4 DEF GoOn, SendRpc, Executors, SameWork, Places
  <2>2. ex[j].cand \in Ordinals /\ ex[j].transient < TransientLimit
    BY <1>0, <2>1 DEF Sound, Pos, Asking, Executors
  <2>3. Sound(f)
    BY <2>1, <2>2 DEF Sound, Pos, Asking, SameWork
  <2> HIDE DEF f
  <2>4. Simple(j, f)
    BY <2>1 DEF Simple
  <2> QED BY <1>1, <1>2, <2>1, <2>3, <2>4
<1>5. CASE RpcTransient(j)
  <2> DEFINE f == [ex[j] EXCEPT !.pc = "backoff", !.transient = @ + 1]
  <2>0. ex[j].pc = "rpc" /\ lock' = lock /\ ex' = [ex EXCEPT ![j] = f]
    BY <1>0, <1>5 DEF RpcTransient, Executors
  <2>1. ex[j].cand \in Ordinals /\ ex[j].transient + 1 \in 0..TransientLimit
    BY <1>0, <2>0 DEF Sound, Pos, Asking, Executors
  <2>2. f \in Executors /\ SameWork(ex[j], f) /\ f.pc = "backoff"
    BY <1>0, <2>1 DEF Executors, SameWork, Places
  <2>3. Sound(f)
    BY <2>1, <2>2 DEF Sound, Pos, Asking, SameWork
  <2> HIDE DEF f
  <2>4. Simple(j, f)
    BY <2>0, <2>2 DEF Simple
  <2> QED BY <1>1, <1>2, <2>0, <2>2, <2>3, <2>4
<1>6. CASE PauseMigration(j) \/ StopMigration(j)
  <2>1. PICK f \in {RequestPause(ex[j]), RequestStop(ex[j])} : ex' = [ex EXCEPT ![j] = f] /\ lock' = lock
    BY <1>0, <1>6 DEF PauseMigration, StopMigration
  <2>2. f \in Executors /\ SameWork(ex[j], f) /\ f.pc = ex[j].pc /\ f.then = ex[j].then
        /\ f.transient = ex[j].transient
    BY <1>0, <2>1 DEF RequestPause, RequestStop, Executors, SameWork
  <2>3. Sound(f)
    BY <1>0, <2>2 DEF Sound, Pos, SameWork
  <2>4. Simple(j, f)
    BY <2>1, <2>2 DEF Simple
  <2> QED BY <1>1, <1>2, <2>1, <2>2, <2>3, <2>4
<1> QED BY <1>3, <1>4, <1>5, <1>6 DEF SimpleStep

\* The steps that record a result.
RecordStep(j, st) ==
  /\ ex[j].pc \in {"attempt", "rpc", "backoff"} /\ Record(j, st)
  /\ LoopUnchanged
  /\ UNCHANGED <<lock, perf>>

LEMMA AttemptSplits ==
  ASSUME TypeInv, NEW j \in Jobs,
         Attempt(j) \/ RpcSucceeds(j) \/ RpcRejected(j) \/ BackoffOver(j)
  PROVE  GoOn(j) \/ \E st \in Done : RecordStep(j, st)
<1>1. CASE Attempt(j)
  BY <1>1, StateNames DEF Attempt, GoOn, RecordStep
<1>2. CASE RpcSucceeds(j)
  BY <1>2, StateNames DEF RpcSucceeds, RecordStep
<1>3. CASE RpcRejected(j)
  BY <1>3, StateNames DEF RpcRejected, RecordStep
<1>4. CASE BackoffOver(j)
  BY <1>4, StateNames DEF BackoffOver, GoOn, RecordStep
<1> QED BY <1>1, <1>2, <1>3, <1>4

LEMMA RecordSteps ==
  ASSUME TypeInv, NEW j \in Jobs, NEW st \in Done, RecordStep(j, st)
  PROVE  /\ TypeInv' /\ UNCHANGED <<dbVars, lock, perf, app, now, lost, failures, broken, leaked>>
         /\ ex[j].cand \in Ordinals /\ Recorded(ex[j], st) \in Executors
         /\ \E f \in Executors : Awaited(j, Recorded(ex[j], st), f, "loop")
<1>1. Pos(ex[j]) \in Asking /\ Record(j, st)
  BY DEF RecordStep, Pos, Asking
<1>2. TypeEx' /\ TypeWq' /\ ex[j].cand \in Ordinals
  BY <1>1, RecordType DEF TypeInv, TypeEx, Sound
<1>3. UNCHANGED <<dbVars, lock, perf, app, now, lost, failures, broken, leaked>>
  BY DEF RecordStep, LoopUnchanged, boundVars, brokenVars
<1> QED BY <1>1, <1>2, <1>3, RecordType DEF TypeInv, TypeDb, TypeRest, dbVars

\* The window is filled before the loop, and in it when it is empty.
LEMMA PrimeStep ==
  ASSUME TypeInv, NEW j \in Jobs, Prime(j)
  PROVE  /\ TypeInv' /\ UNCHANGED <<dbVars, lock, wq, perf, app, now, lost, failures, broken, leaked>>
         /\ ex[j].pc = "prime"
         /\ \E f \in Executors :
              /\ ex' = [ex EXCEPT ![j] = f] /\ f.pc = "lock" /\ f.guard = "body"
              /\ f.cand = ex[j].cand /\ f.results = ex[j].results /\ f.flusher = ex[j].flusher
              /\ f.todo = ex[j].todo
              /\ f.buf = PendingAfter(j, ex[j].last) /\ f.last >= ex[j].last
              /\ \A o \in f.buf : o <= f.last
<1> DEFINE e == Fill(ex[j], j)
           f == [e EXCEPT !.pc = "lock", !.guard = "body"]
<1>0. ex \in [Jobs -> Executors] /\ ex[j] \in Executors /\ Sound(ex[j])
  BY DEF TypeInv, TypeEx
<1>1. ex[j].pc = "prime" /\ ex' = [ex EXCEPT ![j] = f]
      /\ UNCHANGED <<dbVars, lock, wq, perf, app, now, lost, failures, broken, leaked>>
  BY <1>0 DEF Prime, LoopUnchanged, boundVars, brokenVars
<1>2. /\ e \in Executors
      /\ e.cand = ex[j].cand /\ e.results = ex[j].results /\ e.flusher = ex[j].flusher
      /\ e.transient = ex[j].transient /\ e.todo = ex[j].todo
      /\ e.buf = PendingAfter(j, ex[j].last) /\ e.last >= ex[j].last
      /\ \A o \in e.buf : o <= e.last
  BY <1>0, FillType
<1> HIDE DEF e
<1>3. /\ f \in Executors /\ f.pc = "lock" /\ f.guard = "body" /\ f.cand = e.cand
      /\ f.results = e.results /\ f.flusher = e.flusher /\ f.transient = e.transient
      /\ f.buf = e.buf /\ f.last = e.last /\ f.todo = e.todo
  BY <1>2 DEF Executors, Places
<1> HIDE DEF f
<1>4. Sound(f)
  BY <1>0, <1>1, <1>2, <1>3 DEF Sound, Pos, Asking
<1>5. TypeInv'
  BY <1>1, <1>3, <1>4, PutExecutor DEF TypeInv, TypeDb, TypeRest, TypeWq, dbVars
<1> QED BY <1>1, <1>2, <1>3, <1>5

LEMMA PopStep ==
  ASSUME TypeInv, NEW j \in Jobs, PopCandidate(j)
  PROVE  /\ TypeInv' /\ UNCHANGED <<dbVars, lock, wq, perf, app, now, lost, failures, broken, leaked>>
         /\ ex[j].pc = "loop"
         /\ \E e, f \in Executors :
              /\ ex' = [ex EXCEPT ![j] = f] /\ f.pc = "attempt"
              /\ f.guard = ex[j].guard /\ f.results = ex[j].results /\ f.flusher = ex[j].flusher
              /\ f.todo = ex[j].todo
              /\ \/ e.buf = ex[j].buf /\ e.last = ex[j].last
                 \/ /\ ex[j].buf = {}
                    /\ e.buf = PendingAfter(j, ex[j].last) /\ e.last >= ex[j].last
                    /\ \A o \in e.buf : o <= e.last
              /\ f.cand \in e.buf /\ f.buf = e.buf \ {f.cand} /\ f.last = e.last
<1> DEFINE e == IF ex[j].buf = {} THEN Fill(ex[j], j) ELSE ex[j]
           o == Smallest(e.buf)
           f == [e EXCEPT !.cand = o, !.buf = @ \ {o}, !.pc = "attempt"]
<1>0. ex \in [Jobs -> Executors] /\ ex[j] \in Executors /\ Sound(ex[j])
  BY DEF TypeInv, TypeEx
<1>1. ex[j].pc = "loop" /\ e.buf # {} /\ ex' = [ex EXCEPT ![j] = f]
      /\ UNCHANGED <<dbVars, lock, wq, perf, app, now, lost, failures, broken, leaked>>
  BY <1>0 DEF PopCandidate, LoopUnchanged, boundVars, brokenVars
<1>2. /\ e \in Executors /\ e.guard = ex[j].guard
      /\ e.results = ex[j].results /\ e.flusher = ex[j].flusher
      /\ e.transient = ex[j].transient /\ e.todo = ex[j].todo
      /\ \/ e.buf = ex[j].buf /\ e.last = ex[j].last
         \/ /\ ex[j].buf = {} /\ e.buf = PendingAfter(j, ex[j].last) /\ e.last >= ex[j].last
            /\ \A p \in e.buf : p <= e.last
  BY <1>0, FillType
<1> HIDE DEF e
<1>3. o \in e.buf /\ o \in Ordinals
  BY <1>1, <1>2, SmallestOrdinal DEF Executors
<1> HIDE DEF o
<1>4. /\ f \in Executors /\ f.pc = "attempt" /\ f.guard = e.guard /\ f.cand = o
      /\ f.results = e.results /\ f.flusher = e.flusher /\ f.transient = e.transient
      /\ f.buf = e.buf \ {o} /\ f.last = e.last /\ f.todo = e.todo
  BY <1>2, <1>3 DEF Executors, Places
<1> HIDE DEF f
<1>5. Sound(f)
  BY <1>0, <1>1, <1>2, <1>3, <1>4 DEF Sound, Pos, Asking
<1>6. TypeInv'
  BY <1>1, <1>4, <1>5, PutExecutor DEF TypeInv, TypeDb, TypeRest, TypeWq, dbVars
<1>7. f.cand \in e.buf /\ f.buf = e.buf \ {f.cand}
  BY <1>3, <1>4
<1>8. e \in Executors /\ f \in Executors
  BY <1>2, <1>4
<1> QED BY <1>1, <1>2, <1>4, <1>6, <1>7, <1>8

\* A write loses the coroutine that waits for it, nothing else.
LEMMA OrphanedType ==
  ASSUME TypeInv, NEW j \in Jobs
  PROVE  /\ Orphaned(j) \in Seq(Entries) /\ Len(Orphaned(j)) = Len(wq)
         /\ \A i \in 1..Len(wq) :
              /\ Orphaned(j)[i].job = wq[i].job /\ Orphaned(j)[i].write = wq[i].write
              /\ wq[i].job # j => Orphaned(j)[i] = wq[i]
              /\ wq[i].job = j => Orphaned(j)[i].by = "nobody"
<1>1. wq \in Seq(Entries) /\ Len(wq) \in Nat
  BY DEF TypeInv, TypeWq
<1>2. \A i \in 1..Len(wq) : wq[i] \in Entries
  BY <1>1
<1>3. \A i \in 1..Len(wq) : [wq[i] EXCEPT !.by = "nobody"] \in Entries
  BY <1>2 DEF Entries
<1>4. Orphaned(j) \in [1..Len(wq) -> Entries]
  BY <1>2, <1>3 DEF Orphaned
<1>5. Orphaned(j) \in Seq(Entries) /\ Len(Orphaned(j)) = Len(wq)
  BY <1>1, <1>4
<1>6. \A i \in 1..Len(wq) :
        /\ Orphaned(j)[i].job = wq[i].job /\ Orphaned(j)[i].write = wq[i].write
        /\ wq[i].job # j => Orphaned(j)[i] = wq[i]
        /\ wq[i].job = j => Orphaned(j)[i].by = "nobody"
  BY <1>2 DEF Orphaned, Entries
<1> QED BY <1>5, <1>6

FinishStep(j) == Leave(j) \/ Exit(j)

LEMMA FinishSteps ==
  ASSUME TypeInv, NEW j \in Jobs, FinishStep(j)
  PROVE  /\ TypeInv' /\ UNCHANGED <<dbVars, app, now, lost, failures, broken, leaked>>
         /\ ex[j].pc \in {"leave", "exit"} /\ ex' = [ex EXCEPT ![j] = NoExecutor]
         /\ wq' = Orphaned(j) /\ DisablePerformanceMode
         /\ lock' = lock \/ lock' = Released(j)
<1>1. /\ UNCHANGED <<dbVars, app, now, lost, failures, broken, leaked>>
      /\ ex[j].pc \in {"leave", "exit"} /\ ex' = [ex EXCEPT ![j] = NoExecutor]
      /\ wq' = Orphaned(j) /\ DisablePerformanceMode
      /\ lock' = lock \/ lock' = Released(j)
  BY DEF FinishStep, Leave, Exit, Finish, LoopUnchanged, boundVars, brokenVars
<1>2. TypeEx' /\ TypeWq'
  BY <1>1, NoExecutorType, PutExecutor, OrphanedType DEF TypeInv, TypeWq
<1>3. perf' \in Nat
  BY <1>1 DEF DisablePerformanceMode, TypeInv, TypeRest
<1>4. lock' \in [Accounts -> Jobs \cup {NoJob}]
  BY <1>1, ReleasedType DEF TypeInv, TypeRest
<1> QED BY <1>1, <1>2, <1>3, <1>4 DEF TypeInv, TypeDb, TypeRest, dbVars

LEMMA FlushStep ==
  ASSUME TypeInv, NEW j \in Jobs, DelayedFlush(j)
  PROVE  /\ TypeInv' /\ UNCHANGED <<dbVars, lock, perf, app, now, lost, failures, broken, leaked>>
         /\ ex[j].flusher = "sleep"
         /\ \E f \in Executors :
              /\ ex' = [ex EXCEPT ![j] = f] /\ f.pc = ex[j].pc /\ f.then = ex[j].then
              /\ f.guard = ex[j].guard /\ f.cand = ex[j].cand /\ f.buf = ex[j].buf
              /\ f.last = ex[j].last /\ f.results = <<>> /\ f.flusher # "sleep"
              /\ f.todo = ex[j].todo
              /\ \/ wq' = wq /\ ex[j].results = <<>>
                 \/ wq' = Append(wq, Entry(j, "flusher", ItemsWrite(ex[j].results)))
<1>0. ex \in [Jobs -> Executors] /\ ex[j] \in Executors /\ Sound(ex[j])
      /\ ex[j].results \in Seq(Updates)
  BY DEF TypeInv, TypeEx, Executors
<1>1. UNCHANGED <<dbVars, lock, perf, app, now, lost, failures, broken, leaked>> /\ ex[j].flusher = "sleep"
  BY DEF DelayedFlush, LoopUnchanged, boundVars, brokenVars
<1> DEFINE f == [ex[j] EXCEPT !.flusher = IF ex[j].results = <<>> THEN "none" ELSE "write",
                              !.results = <<>>]
           en == Entry(j, "flusher", ItemsWrite(ex[j].results))
<1>2. /\ f \in Executors /\ f.pc = ex[j].pc /\ f.then = ex[j].then
      /\ f.guard = ex[j].guard /\ f.cand = ex[j].cand /\ f.buf = ex[j].buf
      /\ f.last = ex[j].last /\ f.results = <<>> /\ f.flusher # "sleep"
      /\ f.transient = ex[j].transient /\ f.todo = ex[j].todo
  <2>1. <<>> \in Seq(Updates)
    OBVIOUS
  <2> QED BY <1>0, <2>1 DEF Executors
<1>3. ex' = [ex EXCEPT ![j] = f]
  <2>1. CASE ex[j].results = <<>>
    <3>1. f = [ex[j] EXCEPT !.flusher = "none"]
      BY <1>0, <2>1 DEF Executors
    <3>2. ex' = [ex EXCEPT ![j] = [ex[j] EXCEPT !.flusher = "none"]]
      BY <1>0, <2>1 DEF DelayedFlush
    <3> QED BY <3>1, <3>2
  <2>2. CASE ex[j].results # <<>>
    BY <1>0, <2>2 DEF DelayedFlush, Executors
  <2> QED BY <2>1, <2>2
<1>4. \/ wq' = wq /\ ex[j].results = <<>>
      \/ wq' = Append(wq, en)
  BY DEF DelayedFlush
<1> HIDE DEF f
<1>5. Sound(f)
  BY <1>0, <1>2 DEF Sound, Pos
<1>6. TypeWq'
  <2>1. en \in Entries
    BY <1>0 DEF Entries, Entry, Writes, ItemWrites, ItemsWrite
  <2> HIDE DEF en
  <2> QED BY <1>4, <2>1, PutEntry DEF TypeInv, TypeWq
<1>7. TypeInv'
  BY <1>1, <1>2, <1>3, <1>5, <1>6, PutExecutor DEF TypeInv, TypeDb, TypeRest, dbVars
<1> QED BY <1>1, <1>2, <1>3, <1>4, <1>7

-----------------------------------------------------------------------------
(* Answers.  At most one write of run is with DBWriter, and run waits for it. *)

Mine(i, j) == wq[i].by = "main" /\ wq[i].job = j

MainInv ==
  /\ \A i \in 1..Len(wq), j \in Jobs : Mine(i, j) => ex[j].pc = "await"
  /\ \A i, k \in 1..Len(wq), j \in Jobs : Mine(i, j) /\ Mine(k, j) => i = k

LEMMA Tails ==
  ASSUME TypeInv, wq # <<>>
  PROVE  /\ Tail(wq) \in Seq(Entries) /\ Len(wq) \in Nat /\ Len(Tail(wq)) = Len(wq) - 1
         /\ 1 \in 1..Len(wq) /\ Head(wq) = wq[1] /\ wq[1] \in Entries
         /\ \A i \in 1..Len(Tail(wq)) : i + 1 \in 1..Len(wq) /\ Tail(wq)[i] = wq[i + 1]
<1>1. wq \in Seq(Entries)
  BY DEF TypeInv, TypeWq
<1> QED BY <1>1

LEMMA MainKept ==
  ASSUME MainInv, wq' = wq, \A k \in Jobs : ex[k].pc = "await" => ex'[k].pc = "await"
  PROVE  MainInv'
  BY DEF MainInv, Mine

LEMMA MainAppends ==
  ASSUME TypeInv, MainInv, NEW j \in Jobs, NEW by, NEW w, wq' = Append(wq, Entry(j, by, w)),
         by = "main" => ex[j].pc # "await" /\ ex'[j].pc = "await",
         \A k \in Jobs : ex[k].pc = "await" => ex'[k].pc = "await"
  PROVE  MainInv'
<1>1. wq \in Seq(Entries) /\ Len(wq) \in Nat
  BY DEF TypeInv, TypeWq
<1>2. /\ Len(wq') = Len(wq) + 1 /\ wq'[Len(wq) + 1] = Entry(j, by, w)
      /\ \A i \in 1..Len(wq) : wq'[i] = wq[i]
  BY <1>1
<1>3. \A i \in 1..Len(wq') : i \in 1..Len(wq) \/ i = Len(wq) + 1
  BY <1>1, <1>2
<1>4. Entry(j, by, w).job = j /\ Entry(j, by, w).by = by
  BY DEF Entry
<1>5. ASSUME NEW i \in 1..Len(wq'), NEW k \in Jobs, wq'[i].by = "main", wq'[i].job = k
      PROVE  /\ ex'[k].pc = "await"
             /\ \/ i \in 1..Len(wq) /\ Mine(i, k)
                \/ i = Len(wq) + 1 /\ k = j /\ ~\E n \in 1..Len(wq) : Mine(n, k)
  BY <1>2, <1>3, <1>4, <1>5 DEF MainInv, Mine
<1>6. ASSUME NEW i \in 1..Len(wq'), NEW k \in 1..Len(wq'), NEW m \in Jobs,
             wq'[i].by = "main", wq'[i].job = m, wq'[k].by = "main", wq'[k].job = m
      PROVE  i = k
  BY <1>5, <1>6 DEF MainInv
<1> QED BY <1>5, <1>6 DEF MainInv, Mine

\* Whatever becomes of the oldest write.
LEMMA MainTail ==
  ASSUME TypeInv, MainInv, wq # <<>>, wq' = Tail(wq),
         \A k \in Jobs : ex[k].pc = "await" => ex'[k].pc = "await" \/ Mine(1, k)
  PROVE  MainInv'
<1>1. /\ Len(wq) \in Nat /\ 1 \in 1..Len(wq) /\ Len(wq') = Len(wq) - 1
      /\ \A i \in 1..Len(wq') : i + 1 \in 1..Len(wq) /\ wq'[i] = wq[i + 1]
  BY Tails
<1>2. ASSUME NEW i \in 1..Len(wq'), NEW k \in Jobs, wq'[i].by = "main", wq'[i].job = k
      PROVE  Mine(i + 1, k) /\ ex'[k].pc = "await"
  <2>1. Mine(i + 1, k) /\ i + 1 \in 1..Len(wq) /\ i + 1 # 1
    BY <1>1, <1>2 DEF Mine
  <2>2. ~Mine(1, k)
    BY <1>1, <2>1 DEF MainInv
  <2> QED BY <2>1, <2>2 DEF MainInv
<1>3. ASSUME NEW i \in 1..Len(wq'), NEW k \in 1..Len(wq'), NEW m \in Jobs,
             wq'[i].by = "main", wq'[i].job = m, wq'[k].by = "main", wq'[k].job = m
      PROVE  i = k
  <2>1. i + 1 = k + 1
    BY <1>1, <1>2, <1>3 DEF MainInv
  <2> QED BY <2>1
<1> QED BY <1>2, <1>3 DEF MainInv, Mine

LEMMA LastOrEarlier ==
  ASSUME NEW n \in Nat
  PROVE  \A i \in 1..n : i \in 1..(n - 1) \/ i = n
  OBVIOUS

LEMMA MainNext ==
  ASSUME TypeInv, MainInv, wq # <<>>, NEW j \in Jobs, Mine(1, j), NEW w,
         wq' = Append(Tail(wq), Entry(j, "main", w)), ex'[j].pc = "await",
         \A k \in Jobs \ {j} : ex'[k] = ex[k]
  PROVE  MainInv'
<1>1. /\ Len(wq) \in Nat /\ 1 \in 1..Len(wq) /\ Tail(wq) \in Seq(Entries)
      /\ Len(Tail(wq)) = Len(wq) - 1
      /\ \A i \in 1..Len(Tail(wq)) : i + 1 \in 1..Len(wq) /\ Tail(wq)[i] = wq[i + 1]
  BY Tails
<1>2. /\ Len(wq') = Len(wq) /\ wq'[Len(wq)] = Entry(j, "main", w)
      /\ \A i \in 1..(Len(wq) - 1) : wq'[i] = wq[i + 1] /\ i + 1 \in 1..Len(wq)
  BY <1>1
<1>3. \A i \in 1..Len(wq') : i \in 1..(Len(wq) - 1) \/ i = Len(wq)
  BY <1>1, <1>2, LastOrEarlier
<1>4. Entry(j, "main", w).job = j
  BY DEF Entry
<1>5. ASSUME NEW i \in 1..Len(wq'), NEW k \in Jobs, wq'[i].by = "main", wq'[i].job = k
      PROVE  /\ ex'[k].pc = "await"
             /\ \/ i \in 1..(Len(wq) - 1) /\ Mine(i + 1, k) /\ k # j
                \/ i = Len(wq) /\ k = j
  <2>1. CASE i = Len(wq)
    BY <1>2, <1>4, <1>5, <2>1
  <2>2. CASE i \in 1..(Len(wq) - 1)
    <3>1. Mine(i + 1, k) /\ i + 1 \in 1..Len(wq) /\ i + 1 # 1
      BY <1>2, <1>5, <2>2 DEF Mine
    <3>2. k # j
      BY <1>1, <3>1 DEF MainInv
    <3> QED BY <2>2, <3>1, <3>2 DEF MainInv
  <2> QED BY <1>3, <2>1, <2>2
<1>6. ASSUME NEW i \in 1..Len(wq'), NEW k \in 1..Len(wq'), NEW m \in Jobs,
             wq'[i].by = "main", wq'[i].job = m, wq'[k].by = "main", wq'[k].job = m
      PROVE  i = k
  <2>1. CASE m = j
    BY <1>5, <1>6, <2>1
  <2>2. CASE m # j
    <3>1. /\ i \in 1..(Len(wq) - 1) /\ k \in 1..(Len(wq) - 1)
          /\ Mine(i + 1, m) /\ Mine(k + 1, m)
      BY <1>5, <1>6, <2>2
    <3>2. i + 1 \in 1..Len(wq) /\ k + 1 \in 1..Len(wq)
      BY <1>2, <3>1
    <3>3. i + 1 = k + 1
      BY <3>1, <3>2 DEF MainInv
    <3> QED BY <3>1, <3>3
  <2> QED BY <2>1, <2>2
<1>7. \A i \in 1..Len(wq'), k \in Jobs : Mine(i, k)' => ex'[k].pc = "await"
  BY <1>5 DEF Mine
<1>8. \A i, k \in 1..Len(wq'), m \in Jobs : Mine(i, m)' /\ Mine(k, m)' => i = k
  BY <1>6 DEF Mine
<1> QED BY <1>7, <1>8 DEF MainInv

\* Nobody waits for the writes of j any more.
LEMMA MainOrphans ==
  ASSUME TypeInv, MainInv, NEW j \in Jobs, wq' = Orphaned(j),
         \A k \in Jobs \ {j} : ex'[k] = ex[k]
  PROVE  MainInv'
<1>1. Len(wq') = Len(wq)
  BY OrphanedType
<1>2. ASSUME NEW i \in 1..Len(wq'), NEW k \in Jobs, wq'[i].by = "main", wq'[i].job = k
      PROVE  Mine(i, k) /\ k # j
  BY <1>1, <1>2, OrphanedType DEF Mine
<1> QED BY <1>1, <1>2 DEF MainInv, Mine

\* An empty queue, or one that nobody waits for.
LEMMA MainNobody ==
  ASSUME \A i \in 1..Len(wq') : wq'[i].by # "main"
  PROVE  MainInv'
  BY DEF MainInv, Mine

SameItems(e, f) ==
  /\ f.guard = e.guard /\ f.cand = e.cand /\ f.buf = e.buf /\ f.last = e.last
  /\ f.results = e.results /\ f.flusher \in {e.flusher, "none"}

\* DBWriter has answered the oldest write, and executor j goes from its locals
\* to f: to the next write of its series, to the end of the series, or it was
\* not the one that waited.
Answered(j, f) ==
  /\ f \in Executors /\ Sound(f) /\ ex' = [ex EXCEPT ![j] = f]
  /\ SameItems(ex[j], f) /\ Pos(f) = Pos(ex[j])
  /\ \/ /\ Mine(1, j) /\ f.pc = "await"
        /\ ex[j].todo # <<>> /\ f.todo = Tail(ex[j].todo)
        /\ \E w \in PlainWrites : /\ wq' = Append(Tail(wq), Entry(j, "main", w))
                                  /\ w = Submitted(Head(ex[j].todo))
     \/ Mine(1, j) /\ ex[j].todo = <<>> /\ f.todo = <<>> /\ wq' = Tail(wq)
     \/ /\ ~Mine(1, j) /\ f.pc = ex[j].pc /\ f.todo = ex[j].todo /\ wq' = Tail(wq)

\* What is submitted is of the kind that was to be written, and nothing but the
\* account's write of a pause is made at that moment.
LEMMA SubmittedType ==
  ASSUME NEW w \in PlainWrites
  PROVE  /\ Submitted(w) \in PlainWrites /\ Submitted(w).kind = w.kind
         /\ w.kind # "pauseAccount" => Submitted(w) = w
<1>1. CASE w.kind = "pauseAccount"
  BY <1>1, WriteTypes DEF Submitted, PauseAccount, None
<1>2. CASE w.kind # "pauseAccount"
  BY <1>2 DEF Submitted
<1> QED BY <1>1, <1>2

LEMMA HeadJob ==
  ASSUME TypeInv, wq # <<>>
  PROVE  /\ Head(wq) = wq[1] /\ wq[1].job \in Jobs /\ wq[1].write \in Writes
         /\ wq[1].by \in {"main", "flusher", "nobody"}
  BY Tails DEF Entries

\* The types of what the writer thread leaves behind.
LEMMA AnsweredType ==
  ASSUME TypeInv, MainInv, wq # <<>>, NEW j \in Jobs, NEW f, Answered(j, f)
  PROVE  TypeEx' /\ TypeWq' /\ MainInv'
<1>1. /\ TypeEx' /\ ex'[j] = f /\ \A k \in Jobs \ {j} : ex'[k] = ex[k]
  BY PutExecutor DEF Answered, TypeInv
<1>2. CASE wq' = Tail(wq)
  <2>1. TypeWq'
    BY <1>2, Tails DEF TypeWq
  <2>2. \A k \in Jobs : ex[k].pc = "await" => ex'[k].pc = "await" \/ Mine(1, k)
    BY <1>1 DEF Answered
  <2> QED BY <1>1, <1>2, <2>1, <2>2, MainTail
<1>3. ASSUME NEW w \in PlainWrites, wq' = Append(Tail(wq), Entry(j, "main", w)),
             Mine(1, j), f.pc = "await"
      PROVE  TypeWq' /\ MainInv'
  <2>1. Entry(j, "main", w) \in Entries
    BY DEF Entry, Entries, Writes
  <2>2. TypeWq'
    BY <1>3, <2>1, Tails DEF TypeWq
  <2> QED BY <1>1, <1>3, <2>2, MainNext
<1> QED BY <1>1, <1>2, <1>3 DEF Answered

LEMMA CommitStep ==
  ASSUME TypeInv, MainInv, WriteCommits
  PROVE  /\ TypeInv' /\ MainInv' /\ wq # <<>> /\ wq[1].job \in Jobs
         /\ UNCHANGED <<lock, perf, app, now, lost, failures, broken, leaked>>
         /\ Commit(wq[1].job, wq[1].write)
         /\ \E f \in Executors : Answered(wq[1].job, f)
<1> DEFINE j == wq[1].job  e == ex[j]
<1>0. /\ wq # <<>> /\ j \in Jobs /\ Head(wq) = wq[1] /\ wq[1].write \in Writes
      /\ wq[1].by \in {"main", "flusher", "nobody"}
  BY HeadJob DEF WriteCommits
<1>1. /\ ex \in [Jobs -> Executors] /\ e \in Executors /\ Sound(e) /\ e.todo \in Seq(PlainWrites)
      /\ e.then \in Places
  BY <1>0 DEF TypeInv, TypeEx, Executors
<1>2. UNCHANGED <<lock, perf, app, now, lost, failures, broken, leaked>> /\ Commit(j, wq[1].write)
  BY <1>0 DEF WriteCommits, boundVars, brokenVars
<1>3. TypeDb'
  BY <1>0, <1>2, CommitType DEF TypeInv
<1>4. wq[1].by = "main" => Mine(1, j) /\ e.pc = "await" /\ e.then # "none"
  BY <1>0, <1>1, Tails DEF Mine, MainInv, Sound
<1>5. \E f \in Executors : Answered(j, f)
  <2>1. CASE wq[1].by = "main" /\ e.todo # <<>>
    <3> DEFINE f == [e EXCEPT !.todo = Tail(@)]
    <3>1. Tail(e.todo) \in Seq(PlainWrites) /\ Head(e.todo) \in PlainWrites
      BY <1>1, <2>1
    <3>0. Submitted(Head(e.todo)) \in PlainWrites
      BY <3>1, SubmittedType
    <3>2. /\ ex' = [ex EXCEPT ![j] = f]
          /\ wq' = Append(Tail(wq), Entry(j, "main", Submitted(Head(e.todo))))
      BY <1>0, <1>1, <2>1 DEF WriteCommits
    <3>3. f \in Executors /\ SameItems(e, f) /\ f.pc = e.pc /\ f.then = e.then
          /\ f.transient = e.transient
      BY <1>1, <3>1 DEF Executors, SameItems
    <3>4. Sound(f) /\ Pos(f) = Pos(e)
      BY <1>1, <3>3 DEF Sound, Pos, SameItems
    <3>5. f.todo = Tail(e.todo)
      BY <1>1 DEF Executors
    <3> HIDE DEF f
    <3> QED BY <1>4, <2>1, <3>0, <3>2, <3>3, <3>4, <3>5 DEF Answered
  <2>2. CASE wq[1].by = "main" /\ e.todo = <<>>
    <3> DEFINE f == [e EXCEPT !.pc = e.then, !.then = "none"]
    <3>2. ex' = [ex EXCEPT ![j] = f] /\ wq' = Tail(wq)
      BY <1>0, <1>1, <2>2 DEF WriteCommits
    <3>3. f \in Executors /\ SameItems(e, f) /\ f.pc = e.then
          /\ f.transient = e.transient /\ f.todo = e.todo
      BY <1>1 DEF Executors, SameItems, Places
    <3>4. Sound(f) /\ Pos(f) = Pos(e)
      BY <1>1, <1>4, <2>2, <3>3 DEF Sound, Pos, SameItems, Places
    <3> HIDE DEF f
    <3> QED BY <1>4, <2>2, <3>2, <3>3, <3>4 DEF Answered
  <2>3. CASE wq[1].by = "flusher"
    <3> DEFINE f == [e EXCEPT !.flusher = "none"]
    <3>2. ex' = [ex EXCEPT ![j] = f] /\ wq' = Tail(wq)
      BY <1>0, <1>1, <2>3 DEF WriteCommits
    <3>3. f \in Executors /\ SameItems(e, f) /\ f.pc = e.pc /\ f.then = e.then
          /\ f.transient = e.transient /\ f.todo = e.todo
      BY <1>1 DEF Executors, SameItems
    <3>4. Sound(f) /\ Pos(f) = Pos(e) /\ ~Mine(1, j)
      BY <1>1, <2>3, <3>3 DEF Sound, Pos, SameItems, Mine
    <3> HIDE DEF f
    <3> QED BY <3>2, <3>3, <3>4 DEF Answered
  <2>4. CASE wq[1].by = "nobody"
    <3>1. ex' = ex /\ wq' = Tail(wq)
      BY <1>0, <2>4 DEF WriteCommits
    <3>2. ex' = [ex EXCEPT ![j] = e]
      BY <1>0, <1>1, <3>1
    <3>3. ~Mine(1, j)
      BY <2>4 DEF Mine
    <3> QED BY <1>1, <3>1, <3>2, <3>3 DEF Answered, SameItems
  <2> QED BY <1>0, <2>1, <2>2, <2>3, <2>4
<1>6. TypeEx' /\ TypeWq' /\ MainInv'
  BY <1>0, <1>5, AnsweredType
<1> HIDE DEF j
<1>7. TypeInv'
  BY <1>2, <1>3, <1>6 DEF TypeInv, TypeRest
<1> QED BY <1>0, <1>2, <1>5, <1>6, <1>7 DEF j

\* The ways in which a failing write ends: run is over (its other writes are
\* left alone), or its except block begins, or run was not the one that waited.
RunDies(j) ==
  /\ Mine(1, j) /\ ex' = [ex EXCEPT ![j] = NoExecutor] /\ lock' = lock
  /\ broken' = broken \cup {j}
  /\ \/ wq' = Tail(wq) /\ perf' = perf /\ leaked' = leaked + 1
     \/ /\ wq' \in Seq(Entries) /\ Len(wq') = Len(wq) - 1
        /\ DisablePerformanceMode /\ leaked' = leaked
        /\ \A i \in 1..(Len(wq) - 1) :
             /\ wq'[i].job = wq[i + 1].job /\ wq'[i].write = wq[i + 1].write
             /\ wq'[i].by \in {wq[i + 1].by, "nobody"}
             /\ wq[i + 1].job # j => wq'[i].by = wq[i + 1].by

ExceptWrites == <<JobWrite("FAILED", None, FALSE), AccountWrite("ERROR")>>

ExceptBegins(j, f) ==
  /\ Mine(1, j) /\ f \in Executors /\ Sound(f) /\ ex' = [ex EXCEPT ![j] = f]
  /\ f.pc = "await" /\ f.then = "exit" /\ ex[j].guard = "body" /\ f.guard = "except"
  /\ f.results = <<>> /\ f.cand = ex[j].cand /\ f.buf = ex[j].buf /\ f.last = ex[j].last
  /\ \E w \in Writes :
       /\ wq' = Append(Tail(wq), Entry(j, "main", w))
       /\ \/ w = ItemsWrite(ex[j].results) /\ f.todo = ExceptWrites
          \/ /\ ex[j].results = <<>> /\ w.kind # "items"
             /\ w = Head(ExceptWrites) /\ f.todo = Tail(ExceptWrites)
  /\ lock' = Released(j) /\ UNCHANGED <<perf, broken, leaked>>

NotWaited(j, f) ==
  /\ f \in Executors /\ Sound(f) /\ ex' = [ex EXCEPT ![j] = f]
  /\ SameItems(ex[j], f) /\ f.pc = ex[j].pc /\ f.then = ex[j].then /\ f.todo = ex[j].todo
  /\ ~Mine(1, j) /\ wq' = Tail(wq) /\ UNCHANGED <<lock, perf, broken, leaked>>

LEMMA FailStep ==
  ASSUME TypeInv, MainInv, WriteFails
  PROVE  /\ wq # <<>> /\ wq[1].job \in Jobs
         /\ UNCHANGED <<dbVars, app, now>> /\ failures' = failures + 1
         /\ lost' = lost \cup LostBy(wq[1])
         /\ \/ RunDies(wq[1].job)
            \/ \E f \in Executors : ExceptBegins(wq[1].job, f) \/ NotWaited(wq[1].job, f)
<1> DEFINE j == wq[1].job  e0 == ex[j]  e == [e0 EXCEPT !.todo = <<>>]
<1>0. /\ wq # <<>> /\ j \in Jobs /\ Head(wq) = wq[1]
      /\ wq[1].by \in {"main", "flusher", "nobody"}
  BY HeadJob DEF WriteFails
<1>1. /\ ex \in [Jobs -> Executors] /\ e0 \in Executors /\ Sound(e0)
      /\ e0.guard \in {"none", "body", "except"} /\ e0.results \in Seq(Updates)
  BY <1>0 DEF TypeInv, TypeEx, Executors
<1>2. /\ UNCHANGED <<dbVars, app, now>> /\ failures' = failures + 1
      /\ lost' = lost \cup LostBy(wq[1])
  BY <1>0 DEF WriteFails, Failure
<1>3. wq[1].by = "main" => Mine(1, j) /\ e0.pc = "await" /\ e0.then # "none"
  BY <1>0, <1>1, Tails DEF Mine, MainInv, Sound
<1>4. /\ e.guard = e0.guard /\ e.results = e0.results /\ e.cand = e0.cand /\ e.buf = e0.buf
      /\ e.last = e0.last /\ e.pc = e0.pc /\ e.then = e0.then
      /\ e \in Executors
  <2>1. <<>> \in Seq(PlainWrites)
    OBVIOUS
  <2> QED BY <1>1, <2>1 DEF Executors
<1>5. CASE wq[1].by = "main" /\ e.guard = "none"
  <2>1. /\ ex' = [ex EXCEPT ![j] = NoExecutor] /\ wq' = Tail(wq) /\ lock' = lock
        /\ perf' = perf /\ leaked' = leaked + 1 /\ broken' = broken \cup {j}
    BY <1>0, <1>5 DEF WriteFails, Breaks, LeavesModeOn
  <2> QED BY <1>0, <1>2, <1>3, <1>5, <2>1 DEF RunDies
<1>6. CASE wq[1].by = "main" /\ e.guard = "except"
  <2> DEFINE rest == [Orphaned(j) EXCEPT ![1] = Head(wq)]
  <2>1. /\ ex' = [ex EXCEPT ![j] = NoExecutor] /\ wq' = Tail(rest) /\ lock' = lock
        /\ DisablePerformanceMode /\ leaked' = leaked /\ broken' = broken \cup {j}
    BY <1>0, <1>6 DEF WriteFails, Breaks
  <2>2. /\ Orphaned(j) \in Seq(Entries) /\ Len(Orphaned(j)) = Len(wq)
        /\ Len(wq) \in Nat /\ 1 \in 1..Len(wq) /\ wq[1] \in Entries
    BY <1>0, OrphanedType, Tails
  <2>3. rest \in Seq(Entries) /\ Len(rest) = Len(wq)
        /\ \A i \in 2..Len(wq) : rest[i] = Orphaned(j)[i]
    BY <1>0, <2>2
  <2> HIDE DEF rest
  <2>4. /\ Tail(rest) \in Seq(Entries) /\ Len(Tail(rest)) = Len(wq) - 1
        /\ \A i \in 1..(Len(wq) - 1) : Tail(rest)[i] = rest[i + 1] /\ i + 1 \in 2..Len(wq)
    BY <2>2, <2>3
  <2>5. \A i \in 1..(Len(wq) - 1) :
          /\ wq'[i].job = wq[i + 1].job /\ wq'[i].write = wq[i + 1].write
          /\ wq'[i].by \in {wq[i + 1].by, "nobody"}
          /\ wq[i + 1].job # j => wq'[i].by = wq[i + 1].by
    <3> TAKE i \in 1..(Len(wq) - 1)
    <3>1. i + 1 \in 1..Len(wq) /\ wq'[i] = Orphaned(j)[i + 1]
      BY <2>1, <2>2, <2>3, <2>4
    <3> QED BY <1>0, <3>1, OrphanedType
  <2>6. wq' \in Seq(Entries) /\ Len(wq') = Len(wq) - 1
    BY <2>1, <2>4
  <2>7. RunDies(j)
    BY <1>3, <1>6, <2>1, <2>5, <2>6 DEF RunDies
  <2> QED BY <1>0, <1>2, <2>7
<1>7. CASE wq[1].by = "main" /\ e.guard = "body"
  <2> DEFINE flush == IF e.results = <<>> THEN <<>> ELSE <<ItemsWrite(e.results)>>
             writes == <<JobWrite("FAILED", None, FALSE), AccountWrite("ERROR")>>
             ws == flush \o writes
             f == [e EXCEPT !.guard = "except", !.results = <<>>,
                            !.todo = Tail(ws), !.then = "exit"]
  <2>1. /\ lock' = Released(j) /\ ex' = [ex EXCEPT ![j] = f]
        /\ wq' = Append(Tail(wq), Entry(j, "main", Head(ws)))
        /\ UNCHANGED <<perf, broken, leaked>>
    BY <1>0, <1>7 DEF WriteFails, brokenVars
  <2>2. /\ JobWrite("FAILED", None, FALSE) \in PlainWrites /\ AccountWrite("ERROR") \in PlainWrites
        /\ JobWrite("FAILED", None, FALSE).kind # "items"
    BY WriteTypes, StateNames DEF None, JobWrite
  <2>3. ItemsWrite(e.results) \in Writes
    BY <1>1, <1>4 DEF ItemsWrite, Writes, ItemWrites
  <2>4. /\ Tail(ws) \in Seq(PlainWrites) /\ Head(ws) \in Writes
        /\ \/ Head(ws) = ItemsWrite(e.results) /\ Tail(ws) = writes
           \/ /\ e.results = <<>> /\ Head(ws).kind # "items"
              /\ Head(ws) = Head(writes) /\ Tail(ws) = Tail(writes)
    <3>1. CASE e.results = <<>>
      <4>1. writes \in Seq(PlainWrites)
        BY <2>2, Tuples
      <4>2. ws = writes
        <5>1. flush = <<>>
          BY <3>1
        <5> HIDE DEF flush, writes
        <5> QED BY <4>1, <5>1
      <4>3. Head(writes) = JobWrite("FAILED", None, FALSE) /\ Tail(writes) = <<AccountWrite("ERROR")>>
        OBVIOUS
      <4> HIDE DEF ws, writes
      <4> QED BY <2>2, <3>1, <4>2, <4>3, Tuples DEF Writes
    <3>2. CASE e.results # <<>>
      <4>2. writes \in Seq(PlainWrites)
        BY <2>2, Tuples
      <4>0. ws = <<ItemsWrite(e.results)>> \o writes
        BY <3>2, Zenon
      <4> HIDE DEF ws, writes
      <4>1. Head(ws) = ItemsWrite(e.results) /\ Tail(ws) = writes
        BY <4>0, <4>2, Prefixed
      <4> QED BY <2>3, <4>1, <4>2
    <3> QED BY <3>1, <3>2
  <2> HIDE DEF ws
  <2>5. /\ f \in Executors /\ f.pc = e.pc /\ f.then = "exit" /\ f.guard = "except"
        /\ f.results = <<>> /\ f.cand = e.cand /\ f.buf = e.buf /\ f.last = e.last
        /\ f.todo = Tail(ws)
    <3>1. <<>> \in Seq(Updates) /\ "exit" \in Places
      BY DEF Places
    <3> HIDE DEF e
    <3> QED BY <1>4, <2>4, <3>1 DEF Executors
  <2> HIDE DEF f
  <2>6. Sound(f)
    BY <1>3, <1>4, <1>7, <2>5 DEF Sound, Pos, Asking
  <2>7. ExceptBegins(j, f)
    <3>1. ExceptWrites = writes
      BY DEF ExceptWrites
    <3> HIDE DEF e, writes
    <3> QED BY <1>3, <1>4, <1>7, <2>1, <2>4, <2>5, <2>6, <3>1 DEF ExceptBegins
  <2> QED BY <1>0, <1>2, <2>5, <2>7
<1>8. CASE wq[1].by = "flusher"
  <2> DEFINE f == [e0 EXCEPT !.flusher = "none"]
  <2>1. ex' = [ex EXCEPT ![j] = f] /\ wq' = Tail(wq) /\ UNCHANGED <<lock, perf, broken, leaked>>
    BY <1>0, <1>1, <1>8 DEF WriteFails, brokenVars
  <2>2. f \in Executors /\ SameItems(e0, f) /\ f.pc = e0.pc /\ f.then = e0.then
        /\ f.transient = e0.transient /\ f.todo = e0.todo
    BY <1>1 DEF Executors, SameItems
  <2>3. Sound(f) /\ ~Mine(1, j)
    BY <1>1, <1>8, <2>2 DEF Sound, Pos, SameItems, Mine
  <2> HIDE DEF f
  <2>4. NotWaited(j, f)
    BY <2>1, <2>2, <2>3 DEF NotWaited
  <2> QED BY <1>0, <1>2, <2>2, <2>4
<1>9. CASE wq[1].by = "nobody"
  <2>1. ex' = ex /\ wq' = Tail(wq) /\ UNCHANGED <<lock, perf, broken, leaked>>
    BY <1>0, <1>9 DEF WriteFails, brokenVars
  <2>2. ex' = [ex EXCEPT ![j] = e0]
    BY <1>0, <1>1, <2>1
  <2>3. NotWaited(j, e0)
    BY <1>1, <1>9, <2>1, <2>2 DEF NotWaited, SameItems, Mine
  <2> QED BY <1>0, <1>1, <1>2, <2>3
<1> QED BY <1>0, <1>1, <1>4, <1>5, <1>6, <1>7, <1>8, <1>9

LEMMA FailType ==
  ASSUME TypeInv, MainInv, WriteFails
  PROVE  TypeInv' /\ MainInv'
<1> DEFINE j == wq[1].job
<1>0. /\ wq # <<>> /\ j \in Jobs /\ UNCHANGED <<dbVars, app, now>>
      /\ RunDies(j) \/ \E f \in Executors : ExceptBegins(j, f) \/ NotWaited(j, f)
  BY FailStep
<1> HIDE DEF j
<1>1. CASE RunDies(j)
  <2>1. TypeEx' /\ \A k \in Jobs \ {j} : ex'[k] = ex[k]
    BY <1>0, <1>1, NoExecutorType, PutExecutor DEF RunDies, TypeInv
  <2>2. TypeWq' /\ MainInv'
    <3>1. CASE wq' = Tail(wq)
      <4>1. TypeWq'
        BY <1>0, <3>1, Tails DEF TypeWq
      <4>2. \A k \in Jobs : ex[k].pc = "await" => ex'[k].pc = "await" \/ Mine(1, k)
        BY <1>1, <2>1 DEF RunDies
      <4> QED BY <1>0, <3>1, <4>1, <4>2, MainTail
    <3>2. ASSUME wq' \in Seq(Entries), Len(wq') = Len(wq) - 1,
                 \A i \in 1..(Len(wq) - 1) :
                   /\ wq'[i].job = wq[i + 1].job /\ wq'[i].by \in {wq[i + 1].by, "nobody"}
          PROVE  TypeWq' /\ MainInv'
      <4>0. Len(wq) \in Nat /\ 1 \in 1..Len(wq)
        BY <1>0, Tails
      <4>1. ASSUME NEW i \in 1..Len(wq'), NEW k \in Jobs, Mine(i, k)'
            PROVE  i + 1 \in 1..Len(wq) /\ Mine(i + 1, k) /\ k # j
        <5>1. i + 1 \in 1..Len(wq) /\ Mine(i + 1, k) /\ i + 1 # 1
          BY <3>2, <4>0, <4>1 DEF Mine
        <5> QED BY <1>0, <1>1, <4>0, <5>1 DEF MainInv, RunDies
      <4>2. \A i \in 1..Len(wq'), k \in Jobs : Mine(i, k)' => ex'[k].pc = "await"
        BY <2>1, <4>1 DEF MainInv
      <4>3. \A i, m \in 1..Len(wq'), k \in Jobs : Mine(i, k)' /\ Mine(m, k)' => i = m
        <5> SUFFICES ASSUME NEW i \in 1..Len(wq'), NEW m \in 1..Len(wq'), NEW k \in Jobs,
                            Mine(i, k)', Mine(m, k)'
                     PROVE  i = m
          OBVIOUS
        <5>1. i + 1 = m + 1
          BY <4>1 DEF MainInv
        <5> QED BY <5>1
      <4> QED BY <3>2, <4>2, <4>3 DEF MainInv, TypeWq
    <3> QED BY <1>1, <3>1, <3>2 DEF RunDies
  <2>3. perf' \in Nat /\ lock' = lock
    BY <1>1 DEF RunDies, DisablePerformanceMode, TypeInv, TypeRest
  <2> QED BY <1>0, <2>1, <2>2, <2>3 DEF TypeInv, TypeDb, TypeRest, dbVars
<1>2. ASSUME NEW f \in Executors, ExceptBegins(j, f) PROVE TypeInv' /\ MainInv'
  <2>1. TypeEx' /\ ex'[j] = f /\ \A k \in Jobs \ {j} : ex'[k] = ex[k]
    BY <1>0, <1>2, PutExecutor DEF ExceptBegins, TypeInv
  <2>2. PICK w \in Writes : wq' = Append(Tail(wq), Entry(j, "main", w))
    BY <1>2 DEF ExceptBegins
  <2>3. Entry(j, "main", w) \in Entries
    BY <1>0 DEF Entry, Entries
  <2>4. TypeWq'
    BY <1>0, <2>2, <2>3, Tails DEF TypeWq
  <2>5. MainInv'
    BY <1>0, <1>2, <2>1, <2>2, MainNext DEF ExceptBegins
  <2>6. perf' = perf /\ lock' \in [Accounts -> Jobs \cup {NoJob}]
    BY <1>0, <1>2, ReleasedType DEF ExceptBegins
  <2> QED BY <1>0, <2>1, <2>4, <2>5, <2>6 DEF TypeInv, TypeDb, TypeRest, dbVars
<1>3. ASSUME NEW f \in Executors, NotWaited(j, f) PROVE TypeInv' /\ MainInv'
  <2>1. TypeEx' /\ ex'[j] = f /\ \A k \in Jobs \ {j} : ex'[k] = ex[k]
    BY <1>0, <1>3, PutExecutor DEF NotWaited, TypeInv
  <2>2. TypeWq'
    BY <1>0, <1>3, Tails DEF TypeWq, NotWaited
  <2>3. MainInv'
    BY <1>0, <1>3, <2>1, MainTail DEF NotWaited
  <2> QED BY <1>0, <1>3, <2>1, <2>2, <2>3 DEF TypeInv, TypeDb, TypeRest, dbVars, NotWaited
<1> QED BY <1>0, <1>1, <1>2, <1>3

-----------------------------------------------------------------------------
(* The end of the process and its next start.                              *)

ProcessStep == Tick \/ Close \/ Quit \/ Crash \/ Restart

\* What is in memory has gone.
Vanished ==
  /\ ex' = [j \in Jobs |-> NoExecutor] /\ lock' = [a \in Accounts |-> NoJob] /\ perf' = 0
  /\ broken' = {} /\ leaked' = 0 /\ app' = "down"
  /\ \/ wq' = <<>>
     \/ wq' = [i \in 1..Len(wq) |-> [wq[i] EXCEPT !.by = "nobody"]]

\* Every executor goes on as it was, pause requests aside.
Continues ==
  /\ ex' \in [Jobs -> Executors] /\ UNCHANGED <<lock, perf, wq, broken, leaked>>
  /\ \A j \in Jobs : /\ SameWork(ex[j], ex'[j]) /\ ex'[j].pc = ex[j].pc
                     /\ ex'[j].then = ex[j].then /\ ex'[j].transient = ex[j].transient

LEMMA ProcessSteps ==
  ASSUME TypeInv, ProcessStep
  PROVE  /\ TypeInv' /\ item' = item /\ failures' = failures /\ lost' = lost
         /\ Vanished \/ Continues
<1>0. /\ ex \in [Jobs -> Executors] /\ wq \in Seq(Entries) /\ Len(wq) \in Nat
      /\ \A j \in Jobs : ex[j] \in Executors /\ Sound(ex[j])
  BY DEF TypeInv, TypeEx, TypeWq
<1>1. item' = item /\ failures' = failures /\ lost' = lost
  BY DEF ProcessStep, Tick, Close, Quit, Crash, Restart, Dispatch, dbVars, boundVars
<1>2. TypeDb'
  <2>1. CASE Restart
    <3>1. UNCHANGED <<item, acct, restricted>> /\ row' = [j \in Jobs |-> Normalized(row[j])]
      BY <2>1 DEF Restart
    <3>2. \A j \in Jobs : Normalized(row[j]) \in [state : JobStates, until : Nat,
                                action : Actions \cup {"none"}, failed : Nat]
      BY StateNames DEF Normalized, TypeInv, TypeDb
    <3> QED BY <3>1, <3>2 DEF TypeInv, TypeDb
  <2>2. CASE Tick \/ Close \/ Quit \/ Crash
    BY <2>2 DEF Tick, Close, Quit, Crash, dbVars, TypeInv, TypeDb
  <2> QED BY <2>1, <2>2 DEF ProcessStep
<1>3. CASE Quit \/ Crash
  <2>1. Vanished /\ app' = "down" /\ now' = now
    BY <1>3 DEF Quit, Crash, Vanish, Vanished
  <2>2. TypeEx'
    BY <2>1, NoExecutorType DEF Vanished, TypeEx
  <2>3. TypeWq'
    <3>1. <<>> \in Seq(Entries)
      OBVIOUS
    <3>0. \A i \in 1..Len(wq) : wq[i] \in Entries
      BY <1>0
    <3>2. \A i \in 1..Len(wq) : [wq[i] EXCEPT !.by = "nobody"] \in Entries
      BY <3>0 DEF Entries
    <3>3. [i \in 1..Len(wq) |-> [wq[i] EXCEPT !.by = "nobody"]] \in Seq(Entries)
      BY <1>0, <3>2
    <3> QED BY <2>1, <3>1, <3>3 DEF Vanished, TypeWq
  <2>4. TypeRest'
    BY <2>1 DEF Vanished, TypeInv, TypeRest
  <2> QED BY <1>1, <1>2, <2>1, <2>2, <2>3, <2>4 DEF TypeInv
<1>4. CASE Tick \/ Restart
  <2>1. UNCHANGED <<ex, lock, perf, wq, broken, leaked>> /\ app' \in {"up", app}
        /\ now' \in {now} \cup ({now + 1} \cap {n \in Nat : now < MaxTime})
    BY <1>4 DEF Tick, Restart, TypeInv, TypeRest, brokenVars
  <2>2. TypeEx' /\ TypeWq' /\ TypeRest'
    BY <2>1, ExecutorAssumption DEF TypeInv, TypeEx, TypeWq, TypeRest
  <2>3. Continues
    BY <1>0, <2>1 DEF Continues, SameWork
  <2> QED BY <1>1, <1>2, <2>2, <2>3 DEF TypeInv
<1>5. CASE Close
  <2>1. /\ ex' = [j \in Jobs |-> IF Live(j) THEN RequestPause(ex[j]) ELSE ex[j]]
        /\ UNCHANGED <<lock, perf, wq, now, broken, leaked>> /\ app' = "closing"
    BY <1>5 DEF Close, brokenVars
  <2>2. \A j \in Jobs : /\ RequestPause(ex[j]) \in Executors
                         /\ SameWork(ex[j], RequestPause(ex[j]))
                         /\ RequestPause(ex[j]).pc = ex[j].pc
                         /\ RequestPause(ex[j]).then = ex[j].then
                         /\ RequestPause(ex[j]).transient = ex[j].transient
    BY <1>0 DEF RequestPause, Executors, SameWork
  <2>3. Continues
    BY <1>0, <2>1, <2>2 DEF Continues, SameWork
  <2>4. \A j \in Jobs : Sound(ex'[j])
    BY <1>0, <2>3 DEF Continues, Sound, Pos, SameWork
  <2> QED BY <1>1, <1>2, <2>1, <2>3, <2>4 DEF TypeInv, TypeEx, TypeWq, TypeRest, Continues
<1> QED BY <1>3, <1>4, <1>5 DEF ProcessStep

LEMMA ProcessMain ==
  ASSUME TypeInv, MainInv, ProcessStep
  PROVE  MainInv'
<1>1. CASE Continues
  BY <1>1, MainKept DEF Continues
<1>2. CASE Vanished
  <2>1. wq \in Seq(Entries) /\ Len(wq) \in Nat /\ \A i \in 1..Len(wq) : wq[i] \in Entries
    BY DEF TypeInv, TypeWq
  <2>2. CASE wq' = <<>>
    BY <2>2, MainNobody
  <2>3. CASE wq' = [i \in 1..Len(wq) |-> [wq[i] EXCEPT !.by = "nobody"]]
    <3>1. Len(wq') = Len(wq)
      BY <2>1, <2>3
    <3>2. \A i \in 1..Len(wq') : wq'[i].by = "nobody"
      BY <2>1, <2>3, <3>1 DEF Entries
    <3> QED BY <3>2, MainNobody
  <2> QED BY <1>2, <2>2, <2>3 DEF Vanished
<1> QED BY <1>1, <1>2, ProcessSteps

-----------------------------------------------------------------------------
(* Failing reads.                                                          *)

LEMMA PrimeFailStep ==
  ASSUME TypeInv, NEW j \in Jobs, PrimeFails(j)
  PROVE  /\ TypeInv' /\ UNCHANGED <<dbVars, lock, wq, perf, app, now, lost>>
         /\ failures' = failures + 1 /\ leaked' = leaked + 1 /\ broken' = broken \cup {j}
         /\ ex[j].pc = "prime" /\ ex' = [ex EXCEPT ![j] = NoExecutor]
<1>1. /\ UNCHANGED <<dbVars, lock, wq, perf, app, now, lost>>
      /\ failures' = failures + 1 /\ leaked' = leaked + 1 /\ broken' = broken \cup {j}
      /\ ex[j].pc = "prime" /\ ex' = [ex EXCEPT ![j] = NoExecutor]
  BY DEF PrimeFails, Breaks, LeavesModeOn, Failure
<1>2. TypeEx'
  BY <1>1, NoExecutorType, PutExecutor DEF TypeInv
<1> QED BY <1>1, <1>2 DEF TypeInv, TypeDb, TypeRest, TypeWq, dbVars

\* The locals of run in its except block.
Excepted(e) == [e EXCEPT !.guard = "except"]

LEMMA ExceptedType ==
  ASSUME NEW e \in Executors
  PROVE  /\ Excepted(e) \in Executors /\ Excepted(e).guard = "except"
         /\ Excepted(e).cand = e.cand /\ Excepted(e).buf = e.buf /\ Excepted(e).last = e.last
         /\ Excepted(e).flusher = e.flusher /\ Excepted(e).transient = e.transient
         /\ Excepted(e).results = e.results /\ Excepted(e).todo = e.todo
  BY DEF Excepted, Executors

LEMMA ExceptWritesType ==
  /\ ExceptWrites \in Seq(PlainWrites) /\ ExceptWrites # <<>>
  /\ Head(ExceptWrites) = JobWrite("FAILED", None, FALSE)
  /\ Tail(ExceptWrites) = <<AccountWrite("ERROR")>>
<1>1. JobWrite("FAILED", None, FALSE) \in PlainWrites /\ AccountWrite("ERROR") \in PlainWrites
  BY WriteTypes, StateNames DEF None
<1> DEFINE u == JobWrite("FAILED", None, FALSE)  v == AccountWrite("ERROR")
<1>2. ExceptWrites = <<u, v>>
  BY DEF ExceptWrites
<1> HIDE DEF u, v
<1>3. /\ <<u, v>> # <<>> /\ Head(<<u, v>>) = u /\ Tail(<<u, v>>) = <<v>>
  OBVIOUS
<1>4. <<u, v>> \in Seq(PlainWrites)
  BY <1>1, Tuples DEF u, v
<1> QED BY <1>2, <1>3, <1>4 DEF u, v

LEMMA ReadFailStep ==
  ASSUME TypeInv, NEW j \in Jobs, ReadFails(j)
  PROVE  /\ TypeInv' /\ UNCHANGED <<dbVars, perf, app, now, lost, broken, leaked>>
         /\ failures' = failures + 1 /\ lock' = Released(j)
         /\ ex[j].pc \in {"loop", "summary"}
         /\ Await(j, Excepted(ex[j]), TRUE, ExceptWrites, "exit")
         /\ \E f \in Executors : Awaited(j, Excepted(ex[j]), f, "exit")
<1>1. /\ UNCHANGED <<dbVars, perf, app, now, lost, broken, leaked>>
      /\ failures' = failures + 1 /\ lock' = Released(j)
      /\ ex[j].pc \in {"loop", "summary"}
      /\ Await(j, Excepted(ex[j]), TRUE, ExceptWrites, "exit")
  BY DEF ReadFails, Failure, brokenVars, Excepted, ExceptWrites
<1>2. Excepted(ex[j]) \in Executors
  BY ExceptedType DEF TypeInv, TypeEx
<1>3. "exit" \in Places \ {"none"} /\ "exit" \notin Asking /\ "exit" \notin Counting
  BY DEF Places, Asking, Counting
<1>4. PICK f \in Executors : Awaited(j, Excepted(ex[j]), f, "exit")
  BY <1>1, <1>2, <1>3, ExceptWritesType, AwaitIsAwaited
<1>5. TypeEx' /\ TypeWq'
  BY <1>2, <1>3, <1>4, AwaitedType DEF Executors
<1>6. lock' \in [Accounts -> Jobs \cup {NoJob}]
  BY <1>1, ReleasedType
<1>7. TypeInv'
  BY <1>1, <1>5, <1>6 DEF TypeInv, TypeDb, TypeRest, dbVars
<1> QED BY <1>1, <1>4, <1>7

-----------------------------------------------------------------------------
(* The kinds of steps.                                                     *)

LEMMA StepKinds ==
  ASSUME TypeInv, Next
  PROVE  \/ \E j \in Jobs :
              \/ /\ app = "up" /\ ~Live(j) /\ Launch(j)
                 /\ row[j].state \in {"READY", "PAUSED", "WAITING_SERVER"}
              \/ AwaitStep(j) \/ SimpleStep(j) \/ (\E st \in Done : RecordStep(j, st))
              \/ Prime(j) \/ PopCandidate(j) \/ FinishStep(j) \/ DelayedFlush(j)
              \/ PrimeFails(j) \/ ReadFails(j)
         \/ WriteCommits \/ WriteFails \/ ProcessStep
<1>1. ASSUME NEW j \in Jobs, StartMigration(j) \/ ResumeMigration(j)
      PROVE  /\ app = "up" /\ ~Live(j) /\ Launch(j)
             /\ row[j].state \in {"READY", "PAUSED", "WAITING_SERVER"}
  BY <1>1 DEF StartMigration, ResumeMigration, Dispatch
<1>2. ASSUME NEW j \in Jobs, PauseMigration(j) \/ StopMigration(j)
      PROVE  SimpleStep(j)
  BY <1>2 DEF SimpleStep
<1>3. ASSUME NEW j \in Jobs, ExecutorStep(j)
      PROVE  \/ AwaitStep(j) \/ SimpleStep(j) \/ (\E st \in Done : RecordStep(j, st))
             \/ Prime(j) \/ PopCandidate(j) \/ FinishStep(j) \/ DelayedFlush(j)
  <2>1. CASE Attempt(j) \/ RpcSucceeds(j) \/ RpcRejected(j) \/ BackoffOver(j)
    BY <2>1, AttemptSplits DEF SimpleStep
  <2>2. CASE ~(Attempt(j) \/ RpcSucceeds(j) \/ RpcRejected(j) \/ BackoffOver(j))
    BY <1>3, <2>2 DEF ExecutorStep, RpcEnds, AwaitStep, SimpleStep, FinishStep
  <2> QED BY <2>1, <2>2
<1> QED BY <1>1, <1>2, <1>3 DEF Next, ProcessStep

LEMMA TypeAndMain ==
  ASSUME TypeInv, MainInv, [Next]_vars
  PROVE  TypeInv' /\ MainInv'
<1>0. \A j \in Jobs : ex[j] \in Executors
  BY DEF TypeInv, TypeEx
<1>1. CASE UNCHANGED vars
  <2>1. /\ UNCHANGED <<row, item, acct, restricted>> /\ UNCHANGED <<lock, perf, app, now>>
        /\ ex' = ex /\ wq' = wq
    BY <1>1 DEF vars, dbVars
  <2>2. TypeDb'
    BY <2>1 DEF TypeInv, TypeDb
  <2>3. TypeRest'
    BY <2>1 DEF TypeInv, TypeRest
  <2>4. TypeEx'
    BY <2>1 DEF TypeInv, TypeEx
  <2>5. TypeWq'
    BY <2>1 DEF TypeInv, TypeWq
  <2>6. MainInv'
    BY <2>1 DEF MainInv, Mine
  <2> QED BY <2>2, <2>3, <2>4, <2>5, <2>6 DEF TypeInv
<1>2. ASSUME NEW j \in Jobs, NEW e, NEW f \in Executors, NEW then \in Places \ {"none"},
             Awaited(j, e, f, then), ex[j].pc # "await"
      PROVE  MainInv'
  <2>1. ex'[j] = f /\ \A k \in Jobs \ {j} : ex'[k] = ex[k]
    BY <1>2 DEF Awaited, TypeInv, TypeEx
  <2>2. CASE wq' = wq
    BY <1>2, <2>1, <2>2, MainKept
  <2>3. ASSUME NEW w, wq' = Append(wq, Entry(j, "main", w)), f.pc = "await"
        PROVE  MainInv'
    BY <1>2, <2>1, <2>3, MainAppends
  <2> QED BY <1>2, <2>2, <2>3 DEF Awaited
<1>3. ASSUME NEW j \in Jobs, NEW f, ex' = [ex EXCEPT ![j] = f], wq' = wq,
             ex[j].pc = "await" => f.pc = "await"
      PROVE  MainInv'
  <2>1. \A k \in Jobs : ex[k].pc = "await" => ex'[k].pc = "await"
    BY <1>3 DEF TypeInv, TypeEx
  <2> QED BY <1>3, <2>1, MainKept
<1>4. ASSUME NEW j \in Jobs, ~Live(j), Launch(j) PROVE TypeInv' /\ MainInv'
  <2>1. TypeInv' /\ \E f \in Executors : \E e : Awaited(j, e, f, "prime")
    BY <1>4, LaunchType
  <2>2. ex[j].pc # "await" /\ "prime" \in Places \ {"none"}
    BY <1>4 DEF Live, Places
  <2> QED BY <1>2, <2>1, <2>2
<1>5. ASSUME NEW j \in Jobs, AwaitStep(j) PROVE TypeInv' /\ MainInv'
  <2>1. PICK f \in Executors, then \in Places \ {"none"} :
          Awaited(j, ex[j], f, then) /\ <<ex[j].pc, then>> \in Moves
    BY <1>5, AwaitSteps
  <2>2. ex[j].pc # "await"
    BY <2>1 DEF Moves
  <2> QED BY <1>2, <1>5, <2>1, <2>2, AwaitSteps
<1>6. ASSUME NEW j \in Jobs, NEW st \in Done, RecordStep(j, st) PROVE TypeInv' /\ MainInv'
  <2>1. ex[j].pc # "await" /\ "loop" \in Places \ {"none"}
    BY <1>6 DEF RecordStep, Places
  <2> QED BY <1>2, <1>6, <2>1, RecordSteps
<1>7. ASSUME NEW j \in Jobs, SimpleStep(j) PROVE TypeInv' /\ MainInv'
  <2>1. PICK f \in Executors : Simple(j, f)
    BY <1>7, SimpleSteps
  <2>2. ex[j].pc = "await" => f.pc = "await"
    BY <2>1 DEF Simple
  <2> QED BY <1>3, <1>7, <2>1, <2>2, SimpleSteps DEF Simple
<1>8. ASSUME NEW j \in Jobs, Prime(j) \/ PopCandidate(j) PROVE TypeInv' /\ MainInv'
  <2>1. /\ TypeInv' /\ wq' = wq /\ ex[j].pc # "await"
        /\ \E f \in Executors : ex' = [ex EXCEPT ![j] = f]
    BY <1>8, PrimeStep, PopStep
  <2> QED BY <1>3, <2>1
<1>9. ASSUME NEW j \in Jobs, FinishStep(j) PROVE TypeInv' /\ MainInv'
  <2>1. \A k \in Jobs \ {j} : ex'[k] = ex[k]
    BY <1>9, FinishSteps DEF TypeInv, TypeEx
  <2> QED BY <1>9, <2>1, FinishSteps, MainOrphans
<1>10. ASSUME NEW j \in Jobs, DelayedFlush(j) PROVE TypeInv' /\ MainInv'
  <2>1. PICK f \in Executors :
          /\ ex' = [ex EXCEPT ![j] = f] /\ f.pc = ex[j].pc
          /\ \/ wq' = wq
             \/ wq' = Append(wq, Entry(j, "flusher", ItemsWrite(ex[j].results)))
    BY <1>10, FlushStep
  <2>2. \A k \in Jobs : ex[k].pc = "await" => ex'[k].pc = "await"
    BY <2>1 DEF TypeInv, TypeEx
  <2> QED BY <1>10, <2>1, <2>2, FlushStep, MainKept, MainAppends
<1>11. CASE WriteCommits
  BY <1>11, CommitStep
<1>12. CASE WriteFails
  BY <1>12, FailType
<1>13. CASE ProcessStep
  BY <1>13, ProcessSteps, ProcessMain
<1>14. ASSUME NEW j \in Jobs, PrimeFails(j) PROVE TypeInv' /\ MainInv'
  BY <1>3, <1>14, PrimeFailStep
<1>15. ASSUME NEW j \in Jobs, ReadFails(j) PROVE TypeInv' /\ MainInv'
  <2>1. ex[j].pc # "await" /\ "exit" \in Places \ {"none"}
    BY <1>15, ReadFailStep DEF Places
  <2> QED BY <1>2, <1>15, <2>1, ReadFailStep
<1> QED BY <1>1, <1>4, <1>5, <1>6, <1>7, <1>8, <1>9, <1>10, <1>11, <1>12, <1>13, <1>14, <1>15,
           StepKinds

-----------------------------------------------------------------------------
(* The account lock.                                                       *)

Locked == {"loop", "attempt", "delay", "rpc", "wait", "backoff", "leave"}

LockInv == \A j \in Jobs : Pos(ex[j]) \in Locked => lock[AccountOf[j]] = j

LEMMA LockStep ==
  ASSUME TypeInv, LockInv, NEW j \in Jobs, NEW f, ex' = [ex EXCEPT ![j] = f],
         Pos(f) \in Locked => lock'[AccountOf[j]] = j,
         \/ lock' = lock \/ lock' = Released(j)
         \/ lock[AccountOf[j]] = NoJob /\ lock' = [lock EXCEPT ![AccountOf[j]] = j]
  PROVE  LockInv'
<1> SUFFICES ASSUME NEW k \in Jobs, Pos(ex'[k]) \in Locked
             PROVE  lock'[AccountOf[k]] = k
  BY DEF LockInv
<1>1. CASE k = j
  BY <1>1 DEF TypeInv, TypeEx
<1>2. CASE k # j
  <2>1. ex'[k] = ex[k] /\ lock[AccountOf[k]] = k
    BY <1>2 DEF LockInv, TypeInv, TypeEx
  <2> QED BY <1>2, <2>1, ExecutorAssumption DEF Released, TypeInv, TypeRest
<1> QED BY <1>1, <1>2

LEMMA LockInvKept ==
  ASSUME TypeInv, MainInv, LockInv, [Next]_vars
  PROVE  LockInv'
<1>0. /\ \A j \in Jobs : ex[j] \in Executors /\ Sound(ex[j]) /\ AccountOf[j] \in Accounts
      /\ lock \in [Accounts -> Jobs \cup {NoJob}] /\ "await" \notin Locked /\ "none" \notin Locked
  BY ExecutorAssumption DEF TypeInv, TypeEx, TypeRest, Locked
<1>1. CASE UNCHANGED vars
  BY <1>1 DEF vars, LockInv
<1>2. ASSUME NEW j \in Jobs, ~Live(j), Launch(j) PROVE LockInv'
  <2>1. PICK f, e : Awaited(j, e, f, "prime") /\ lock' = lock
    BY <1>2, LaunchType
  <2>2. ex' = [ex EXCEPT ![j] = f] /\ Pos(f) \notin Locked
    BY <2>1 DEF Awaited, Locked
  <2> QED BY <2>1, <2>2, LockStep
<1>3. ASSUME NEW j \in Jobs, AwaitStep(j) PROVE LockInv'
  <2>1. PICK f \in Executors, then \in Places \ {"none"} :
          /\ Awaited(j, ex[j], f, then) /\ <<ex[j].pc, then>> \in Moves
          /\ lock' = IF then = "summary" THEN Released(j) ELSE lock
    BY <1>3, AwaitSteps
  <2>2. ex' = [ex EXCEPT ![j] = f] /\ Pos(f) = then
    BY <2>1 DEF Awaited
  <2>3. then \in Locked => then # "summary" /\ ex[j].pc \in Locked /\ ex[j].pc # "await"
    BY <2>1 DEF Moves, Locked
  <2>4. Pos(f) \in Locked => lock'[AccountOf[j]] = j
    BY <2>1, <2>2, <2>3 DEF LockInv, Pos
  <2> QED BY <2>1, <2>2, <2>4, LockStep
<1>4. ASSUME NEW j \in Jobs, NEW st \in Done, RecordStep(j, st) PROVE LockInv'
  <2>1. PICK f \in Executors : Awaited(j, Recorded(ex[j], st), f, "loop")
    BY <1>4, RecordSteps
  <2>2. ex' = [ex EXCEPT ![j] = f] /\ lock' = lock /\ Pos(ex[j]) \in Locked
    BY <1>4, <2>1, RecordSteps DEF Awaited, RecordStep, Pos, Locked
  <2> QED BY <2>2, LockStep DEF LockInv
<1>5. ASSUME NEW j \in Jobs, SimpleStep(j) PROVE LockInv'
  <2>1. PICK f \in Executors : Simple(j, f)
    BY <1>5, SimpleSteps
  <2>2. Pos(f) \in Locked => lock'[AccountOf[j]] = j
    BY <1>0, <2>1 DEF Simple, Pos, Locked, LockInv
  <2> QED BY <2>1, <2>2, LockStep DEF Simple
<1>6. ASSUME NEW j \in Jobs, Prime(j) PROVE LockInv'
  <2>1. PICK f \in Executors : ex' = [ex EXCEPT ![j] = f] /\ f.pc = "lock"
    BY <1>6, PrimeStep
  <2> QED BY <1>6, <2>1, PrimeStep, LockStep DEF Pos, Locked
<1>7. ASSUME NEW j \in Jobs, PopCandidate(j) PROVE LockInv'
  <2>1. PICK f \in Executors : ex' = [ex EXCEPT ![j] = f] /\ f.pc = "attempt"
    BY <1>7, PopStep
  <2>2. lock' = lock /\ Pos(ex[j]) \in Locked
    BY <1>7, PopStep DEF Pos, Locked
  <2> QED BY <2>1, <2>2, LockStep DEF LockInv
<1>8. ASSUME NEW j \in Jobs, FinishStep(j) PROVE LockInv'
  <2>1. Pos(NoExecutor) \notin Locked
    BY DEF Pos, NoExecutor, Locked
  <2> QED BY <1>8, <2>1, FinishSteps, LockStep
<1>9. ASSUME NEW j \in Jobs, DelayedFlush(j) PROVE LockInv'
  <2>1. PICK f \in Executors :
          ex' = [ex EXCEPT ![j] = f] /\ f.pc = ex[j].pc /\ f.then = ex[j].then
    BY <1>9, FlushStep
  <2> QED BY <1>9, <2>1, FlushStep, LockStep DEF Pos, LockInv
<1>10. CASE WriteCommits
  <2> DEFINE j == wq[1].job
  <2>1. j \in Jobs /\ lock' = lock /\ \E f : ex' = [ex EXCEPT ![j] = f] /\ Pos(f) = Pos(ex[j])
    BY <1>10, CommitStep DEF Answered
  <2> HIDE DEF j
  <2> QED BY <2>1, LockStep DEF LockInv
<1>11. CASE WriteFails
  <2> DEFINE j == wq[1].job
  <2>1. j \in Jobs /\ (RunDies(j) \/ \E f \in Executors : ExceptBegins(j, f) \/ NotWaited(j, f))
    BY <1>11, FailStep
  <2> HIDE DEF j
  <2>2. CASE RunDies(j)
    <3>1. Pos(NoExecutor) \notin Locked
      BY DEF Pos, NoExecutor, Locked
    <3> QED BY <2>1, <2>2, <3>1, LockStep DEF RunDies
  <2>3. ASSUME NEW f \in Executors, ExceptBegins(j, f) PROVE LockInv'
    <3>1. Pos(f) \notin Locked
      BY <2>3 DEF ExceptBegins, Pos, Locked
    <3> QED BY <2>1, <2>3, <3>1, LockStep DEF ExceptBegins
  <2>4. ASSUME NEW f \in Executors, NotWaited(j, f) PROVE LockInv'
    <3>1. Pos(f) = Pos(ex[j])
      BY <2>4 DEF NotWaited, Pos
    <3> QED BY <2>1, <2>4, <3>1, LockStep DEF NotWaited, LockInv
  <2> QED BY <2>1, <2>2, <2>3, <2>4
<1>12. CASE ProcessStep
  <2>1. CASE Vanished
    BY <2>1 DEF Vanished, LockInv, Pos, NoExecutor, Locked
  <2>2. CASE Continues
    BY <2>2 DEF Continues, LockInv, Pos
  <2> QED BY <1>12, <2>1, <2>2, ProcessSteps
<1>13. ASSUME NEW j \in Jobs, PrimeFails(j) PROVE LockInv'
  <2>1. Pos(NoExecutor) \notin Locked
    BY DEF Pos, NoExecutor, Locked
  <2> QED BY <1>13, <2>1, PrimeFailStep, LockStep
<1>14. ASSUME NEW j \in Jobs, ReadFails(j) PROVE LockInv'
  <2>1. PICK f \in Executors : Awaited(j, Excepted(ex[j]), f, "exit")
    BY <1>14, ReadFailStep
  <2>2. ex' = [ex EXCEPT ![j] = f] /\ Pos(f) \notin Locked
    BY <2>1 DEF Awaited, Locked
  <2> QED BY <1>14, <2>2, ReadFailStep, LockStep
<1> QED BY <1>1, <1>2, <1>3, <1>4, <1>5, <1>6, <1>7, <1>8, <1>9, <1>10, <1>11, <1>12, <1>13,
           <1>14, StepKinds

LEMMA StartsWell == Init => TypeInv /\ MainInv /\ LockInv
<1> SUFFICES ASSUME Init PROVE TypeInv /\ MainInv /\ LockInv
  OBVIOUS
<1>1. TypeDb
  BY ExecutorAssumption, StateNames DEF Init, TypeDb, None, ItemStates
<1>2. TypeRest
  BY ExecutorAssumption DEF Init, TypeRest
<1>3. TypeEx
  BY NoExecutorType DEF Init, TypeEx
<1>4. TypeWq /\ wq = <<>>
  <2>1. <<>> \in Seq(Entries)
    OBVIOUS
  <2> QED BY <2>1 DEF Init, TypeWq
<1>5. MainInv
  BY <1>4 DEF MainInv
<1>6. LockInv
  BY DEF Init, LockInv, Pos, NoExecutor, Locked
<1> QED BY <1>1, <1>2, <1>3, <1>4, <1>5, <1>6 DEF TypeInv

LEMMA LockInvImplies ==
  ASSUME TypeInv, LockInv
  PROVE  OneMutationPerAccount
<1>1. \A j \in Jobs : InLoop(j) => lock[AccountOf[j]] = j
  BY DEF InLoop, LockInv, Pos, Locked
<1> QED BY <1>1 DEF OneMutationPerAccount

-----------------------------------------------------------------------------
(* Performance mode counts the executors.                                  *)

LiveJobs == {j \in Jobs : Live(j)}

LEMMA LiveJobsFinite == IsFiniteSet(LiveJobs) /\ Cardinality(LiveJobs) \in Nat
<1>1. IsFiniteSet(Jobs) /\ LiveJobs \subseteq Jobs
  BY ExecutorAssumption DEF LiveJobs
<1>2. IsFiniteSet(LiveJobs)
  BY <1>1, FS_Subset
<1> QED BY <1>2, FS_CardinalityType

LEMMA SoundLives ==
  ASSUME NEW f \in Executors, Sound(f)
  PROVE  f.pc = "none" <=> Pos(f) = "none"
  BY DEF Executors, Sound, Pos

CountInv == failures \in Nat /\ leaked \in Nat /\ PerformanceModeIsCounted

LEMMA OneMore ==
  ASSUME TypeInv, CountInv, NEW j \in Jobs, NEW f, ex' = [ex EXCEPT ![j] = f],
         ~Live(j), f.pc # "none", perf' = perf + 1, leaked' = leaked
  PROVE  PerformanceModeIsCounted'
<1>1. LiveJobs' = LiveJobs \cup {j} /\ j \notin LiveJobs
  BY DEF LiveJobs, Live, TypeInv, TypeEx
<1>2. Cardinality(LiveJobs') = Cardinality(LiveJobs) + 1
  BY <1>1, LiveJobsFinite, FS_AddElement
<1>3. PICK n \in Nat : n = Cardinality(LiveJobs)
  BY LiveJobsFinite
<1>4. leaked \in Nat /\ perf = n + leaked
  BY <1>3 DEF CountInv, PerformanceModeIsCounted, LiveJobs
<1>5. perf' = (n + 1) + leaked'
  BY <1>4
<1> QED BY <1>2, <1>3, <1>5 DEF PerformanceModeIsCounted, LiveJobs

LEMMA OneLess ==
  ASSUME TypeInv, CountInv, NEW j \in Jobs, ex' = [ex EXCEPT ![j] = NoExecutor], Live(j),
         \/ DisablePerformanceMode /\ leaked' = leaked
         \/ perf' = perf /\ leaked' = leaked + 1
  PROVE  PerformanceModeIsCounted'
<1>1. LiveJobs' = LiveJobs \ {j} /\ j \in LiveJobs
  BY DEF LiveJobs, Live, TypeInv, TypeEx, NoExecutor
<1>2. Cardinality(LiveJobs') = Cardinality(LiveJobs) - 1
  BY <1>1, LiveJobsFinite, FS_RemoveElement
<1>3. PICK n \in Nat : n = Cardinality(LiveJobs)
  BY LiveJobsFinite
<1>0. PICK m \in Nat : m = Cardinality(LiveJobs')
  <2>1. IsFiniteSet(LiveJobs') /\ Cardinality(LiveJobs') \in Nat
    BY <1>1, LiveJobsFinite, FS_RemoveElement, FS_CardinalityType
  <2> QED BY <2>1
<1>4. leaked \in Nat /\ perf = n + leaked /\ m = n - 1
  BY <1>0, <1>2, <1>3 DEF CountInv, PerformanceModeIsCounted, LiveJobs
<1>5. perf' = m + leaked'
  BY <1>4 DEF DisablePerformanceMode
<1> QED BY <1>0, <1>5 DEF PerformanceModeIsCounted, LiveJobs

LEMMA SameNumber ==
  ASSUME CountInv, perf' = perf, leaked' = leaked,
         \A k \in Jobs : (ex'[k].pc = "none") <=> (ex[k].pc = "none")
  PROVE  PerformanceModeIsCounted'
<1>1. LiveJobs' = LiveJobs
  BY DEF LiveJobs, Live
<1>2. Cardinality(LiveJobs') = Cardinality(LiveJobs)
  BY <1>1
<1> QED BY <1>2 DEF CountInv, PerformanceModeIsCounted, LiveJobs

LEMMA CountInvKept ==
  ASSUME TypeInv, MainInv, CountInv, [Next]_vars
  PROVE  CountInv'
<1>0. /\ ex \in [Jobs -> Executors] /\ \A j \in Jobs : ex[j] \in Executors /\ Sound(ex[j])
      /\ failures \in Nat /\ leaked \in Nat
  BY DEF TypeInv, TypeEx, CountInv
<1>1. CASE UNCHANGED vars
  BY <1>0, <1>1 DEF vars, boundVars, brokenVars, CountInv, PerformanceModeIsCounted, Live
<1>2. ASSUME NEW j \in Jobs, NEW f, ex' = [ex EXCEPT ![j] = f], perf' = perf,
             failures' \in Nat, leaked' = leaked, f.pc = "none" <=> ex[j].pc = "none"
      PROVE  CountInv'
  <2>1. \A k \in Jobs : (ex'[k].pc = "none") <=> (ex[k].pc = "none")
    BY <1>0, <1>2
  <2> QED BY <1>0, <1>2, <2>1, SameNumber DEF CountInv
<1>3. ASSUME NEW j \in Jobs, NEW e, NEW f, NEW then \in Places \ {"none"},
             Awaited(j, e, f, then)
      PROVE  ex' = [ex EXCEPT ![j] = f] /\ f.pc # "none"
  BY <1>3 DEF Awaited, Pos
<1>4. ASSUME NEW j \in Jobs, ~Live(j), Launch(j) PROVE CountInv'
  <2>1. PICK f, e : Awaited(j, e, f, "prime")
    BY <1>4, LaunchType
  <2>2. ex' = [ex EXCEPT ![j] = f] /\ f.pc # "none"
    BY <1>3, <2>1 DEF Places
  <2>3. perf' = perf + 1 /\ failures' = failures /\ leaked' = leaked
    BY <1>4 DEF Launch, EnablePerformanceMode
  <2> QED BY <1>0, <1>4, <2>2, <2>3, OneMore DEF CountInv
<1>5. ASSUME NEW j \in Jobs, AwaitStep(j) PROVE CountInv'
  <2>1. PICK f \in Executors, then \in Places \ {"none"} :
          Awaited(j, ex[j], f, then) /\ <<ex[j].pc, then>> \in Moves
    BY <1>5, AwaitSteps
  <2>2. ex[j].pc # "none"
    BY <2>1 DEF Moves
  <2>3. perf' = perf /\ failures' = failures /\ leaked' = leaked
    BY <1>5, AwaitSteps DEF boundVars
  <2> QED BY <1>0, <1>2, <1>3, <2>1, <2>2, <2>3
<1>6. ASSUME NEW j \in Jobs, NEW st \in Done, RecordStep(j, st) PROVE CountInv'
  <2>1. PICK f \in Executors : Awaited(j, Recorded(ex[j], st), f, "loop")
    BY <1>6, RecordSteps
  <2>2. ex[j].pc # "none" /\ "loop" \in Places \ {"none"}
    BY <1>6 DEF RecordStep, Places
  <2>3. perf' = perf /\ failures' = failures /\ leaked' = leaked
    BY <1>6, RecordSteps
  <2> QED BY <1>0, <1>2, <1>3, <2>1, <2>2, <2>3
<1>7. ASSUME NEW j \in Jobs, SimpleStep(j) PROVE CountInv'
  <2>1. PICK f \in Executors : Simple(j, f)
    BY <1>7, SimpleSteps
  <2>2. f.pc = "none" <=> ex[j].pc = "none"
    BY <2>1 DEF Simple
  <2> QED BY <1>0, <1>2, <1>7, <2>1, <2>2, SimpleSteps DEF Simple
<1>8. ASSUME NEW j \in Jobs, Prime(j) \/ PopCandidate(j) PROVE CountInv'
  <2>1. /\ ex[j].pc # "none" /\ perf' = perf /\ failures' = failures /\ leaked' = leaked
        /\ \E f \in Executors : ex' = [ex EXCEPT ![j] = f] /\ f.pc # "none"
    BY <1>8, PrimeStep, PopStep
  <2> QED BY <1>0, <1>2, <2>1
<1>9. ASSUME NEW j \in Jobs, FinishStep(j) PROVE CountInv'
  <2>1. /\ Live(j) /\ ex' = [ex EXCEPT ![j] = NoExecutor] /\ DisablePerformanceMode
        /\ failures' = failures /\ leaked' = leaked
    BY <1>9, FinishSteps DEF Live
  <2> QED BY <1>0, <2>1, OneLess DEF CountInv
<1>10. ASSUME NEW j \in Jobs, DelayedFlush(j) PROVE CountInv'
  <2>1. PICK f \in Executors : ex' = [ex EXCEPT ![j] = f] /\ f.pc = ex[j].pc
    BY <1>10, FlushStep
  <2> QED BY <1>0, <1>2, <1>10, <2>1, FlushStep
<1>11. CASE WriteCommits
  <2> DEFINE j == wq[1].job
  <2>1. /\ j \in Jobs /\ perf' = perf /\ failures' = failures /\ leaked' = leaked
        /\ \E f \in Executors : ex' = [ex EXCEPT ![j] = f] /\ Sound(f) /\ Pos(f) = Pos(ex[j])
    BY <1>11, CommitStep DEF Answered
  <2> HIDE DEF j
  <2>2. PICK f \in Executors : ex' = [ex EXCEPT ![j] = f] /\ Sound(f) /\ Pos(f) = Pos(ex[j])
    BY <2>1
  <2>3. f.pc = "none" <=> ex[j].pc = "none"
    BY <1>0, <2>1, <2>2, SoundLives
  <2> QED BY <1>0, <1>2, <2>1, <2>2, <2>3
<1>12. CASE WriteFails
  <2> DEFINE j == wq[1].job
  <2>1. /\ j \in Jobs /\ failures' = failures + 1 /\ wq # <<>>
        /\ RunDies(j) \/ \E f \in Executors : ExceptBegins(j, f) \/ NotWaited(j, f)
    BY <1>12, FailStep
  <2>2. Mine(1, j) => ex[j].pc = "await"
    BY <2>1, Tails DEF MainInv
  <2> HIDE DEF j
  <2>3. failures' \in Nat
    BY <1>0, <2>1
  <2>4. CASE RunDies(j)
    <3>1. /\ Live(j) /\ ex' = [ex EXCEPT ![j] = NoExecutor]
          /\ \/ DisablePerformanceMode /\ leaked' = leaked
             \/ perf' = perf /\ leaked' = leaked + 1
      BY <2>2, <2>4 DEF RunDies, Live
    <3>2. PerformanceModeIsCounted'
      BY <2>1, <3>1, OneLess
    <3>3. leaked' \in Nat
      BY <1>0, <3>1
    <3> QED BY <2>3, <3>2, <3>3 DEF CountInv
  <2>5. ASSUME NEW f \in Executors, ExceptBegins(j, f) \/ NotWaited(j, f) PROVE CountInv'
    <3>1. /\ ex' = [ex EXCEPT ![j] = f] /\ perf' = perf /\ leaked' = leaked
          /\ f.pc = "none" <=> ex[j].pc = "none"
      BY <2>2, <2>5 DEF ExceptBegins, NotWaited
    <3>2. \A k \in Jobs : (ex'[k].pc = "none") <=> (ex[k].pc = "none")
      BY <1>0, <2>1, <3>1
    <3> QED BY <1>0, <2>3, <3>1, <3>2, SameNumber DEF CountInv
  <2> QED BY <2>1, <2>4, <2>5
<1>13. CASE ProcessStep
  <2>1. failures' = failures
    BY <1>13, ProcessSteps
  <2>2. CASE Vanished
    <3>1. {j \in Jobs : Live(j)'} = {} /\ perf' = 0 /\ leaked' = 0
      BY <2>2 DEF Vanished, Live, NoExecutor
    <3>2. Cardinality({}) = 0
      BY FS_EmptySet
    <3> QED BY <1>0, <2>1, <3>1, <3>2 DEF CountInv, PerformanceModeIsCounted
  <2>3. CASE Continues
    BY <1>0, <2>1, <2>3, SameNumber DEF Continues, CountInv
  <2> QED BY <1>13, <2>2, <2>3, ProcessSteps
<1>14. ASSUME NEW j \in Jobs, PrimeFails(j) PROVE CountInv'
  <2>1. /\ Live(j) /\ ex' = [ex EXCEPT ![j] = NoExecutor] /\ perf' = perf
        /\ leaked' = leaked + 1 /\ failures' = failures + 1
    BY <1>14, PrimeFailStep DEF Live
  <2>2. PerformanceModeIsCounted'
    BY <2>1, OneLess
  <2>3. leaked' \in Nat /\ failures' \in Nat
    BY <1>0, <2>1
  <2> QED BY <2>2, <2>3 DEF CountInv
<1>15. ASSUME NEW j \in Jobs, ReadFails(j) PROVE CountInv'
  <2>1. PICK f \in Executors : Awaited(j, Excepted(ex[j]), f, "exit")
    BY <1>15, ReadFailStep
  <2>2. ex[j].pc # "none" /\ "exit" \in Places \ {"none"}
    BY <1>15, ReadFailStep DEF Places
  <2>3. perf' = perf /\ leaked' = leaked /\ failures' = failures + 1
    BY <1>15, ReadFailStep
  <2>4. failures' \in Nat
    BY <1>0, <2>3
  <2> QED BY <1>2, <1>3, <2>1, <2>2, <2>3, <2>4
<1> QED BY <1>1, <1>4, <1>5, <1>6, <1>7, <1>8, <1>9, <1>10, <1>11, <1>12, <1>13, <1>14, <1>15,
           StepKinds

-----------------------------------------------------------------------------
(* Candidates whose result is known.                                       *)

Waiting(j, o) == Reports(ex[j].results, o) \/ Queued(j, o)

ItemsOf(n, j) == wq[n].job = j /\ wq[n].write.kind = "items"

\* No results of j are with DBWriter; those that are there come before the write
\* that run waits for.
Quiet(j)  == \A n \in 1..Len(wq) : ~ItemsOf(n, j)
Behind(j) == \A i, n \in 1..Len(wq) : Mine(i, j) /\ ItemsOf(n, j) => n < i

\* Before the try statement there are no candidates yet.
Early(e) ==
  /\ Pos(e) \in {"none", "prime"} /\ e.flusher = "none"
  /\ e.results = <<>> /\ e.buf = {} /\ e.cand = None

\* The window is read when every result of an earlier run is in the database,
\* and it never goes back behind a result that waits for its write.
Fresh(j) ==
  /\ ex[j].guard = "none" => /\ Early(ex[j]) /\ Behind(j)
                             /\ ex[j].pc = "prime" => Quiet(j)
  /\ ex[j].guard # "none" => /\ Pos(ex[j]) # "prime"
                             /\ \A o \in Ordinals : Waiting(j, o) => o <= ex[j].last
  /\ ex[j].cand \notin ex[j].buf
  /\ \A o \in Ordinals : o \in ex[j].buf \/ o = ex[j].cand
                           => o <= ex[j].last /\ ~KnownResult(j, o)

FreshInv == \A j \in Jobs : Fresh(j)

\* The writes of k have only moved by d places, or lost who waits for them ...
Moved(i, k, d) ==
  /\ i + d \in 1..Len(wq) /\ wq[i + d].job = k /\ wq'[i].write = wq[i + d].write
  /\ wq'[i].by \in {wq[i + d].by, "nobody"}

Shifted(k, d) == \A i \in 1..Len(wq') : wq'[i].job = k => Moved(i, k, d)

\* ... or there is one more.
Joined(k, d, en) ==
  /\ Len(wq') \in Nat \ {0} /\ wq'[Len(wq')] = en
  /\ \A i \in 1..(Len(wq') - 1) : wq'[i].job = k => Moved(i, k, d)

LEMMA QueueSame ==
  ASSUME TypeInv, wq' = wq
  PROVE  \A k \in Jobs : Shifted(k, 0)
<1>1. Len(wq) \in Nat
  BY DEF TypeInv, TypeWq
<1>2. \A i \in 1..Len(wq) : i + 0 = i
  BY <1>1
<1> QED BY <1>2 DEF Shifted, Moved

LEMMA QueueAppend ==
  ASSUME TypeInv, NEW j \in Jobs, NEW en, en.job = j, wq' = Append(wq, en)
  PROVE  Joined(j, 0, en) /\ \A k \in Jobs \ {j} : Shifted(k, 0)
<1>1. wq \in Seq(Entries) /\ Len(wq) \in Nat
  BY DEF TypeInv, TypeWq
<1>2. /\ Len(wq') = Len(wq) + 1 /\ wq'[Len(wq) + 1] = en
      /\ \A i \in 1..Len(wq) : wq'[i] = wq[i]
  BY <1>1
<1>3. /\ Len(wq') \in Nat \ {0} /\ Len(wq') - 1 = Len(wq)
      /\ \A i \in 1..Len(wq') : i \in 1..Len(wq) \/ i = Len(wq) + 1
      /\ \A i \in 1..Len(wq) : i + 0 = i
  BY <1>1, <1>2
<1>4. \A i \in 1..Len(wq), k \in Jobs : wq'[i].job = k => Moved(i, k, 0)
  BY <1>2, <1>3 DEF Moved
<1>5. Joined(j, 0, en)
  BY <1>2, <1>3, <1>4 DEF Joined
<1> QED BY <1>2, <1>3, <1>4, <1>5 DEF Shifted

LEMMA QueueTail ==
  ASSUME TypeInv, wq # <<>>, wq' = Tail(wq)
  PROVE  \A k \in Jobs : Shifted(k, 1)
<1>1. \A i \in 1..Len(wq') : i + 1 \in 1..Len(wq) /\ wq'[i] = wq[i + 1]
  BY Tails
<1> QED BY <1>1 DEF Shifted, Moved

LEMMA QueueNext ==
  ASSUME TypeInv, wq # <<>>, NEW j \in Jobs, NEW en, en.job = j, wq' = Append(Tail(wq), en)
  PROVE  Joined(j, 1, en) /\ \A k \in Jobs \ {j} : Shifted(k, 1)
<1>1. /\ Len(wq) \in Nat /\ 1 \in 1..Len(wq) /\ Tail(wq) \in Seq(Entries)
      /\ Len(Tail(wq)) = Len(wq) - 1
      /\ \A i \in 1..Len(Tail(wq)) : i + 1 \in 1..Len(wq) /\ Tail(wq)[i] = wq[i + 1]
  BY Tails
<1>2. /\ Len(wq') = Len(wq) /\ wq'[Len(wq)] = en
      /\ \A i \in 1..(Len(wq) - 1) : wq'[i] = wq[i + 1] /\ i + 1 \in 1..Len(wq)
  BY <1>1
<1>3. \A i \in 1..Len(wq') : i \in 1..(Len(wq) - 1) \/ i = Len(wq)
  BY <1>1, <1>2, LastOrEarlier
<1>6. Len(wq') \in Nat \ {0}
  BY <1>1, <1>2
<1>4. \A i \in 1..(Len(wq) - 1), k \in Jobs : wq'[i].job = k => Moved(i, k, 1)
  BY <1>2 DEF Moved
<1>5. Joined(j, 1, en)
  BY <1>2, <1>4, <1>6 DEF Joined
<1> QED BY <1>2, <1>3, <1>4, <1>5 DEF Shifted

LEMMA QueueOrphans ==
  ASSUME TypeInv, NEW j \in Jobs, wq' = Orphaned(j)
  PROVE  /\ \A k \in Jobs : Shifted(k, 0)
         /\ \A i \in 1..Len(wq') : ~Mine(i, j)'
<1>1. Len(wq) \in Nat
  BY DEF TypeInv, TypeWq
<1>2. \A i \in 1..Len(wq) : i + 0 = i
  BY <1>1
<1>3. \A k \in Jobs : Shifted(k, 0)
  BY <1>2, OrphanedType DEF Shifted, Moved
<1>4. \A i \in 1..Len(wq') : ~Mine(i, j)'
  BY OrphanedType DEF Mine
<1> QED BY <1>3, <1>4

LEMMA QueueDies ==
  ASSUME TypeInv, MainInv, wq # <<>>, NEW j \in Jobs, RunDies(j)
  PROVE  /\ \A k \in Jobs : Shifted(k, 1)
         /\ \A i \in 1..Len(wq') : ~Mine(i, j)'
<1>0. Len(wq) \in Nat /\ 1 \in 1..Len(wq) /\ Mine(1, j)
  BY Tails DEF RunDies
<1>1. \A k \in Jobs : Shifted(k, 1)
  <2>1. CASE wq' = Tail(wq)
    BY <2>1, QueueTail
  <2>2. CASE wq' # Tail(wq)
    <3>1. /\ Len(wq') = Len(wq) - 1
          /\ \A i \in 1..(Len(wq) - 1) :
               /\ wq'[i].job = wq[i + 1].job /\ wq'[i].write = wq[i + 1].write
               /\ wq'[i].by \in {wq[i + 1].by, "nobody"}
      BY <2>2 DEF RunDies
    <3>2. \A i \in 1..(Len(wq) - 1) : i + 1 \in 1..Len(wq)
      BY <1>0
    <3> QED BY <3>1, <3>2 DEF Shifted, Moved
  <2> QED BY <2>1, <2>2
<1>2. ASSUME NEW i \in 1..Len(wq'), wq'[i].by = "main", wq'[i].job = j
      PROVE  FALSE
  <2>1. i + 1 \in 1..Len(wq) /\ Mine(i + 1, j)
    BY <1>1, <1>2 DEF Shifted, Moved, Mine
  <2>2. i + 1 = 1
    BY <1>0, <2>1 DEF MainInv
  <2> QED BY <2>2
<1> QED BY <1>1, <1>2 DEF Mine

\* What the queue tells about the items of k.
LEMMA ShiftedQueue ==
  ASSUME NEW k \in Jobs, NEW d \in Nat, Shifted(k, d)
  PROVE  /\ \A o : Queued(k, o)' => Queued(k, o)
         /\ Quiet(k) => Quiet(k)'
         /\ Behind(k) => Behind(k)'
<1>1. ASSUME NEW o, Queued(k, o)' PROVE Queued(k, o)
  <2>1. PICK n \in 1..Len(wq') : /\ wq'[n].job = k /\ wq'[n].write.kind = "items"
                                 /\ Reports(wq'[n].write.updates, o)
    BY <1>1 DEF Queued, Reports
  <2>2. n + d \in 1..Len(wq) /\ wq[n + d].job = k /\ wq[n + d].write = wq'[n].write
    BY <2>1 DEF Shifted, Moved
  <2> QED BY <2>1, <2>2 DEF Queued
<1>2. \A n \in 1..Len(wq') : ItemsOf(n, k)' => n + d \in 1..Len(wq) /\ ItemsOf(n + d, k)
  BY DEF Shifted, Moved, ItemsOf
<1>3. \A n \in 1..Len(wq') : Mine(n, k)' => n + d \in 1..Len(wq) /\ Mine(n + d, k)
  BY DEF Shifted, Moved, Mine
<1>4. Quiet(k) => Quiet(k)'
  BY <1>2 DEF Quiet
<1>5. ASSUME Behind(k), NEW i \in 1..Len(wq'), NEW n \in 1..Len(wq'), Mine(i, k)', ItemsOf(n, k)'
      PROVE  n < i
  <2>1. n + d < i + d
    BY <1>2, <1>3, <1>5 DEF Behind
  <2>2. n \in Int /\ i \in Int
    OBVIOUS
  <2> QED BY <2>1, <2>2
<1>6. Behind(k) => Behind(k)'
  BY <1>5 DEF Behind
<1> QED BY <1>1, <1>4, <1>6

LEMMA JoinedQueue ==
  ASSUME NEW j \in Jobs, NEW d \in Nat, NEW by, NEW w, Joined(j, d, Entry(j, by, w)), NEW o,
         Queued(j, o)'
  PROVE  Queued(j, o) \/ (w.kind = "items" /\ Reports(w.updates, o))
<1>1. PICK n \in 1..Len(wq') : /\ wq'[n].job = j /\ wq'[n].write.kind = "items"
                               /\ Reports(wq'[n].write.updates, o)
  BY DEF Queued, Reports
<1>2. n \in 1..(Len(wq') - 1) \/ n = Len(wq')
  BY <1>1, LastOrEarlier DEF Joined
<1>3. CASE n = Len(wq')
  BY <1>1, <1>3 DEF Joined, Entry
<1>4. CASE n \in 1..(Len(wq') - 1)
  <2>1. n + d \in 1..Len(wq) /\ wq[n + d].job = j /\ wq[n + d].write = wq'[n].write
    BY <1>1, <1>4 DEF Joined, Moved
  <2> QED BY <1>1, <2>1 DEF Queued
<1> QED BY <1>2, <1>3, <1>4

\* The write that run has just submitted is behind all the others.
LEMMA JoinedBehind ==
  ASSUME NEW j \in Jobs, NEW d \in Nat, NEW w, Joined(j, d, Entry(j, "main", w)),
         w.kind # "items", MainInv'
  PROVE  Behind(j)'
<1>1. PICK m \in Nat \ {0} : m = Len(wq')
  BY DEF Joined
<1>2. m \in 1..Len(wq') /\ Mine(m, j)' /\ ~ItemsOf(m, j)'
  BY <1>1 DEF Joined, Entry, Mine, ItemsOf
<1>3. ASSUME NEW i \in 1..Len(wq'), NEW n \in 1..Len(wq'), Mine(i, j)', ItemsOf(n, j)'
      PROVE  n < i
  <2>1. i = m
    BY <1>2, <1>3 DEF MainInv
  <2>2. n # m /\ n \in 1..m
    BY <1>1, <1>2, <1>3
  <2> QED BY <2>1, <2>2
<1> QED BY <1>3 DEF Behind

\* A job of which nothing new is known.
LEMMA FreshKept ==
  ASSUME TypeInv, NEW k \in Jobs, NEW d \in Nat, Fresh(k), Shifted(k, d),
         SameItems(ex[k], ex'[k]),
         Pos(ex'[k]) = Pos(ex[k]) \/ (ex[k].guard # "none" /\ Pos(ex'[k]) # "prime"),
         ex[k].guard = "none" /\ ex'[k].pc = "prime" => ex[k].pc = "prime" \/ Quiet(k)',
         \A o \in Ordinals : item'[k][o] \in Done => KnownResult(k, o)
  PROVE  Fresh(k)'
<1>1. /\ \A o : Queued(k, o)' => Queued(k, o)
      /\ Quiet(k) => Quiet(k)'
      /\ Behind(k) => Behind(k)'
  BY ShiftedQueue
<1>2. \A o \in Ordinals : Waiting(k, o)' => Waiting(k, o)
  BY <1>1 DEF Waiting, SameItems, Reports
<1>3. \A o \in Ordinals : KnownResult(k, o)' => KnownResult(k, o)
  BY <1>1 DEF KnownResult, SameItems, Reports
<1>4. CASE ex[k].guard = "none"
  <2>1. Early(ex'[k])
    BY <1>4 DEF Fresh, Early, SameItems
  <2> QED BY <1>1, <1>3, <1>4, <2>1 DEF Fresh, SameItems, Early
<1>5. CASE ex[k].guard # "none"
  BY <1>2, <1>3, <1>5 DEF Fresh, SameItems
<1> QED BY <1>4, <1>5

\* A job whose results go from the buffer to DBWriter.
LEMMA FreshLate ==
  ASSUME NEW j \in Jobs, Fresh(j), ex[j].guard # "none", ex'[j].guard # "none",
         Pos(ex'[j]) # "prime",
         ex'[j].cand = ex[j].cand, ex'[j].buf = ex[j].buf, ex'[j].last = ex[j].last,
         item' = item, \A o \in Ordinals : Waiting(j, o)' => Waiting(j, o)
  PROVE  Fresh(j)'
<1>1. \A o \in Ordinals : KnownResult(j, o)' => KnownResult(j, o)
  BY DEF KnownResult, Waiting
<1> QED BY <1>1 DEF Fresh

LEMMA FreshNone ==
  ASSUME NEW j \in Jobs, ex'[j] = NoExecutor, \A i \in 1..Len(wq') : ~Mine(i, j)'
  PROVE  Fresh(j)'
<1>1. /\ NoExecutor.guard = "none" /\ NoExecutor.pc = "none" /\ NoExecutor.cand = None
      /\ NoExecutor.buf = {} /\ Early(NoExecutor)
  BY DEF NoExecutor, Early, Pos
<1>2. None \notin Ordinals
  BY OrdinalNumbers DEF None
<1>3. Behind(j)'
  BY DEF Behind
<1> QED BY <1>1, <1>2, <1>3 DEF Fresh

\* Nothing is reported by an empty batch.
LEMMA EmptyReports == \A o : ~Reports(<<>>, o)
  BY DEF Reports

LEMMA AwaitedWaiting ==
  ASSUME TypeInv, NEW j \in Jobs, NEW e, NEW f, NEW then, Awaited(j, e, f, then), NEW o
  PROVE  /\ Waiting(j, o)' => Reports(e.results, o) \/ Queued(j, o)
         /\ \A k \in Jobs \ {j} : Shifted(k, 0)
<1>0. ex'[j] = f
  BY DEF Awaited, TypeInv, TypeEx
<1>1. CASE wq' = wq /\ f.results = e.results
  BY <1>0, <1>1, QueueSame DEF Waiting, Queued
<1>2. ASSUME NEW w \in Writes, wq' = Append(wq, Entry(j, "main", w)),
             \/ f.results = e.results /\ w.kind # "items"
             \/ f.results = <<>> /\ w = ItemsWrite(e.results)
      PROVE  /\ Waiting(j, o)' => Reports(e.results, o) \/ Queued(j, o)
             /\ \A k \in Jobs \ {j} : Shifted(k, 0)
  <2>1. Entry(j, "main", w).job = j
    BY DEF Entry
  <2>2. Joined(j, 0, Entry(j, "main", w)) /\ \A k \in Jobs \ {j} : Shifted(k, 0)
    BY <1>2, <2>1, QueueAppend
  <2>3. Queued(j, o)' => Queued(j, o) \/ (w.kind = "items" /\ Reports(w.updates, o))
    BY <2>2, JoinedQueue
  <2>4. Queued(j, o)' => Queued(j, o) \/ Reports(e.results, o)
    BY <1>2, <2>3 DEF ItemsWrite
  <2>5. Reports(f.results, o) => Reports(e.results, o)
    BY <1>2, EmptyReports
  <2>6. Reports(ex[j].results, o)' = Reports(f.results, o)
    BY <1>0 DEF Reports
  <2> QED BY <2>2, <2>4, <2>5, <2>6 DEF Waiting
<1> QED BY <1>1, <1>2 DEF Awaited

LEMMA CommitKnows ==
  ASSUME TypeInv, NEW j \in Jobs, wq # <<>>, wq[1].job = j, Commit(j, wq[1].write)
  PROVE  /\ \A k \in Jobs \ {j} : item'[k] = item[k]
         /\ \A o \in Ordinals : item'[j][o] \in Done => KnownResult(j, o)
<1> DEFINE w == wq[1].write
<1>0. w \in Writes /\ item \in [Jobs -> [Ordinals -> ItemStates]] /\ 1 \in 1..Len(wq)
      /\ "RETRY" \notin Done
  BY HeadJob, Tails DEF TypeInv, TypeDb, Done
<1>1. CASE w.kind \in {"job", "account", "pauseAccount", "restriction"}
  <2>1. item' = item
    BY <1>1 DEF Commit
  <2> QED BY <2>1 DEF KnownResult
<1>2. CASE w.kind = "retry"
  <2>1. item' = [item EXCEPT ![j][w.ordinal] = "RETRY"]
    BY <1>2 DEF Commit
  <2>2. \A o \in Ordinals : item'[j][o] \in {item[j][o], "RETRY"}
    BY <1>0, <2>1
  <2> QED BY <1>0, <2>1, <2>2 DEF KnownResult
<1>3. CASE w.kind = "items"
  <2>1. item' = [item EXCEPT ![j] = Updated(j, w.updates)]
    BY <1>3 DEF Commit
  <2>2. \A o \in Ordinals : Reports(w.updates, o) => Queued(j, o)
    BY <1>0, <1>3 DEF Queued
  <2>3. item'[j] = Updated(j, w.updates)
    BY <1>0, <2>1
  <2>4. ASSUME NEW o \in Ordinals, item'[j][o] \in Done, ~Reports(w.updates, o)
        PROVE  item[j][o] \in Done
    BY <2>3, <2>4 DEF Updated
  <2> QED BY <1>0, <2>1, <2>2, <2>4 DEF KnownResult
<1>4. w.kind \in {"job", "account", "pauseAccount", "restriction", "retry", "items"}
  BY <1>0 DEF Writes, PlainWrites, ItemWrites
<1> QED BY <1>1, <1>2, <1>3, <1>4

LEMMA FreshImplies ==
  ASSUME TypeInv, FreshInv
  PROVE  NoRepeatedCandidate
<1> SUFFICES ASSUME NEW j \in Jobs, ex[j].pc = "rpc"
             PROVE  ~KnownResult(j, ex[j].cand)
  BY DEF NoRepeatedCandidate
<1>1. ex[j].cand \in Ordinals
  BY DEF TypeInv, TypeEx, Sound, Pos, Asking
<1> QED BY <1>1 DEF FreshInv, Fresh

\* The step of executor j leaves the other jobs alone.
LEMMA FreshOthers ==
  ASSUME TypeInv, FreshInv, NEW j \in Jobs, NEW d \in Nat, Fresh(j)',
         \A k \in Jobs \ {j} : Shifted(k, d) /\ ex'[k] = ex[k] /\ item'[k] = item[k]
  PROVE  FreshInv'
<1> SUFFICES ASSUME NEW k \in Jobs \ {j} PROVE Fresh(k)'
  BY DEF FreshInv
<1>1. Fresh(k) /\ Shifted(k, d) /\ SameItems(ex[k], ex'[k]) /\ Pos(ex'[k]) = Pos(ex[k])
  BY DEF FreshInv, SameItems
<1>2. \A o \in Ordinals : item'[k][o] \in Done => KnownResult(k, o)
  BY DEF KnownResult
<1> QED BY <1>1, <1>2, FreshKept

\* The first write of run is the job's row.
LEMMA LaunchEntry ==
  ASSUME TypeInv, NEW j \in Jobs, Launch(j)
  PROVE  /\ wq' = Append(wq, Entry(j, "main", JobWrite("RUNNING", Keep, FALSE)))
         /\ ex'[j].pc = "await" /\ Early(ex'[j]) /\ ex'[j].guard = "none"
<1> DEFINE e == [NoExecutor EXCEPT !.gate = RemainingWait(AccountOf[j]), !.action = ActionOf(row[j])]
           ws == <<JobWrite("RUNNING", Keep, FALSE), AccountWrite("BUSY")>>
           f  == [e EXCEPT !.pc = "await", !.todo = Tail(ws), !.then = "prime"]
<1>1. Await(j, e, FALSE, ws, "prime")
  BY DEF Launch
<1>2. ws # <<>> /\ Head(ws) = JobWrite("RUNNING", Keep, FALSE)
  OBVIOUS
<1> HIDE DEF ws, e
<1>3. ex' = [ex EXCEPT ![j] = f] /\ wq' = Append(wq, Entry(j, "main", Head(ws)))
  BY <1>1, <1>2 DEF Await
<1>4. ex'[j] = f
  BY <1>3 DEF TypeInv, TypeEx
<1>5. f.pc = "await" /\ f.then = "prime" /\ f.guard = "none" /\ f.cand = None /\ f.buf = {}
      /\ f.flusher = "none" /\ f.results = <<>>
  BY DEF NoExecutor, e
<1> QED BY <1>2, <1>3, <1>4, <1>5 DEF Early, Pos

LEMMA FreshInvKept ==
  ASSUME TypeInv, MainInv, FreshInv, MainInv', [Next]_vars
  PROVE  FreshInv'
<1>0. /\ ex \in [Jobs -> Executors] /\ 0 \in Nat /\ 1 \in Nat
      /\ \A j \in Jobs : ex[j] \in Executors /\ Sound(ex[j]) /\ Fresh(j)
  BY DEF TypeInv, TypeEx, FreshInv
<1>1. CASE UNCHANGED vars
  BY <1>1 DEF vars, dbVars, FreshInv, Fresh, Quiet, Behind, Waiting, KnownResult, Queued,
              Reports, ItemsOf, Mine, Early, Pos
<1>2. ASSUME NEW j \in Jobs, NEW f, ex' = [ex EXCEPT ![j] = f]
      PROVE  ex'[j] = f /\ \A k \in Jobs \ {j} : ex'[k] = ex[k]
  BY <1>0, <1>2
<1>3. ASSUME NEW j \in Jobs, ex[j].pc \notin {"none", "prime", "await"}
      PROVE  ex[j].guard # "none"
  BY <1>0, <1>3 DEF Fresh, Early, Pos
<1>4. ASSUME NEW j \in Jobs, ~Live(j), Launch(j) PROVE FreshInv'
  <2>1. PICK f : ex' = [ex EXCEPT ![j] = f]
    BY <1>4, LaunchType DEF Awaited
  <2>2. /\ wq' = Append(wq, Entry(j, "main", JobWrite("RUNNING", Keep, FALSE)))
        /\ ex'[j].pc = "await" /\ Early(ex'[j]) /\ ex'[j].guard = "none"
        /\ JobWrite("RUNNING", Keep, FALSE).kind # "items"
    BY <1>4, LaunchEntry DEF JobWrite
  <2>3. PICK w : wq' = Append(wq, Entry(j, "main", w)) /\ w.kind # "items"
    BY <2>2
  <2>4. Joined(j, 0, Entry(j, "main", w)) /\ \A k \in Jobs \ {j} : Shifted(k, 0)
    BY <2>3, QueueAppend DEF Entry
  <2>5. Behind(j)'
    BY <1>0, <2>3, <2>4, JoinedBehind
  <2>6. ex'[j].cand \notin Ordinals
    BY <2>2, OrdinalNumbers DEF Early, None
  <2>7. Fresh(j)'
    BY <2>2, <2>5, <2>6 DEF Fresh, Early
  <2>8. item' = item
    BY <1>4, LaunchType DEF dbVars
  <2> QED BY <1>0, <1>2, <2>1, <2>4, <2>7, <2>8, FreshOthers
<1>5. ASSUME NEW j \in Jobs, AwaitStep(j) PROVE FreshInv'
  <2>1. PICK f \in Executors, then \in Places \ {"none"} :
          Awaited(j, ex[j], f, then) /\ <<ex[j].pc, then>> \in Moves
    BY <1>5, AwaitSteps
  <2>2. ex[j].guard # "none" /\ item' = item
    BY <1>3, <1>5, <2>1, AwaitSteps DEF Moves, dbVars
  <2>3. /\ ex' = [ex EXCEPT ![j] = f] /\ f.guard = ex[j].guard /\ Pos(f) # "prime"
        /\ f.cand = ex[j].cand /\ f.buf = ex[j].buf /\ f.last = ex[j].last
    BY <2>1 DEF Awaited, Moves
  <2>4. \A o : Waiting(j, o)' => Waiting(j, o)
    BY <2>1, AwaitedWaiting DEF Waiting
  <2>5. Fresh(j)'
    BY <1>0, <1>2, <2>2, <2>3, <2>4, FreshLate
  <2>6. \A k \in Jobs \ {j} : Shifted(k, 0)
    BY <2>1, AwaitedWaiting
  <2> QED BY <1>0, <1>2, <2>2, <2>3, <2>5, <2>6, FreshOthers
<1>6. ASSUME NEW j \in Jobs, NEW st \in Done, RecordStep(j, st) PROVE FreshInv'
  <2> DEFINE e == Recorded(ex[j], st)
  <2>1. PICK f \in Executors : Awaited(j, e, f, "loop")
    BY <1>6, RecordSteps
  <2>2. ex[j].guard # "none" /\ item' = item /\ ex[j].cand \in Ordinals
    BY <1>3, <1>6, RecordSteps DEF RecordStep, dbVars
  <2>3. /\ e.guard = ex[j].guard /\ e.cand = None /\ e.buf = ex[j].buf /\ e.last = ex[j].last
        /\ e.results = Append(ex[j].results, ItemUpdate(ex[j].cand, st))
    BY <1>0 DEF Recorded, Executors
  <2>4. \A o : Reports(e.results, o) => Reports(ex[j].results, o) \/ o = ex[j].cand
    <3>1. ex[j].results \in Seq(Updates) /\ ItemUpdate(ex[j].cand, st) \in Updates
      BY <1>0, <2>2 DEF Executors, ItemUpdate, Updates
    <3>2. ItemUpdate(ex[j].cand, st).ordinal = ex[j].cand
      BY DEF ItemUpdate
    <3>3. PICK r \in Seq(Updates), u \in Updates : r = ex[j].results /\ u = ItemUpdate(ex[j].cand, st)
      BY <3>1
    <3>4. e.results = Append(r, u) /\ u.ordinal = ex[j].cand
      BY <2>3, <3>2, <3>3
    <3>5. \A i \in 1..Len(e.results) : (i \in 1..Len(r) /\ e.results[i] = r[i]) \/ e.results[i] = u
      BY <3>4
    <3> QED BY <3>3, <3>4, <3>5 DEF Reports
  <2> HIDE DEF e
  <2>5. ex'[j] = f /\ f.guard = ex[j].guard /\ f.cand = None /\ f.buf = ex[j].buf
        /\ f.last = ex[j].last /\ Pos(f) # "prime"
    BY <1>2, <2>1, <2>3 DEF Awaited
  <2>6. \A o : Waiting(j, o)' => Waiting(j, o) \/ o = ex[j].cand
    BY <2>1, <2>4, AwaitedWaiting DEF Waiting
  <2>7. \A o : KnownResult(j, o)' => KnownResult(j, o) \/ o = ex[j].cand
    BY <2>2, <2>6 DEF KnownResult, Waiting
  <2>8. None \notin Ordinals /\ f.buf \subseteq Ordinals
    BY OrdinalNumbers DEF None, Executors
  <2>9. Fresh(j)'
    BY <1>0, <2>2, <2>5, <2>6, <2>7, <2>8 DEF Fresh
  <2>10. \A k \in Jobs \ {j} : Shifted(k, 0)
    BY <2>1, AwaitedWaiting
  <2>11. ex' = [ex EXCEPT ![j] = f]
    BY <2>1 DEF Awaited
  <2> QED BY <1>0, <1>2, <2>2, <2>9, <2>10, <2>11, FreshOthers
<1>7. ASSUME NEW j \in Jobs, SimpleStep(j) PROVE FreshInv'
  <2>1. PICK f \in Executors : Simple(j, f)
    BY <1>7, SimpleSteps
  <2>2. ex' = [ex EXCEPT ![j] = f] /\ SameWork(ex[j], f) /\ item' = item /\ wq' = wq
        /\ \/ f.pc = ex[j].pc /\ f.then = ex[j].then
           \/ ex[j].pc \in {"lock", "attempt", "delay", "rpc", "backoff"}
    BY <1>7, <2>1, SimpleSteps DEF Simple, dbVars
  <2>3. ex'[j] = f /\ SameItems(ex[j], f) /\ \A k \in Jobs : Shifted(k, 0)
    BY <1>2, <2>2, QueueSame DEF SameWork, SameItems
  <2>4. \/ f.pc = ex[j].pc /\ Pos(f) = Pos(ex[j])
        \/ ex[j].guard # "none" /\ Pos(f) # "prime"
    BY <1>3, <2>1, <2>2 DEF Pos, Simple
  <2>5. \A o \in Ordinals : item'[j][o] \in Done => KnownResult(j, o)
    BY <2>2 DEF KnownResult
  <2>6. Fresh(j)'
    BY <1>0, <2>3, <2>4, <2>5, FreshKept
  <2> QED BY <1>0, <1>2, <2>2, <2>3, <2>6, FreshOthers
<1>8. ASSUME NEW j \in Jobs, Prime(j) PROVE FreshInv'
  <2>1. PICK f \in Executors :
          /\ ex' = [ex EXCEPT ![j] = f] /\ f.pc = "lock" /\ f.guard = "body"
          /\ f.cand = ex[j].cand /\ f.results = ex[j].results
          /\ f.buf = PendingAfter(j, ex[j].last) /\ \A o \in f.buf : o <= f.last
    BY <1>8, PrimeStep
  <2>2. ex[j].pc = "prime" /\ item' = item /\ wq' = wq
    BY <1>8, PrimeStep DEF dbVars
  <2>3. ex'[j] = f /\ \A k \in Jobs : Shifted(k, 0)
    BY <1>2, <2>1, <2>2, QueueSame
  <2>4. Early(ex[j]) /\ Quiet(j)
    BY <1>0, <2>2 DEF Fresh, Pos
  <2>5. Fresh(j)'
    <3>1. f.cand = None /\ f.results = <<>> /\ None \notin Ordinals /\ f.buf \subseteq Ordinals
      BY <2>1, <2>4, OrdinalNumbers DEF Early, Executors, None
    <3>2. \A o : ~Queued(j, o)
      BY <2>4 DEF Quiet, Queued, ItemsOf
    <3>3. \A o : ~Queued(j, o)'
      BY <2>2, <3>2 DEF Queued
    <3>4. \A o : ~Reports(ex'[j].results, o)
      BY <2>3, <3>1, EmptyReports
    <3>5. \A o : ~Waiting(j, o)'
      BY <3>3, <3>4 DEF Waiting, Reports
    <3>6. \A o \in f.buf : item[j][o] \notin Done
      BY <2>1 DEF PendingAfter, Done
    <3>7. \A o \in f.buf : ~KnownResult(j, o)'
      BY <2>2, <3>3, <3>4, <3>6 DEF KnownResult, Reports
    <3>8. Pos(f) # "prime"
      BY <2>1 DEF Pos
    <3> QED BY <2>1, <2>3, <3>1, <3>5, <3>7, <3>8 DEF Fresh
  <2> QED BY <1>0, <1>2, <2>1, <2>2, <2>3, <2>5, FreshOthers
<1>9. ASSUME NEW j \in Jobs, PopCandidate(j) PROVE FreshInv'
  <2>1. PICK e \in Executors, f \in Executors :
          /\ ex' = [ex EXCEPT ![j] = f] /\ f.pc = "attempt"
          /\ f.guard = ex[j].guard /\ f.results = ex[j].results
          /\ \/ e.buf = ex[j].buf /\ e.last = ex[j].last
             \/ /\ e.buf = PendingAfter(j, ex[j].last) /\ e.last >= ex[j].last
                /\ \A o \in e.buf : o <= e.last
          /\ f.cand \in e.buf /\ f.buf = e.buf \ {f.cand} /\ f.last = e.last
    BY <1>9, PopStep
  <2>2. ex[j].pc = "loop" /\ item' = item /\ wq' = wq
    BY <1>9, PopStep DEF dbVars
  <2>3. /\ ex'[j] = f /\ ex[j].guard # "none" /\ Pos(f) # "prime"
        /\ \A k \in Jobs : Shifted(k, 0)
    BY <1>2, <1>3, <2>1, <2>2, QueueSame DEF Pos
  <2>4. \A o : (Waiting(j, o)' <=> Waiting(j, o)) /\ (KnownResult(j, o)' <=> KnownResult(j, o))
    BY <2>1, <2>2, <2>3 DEF Waiting, KnownResult, Queued, Reports
  <2>5. e.buf \subseteq Ordinals /\ e.last \in Nat /\ ex[j].last \in Nat /\ Ordinals \subseteq Nat
    BY <1>0, OrdinalNumbers DEF Executors
  <2>6. ex[j].last <= e.last /\ \A o \in e.buf : o <= e.last /\ ~KnownResult(j, o)
    <3>1. CASE e.buf = ex[j].buf /\ e.last = ex[j].last
      <4>1. \A o \in Ordinals : o \in ex[j].buf => o <= ex[j].last /\ ~KnownResult(j, o)
        BY <1>0 DEF Fresh
      <4>2. ex[j].last <= e.last
        BY <2>5, <3>1
      <4> QED BY <2>5, <3>1, <4>1, <4>2
    <3>2. CASE /\ e.buf = PendingAfter(j, ex[j].last) /\ e.last >= ex[j].last
               /\ \A o \in e.buf : o <= e.last
      <4>1. \A o \in e.buf : item[j][o] \notin Done /\ ~(o <= ex[j].last)
        <5>1. \A o \in e.buf : o \in Nat /\ o > ex[j].last /\ item[j][o] \in {"READY", "RETRY"}
          BY <2>5, <3>2 DEF PendingAfter
        <5>2. \A o \in Nat : o > ex[j].last => ~(o <= ex[j].last)
          BY <2>5
        <5> QED BY <5>1, <5>2 DEF Done
      <4>2. \A o \in e.buf : ~Waiting(j, o)
        BY <1>0, <2>3, <2>5, <4>1 DEF Fresh
      <4>3. ex[j].last <= e.last
        BY <2>5, <3>2
      <4> QED BY <3>2, <4>1, <4>2, <4>3 DEF KnownResult, Waiting
    <3> QED BY <2>1, <3>1, <3>2
  <2>7. \A o \in Ordinals : Waiting(j, o) => o <= e.last
    <3>1. \A o \in Ordinals : Waiting(j, o) => o <= ex[j].last
      BY <1>0, <2>3 DEF Fresh
    <3>2. \A o \in Nat : o <= ex[j].last => o <= e.last
      BY <2>5, <2>6
    <3> QED BY <2>5, <3>1, <3>2
  <2>8. Fresh(j)'
    BY <2>1, <2>3, <2>4, <2>6, <2>7 DEF Fresh
  <2> QED BY <1>0, <1>2, <2>1, <2>2, <2>3, <2>8, FreshOthers
<1>10. ASSUME NEW j \in Jobs, FinishStep(j) PROVE FreshInv'
  <2>1. ex' = [ex EXCEPT ![j] = NoExecutor] /\ wq' = Orphaned(j) /\ item' = item
    BY <1>10, FinishSteps DEF dbVars
  <2>2. Fresh(j)' /\ \A k \in Jobs : Shifted(k, 0)
    BY <1>2, <2>1, QueueOrphans, FreshNone
  <2> QED BY <1>0, <1>2, <2>1, <2>2, FreshOthers
<1>11. ASSUME NEW j \in Jobs, DelayedFlush(j) PROVE FreshInv'
  <2>1. PICK f \in Executors :
          /\ ex' = [ex EXCEPT ![j] = f] /\ f.pc = ex[j].pc /\ f.then = ex[j].then
          /\ f.guard = ex[j].guard /\ f.cand = ex[j].cand /\ f.buf = ex[j].buf
          /\ f.last = ex[j].last /\ f.results = <<>>
          /\ \/ wq' = wq /\ ex[j].results = <<>>
             \/ wq' = Append(wq, Entry(j, "flusher", ItemsWrite(ex[j].results)))
    BY <1>11, FlushStep
  <2>2. ex[j].flusher = "sleep" /\ item' = item
    BY <1>11, FlushStep DEF dbVars
  <2>3. ex[j].guard # "none" /\ ex'[j] = f
    BY <1>0, <1>2, <2>1, <2>2 DEF Fresh, Early
  <2>4. Pos(f) # "prime"
    BY <1>0, <2>1, <2>3 DEF Fresh, Pos
  <2>5. \A o : ~Reports(ex'[j].results, o)
    BY <2>1, <2>3, EmptyReports
  <2>6. /\ \A o : Queued(j, o)' => Queued(j, o) \/ Reports(ex[j].results, o)
        /\ \A k \in Jobs \ {j} : Shifted(k, 0)
    <3>1. CASE wq' = wq
      BY <3>1, QueueSame DEF Queued
    <3>2. CASE wq' = Append(wq, Entry(j, "flusher", ItemsWrite(ex[j].results)))
      <4>1. PICK w : w = ItemsWrite(ex[j].results)
        OBVIOUS
      <4>2. /\ Joined(j, 0, Entry(j, "flusher", w)) /\ \A k \in Jobs \ {j} : Shifted(k, 0)
        BY <3>2, <4>1, QueueAppend DEF Entry
      <4>3. \A o : Queued(j, o)' => Queued(j, o) \/ Reports(w.updates, o)
        BY <1>0, <4>2, JoinedQueue
      <4> QED BY <4>1, <4>2, <4>3 DEF ItemsWrite
    <3> QED BY <2>1, <3>1, <3>2
  <2>7. \A o : Waiting(j, o)' => Waiting(j, o)
    BY <2>5, <2>6 DEF Waiting, Reports
  <2>8. Fresh(j)'
    BY <1>0, <2>1, <2>2, <2>3, <2>4, <2>7, FreshLate
  <2> QED BY <1>0, <1>2, <2>1, <2>2, <2>6, <2>8, FreshOthers
<1>12. ASSUME NEW j \in Jobs, NEW f, ex' = [ex EXCEPT ![j] = f], SameItems(ex[j], f),
              Pos(f) = Pos(ex[j]), wq # <<>>,
              \/ Mine(1, j) /\ wq' = Tail(wq)
              \/ f.pc = ex[j].pc /\ wq' = Tail(wq),
              \A k \in Jobs \ {j} : item'[k] = item[k],
              \A o \in Ordinals : item'[j][o] \in Done => KnownResult(j, o)
       PROVE  FreshInv'
  <2>1. ex'[j] = f /\ \A k \in Jobs : Shifted(k, 1)
    BY <1>2, <1>12, QueueTail
  <2>2. ex[j].guard = "none" /\ f.pc = "prime" => ex[j].pc = "prime" \/ Quiet(j)'
    <3>1. SUFFICES ASSUME ex[j].guard = "none", Mine(1, j)
                   PROVE  Quiet(j)'
      BY <1>12
    <3>2. Behind(j) /\ 1 \in 1..Len(wq)
      BY <1>0, <1>12, <3>1, Tails DEF Fresh
    <3>3. \A n \in 1..Len(wq) : ItemsOf(n, j) => n < 1
      BY <3>1, <3>2 DEF Behind
    <3>4. Quiet(j)
      BY <3>3 DEF Quiet
    <3> QED BY <1>0, <2>1, <3>4, ShiftedQueue
  <2>3. Fresh(j)'
    BY <1>0, <1>12, <2>1, <2>2, FreshKept
  <2> QED BY <1>0, <1>2, <1>12, <2>1, <2>3, FreshOthers
<1>13. CASE WriteCommits
  <2>1. PICK j \in Jobs : j = wq[1].job
    BY <1>13, CommitStep
  <2>2. wq # <<>> /\ Commit(j, wq[1].write) /\ \E f \in Executors : Answered(j, f)
    BY <1>13, <2>1, CommitStep
  <2>3. PICK f \in Executors : Answered(j, f)
    BY <2>2
  <2>4. /\ \A k \in Jobs \ {j} : item'[k] = item[k]
        /\ \A o \in Ordinals : item'[j][o] \in Done => KnownResult(j, o)
    BY <2>1, <2>2, CommitKnows
  <2>5. CASE wq' = Tail(wq) /\ (Mine(1, j) \/ f.pc = ex[j].pc)
    BY <1>12, <2>2, <2>3, <2>4, <2>5 DEF Answered
  <2>6. ASSUME NEW w \in PlainWrites, wq' = Append(Tail(wq), Entry(j, "main", w)), f.pc = "await"
        PROVE  FreshInv'
    <3>1. Joined(j, 1, Entry(j, "main", w)) /\ \A k \in Jobs \ {j} : Shifted(k, 1)
      BY <2>2, <2>6, QueueNext DEF Entry
    <3>2. w.kind # "items"
      BY <2>6 DEF PlainWrites
    <3>3. Behind(j)'
      BY <1>0, <3>1, <3>2, JoinedBehind
    <3>4. \A o : Queued(j, o)' => Queued(j, o)
      BY <1>0, <3>1, <3>2, JoinedQueue
    <3>5. ex'[j] = f /\ SameItems(ex[j], f) /\ Pos(f) = Pos(ex[j])
      BY <1>2, <2>3 DEF Answered
    <3>6. \A o : Waiting(j, o)' => Waiting(j, o)
      BY <3>4, <3>5 DEF Waiting, SameItems, Reports
    <3>7. \A o \in Ordinals : KnownResult(j, o)' => KnownResult(j, o)
      BY <2>4, <3>6 DEF KnownResult, Waiting
    <3>8. Fresh(j)'
      BY <1>0, <2>6, <3>3, <3>5, <3>6, <3>7 DEF Fresh, SameItems, Early
    <3>9. ex' = [ex EXCEPT ![j] = f]
      BY <2>3 DEF Answered
    <3> QED BY <1>0, <1>2, <2>4, <3>1, <3>8, <3>9, FreshOthers
  <2> QED BY <2>3, <2>5, <2>6 DEF Answered
<1>14. CASE WriteFails
  <2>1. PICK j \in Jobs : j = wq[1].job
    BY <1>14, FailStep
  <2>2. /\ wq # <<>> /\ item' = item
        /\ RunDies(j) \/ \E f \in Executors : ExceptBegins(j, f) \/ NotWaited(j, f)
    BY <1>14, <2>1, FailStep DEF dbVars
  <2>3. CASE RunDies(j)
    <3>1. ex' = [ex EXCEPT ![j] = NoExecutor]
      BY <2>3 DEF RunDies
    <3>2. Fresh(j)' /\ \A k \in Jobs : Shifted(k, 1)
      BY <1>2, <2>2, <2>3, <3>1, QueueDies, FreshNone
    <3> QED BY <1>0, <1>2, <2>2, <3>1, <3>2, FreshOthers
  <2>4. ASSUME NEW f \in Executors, NotWaited(j, f) PROVE FreshInv'
    <3>1. /\ ex' = [ex EXCEPT ![j] = f] /\ SameItems(ex[j], f) /\ f.pc = ex[j].pc
          /\ Pos(f) = Pos(ex[j]) /\ wq' = Tail(wq)
      BY <2>4 DEF NotWaited, Pos
    <3>2. \A o \in Ordinals : item'[j][o] \in Done => KnownResult(j, o)
      BY <2>2 DEF KnownResult
    <3> QED BY <1>12, <2>2, <3>1, <3>2
  <2>5. ASSUME NEW f \in Executors, ExceptBegins(j, f) PROVE FreshInv'
    <3>1. /\ ex' = [ex EXCEPT ![j] = f] /\ ex[j].guard # "none" /\ f.guard # "none"
          /\ Pos(f) # "prime" /\ f.results = <<>> /\ f.cand = ex[j].cand
          /\ f.buf = ex[j].buf /\ f.last = ex[j].last
      BY <2>5 DEF ExceptBegins, Pos
    <3>2. PICK w \in Writes : /\ wq' = Append(Tail(wq), Entry(j, "main", w))
                              /\ \/ w = ItemsWrite(ex[j].results)
                                 \/ w.kind # "items"
      BY <2>5 DEF ExceptBegins
    <3>3. Joined(j, 1, Entry(j, "main", w)) /\ \A k \in Jobs \ {j} : Shifted(k, 1)
      BY <2>2, <3>2, QueueNext DEF Entry
    <3>4. \A o : Queued(j, o)' => Queued(j, o) \/ (w.kind = "items" /\ Reports(w.updates, o))
      BY <1>0, <3>3, JoinedQueue
    <3>5. \A o : Queued(j, o)' => Queued(j, o) \/ Reports(ex[j].results, o)
      BY <3>2, <3>4 DEF ItemsWrite
    <3>6. ex'[j] = f
      BY <1>2, <3>1
    <3>7. \A o : ~Reports(ex'[j].results, o)
      BY <3>1, <3>6, EmptyReports
    <3>8. \A o : Waiting(j, o)' => Waiting(j, o)
      BY <3>5, <3>7 DEF Waiting, Reports
    <3>9. Fresh(j)'
      BY <1>0, <2>2, <3>1, <3>6, <3>8, FreshLate
    <3> QED BY <1>0, <1>2, <2>2, <3>1, <3>3, <3>9, FreshOthers
  <2> QED BY <2>2, <2>3, <2>4, <2>5
<1>15. CASE ProcessStep
  <2>1. item' = item
    BY <1>15, ProcessSteps
  <2>2. CASE Continues
    <3>1. \A k \in Jobs : Shifted(k, 0)
      BY <2>2, QueueSame DEF Continues
    <3>2. ASSUME NEW k \in Jobs PROVE Fresh(k)'
      <4>1. SameItems(ex[k], ex'[k]) /\ ex'[k].pc = ex[k].pc /\ Pos(ex'[k]) = Pos(ex[k])
        BY <2>2 DEF Continues, SameWork, SameItems, Pos
      <4>2. \A o \in Ordinals : item'[k][o] \in Done => KnownResult(k, o)
        BY <2>1 DEF KnownResult
      <4> QED BY <1>0, <3>1, <4>1, <4>2, FreshKept
    <3> QED BY <3>2 DEF FreshInv
  <2>3. CASE Vanished
    <3>1. \A i \in 1..Len(wq') : wq'[i].by # "main"
      <4>1. wq \in Seq(Entries) /\ Len(wq) \in Nat /\ \A i \in 1..Len(wq) : wq[i] \in Entries
        BY DEF TypeInv, TypeWq
      <4>2. CASE wq' = <<>>
        BY <4>2
      <4>3. CASE wq' = [i \in 1..Len(wq) |-> [wq[i] EXCEPT !.by = "nobody"]]
        <5>1. Len(wq') = Len(wq)
          BY <4>1, <4>3
        <5> QED BY <4>1, <4>3, <5>1 DEF Entries
      <4> QED BY <2>3, <4>2, <4>3 DEF Vanished
    <3>2. \A k \in Jobs : ex'[k] = NoExecutor /\ \A i \in 1..Len(wq') : ~Mine(i, k)'
      BY <2>3, <3>1 DEF Vanished, Mine
    <3> QED BY <3>2, FreshNone DEF FreshInv
  <2> QED BY <1>15, <2>2, <2>3, ProcessSteps
<1>16. ASSUME NEW j \in Jobs, PrimeFails(j) PROVE FreshInv'
  <2>1. ex' = [ex EXCEPT ![j] = NoExecutor] /\ wq' = wq /\ item' = item /\ ex[j].pc = "prime"
    BY <1>16, PrimeFailStep DEF dbVars
  <2>2. \A i \in 1..Len(wq') : ~Mine(i, j)'
    BY <2>1 DEF MainInv, Mine
  <2>3. Fresh(j)' /\ \A k \in Jobs : Shifted(k, 0)
    BY <1>2, <2>1, <2>2, QueueSame, FreshNone
  <2> QED BY <1>0, <1>2, <2>1, <2>3, FreshOthers
<1>17. ASSUME NEW j \in Jobs, ReadFails(j) PROVE FreshInv'
  <2>1. PICK f \in Executors : Awaited(j, Excepted(ex[j]), f, "exit")
    BY <1>17, ReadFailStep
  <2>2. ex[j].guard # "none" /\ item' = item
    BY <1>3, <1>17, ReadFailStep DEF dbVars
  <2>3. /\ ex' = [ex EXCEPT ![j] = f] /\ f.guard # "none" /\ Pos(f) # "prime"
        /\ f.cand = ex[j].cand /\ f.buf = ex[j].buf /\ f.last = ex[j].last
        /\ Excepted(ex[j]).results = ex[j].results
    BY <1>0, <2>1, ExceptedType DEF Awaited
  <2>4. \A o : Waiting(j, o)' => Waiting(j, o)
    BY <2>1, <2>3, AwaitedWaiting DEF Waiting
  <2>5. Fresh(j)'
    BY <1>0, <1>2, <2>2, <2>3, <2>4, FreshLate
  <2>6. \A k \in Jobs \ {j} : Shifted(k, 0)
    BY <2>1, AwaitedWaiting
  <2> QED BY <1>0, <1>2, <2>2, <2>3, <2>5, <2>6, FreshOthers
<1> QED BY <1>1, <1>4, <1>5, <1>6, <1>7, <1>8, <1>9, <1>10, <1>11, <1>13, <1>14, <1>15, <1>16,
           <1>17, StepKinds

-----------------------------------------------------------------------------
(* The server's wait is handed on.                                         *)

SameControl(e, f) == f.gate = e.gate /\ f.stop = e.stop /\ f.pause = e.pause

LEMMA AwaitControl ==
  ASSUME TypeInv, NEW j \in Jobs, NEW e \in Executors, NEW flush \in BOOLEAN, NEW writes,
         NEW then, Await(j, e, flush, writes, then)
  PROVE  SameControl(e, ex'[j])
<1> DEFINE ws == IF flush /\ e.results # <<>> THEN <<ItemsWrite(e.results)>> \o writes
                                              ELSE writes
           e1 == IF flush THEN [e EXCEPT !.results = <<>>] ELSE e
<1>1. SameControl(e, e1) /\ e1 = [e1 EXCEPT !.results = @]
  BY DEF SameControl, Executors
<1>2. \/ ex' = [ex EXCEPT ![j] = [e1 EXCEPT !.pc = then]]
      \/ ex' = [ex EXCEPT ![j] = [e1 EXCEPT !.pc = "await", !.todo = Tail(ws), !.then = then]]
  BY DEF Await
<1>3. \/ ex'[j] = [e1 EXCEPT !.pc = then]
      \/ ex'[j] = [e1 EXCEPT !.pc = "await", !.todo = Tail(ws), !.then = then]
  BY <1>2 DEF TypeInv, TypeEx
<1> HIDE DEF ws
<1>4. /\ SameControl(e, [e1 EXCEPT !.pc = then])
      /\ SameControl(e, [e1 EXCEPT !.pc = "await", !.todo = Tail(ws), !.then = then])
  BY DEF SameControl, Executors
<1> QED BY <1>3, <1>4

\* The gate of the scheduler moves with the server's wait only, and the events
\* of the executor are set by commands only.
LEMMA StepControl ==
  ASSUME TypeInv, NEW j \in Jobs, ExecutorStep(j)
  PROVE  \/ ex'[j] = NoExecutor \/ SameControl(ex[j], ex'[j])
         \/ /\ \E w \in Waits : RpcFloodWait(j, w)
            /\ ex'[j].stop = ex[j].stop /\ ex'[j].pause = ex[j].pause
<1>0. ex \in [Jobs -> Executors] /\ ex[j] \in Executors
  BY DEF TypeInv, TypeEx
<1>1. ASSUME NEW flush \in BOOLEAN, NEW writes, NEW then, Await(j, ex[j], flush, writes, then)
      PROVE  SameControl(ex[j], ex'[j])
  BY <1>0, <1>1, AwaitControl
<1>2. ASSUME NEW st \in Done, ex[j].pc \in {"attempt", "rpc", "backoff"}, Record(j, st)
      PROVE  SameControl(ex[j], ex'[j])
  <2>1. Recorded(ex[j], st) \in Executors
    BY <1>2, RecordType DEF Pos, Asking
  <2>2. \E flush \in BOOLEAN : Await(j, Recorded(ex[j], st), flush, <<>>, "loop")
    BY <1>2 DEF Record, Recorded
  <2>3. SameControl(Recorded(ex[j], st), ex'[j])
    BY <2>1, <2>2, AwaitControl
  <2>4. SameControl(ex[j], Recorded(ex[j], st))
    BY <1>0 DEF Recorded, SameControl, Executors
  <2> QED BY <2>3, <2>4 DEF SameControl
<1>3. CASE Prime(j) \/ PopCandidate(j)
  <2>1. SameControl(ex[j], Fill(ex[j], j)) /\ Fill(ex[j], j) \in Executors
    BY <1>0, FillType DEF Fill, SameControl, Executors
  <2>2. PICK e \in {ex[j], Fill(ex[j], j)} : \E o :
          \/ ex' = [ex EXCEPT ![j] = [e EXCEPT !.pc = "lock", !.guard = "body"]]
          \/ ex' = [ex EXCEPT ![j] = [e EXCEPT !.cand = o, !.buf = @ \ {o}, !.pc = "attempt"]]
    BY <1>0, <1>3 DEF Prime, PopCandidate
  <2>3. PICK o :
          \/ ex' = [ex EXCEPT ![j] = [e EXCEPT !.pc = "lock", !.guard = "body"]]
          \/ ex' = [ex EXCEPT ![j] = [e EXCEPT !.cand = o, !.buf = @ \ {o}, !.pc = "attempt"]]
    BY <2>2
  <2>4. e \in Executors /\ SameControl(ex[j], e)
    BY <1>0, <2>1 DEF SameControl
  <2>5. SameControl(e, ex'[j])
    <3>1. \/ ex'[j] = [e EXCEPT !.pc = "lock", !.guard = "body"]
          \/ ex'[j] = [e EXCEPT !.cand = o, !.buf = @ \ {o}, !.pc = "attempt"]
      BY <1>0, <2>3
    <3>2. /\ SameControl(e, [e EXCEPT !.pc = "lock", !.guard = "body"])
          /\ SameControl(e, [e EXCEPT !.cand = o, !.buf = @ \ {o}, !.pc = "attempt"])
      BY <2>4 DEF SameControl, Executors
    <3> QED BY <3>1, <3>2
  <2> QED BY <2>4, <2>5 DEF SameControl
<1>4. CASE AcquireLock(j) \/ SendRpc(j) \/ RpcTransient(j) \/ DelayedFlush(j) \/ GoOn(j)
  BY <1>0, <1>4 DEF AcquireLock, SendRpc, RpcTransient, DelayedFlush, GoOn, SameControl, Executors
<1>5. CASE HandleControl(j) \/ NoCandidate(j) \/ RpcRateLimited(j) \/ RpcPausesJob(j)
           \/ WaitOver(j) \/ Summarize(j)
  BY <1>1, <1>5 DEF HandleControl, NoCandidate, RpcRateLimited, RpcPausesJob, WaitOver, Summarize
<1>6. ASSUME NEW w \in Waits, RpcFloodWait(j, w)
      PROVE  ex'[j].stop = ex[j].stop /\ ex'[j].pause = ex[j].pause
  <2> DEFINE e == [ex[j] EXCEPT !.gate = Larger(@, Until(w))]
  <2>1. \E writes : Await(j, e, TRUE, writes, "wait")
    BY <1>6 DEF RpcFloodWait
  <2>2. Until(w) \in Nat /\ ex[j].gate \in Nat
    BY <1>0, UntilType DEF Executors
  <2>3. Larger(ex[j].gate, Until(w)) \in Nat
    BY <2>2 DEF Larger
  <2>4. e \in Executors /\ e.stop = ex[j].stop /\ e.pause = ex[j].pause
    BY <1>0, <2>3 DEF Executors
  <2> HIDE DEF e
  <2> QED BY <2>1, <2>4, AwaitControl DEF SameControl
<1>7. CASE Leave(j) \/ Exit(j)
  BY <1>0, <1>7 DEF Leave, Exit, Finish
<1>8. CASE Attempt(j) \/ RpcSucceeds(j) \/ RpcRejected(j) \/ BackoffOver(j)
  BY <1>2, <1>4, <1>8, AttemptSplits DEF RecordStep
<1> QED BY <1>3, <1>4, <1>5, <1>6, <1>7, <1>8 DEF ExecutorStep, RpcEnds

LEMMA CommitControl ==
  ASSUME TypeInv, WriteCommits, NEW k \in Jobs
  PROVE  SameControl(ex[k], ex'[k])
<1> DEFINE j == Head(wq).job
<1>0. ex \in [Jobs -> Executors] /\ ex[k] \in Executors /\ j \in Jobs
  BY HeadJob DEF TypeInv, TypeEx, WriteCommits
<1>1. \/ ex' = ex \/ ex' = [ex EXCEPT ![j].todo = Tail(@)]
      \/ ex' = [ex EXCEPT ![j].pc = ex[j].then, ![j].then = "none"]
      \/ ex' = [ex EXCEPT ![j].flusher = "none"]
  BY DEF WriteCommits
<1> HIDE DEF j
<1>2. CASE k # j
  BY <1>0, <1>1, <1>2 DEF SameControl
<1>3. CASE k = j
  <2>1. \/ ex'[k] = ex[k] \/ ex'[k] = [ex[k] EXCEPT !.todo = Tail(@)]
        \/ ex'[k] = [ex[k] EXCEPT !.pc = ex[k].then, !.then = "none"]
        \/ ex'[k] = [ex[k] EXCEPT !.flusher = "none"]
    BY <1>0, <1>1, <1>3
  <2> QED BY <1>0, <2>1 DEF SameControl, Executors
<1> QED BY <1>2, <1>3

Undisturbed == commands = 0 /\ crashes = 0 /\ failures = 0

\* A job of the account sleeps until the server's wait is over.
Held(a) == \E j \in Jobs : /\ AccountOf[j] = a /\ Pos(ex[j]) = "wait"
                           /\ ex[j].gate >= deadline[a]

GateInv ==
  /\ deadline \in [Accounts -> Nat] /\ commands \in Nat /\ crashes \in Nat
  /\ Undisturbed => /\ app = "up"
                    /\ \A j \in Jobs : ~ex[j].stop /\ ~ex[j].pause
                    /\ \A a \in Accounts : deadline[a] <= now \/ Held(a)

LEMMA GateImplies ==
  ASSUME TypeInv, LockInv, GateInv
  PROVE  GateIsHandedOn
<1> SUFFICES ASSUME Undisturbed, NEW j \in Jobs, ex[j].pc = "rpc"
             PROVE  now >= deadline[AccountOf[j]]
  BY DEF GateIsHandedOn, GateRespected, Undisturbed
<1>1. AccountOf[j] \in Accounts /\ now \in Nat
  BY ExecutorAssumption DEF TypeInv, TypeRest
<1>2. ~Held(AccountOf[j])
  BY DEF Held, LockInv, Pos, Locked
<1>3. deadline[AccountOf[j]] <= now /\ deadline[AccountOf[j]] \in Nat
  BY <1>1, <1>2 DEF GateInv
<1> QED BY <1>1, <1>3

\* A step of executor j changes the locals of j only.
LEMMA StepFrame ==
  ASSUME TypeInv, NEW j \in Jobs, ExecutorStep(j)
  PROVE  /\ \E f : ex' = [ex EXCEPT ![j] = f]
         /\ \/ AwaitStep(j) \/ SimpleStep(j) \/ (\E st \in Done : RecordStep(j, st))
            \/ Prime(j) \/ PopCandidate(j) \/ FinishStep(j) \/ DelayedFlush(j)
<1>1. \/ AwaitStep(j) \/ SimpleStep(j) \/ (\E st \in Done : RecordStep(j, st))
      \/ Prime(j) \/ PopCandidate(j) \/ FinishStep(j) \/ DelayedFlush(j)
  <2>1. CASE Attempt(j) \/ RpcSucceeds(j) \/ RpcRejected(j) \/ BackoffOver(j)
    BY <2>1, AttemptSplits DEF SimpleStep
  <2>2. CASE ~(Attempt(j) \/ RpcSucceeds(j) \/ RpcRejected(j) \/ BackoffOver(j))
    BY <2>2 DEF ExecutorStep, RpcEnds, AwaitStep, SimpleStep, FinishStep
  <2> QED BY <2>1, <2>2
<1>2. CASE AwaitStep(j)
  BY <1>2, AwaitSteps DEF Awaited
<1>3. CASE SimpleStep(j)
  BY <1>3, SimpleSteps DEF Simple
<1>4. ASSUME NEW st \in Done, RecordStep(j, st) PROVE \E f : ex' = [ex EXCEPT ![j] = f]
  BY <1>4, RecordSteps DEF Awaited
<1>5. CASE Prime(j) \/ PopCandidate(j) \/ FinishStep(j) \/ DelayedFlush(j)
  BY <1>5, PrimeStep, PopStep, FinishSteps, FlushStep
<1> QED BY <1>1, <1>2, <1>3, <1>4, <1>5

\* The job that waits stays where it is until the wait is over.
LEMMA WaiterStays ==
  ASSUME TypeInv, NEW k \in Jobs, Pos(ex[k]) = "wait", ~ex[k].stop, ~ex[k].pause,
         now < ex[k].gate, NEW j \in Jobs, ExecutorStep(j)
  PROVE  Pos(ex'[k]) = "wait" /\ ex'[k].gate = ex[k].gate
<1>0. ex \in [Jobs -> Executors] /\ ex[j] \in Executors
      /\ now \in Nat /\ ex[k].gate \in Nat /\ ~(now >= ex[k].gate)
  BY ExecutorAssumption DEF TypeInv, TypeEx, TypeRest, Executors
<1>1. \/ AwaitStep(j) \/ SimpleStep(j) \/ (\E st \in Done : RecordStep(j, st))
      \/ Prime(j) \/ PopCandidate(j) \/ FinishStep(j) \/ DelayedFlush(j)
  BY StepFrame
<1>2. PICK f : ex' = [ex EXCEPT ![j] = f]
  BY StepFrame
<1>3. CASE j # k
  BY <1>0, <1>2, <1>3
<1>4. CASE j = k
  <2>1. ex[j].pc \in {"wait", "await"}
    BY <1>4 DEF Pos
  <2>2. ~AwaitStep(j)
    <3>1. SUFFICES ASSUME AwaitStep(j) PROVE FALSE
      OBVIOUS
    <3>2. ~HandleControl(j)
      BY <1>4 DEF HandleControl, Control
    <3>3. ~WaitOver(j)
      BY <1>0, <1>4 DEF WaitOver
    <3> QED BY <2>1, <3>1, <3>2, <3>3 DEF AwaitStep, NoCandidate, RpcFloodWait, RpcRateLimited,
                                        RpcPausesJob, Summarize
  <2>3. ~(Prime(j) \/ PopCandidate(j) \/ FinishStep(j)) /\ \A st : ~RecordStep(j, st)
    BY <2>1 DEF Prime, PopCandidate, FinishStep, Leave, Exit, RecordStep
  <2>4. \E g : /\ ex' = [ex EXCEPT ![j] = g] /\ g.pc = ex[j].pc
               /\ g.then = ex[j].then
    <3>1. CASE SimpleStep(j)
      BY <2>1, <3>1, SimpleSteps DEF Simple
    <3>2. CASE DelayedFlush(j)
      BY <3>2, FlushStep
    <3> QED BY <1>1, <2>2, <2>3, <3>1, <3>2
  <2>5. Pos(ex'[k]) = "wait"
    BY <1>0, <1>4, <2>4 DEF Pos
  <2>6. SameControl(ex[j], ex'[j])
    <3>1. ex'[j] # NoExecutor
      BY <1>4, <2>5 DEF NoExecutor, Pos
    <3>2. \A w : ~RpcFloodWait(j, w)
      BY <2>1 DEF RpcFloodWait
    <3> QED BY <3>1, <3>2, StepControl
  <2> QED BY <1>4, <2>5, <2>6 DEF SameControl
<1> QED BY <1>3, <1>4

\* A new wait is longer than the one before, which was over.
LEMMA LongerWait ==
  ASSUME NEW d \in Nat, NEW g \in Nat, NEW t \in Nat, d <= t
  PROVE  Larger(d, t) \in Nat /\ Larger(g, t) \in Nat /\ Larger(g, t) >= Larger(d, t)
  BY DEF Larger

LEMMA FloodGate ==
  ASSUME TypeInv, NEW j \in Jobs, NEW w \in Waits, RpcFloodWait(j, w)
  PROVE  /\ deadline' = [deadline EXCEPT ![AccountOf[j]] = Larger(@, Until(w))]
         /\ Pos(ex'[j]) = "wait" /\ ex'[j].gate = Larger(ex[j].gate, Until(w))
<1> DEFINE e == [ex[j] EXCEPT !.gate = Larger(@, Until(w))]
<1>0. ex \in [Jobs -> Executors] /\ ex[j] \in Executors
  BY DEF TypeInv, TypeEx
<1>1. PICK writes : Await(j, e, TRUE, writes, "wait")
  BY DEF RpcFloodWait
<1>2. Until(w) \in Nat /\ ex[j].gate \in Nat
  BY <1>0, UntilType DEF Executors
<1>3. Larger(ex[j].gate, Until(w)) \in Nat
  BY <1>2 DEF Larger
<1>4. e \in Executors /\ e.gate = Larger(ex[j].gate, Until(w))
  BY <1>0, <1>3 DEF Executors
<1>5. Pos(ex'[j]) = "wait"
  <2>1. PICK f \in Executors, then \in Places \ {"none"} :
          Awaited(j, ex[j], f, then) /\ <<ex[j].pc, then>> \in Moves
    BY AwaitSteps DEF AwaitStep
  <2>2. ex'[j] = f
    BY <1>0, <2>1 DEF Awaited
  <2>3. f.pc = "wait" \/ (f.pc = "await" /\ f.then = "wait")
    <3> DEFINE e1 == [e EXCEPT !.results = <<>>]
               ws == IF TRUE /\ e.results # <<>> THEN <<ItemsWrite(e.results)>> \o writes
                                                 ELSE writes
    <3>1. \/ ex' = [ex EXCEPT ![j] = [e1 EXCEPT !.pc = "wait"]]
          \/ ex' = [ex EXCEPT ![j] = [e1 EXCEPT !.pc = "await", !.todo = Tail(ws), !.then = "wait"]]
      BY <1>1 DEF Await
    <3> HIDE DEF ws, e
    <3>2. e1 \in Executors
      <4>1. <<>> \in Seq(Updates)
        OBVIOUS
      <4> QED BY <1>4, <4>1 DEF Executors
    <3> HIDE DEF e1
    <3>3. \/ f = [e1 EXCEPT !.pc = "wait"]
          \/ f = [e1 EXCEPT !.pc = "await", !.todo = Tail(ws), !.then = "wait"]
      BY <1>0, <2>2, <3>1
    <3> QED BY <3>2, <3>3 DEF Executors
  <2> QED BY <2>2, <2>3 DEF Pos
<1> HIDE DEF e
<1>6. ex'[j].gate = Larger(ex[j].gate, Until(w))
  BY <1>1, <1>4, AwaitControl DEF SameControl
<1> QED BY <1>5, <1>6 DEF RpcFloodWait

LEMMA GateTypes ==
  ASSUME TypeInv, GateInv, [Next]_vars
  PROVE  deadline' \in [Accounts -> Nat] /\ commands' \in Nat /\ crashes' \in Nat
<1>1. commands' \in {commands, commands + 1} /\ crashes' \in {crashes, crashes + 1}
  BY DEF Next, vars, boundVars, StartMigration, ResumeMigration, PauseMigration, StopMigration,
         Launch, Dispatch, ExecutorStep, RpcEnds, Prime, AcquireLock, HandleControl, PopCandidate,
         NoCandidate, Attempt, SendRpc, RpcSucceeds, RpcRejected, RpcFloodWait, RpcRateLimited,
         RpcPausesJob, RpcTransient, WaitOver, BackoffOver, Leave, Summarize, Exit, DelayedFlush,
         LoopUnchanged, PrimeFails, ReadFails, Failure, WriteCommits, WriteFails, Tick, Close, Quit,
         Crash, Restart
<1>2. \/ deadline' = deadline
      \/ \E j \in Jobs, w \in Waits : deadline' = [deadline EXCEPT ![AccountOf[j]] = Larger(@, Until(w))]
  BY DEF Next, vars, StartMigration, ResumeMigration, PauseMigration, StopMigration,
         Launch, ExecutorStep, RpcEnds, Prime, AcquireLock, HandleControl, PopCandidate,
         NoCandidate, Attempt, SendRpc, RpcSucceeds, RpcRejected, RpcFloodWait, RpcRateLimited,
         RpcPausesJob, RpcTransient, WaitOver, BackoffOver, Leave, Summarize, Exit, DelayedFlush,
         LoopUnchanged, PrimeFails, ReadFails, Failure, WriteCommits, WriteFails, Tick, Close, Quit,
         Crash, Restart
<1>3. deadline' \in [Accounts -> Nat]
  <2>1. \A d \in Nat, w \in Waits : Larger(d, Until(w)) \in Nat
    BY UntilType DEF Larger
  <2>2. AccountOf \in [Jobs -> Accounts]
    BY ExecutorAssumption
  <2>3. deadline \in [Accounts -> Nat]
    BY DEF GateInv
  <2>4. ASSUME NEW j \in Jobs, NEW w \in Waits,
               deadline' = [deadline EXCEPT ![AccountOf[j]] = Larger(@, Until(w))]
        PROVE  deadline' \in [Accounts -> Nat]
    <3>1. AccountOf[j] \in Accounts /\ Larger(deadline[AccountOf[j]], Until(w)) \in Nat
      BY <2>1, <2>2, <2>3
    <3> QED BY <2>3, <2>4, <3>1
  <2> QED BY <1>2, <2>3, <2>4
<1> QED BY <1>1, <1>3 DEF GateInv

LEMMA GateInvKept ==
  ASSUME TypeInv, MainInv, LockInv, CountInv, GateInv, [Next]_vars
  PROVE  GateInv'
<1> DEFINE Good == /\ app' = "up"
                   /\ \A j \in Jobs : ~ex'[j].stop /\ ~ex'[j].pause
                   /\ \A a \in Accounts : deadline'[a] <= now' \/ Held(a)'
<1>0. /\ ex \in [Jobs -> Executors] /\ \A j \in Jobs : ex[j] \in Executors
      /\ commands \in Nat /\ crashes \in Nat /\ failures \in Nat /\ now \in Nat
      /\ deadline \in [Accounts -> Nat] /\ AccountOf \in [Jobs -> Accounts]
  BY ExecutorAssumption DEF TypeInv, TypeEx, TypeRest, GateInv, CountInv
<1>1. SUFFICES ASSUME Undisturbed' PROVE Good
  BY GateTypes DEF GateInv
<1>2. ASSUME Undisturbed
      PROVE  /\ app = "up" /\ \A j \in Jobs : ~ex[j].stop /\ ~ex[j].pause
             /\ \A a \in Accounts : deadline[a] <= now \/ Held(a)
  BY <1>2 DEF GateInv
<1>3. CASE UNCHANGED vars
  BY <1>1, <1>2, <1>3 DEF vars, boundVars, Undisturbed, Held
<1>4. CASE Dispatch \/ Crash \/ Failure
  BY <1>0, <1>1, <1>4 DEF Dispatch, Crash, Failure, Undisturbed
<1>5. CASE Quit \/ Restart
  <2>1. Undisturbed /\ app # "up"
    BY <1>1, <1>5 DEF Quit, Restart, Undisturbed, boundVars
  <2> QED BY <1>2, <2>1
<1>6. CASE Tick
  <2>1. UNCHANGED <<ex, app, deadline>> /\ now' = now + 1 /\ Undisturbed
    BY <1>1, <1>6 DEF Tick, Undisturbed, boundVars
  <2>2. \A a \in Accounts : deadline[a] <= now => deadline'[a] <= now'
    BY <1>0, <2>1
  <2> QED BY <1>2, <2>1, <2>2 DEF Held
<1>7. CASE WriteCommits
  <2>1. UNCHANGED <<app, deadline, now>> /\ Undisturbed
    BY <1>1, <1>7 DEF WriteCommits, Undisturbed, boundVars
  <2>2. PICK j \in Jobs : j = wq[1].job
    BY <1>7, CommitStep
  <2>3. PICK f : ex' = [ex EXCEPT ![j] = f] /\ Pos(f) = Pos(ex[j])
    BY <1>7, <2>2, CommitStep DEF Answered
  <2>4. \A k \in Jobs : Pos(ex'[k]) = Pos(ex[k]) /\ SameControl(ex[k], ex'[k])
    BY <1>0, <1>7, <2>3, CommitControl
  <2> QED BY <1>2, <2>1, <2>4 DEF Held, SameControl
<1>8. ASSUME NEW j \in Jobs, StartMigration(j) PROVE Good
  <2>1. UNCHANGED <<app, deadline, now>> /\ Undisturbed /\ ~Live(j) /\ Launch(j)
    BY <1>1, <1>8 DEF StartMigration, Launch, Undisturbed
  <2>2. PICK f, e : ex' = [ex EXCEPT ![j] = f]
    BY <2>1, LaunchType DEF Awaited
  <2>3. ~ex'[j].stop /\ ~ex'[j].pause
    <3> DEFINE e0 == [NoExecutor EXCEPT !.gate = RemainingWait(AccountOf[j]),
                                        !.action = ActionOf(row[j])]
    <3>1. RemainingWait(AccountOf[j]) \in Nat /\ ActionOf(row[j]) \in Actions
      BY <1>0, RemainingWaitType DEF TypeInv, TypeDb, ActionOf, Actions
    <3>2. e0 \in Executors
      BY <3>1, NoExecutorType DEF Executors, NoExecutor
    <3>3. ~e0.stop /\ ~e0.pause
      BY DEF NoExecutor
    <3>4. \E writes : Await(j, e0, FALSE, writes, "prime")
      BY <2>1 DEF Launch
    <3> HIDE DEF e0
    <3> QED BY <3>2, <3>3, <3>4, AwaitControl DEF SameControl
  <2>4. \A k \in Jobs : Pos(ex[k]) = "wait" => ex'[k] = ex[k]
    BY <1>0, <2>1, <2>2 DEF Live, Pos
  <2>5. \A k \in Jobs \ {j} : ex'[k] = ex[k]
    BY <1>0, <2>2
  <2> QED BY <1>2, <2>1, <2>3, <2>4, <2>5 DEF Held
<1>9. ASSUME NEW j \in Jobs, ExecutorStep(j) PROVE Good
  <2>1. UNCHANGED <<app, now>> /\ Undisturbed
    BY <1>1, <1>9 DEF ExecutorStep, RpcEnds, Prime, AcquireLock, HandleControl, PopCandidate,
         NoCandidate, Attempt, SendRpc, RpcSucceeds, RpcRejected, RpcFloodWait, RpcRateLimited,
         RpcPausesJob, RpcTransient, WaitOver, BackoffOver, Leave, Summarize, Exit, DelayedFlush,
         LoopUnchanged, Undisturbed, boundVars
  <2>2. PICK f : ex' = [ex EXCEPT ![j] = f]
    BY <1>9, StepFrame
  <2>3. \A k \in Jobs : ~ex'[k].stop /\ ~ex'[k].pause
    <3>1. ~ex'[j].stop /\ ~ex'[j].pause
      BY <1>2, <1>9, <2>1, StepControl DEF SameControl, NoExecutor
    <3> QED BY <1>0, <1>2, <2>1, <2>2, <3>1
  <2>4. ASSUME NEW a \in Accounts, deadline' = deadline, ~(deadline[a] <= now)
        PROVE  Held(a)'
    <3>1. PICK k \in Jobs : AccountOf[k] = a /\ Pos(ex[k]) = "wait" /\ ex[k].gate >= deadline[a]
      BY <1>2, <2>1, <2>4 DEF Held
    <3>2. deadline[a] \in Nat /\ ex[k].gate \in Nat
      BY <1>0 DEF Executors
    <3>3. now < ex[k].gate
      BY <1>0, <2>4, <3>1, <3>2
    <3>4. Pos(ex'[k]) = "wait" /\ ex'[k].gate = ex[k].gate
      BY <1>2, <1>9, <2>1, <3>1, <3>3, WaiterStays
    <3> QED BY <2>4, <3>1, <3>4 DEF Held
  <2>5. ASSUME NEW w \in Waits, RpcFloodWait(j, w), NEW a \in Accounts
        PROVE  deadline'[a] <= now' \/ Held(a)'
    <3>1. /\ deadline' = [deadline EXCEPT ![AccountOf[j]] = Larger(@, Until(w))]
          /\ Pos(ex'[j]) = "wait" /\ ex'[j].gate = Larger(ex[j].gate, Until(w))
          /\ ex[j].pc = "rpc"
      BY <2>5, FloodGate DEF RpcFloodWait
    <3>2. CASE a = AccountOf[j]
      <4>1. deadline[a] <= now
        BY <1>0, <2>1, <3>1, <3>2, GateImplies DEF GateIsHandedOn, GateRespected, Undisturbed, GateInv
      <4>2. /\ Until(w) \in Nat /\ ex[j].gate \in Nat /\ deadline[a] \in Nat
            /\ deadline[a] <= Until(w)
        <5>1. Until(w) \in 0..MaxTime /\ Until(w) >= now /\ deadline[a] \in Nat
          BY <1>0, UntilType
        <5>2. MaxTime \in Nat
          BY ExecutorAssumption
        <5> QED BY <1>0, <4>1, <5>1, <5>2 DEF Executors
      <4>3. Larger(ex[j].gate, Until(w)) >= Larger(deadline[a], Until(w))
        BY <4>2, LongerWait
      <4>4. deadline'[a] = Larger(deadline[a], Until(w))
        BY <1>0, <3>1, <3>2
      <4> QED BY <3>1, <3>2, <4>3, <4>4 DEF Held
    <3>3. CASE a # AccountOf[j]
      <4>1. deadline'[a] = deadline[a]
        BY <1>0, <3>1, <3>3
      <4>2. \A k \in Jobs : AccountOf[k] = a => ex'[k] = ex[k]
        BY <1>0, <2>2, <3>3
      <4> QED BY <1>2, <2>1, <4>1, <4>2 DEF Held
    <3> QED BY <3>2, <3>3
  <2>6. deadline' = deadline \/ \E w \in Waits : RpcFloodWait(j, w)
    BY <1>9 DEF ExecutorStep, RpcEnds, Prime, AcquireLock, HandleControl, PopCandidate,
         NoCandidate, Attempt, SendRpc, RpcSucceeds, RpcRejected, RpcRateLimited,
         RpcPausesJob, RpcTransient, WaitOver, BackoffOver, Leave, Summarize, Exit, DelayedFlush,
         LoopUnchanged
  <2> QED BY <1>2, <2>1, <2>3, <2>4, <2>5, <2>6
<1> QED BY <1>3, <1>4, <1>5, <1>6, <1>7, <1>8, <1>9
       DEF Next, ResumeMigration, PauseMigration, StopMigration, Close, PrimeFails, ReadFails,
           WriteFails

-----------------------------------------------------------------------------
(* What run still owes to the job's row and to its account.                *)

Members(s) == {s[i] : i \in 1..Len(s)}

\* The write of run that is with DBWriter, and the rest of its series.
Sent(j) == {w \in Writes : \E i \in 1..Len(wq) : Mine(i, j) /\ wq[i].write = w}
Owed(j) == {w \in Members(ex[j].todo) \cup Sent(j) : w.kind # "items"}

Last == {"leave", "exit"}

\* A write that calls the job completed.
Claims   == {"COMPLETED", "COMPLETED_WITH_ERRORS"}
Claim(w) == w.kind = "job" /\ w.state \in Claims

\* On its way out run does not mark the row or the account again, and the
\* candidate that it writes RETRY for is the one it still holds.
May(e, w) ==
  /\ w.kind = "job" /\ w.state = "RUNNING" => Pos(e) \notin Last
  /\ w.kind = "account" /\ w.state = "BUSY" => Pos(e) \notin Last
  /\ w.kind = "retry" => w.ordinal = e.cand

Owes(j) ==
  /\ ex[j].pc # "await" => ex[j].todo = <<>>
  /\ \A w \in Owed(j) : May(ex[j], w)
  /\ \A w \in Members(ex[j].todo) : ~Claim(w)

\* Only results are ever left to DBWriter by a run that has ended, unless the
\* process ends; and then nobody is left.
NoneLeft ==
  /\ app # "down" => \A i \in 1..Len(wq) : wq[i].write.kind # "items" => wq[i].by = "main"
  /\ app = "down" => \A j \in Jobs : ex[j].pc = "none" /\ ex[j].flusher = "none"

OweInv == (\A j \in Jobs : Owes(j)) /\ NoneLeft

\* A row that is shown as RUNNING, or an account as BUSY, has a run that is
\* either not on its way out or still has the write that changes this.
Pays(j, kinds) == Live(j) /\ (Pos(ex[j]) \in Last => \E w \in Owed(j) : w.kind \in kinds)

\* Or a failure that nothing caught has ended its run.
Backs(j, kinds) == Pays(j, kinds) \/ j \in broken

RowInv ==
  /\ restarts \in Nat
  /\ app # "down" =>
       /\ \A j \in Jobs : row[j].state = "RUNNING" => Backs(j, {"job"})
       /\ restarts = 0 => \A a \in Accounts : acct[a] = "BUSY" =>
            \E j \in Jobs : AccountOf[j] = a /\ Backs(j, {"account", "pauseAccount"})

\* A candidate is not put back to RETRY after its result is known.
RetryInv ==
  \A i \in 1..Len(wq) :
    wq[i].write.kind = "retry" => ~KnownResult(wq[i].job, wq[i].write.ordinal)

Settled(j, o) == item[j][o] \in Done \/ [job |-> j, ordinal |-> o] \in lost
Kept(j, o)    == Settled(j, o) \/ Waiting(j, o)

\* The result of o is with DBWriter, before the write at i.
Ahead(i, j, o) ==
  \E n \in 1..Len(wq) : n < i /\ ItemsOf(n, j) /\ Reports(wq[n].write.updates, o)

\* A row that calls the job completed, or will when its write commits.
Claimed(j) ==
  /\ row[j].state \in Claims => \A o \in Ordinals : Settled(j, o)
  /\ \A i \in 1..Len(wq) : wq[i].job = j /\ Claim(wq[i].write)
       => \A o \in Ordinals : Settled(j, o) \/ Ahead(i, j, o)

\* The items up to `last' are in the window, or the candidate, or have a result;
\* and all have one when run comes to its summary.
Accounted(j) ==
  /\ Pos(ex[j]) = "summary" => ex[j].results = <<>> /\ \A o \in Ordinals : Kept(j, o)
  /\ Pos(ex[j]) \in {"loop", "lock", "summary"} => ex[j].cand = None
  /\ ex[j].guard = "none" => ex[j].last = None
  /\ ex[j].guard # "none" => \A o \in Ordinals :
       o <= ex[j].last => o \in ex[j].buf \/ o = ex[j].cand \/ Kept(j, o)

CompleteInv == \A j \in Jobs : Claimed(j) /\ Accounted(j)

LEMMA MembersSplit ==
  ASSUME NEW S, NEW s \in Seq(S), s # <<>>
  PROVE  Members(s) = {Head(s)} \cup Members(Tail(s))
<1>1. /\ Len(s) \in Nat \ {0} /\ Head(s) = s[1] /\ Len(Tail(s)) = Len(s) - 1
      /\ \A i \in 1..(Len(s) - 1) : Tail(s)[i] = s[i + 1]
  OBVIOUS
<1>2. ASSUME NEW x \in Members(s) PROVE x = Head(s) \/ x \in Members(Tail(s))
  <2>1. PICK i \in 1..Len(s) : x = s[i]
    BY DEF Members
  <2>2. CASE i = 1
    BY <1>1, <2>1, <2>2
  <2>3. CASE i # 1
    <3>1. i - 1 \in 1..(Len(s) - 1) /\ (i - 1) + 1 = i
      BY <1>1, <2>3
    <3>2. x = Tail(s)[i - 1]
      BY <1>1, <2>1, <3>1
    <3> QED BY <1>1, <3>1, <3>2 DEF Members
  <2> QED BY <2>2, <2>3
<1>3. Head(s) \in Members(s)
  BY <1>1 DEF Members
<1>4. ASSUME NEW x \in Members(Tail(s)) PROVE x \in Members(s)
  <2>1. PICK i \in 1..(Len(s) - 1) : x = s[i + 1]
    BY <1>1 DEF Members
  <2>2. i + 1 \in 1..Len(s)
    BY <1>1
  <2> QED BY <2>1, <2>2 DEF Members
<1> QED BY <1>2, <1>3, <1>4

LEMMA NoMembers == Members(<<>>) = {}
  BY DEF Members

LEMMA TwoMembers ==
  ASSUME NEW a, NEW b
  PROVE  Members(<<a, b>>) = {a, b}
  BY DEF Members

LEMMA ThreeMembers ==
  ASSUME NEW a, NEW b, NEW c
  PROVE  Members(<<a, b, c>>) = {a, b, c}
  BY DEF Members

LEMMA FourMembers ==
  ASSUME NEW a, NEW b, NEW c, NEW d
  PROVE  Members(<<a, b, c, d>>) = {a, b, c, d}
  BY DEF Members

\* Run waits for its write and for no other one.
LEMMA NothingSent ==
  ASSUME MainInv, NEW j \in Jobs, ex[j].pc # "await"
  PROVE  Sent(j) = {}
  BY DEF MainInv, Sent

LEMMA SentSame ==
  ASSUME wq' = wq, NEW k \in Jobs
  PROVE  Sent(k)' = Sent(k)
  BY DEF Sent, Mine

LEMMA SentAppend ==
  ASSUME TypeInv, NEW j \in Jobs, NEW by, NEW w \in Writes, wq' = Append(wq, Entry(j, by, w)),
         NEW k \in Jobs
  PROVE  Sent(k)' = IF k = j /\ by = "main" THEN Sent(k) \cup {w} ELSE Sent(k)
<1>1. wq \in Seq(Entries) /\ Len(wq) \in Nat
  BY DEF TypeInv, TypeWq
<1>2. /\ Len(wq') = Len(wq) + 1 /\ wq'[Len(wq) + 1] = Entry(j, by, w)
      /\ \A i \in 1..Len(wq) : wq'[i] = wq[i]
  BY <1>1
<1>3. /\ \A i \in 1..Len(wq') : i \in 1..Len(wq) \/ i = Len(wq) + 1
      /\ \A i \in 1..Len(wq) : i \in 1..Len(wq')
      /\ Len(wq) + 1 \in 1..Len(wq')
  BY <1>1, <1>2
<1>4. PICK m : m = Len(wq) + 1
  OBVIOUS
<1>5. Mine(m, k)' <=> k = j /\ by = "main"
  BY <1>2, <1>4 DEF Mine, Entry
<1>6. wq'[m].write = w
  BY <1>2, <1>4 DEF Entry
<1>7. \A i \in 1..Len(wq) : (Mine(i, k)' <=> Mine(i, k)) /\ wq'[i].write = wq[i].write
  BY <1>2 DEF Mine
<1>8. \A x \in Writes : x \in Sent(k)' <=> x \in Sent(k) \/ (k = j /\ by = "main" /\ x = w)
  BY <1>3, <1>4, <1>5, <1>6, <1>7 DEF Sent
<1>9. Sent(k) \subseteq Writes /\ Sent(k)' \subseteq Writes
  BY DEF Sent
<1> QED BY <1>8, <1>9

\* The oldest write has been answered.
LEMMA SentTail ==
  ASSUME TypeInv, MainInv, wq # <<>>, NEW k \in Jobs, Len(wq') = Len(wq) - 1,
         \A i \in 1..(Len(wq) - 1) :
           /\ wq'[i].write = wq[i + 1].write
           /\ wq[i + 1].job = k \/ wq'[i].job = k => wq'[i].job = wq[i + 1].job /\ wq'[i].by = wq[i + 1].by
  PROVE  Sent(k)' = IF Mine(1, k) THEN {} ELSE Sent(k)
<1>0. Len(wq) \in Nat /\ 1 \in 1..Len(wq) /\ \A i \in 1..(Len(wq) - 1) : i + 1 \in 1..Len(wq)
  BY Tails
<1>1. \A i \in 1..(Len(wq) - 1) : Mine(i, k)' <=> Mine(i + 1, k)
  BY DEF Mine
<1>2. CASE Mine(1, k)
  <2>1. \A i \in 1..(Len(wq) - 1) : i + 1 # 1
    BY <1>0
  <2>2. \A i \in 1..(Len(wq) - 1) : ~Mine(i, k)'
    BY <1>0, <1>1, <1>2, <2>1 DEF MainInv
  <2> QED BY <1>2, <2>2 DEF Sent
<1>3. CASE ~Mine(1, k)
  <2>1. Sent(k)' \subseteq Sent(k)
    BY <1>0, <1>1 DEF Sent
  <2>2. ASSUME NEW x \in Sent(k) PROVE x \in Sent(k)'
    <3>1. PICK i \in 1..Len(wq) : Mine(i, k) /\ wq[i].write = x
      BY DEF Sent
    <3>2. i # 1
      BY <1>3, <3>1
    <3>3. PICK n \in 1..(Len(wq) - 1) : n + 1 = i
      <4>1. i - 1 \in 1..(Len(wq) - 1) /\ (i - 1) + 1 = i
        BY <1>0, <3>2
      <4> QED BY <4>1
    <3>4. Mine(n, k)' /\ wq'[n].write = x
      BY <1>1, <3>1, <3>3
    <3> QED BY <3>4 DEF Sent
  <2> QED BY <1>3, <2>1, <2>2
<1> QED BY <1>2, <1>3

\* The series that run begins to await is all that it owes.
LEMMA AwaitOwes ==
  ASSUME TypeInv, MainInv, NEW j \in Jobs, ex[j].pc # "await", NEW e \in Executors,
         e.todo = <<>>, NEW flush \in BOOLEAN, NEW writes \in Seq(PlainWrites),
         NEW then \in Places, Await(j, e, flush, writes, then)
  PROVE  /\ Owed(j)' = Members(writes) /\ Pos(ex'[j]) = then /\ ex'[j].cand = e.cand
         /\ ex'[j].pc # "await" => ex'[j].todo = <<>>
         /\ Members(ex'[j].todo) \subseteq Members(writes)
         /\ flush => ex'[j].results = <<>>
         /\ ~flush /\ writes # <<>> => ex'[j].todo = Tail(writes)
         /\ \/ wq' = wq
            \/ \E w \in Writes : /\ wq' = Append(wq, Entry(j, "main", w))
                                 /\ w.kind = "items" \/ w \in Members(writes)
<1> DEFINE ws == IF flush /\ e.results # <<>> THEN <<ItemsWrite(e.results)>> \o writes
                                              ELSE writes
           e1 == IF flush THEN [e EXCEPT !.results = <<>>] ELSE e
<1>0. /\ "await" \notin Places /\ e.results \in Seq(Updates) /\ ex \in [Jobs -> Executors]
      /\ \A w \in PlainWrites : w.kind # "items"
      /\ \A w \in Members(writes) : w \in PlainWrites
  <2>1. \A w \in Members(writes) : w \in PlainWrites
    BY DEF Members
  <2>2. \A w \in PlainWrites : w.kind # "items"
    BY DEF PlainWrites
  <2> QED BY <2>1, <2>2 DEF Executors, Places, TypeInv, TypeEx
<1>1. e1 \in Executors /\ e1.cand = e.cand /\ e1.todo = <<>> /\ (flush => e1.results = <<>>)
  <2>1. <<>> \in Seq(Updates)
    OBVIOUS
  <2> QED BY <2>1 DEF Executors
<1>2. Sent(j) = {}
  BY NothingSent
<1>3. CASE ws = <<>>
  <2> DEFINE f == [e1 EXCEPT !.pc = then]
  <2>1. ex'[j] = f /\ wq' = wq
    BY <1>0, <1>3 DEF Await
  <2>2. writes = <<>>
    <3>1. CASE flush /\ e.results # <<>>
      BY <1>0, <1>3, <3>1
    <3>2. CASE ~(flush /\ e.results # <<>>)
      BY <1>3, <3>2
    <3> QED BY <3>1, <3>2
  <2>3. f.pc = then /\ f.cand = e1.cand /\ f.todo = e1.todo /\ f.results = e1.results
    BY <1>1 DEF Executors
  <2> HIDE DEF f, e1, ws
  <2>4. Sent(j)' = {}
    BY <1>2, <2>1, SentSame
  <2>5. Owed(j)' = {}
    BY <1>1, <2>1, <2>3, <2>4, NoMembers DEF Owed
  <2> QED BY <1>0, <1>1, <2>1, <2>2, <2>3, <2>5, NoMembers DEF Pos
<1>4. CASE ws # <<>>
  <2> DEFINE f == [e1 EXCEPT !.pc = "await", !.todo = Tail(ws), !.then = then]
             w == Head(ws)
  <2>1. ex'[j] = f /\ wq' = Append(wq, Entry(j, "main", w))
    BY <1>0, <1>4 DEF Await
  <2>2. /\ w \in Writes
        /\ {x \in Members(Tail(ws)) \cup {w} : x.kind # "items"} = Members(writes)
        /\ Members(Tail(ws)) \subseteq Members(writes)
        /\ w.kind = "items" \/ w \in Members(writes)
        /\ ~flush => Tail(ws) = Tail(writes)
    <3>1. CASE flush /\ e.results # <<>>
      <4>1. w = ItemsWrite(e.results) /\ Tail(ws) = writes
        BY <3>1
      <4>2. w \in Writes /\ w.kind = "items"
        BY <1>0, <4>1 DEF Writes, ItemWrites, ItemsWrite
      <4> HIDE DEF w, ws
      <4> QED BY <1>0, <3>1, <4>1, <4>2
    <3>2. CASE ~(flush /\ e.results # <<>>)
      <4>1. ws = writes
        BY <3>2
      <4> HIDE DEF ws
      <4>2. Members(writes) = {w} \cup Members(Tail(writes))
        BY <1>4, <4>1, MembersSplit
      <4>3. w \in Writes
        BY <1>0, <4>1, <4>2 DEF Writes
      <4> QED BY <1>0, <4>1, <4>2, <4>3
    <3> QED BY <3>1, <3>2
  <2>3. f.pc = "await" /\ f.then = then /\ f.cand = e1.cand /\ f.todo = Tail(ws)
        /\ f.results = e1.results
    <3> HIDE DEF ws, e1
    <3> QED BY <1>1 DEF Executors
  <2> HIDE DEF f, e1, ws, w
  <2>4. Sent(j)' = {w}
    BY <1>2, <2>1, <2>2, SentAppend
  <2>5. Owed(j)' = {x \in Members(Tail(ws)) \cup {w} : x.kind # "items"}
    BY <2>1, <2>3, <2>4 DEF Owed
  <2> QED BY <1>1, <2>1, <2>2, <2>3, <2>5 DEF Pos
<1> QED BY <1>3, <1>4

\* The other jobs owe what they owed.
LEMMA OwedOthers ==
  ASSUME TypeInv, NEW j \in Jobs, NEW k \in Jobs \ {j}, ex'[k] = ex[k],
         wq' = wq \/ \E by : \E w \in Writes : wq' = Append(wq, Entry(j, by, w))
  PROVE  Owed(k)' = Owed(k)
<1>1. Sent(k)' = Sent(k)
  BY SentSame, SentAppend
<1> QED BY <1>1 DEF Owed, Members

LEMMA WriteFields ==
  /\ \A st, u, o : JobWrite(st, u, o).kind = "job" /\ JobWrite(st, u, o).state = st
  /\ \A st : AccountWrite(st).kind = "account" /\ AccountWrite(st).state = st
  /\ \A g : PauseAccount(g).kind = "pauseAccount"
  /\ \A o : RetryWrite(o).kind = "retry" /\ RetryWrite(o).ordinal = o
  /\ RestrictionWrite.kind = "restriction"
  BY DEF JobWrite, AccountWrite, PauseAccount, RetryWrite, RestrictionWrite

\* The series of writes of a run that is at pc, holds cand and goes on at then.
Fits(w, pc, cand, then) ==
  /\ w.kind = "job" /\ w.state = "RUNNING" => then \notin Last
  /\ w.kind = "account" /\ w.state = "BUSY" => then \notin Last
  /\ w.kind = "retry" => w.ordinal = cand
  /\ Claim(w) => pc = "summary"

Series(writes, flush, pc, cand, then) ==
  /\ \A w \in Members(writes) : Fits(w, pc, cand, then)
  /\ then \in Last => /\ \E w \in Members(writes) : w.kind \in {"job"}
                      /\ \E w \in Members(writes) : w.kind \in {"account", "pauseAccount"}
  /\ pc = "summary" => \/ /\ ~flush /\ writes # <<>>
                          /\ \A w \in Members(Tail(writes)) : ~Claim(w)
                       \/ \A w \in Members(writes) : ~Claim(w)

LEMMA WritesFit ==
  ASSUME NEW pc, NEW cand, NEW then, NEW u, NEW o
  PROVE  /\ \A st \in {"CANCELLED", "PAUSED", "WAITING_SERVER", "RATE_LIMITED", "FAILED"} :
              Fits(JobWrite(st, u, o), pc, cand, then) /\ ~Claim(JobWrite(st, u, o))
         /\ then \notin Last => Fits(JobWrite("RUNNING", u, o), pc, cand, then)
         /\ pc = "summary" => \A st \in Claims : Fits(JobWrite(st, u, o), pc, cand, then)
         /\ \A st : st # "BUSY" \/ then \notin Last => Fits(AccountWrite(st), pc, cand, then)
         /\ \A st : ~Claim(AccountWrite(st))
         /\ Fits(PauseAccount(u), pc, cand, then) /\ Fits(RetryWrite(cand), pc, cand, then)
         /\ Fits(RestrictionWrite, pc, cand, then)
<1>1. \A st : Claim(JobWrite(st, u, o)) <=> st \in Claims
  BY WriteFields DEF Claim
<1>2. \A st : ~Claim(AccountWrite(st))
  BY WriteFields DEF Claim
<1>3. ~Claim(PauseAccount(u)) /\ ~Claim(RetryWrite(cand)) /\ ~Claim(RestrictionWrite)
  BY WriteFields DEF Claim
<1>4. \A st \in {"CANCELLED", "PAUSED", "WAITING_SERVER", "RATE_LIMITED", "FAILED", "RUNNING"} :
        st \notin Claims
  BY DEF Claims
<1>5. \A st : st \in Claims => st # "RUNNING"
  BY DEF Claims
<1> QED BY <1>1, <1>2, <1>3, <1>4, <1>5, WriteFields DEF Fits

LEMMA AwaitSeries ==
  ASSUME TypeInv, NEW j \in Jobs, AwaitStep(j)
  PROVE  \E e \in Executors, flush \in BOOLEAN, writes \in Seq(PlainWrites), then \in Places :
           /\ Await(j, e, flush, writes, then) /\ e.todo = ex[j].todo /\ e.cand = ex[j].cand
           /\ Series(writes, flush, ex[j].pc, ex[j].cand, then)
           /\ then = "summary" => NoCandidate(j) /\ flush
           /\ then # "none"
<1> DEFINE Good(e, flush, writes, then) ==
             /\ Await(j, e, flush, writes, then) /\ e.todo = ex[j].todo /\ e.cand = ex[j].cand
             /\ Series(writes, flush, ex[j].pc, ex[j].cand, then)
             /\ then = "summary" => NoCandidate(j) /\ flush
             /\ then # "none"
<1>0. /\ ex[j] \in Executors /\ Sound(ex[j]) /\ ex[j].gate \in Nat /\ now \in Nat
      /\ ex[j].pc \in Asking => ex[j].cand \in Ordinals
  BY ExecutorAssumption DEF TypeInv, TypeEx, TypeRest, Executors, Sound, Pos, Asking
<1>a. /\ {"leave", "wait", "delay", "summary", "exit"} \subseteq Places
      /\ TRUE \in BOOLEAN /\ FALSE \in BOOLEAN /\ <<>> \in Seq(PlainWrites)
      /\ {"wait", "delay", "summary"} \cap Last = {}
  BY DEF Places, Last
<1>b. {"COMPLETED", "COMPLETED_WITH_ERRORS"} = Claims
  BY DEF Claims
<1>1. CASE HandleControl(j)
  <2>1. \/ Await(j, ex[j], TRUE, <<JobWrite("CANCELLED", None, FALSE), AccountWrite("READY")>>, "leave")
        \/ Await(j, ex[j], TRUE, <<JobWrite("PAUSED", Keep, FALSE), PauseAccount(ex[j].gate)>>, "leave")
    BY <1>1 DEF HandleControl
  <2>2. ex[j].pc # "summary"
    BY <1>1 DEF HandleControl
  <2>3. /\ JobWrite("CANCELLED", None, FALSE) \in PlainWrites /\ AccountWrite("READY") \in PlainWrites
        /\ JobWrite("PAUSED", Keep, FALSE) \in PlainWrites /\ PauseAccount(ex[j].gate) \in PlainWrites
    BY <1>0, WriteTypes, StateNames DEF None
  <2>4. ASSUME Await(j, ex[j], TRUE, <<JobWrite("CANCELLED", None, FALSE), AccountWrite("READY")>>, "leave")
        PROVE  Good(ex[j], TRUE, <<JobWrite("CANCELLED", None, FALSE), AccountWrite("READY")>>, "leave")
    <3>1. PICK a, b : a = JobWrite("CANCELLED", None, FALSE) /\ b = AccountWrite("READY")
      OBVIOUS
    <3>0. a.kind = "job" /\ b.kind = "account"
      BY <3>1 DEF JobWrite, AccountWrite, PauseAccount
    <3>2. /\ Fits(a, ex[j].pc, ex[j].cand, "leave")
          /\ Fits(b, ex[j].pc, ex[j].cand, "leave")
      BY <3>1, WritesFit
    <3>3. Series(<<a, b>>, TRUE, ex[j].pc, ex[j].cand, "leave")
      BY <2>2, <3>0, <3>2, TwoMembers DEF Series
    <3> QED BY <2>4, <3>1, <3>3
  <2>5. ASSUME Await(j, ex[j], TRUE, <<JobWrite("PAUSED", Keep, FALSE), PauseAccount(ex[j].gate)>>, "leave")
        PROVE  Good(ex[j], TRUE, <<JobWrite("PAUSED", Keep, FALSE), PauseAccount(ex[j].gate)>>, "leave")
    <3>1. PICK a, b : a = JobWrite("PAUSED", Keep, FALSE) /\ b = PauseAccount(ex[j].gate)
      OBVIOUS
    <3>0. a.kind = "job" /\ b.kind = "pauseAccount"
      BY <3>1 DEF JobWrite, AccountWrite, PauseAccount
    <3>2. /\ Fits(a, ex[j].pc, ex[j].cand, "leave")
          /\ Fits(b, ex[j].pc, ex[j].cand, "leave")
      BY <3>1, WritesFit
    <3>3. Series(<<a, b>>, TRUE, ex[j].pc, ex[j].cand, "leave")
      BY <2>2, <3>0, <3>2, TwoMembers DEF Series
    <3> QED BY <2>5, <3>1, <3>3
  <2>6. /\ <<JobWrite("CANCELLED", None, FALSE), AccountWrite("READY")>> \in Seq(PlainWrites)
        /\ <<JobWrite("PAUSED", Keep, FALSE), PauseAccount(ex[j].gate)>> \in Seq(PlainWrites)
    BY <2>3, Tuples
  <2> HIDE DEF Good
  <2>7. \E e \in Executors, flush \in BOOLEAN, writes \in Seq(PlainWrites), then \in Places :
          Good(e, flush, writes, then)
    BY <1>0, <1>a, <2>1, <2>4, <2>5, <2>6
  <2> QED BY <2>7 DEF Good
<1>2. CASE NoCandidate(j)
  <2>1. Await(j, ex[j], TRUE, <<>>, "summary") /\ ex[j].pc = "loop"
    BY <1>2 DEF NoCandidate
  <2>2. Good(ex[j], TRUE, <<>>, "summary")
    BY <1>2, <1>a, <2>1, NoMembers DEF Series
  <2> HIDE DEF Good
  <2>7. \E e \in Executors, flush \in BOOLEAN, writes \in Seq(PlainWrites), then \in Places :
          Good(e, flush, writes, then)
    BY <1>0, <1>a, <2>2
  <2> QED BY <2>7 DEF Good
<1>3. ASSUME NEW x \in Waits, RpcFloodWait(j, x)
      PROVE  \E e \in Executors, flush \in BOOLEAN, writes \in Seq(PlainWrites), then \in Places :
               Good(e, flush, writes, then)
  <2> DEFINE e == [ex[j] EXCEPT !.gate = Larger(@, Until(x))]
             ws == <<RetryWrite(ex[j].cand), AccountWrite("WAITING_SERVER"),
                     JobWrite("WAITING_SERVER", Until(x), TRUE)>>
  <2>1. Await(j, e, TRUE, ws, "wait") /\ ex[j].pc = "rpc"
    BY <1>3 DEF RpcFloodWait
  <2>2. Until(x) \in Nat /\ Larger(ex[j].gate, Until(x)) \in Nat
    <3>1. Until(x) \in Nat
      BY UntilType
    <3> QED BY <1>0, <3>1 DEF Larger
  <2>3. e \in Executors /\ e.todo = ex[j].todo /\ e.cand = ex[j].cand
    <3>1. e = [ex[j] EXCEPT !.gate = Larger(ex[j].gate, Until(x))]
      OBVIOUS
    <3> HIDE DEF e
    <3> QED BY <1>0, <2>2, <3>1 DEF Executors
  <2>4. /\ RetryWrite(ex[j].cand) \in PlainWrites /\ AccountWrite("WAITING_SERVER") \in PlainWrites
        /\ JobWrite("WAITING_SERVER", Until(x), TRUE) \in PlainWrites
    BY <1>0, <2>1, <2>2, WriteTypes, StateNames DEF Asking
  <2>5. ws \in Seq(PlainWrites)
    BY <2>4, Tuples
  <2>6. Series(ws, TRUE, ex[j].pc, ex[j].cand, "wait")
    <3>1. PICK a, b, c : /\ a = RetryWrite(ex[j].cand) /\ b = AccountWrite("WAITING_SERVER")
                         /\ c = JobWrite("WAITING_SERVER", Until(x), TRUE)
      OBVIOUS
    <3>2. /\ Fits(a, ex[j].pc, ex[j].cand, "wait") /\ Fits(b, ex[j].pc, ex[j].cand, "wait")
          /\ Fits(c, ex[j].pc, ex[j].cand, "wait")
      BY <3>1, WritesFit
    <3>3. Series(<<a, b, c>>, TRUE, ex[j].pc, ex[j].cand, "wait")
      BY <1>a, <2>1, <3>2, ThreeMembers DEF Series
    <3> QED BY <3>1, <3>3
  <2> HIDE DEF e, ws
  <2>7. Good(e, TRUE, ws, "wait")
    BY <2>1, <2>3, <2>6
  <2> HIDE DEF Good
  <2> QED BY <1>a, <2>3, <2>5, <2>7
<1>4. CASE RpcRateLimited(j)
  <2> DEFINE ws == <<RetryWrite(ex[j].cand), JobWrite("RATE_LIMITED", Keep, TRUE),
                     AccountWrite("ERROR"), RestrictionWrite>>
  <2>1. Await(j, ex[j], TRUE, ws, "leave") /\ ex[j].pc = "rpc"
    BY <1>4 DEF RpcRateLimited
  <2>4. /\ RetryWrite(ex[j].cand) \in PlainWrites /\ AccountWrite("ERROR") \in PlainWrites
        /\ JobWrite("RATE_LIMITED", Keep, TRUE) \in PlainWrites /\ RestrictionWrite \in PlainWrites
    BY <1>0, <2>1, WriteTypes, StateNames DEF Asking
  <2>5. ws \in Seq(PlainWrites)
    BY <2>4, Tuples
  <2>6. Series(ws, TRUE, ex[j].pc, ex[j].cand, "leave")
    <3>1. PICK a, b, c, d : /\ a = RetryWrite(ex[j].cand) /\ b = JobWrite("RATE_LIMITED", Keep, TRUE)
                            /\ c = AccountWrite("ERROR") /\ d = RestrictionWrite
      OBVIOUS
    <3>0. b.kind = "job" /\ c.kind = "account"
      BY <3>1 DEF JobWrite, AccountWrite, PauseAccount
    <3>2. /\ Fits(a, ex[j].pc, ex[j].cand, "leave")
          /\ Fits(b, ex[j].pc, ex[j].cand, "leave")
          /\ Fits(c, ex[j].pc, ex[j].cand, "leave")
          /\ Fits(d, ex[j].pc, ex[j].cand, "leave")
      BY <3>1, WritesFit
    <3>3. Series(<<a, b, c, d>>, TRUE, ex[j].pc, ex[j].cand, "leave")
      BY <2>1, <3>0, <3>2, FourMembers DEF Series
    <3> QED BY <3>1, <3>3
  <2> HIDE DEF ws
  <2>7. Good(ex[j], TRUE, ws, "leave")
    BY <2>1, <2>6
  <2> HIDE DEF Good
  <2>8. \E e \in Executors, flush \in BOOLEAN, writes \in Seq(PlainWrites), then \in Places :
          Good(e, flush, writes, then)
    BY <1>0, <1>a, <2>5, <2>7
  <2> QED BY <2>8 DEF Good
<1>5. CASE RpcPausesJob(j)
  <2>0. PICK st \in {"AUTH_REQUIRED", "ERROR"} :
          Await(j, ex[j], TRUE, <<RetryWrite(ex[j].cand), JobWrite("PAUSED", Keep, TRUE),
                                  AccountWrite(st)>>, "leave")
    BY <1>5 DEF RpcPausesJob
  <2> DEFINE ws == <<RetryWrite(ex[j].cand), JobWrite("PAUSED", Keep, TRUE), AccountWrite(st)>>
  <2>1. Await(j, ex[j], TRUE, ws, "leave") /\ ex[j].pc = "rpc"
    BY <1>5, <2>0 DEF RpcPausesJob
  <2>4. /\ RetryWrite(ex[j].cand) \in PlainWrites /\ AccountWrite(st) \in PlainWrites
        /\ JobWrite("PAUSED", Keep, TRUE) \in PlainWrites
    BY <1>0, <2>1, WriteTypes, StateNames DEF Asking
  <2>5. ws \in Seq(PlainWrites)
    BY <2>4, Tuples
  <2>6. Series(ws, TRUE, ex[j].pc, ex[j].cand, "leave")
    <3>1. PICK a, b, c : /\ a = RetryWrite(ex[j].cand) /\ b = JobWrite("PAUSED", Keep, TRUE)
                         /\ c = AccountWrite(st)
      OBVIOUS
    <3>0. b.kind = "job" /\ c.kind = "account"
      BY <3>1 DEF JobWrite, AccountWrite, PauseAccount
    <3>2. /\ Fits(a, ex[j].pc, ex[j].cand, "leave")
          /\ Fits(b, ex[j].pc, ex[j].cand, "leave")
          /\ Fits(c, ex[j].pc, ex[j].cand, "leave")
      BY <3>1, WritesFit
    <3>3. Series(<<a, b, c>>, TRUE, ex[j].pc, ex[j].cand, "leave")
      BY <2>1, <3>0, <3>2, ThreeMembers DEF Series
    <3> QED BY <3>1, <3>3
  <2> HIDE DEF ws
  <2>7. Good(ex[j], TRUE, ws, "leave")
    BY <2>1, <2>6
  <2> HIDE DEF Good
  <2>8. \E e \in Executors, flush \in BOOLEAN, writes \in Seq(PlainWrites), then \in Places :
          Good(e, flush, writes, then)
    BY <1>0, <1>a, <2>5, <2>7
  <2> QED BY <2>8 DEF Good
<1>6. CASE WaitOver(j)
  <2> DEFINE ws == <<JobWrite("RUNNING", None, FALSE), AccountWrite("BUSY")>>
  <2>1. Await(j, ex[j], FALSE, ws, "delay") /\ ex[j].pc = "wait"
    BY <1>6 DEF WaitOver
  <2>4. JobWrite("RUNNING", None, FALSE) \in PlainWrites /\ AccountWrite("BUSY") \in PlainWrites
    BY WriteTypes, StateNames DEF None
  <2>5. ws \in Seq(PlainWrites)
    BY <2>4, Tuples
  <2>6. Series(ws, FALSE, ex[j].pc, ex[j].cand, "delay")
    <3>1. PICK a, b : a = JobWrite("RUNNING", None, FALSE) /\ b = AccountWrite("BUSY")
      OBVIOUS
    <3>2. Fits(a, ex[j].pc, ex[j].cand, "delay") /\ Fits(b, ex[j].pc, ex[j].cand, "delay")
      BY <1>a, <3>1, WritesFit
    <3>3. Series(<<a, b>>, FALSE, ex[j].pc, ex[j].cand, "delay")
      BY <1>a, <2>1, <3>2, TwoMembers DEF Series
    <3> QED BY <3>1, <3>3
  <2> HIDE DEF ws
  <2>7. Good(ex[j], FALSE, ws, "delay")
    BY <2>1, <2>6
  <2> HIDE DEF Good
  <2>8. \E e \in Executors, flush \in BOOLEAN, writes \in Seq(PlainWrites), then \in Places :
          Good(e, flush, writes, then)
    BY <1>0, <1>a, <2>5, <2>7
  <2> QED BY <2>8 DEF Good
<1>7. CASE Summarize(j)
  <2>0. PICK st \in Claims :
          Await(j, ex[j], FALSE, <<JobWrite(st, None, FALSE), AccountWrite("READY")>>, "exit")
    BY <1>7, <1>b DEF Summarize
  <2> DEFINE ws == <<JobWrite(st, None, FALSE), AccountWrite("READY")>>
  <2>1. Await(j, ex[j], FALSE, ws, "exit") /\ ex[j].pc = "summary" /\ ws # <<>>
    BY <1>7, <2>0 DEF Summarize
  <2>4. JobWrite(st, None, FALSE) \in PlainWrites /\ AccountWrite("READY") \in PlainWrites
    BY <1>b, WriteTypes, StateNames DEF None
  <2>5. ws \in Seq(PlainWrites)
    BY <2>4, Tuples
  <2>6. Series(ws, FALSE, ex[j].pc, ex[j].cand, "exit")
    <3>1. PICK a, b : a = JobWrite(st, None, FALSE) /\ b = AccountWrite("READY")
      OBVIOUS
    <3>0. a.kind = "job" /\ b.kind = "account"
      BY <3>1 DEF JobWrite, AccountWrite, PauseAccount
    <3>2. /\ ~Claim(b)
          /\ Fits(a, ex[j].pc, ex[j].cand, "exit")
          /\ Fits(b, ex[j].pc, ex[j].cand, "exit")
      BY <2>1, <3>1, WritesFit
    <3>3. Members(Tail(<<a, b>>)) = {b} /\ <<a, b>> # <<>>
      BY DEF Members
    <3>4. Series(<<a, b>>, FALSE, ex[j].pc, ex[j].cand, "exit")
      BY <2>1, <3>0, <3>2, <3>3, TwoMembers DEF Series
    <3> QED BY <3>1, <3>4
  <2> HIDE DEF ws
  <2>7. Good(ex[j], FALSE, ws, "exit")
    BY <2>1, <2>6
  <2> HIDE DEF Good
  <2>8. \E e \in Executors, flush \in BOOLEAN, writes \in Seq(PlainWrites), then \in Places :
          Good(e, flush, writes, then)
    BY <1>0, <1>a, <2>5, <2>7
  <2> QED BY <2>8 DEF Good
<1> QED BY <1>1, <1>2, <1>3, <1>4, <1>5, <1>6, <1>7 DEF AwaitStep

\* Run has nothing with DBWriter, or its one write.
LEMMA NothingOwed ==
  ASSUME MainInv, NEW j \in Jobs, Owes(j), ex[j].pc # "await"
  PROVE  Owed(j) = {}
  BY NothingSent, NoMembers DEF Owes, Owed

LEMMA OneSent ==
  ASSUME TypeInv, MainInv, NEW j \in Jobs, NEW i \in 1..Len(wq), Mine(i, j)
  PROVE  Sent(j) = {wq[i].write}
<1>1. wq[i].write \in Writes
  <2>1. wq[i] \in Entries
    BY DEF TypeInv, TypeWq
  <2> QED BY <2>1 DEF Entries
<1>2. \A n \in 1..Len(wq) : Mine(n, j) => n = i
  BY DEF MainInv
<1> QED BY <1>1, <1>2 DEF Sent

\* What run owes does not change.
LEMMA OwesSame ==
  ASSUME MainInv, NEW j \in Jobs, Owes(j), Sent(j)' = Sent(j), ex'[j].todo = ex[j].todo,
         ex'[j].pc = "await" <=> ex[j].pc = "await",
         ex[j].pc = "await" => ex'[j].cand = ex[j].cand /\ Pos(ex'[j]) = Pos(ex[j])
  PROVE  Owes(j)' /\ Owed(j)' = Owed(j)
<1>1. Owed(j)' = Owed(j)
  BY DEF Owed, Members
<1>2. CASE ex[j].pc = "await"
  <2>1. \A w : May(ex[j], w) => May(ex'[j], w)
    BY <1>2 DEF May
  <2> QED BY <1>1, <1>2, <2>1 DEF Owes
<1>3. CASE ex[j].pc # "await"
  <2>1. Owed(j) = {}
    BY <1>3, NothingOwed
  <2> QED BY <1>1, <1>3, <2>1 DEF Owes
<1> QED BY <1>2, <1>3

LEMMA OwesNone ==
  ASSUME NEW j \in Jobs, ex'[j] = NoExecutor, \A i \in 1..Len(wq') : ~Mine(i, j)'
  PROVE  Owes(j)' /\ Owed(j)' = {}
<1>1. NoExecutor.todo = <<>>
  BY DEF NoExecutor
<1>2. Sent(j)' = {}
  BY DEF Sent
<1>3. Owed(j)' = {}
  BY <1>1, <1>2, NoMembers DEF Owed
<1> QED BY <1>1, <1>3, NoMembers DEF Owes

LEMMA SentOrphans ==
  ASSUME TypeInv, NEW j \in Jobs, wq' = Orphaned(j), NEW k \in Jobs \ {j}
  PROVE  Sent(k)' = Sent(k)
<1>1. Len(wq') = Len(wq)
  BY OrphanedType
<1>2. \A i \in 1..Len(wq) : (Mine(i, k)' <=> Mine(i, k)) /\ wq'[i].write = wq[i].write
  BY OrphanedType DEF Mine
<1> QED BY <1>1, <1>2 DEF Sent

\* Run submits its next write after the answer to the last one.
LEMMA SentNext ==
  ASSUME TypeInv, MainInv, MainInv', wq # <<>>, NEW j \in Jobs, Mine(1, j), NEW w \in Writes,
         wq' = Append(Tail(wq), Entry(j, "main", w))
  PROVE  Sent(j)' = {w} /\ \A k \in Jobs \ {j} : Sent(k)' = Sent(k)
<1>1. /\ Len(wq) \in Nat /\ 1 \in 1..Len(wq) /\ Tail(wq) \in Seq(Entries)
      /\ Len(Tail(wq)) = Len(wq) - 1
      /\ \A i \in 1..Len(Tail(wq)) : i + 1 \in 1..Len(wq) /\ Tail(wq)[i] = wq[i + 1]
  BY Tails
<1>2. /\ Len(wq') = Len(wq) /\ wq'[Len(wq)] = Entry(j, "main", w)
      /\ \A i \in 1..(Len(wq) - 1) : wq'[i] = wq[i + 1] /\ i + 1 \in 1..Len(wq)
  BY <1>1
<1>3. PICK m : m = Len(wq)
  OBVIOUS
<1>4. m \in 1..Len(wq') /\ wq'[m] = Entry(j, "main", w)
  BY <1>1, <1>2, <1>3
<1>5. Mine(m, j)' /\ wq'[m].write = w /\ wq'[m].job = j
  BY <1>4 DEF Mine, Entry
<1>6. Sent(j)' = {w}
  <2>1. \A n \in 1..Len(wq') : Mine(n, j)' => n = m
    BY <1>4, <1>5 DEF MainInv
  <2> QED BY <1>4, <1>5, <2>1 DEF Sent
<1>7. ASSUME NEW k \in Jobs \ {j} PROVE Sent(k)' = Sent(k)
  <2>1. ASSUME NEW x \in Sent(k)' PROVE x \in Sent(k)
    <3>1. PICK i \in 1..Len(wq') : x \in Writes /\ Mine(i, k)' /\ wq'[i].write = x
      BY DEF Sent
    <3>2. i # m
      BY <1>5, <3>1 DEF Mine
    <3>3. i \in 1..(Len(wq) - 1)
      BY <1>1, <1>2, <1>3, <3>1, <3>2, LastOrEarlier
    <3>4. i + 1 \in 1..Len(wq) /\ Mine(i + 1, k) /\ wq[i + 1].write = x
      BY <1>2, <3>1, <3>3 DEF Mine
    <3> QED BY <3>1, <3>4 DEF Sent
  <2>2. ASSUME NEW x \in Sent(k) PROVE x \in Sent(k)'
    <3>1. PICK i \in 1..Len(wq) : x \in Writes /\ Mine(i, k) /\ wq[i].write = x
      BY DEF Sent
    <3>2. i # 1
      BY <3>1 DEF Mine
    <3>3. PICK n \in 1..(Len(wq) - 1) : n + 1 = i
      <4>1. i - 1 \in 1..(Len(wq) - 1) /\ (i - 1) + 1 = i
        BY <1>1, <3>2
      <4> QED BY <4>1
    <3>4. n \in 1..Len(wq')
      BY <1>1, <1>2
    <3>5. Mine(n, k)' /\ wq'[n].write = x
      BY <1>2, <3>1, <3>3 DEF Mine
    <3> QED BY <3>1, <3>4, <3>5 DEF Sent
  <2> QED BY <2>1, <2>2
<1> QED BY <1>6, <1>7

\* DBWriter has answered: what is no longer owed is what has been committed.
OwesLess(k) ==
  /\ Owes(k)'
  /\ \A w \in Owed(k) : \/ \E v \in Owed(k)' : v.kind = w.kind
                        \/ k = wq[1].job /\ w = wq[1].write /\ Mine(1, k)

LEMMA CommitOwes ==
  ASSUME TypeInv, MainInv, OweInv, MainInv', WriteCommits, NEW k \in Jobs
  PROVE  OwesLess(k) /\ Pos(ex'[k]) = Pos(ex[k]) /\ (Live(k)' <=> Live(k))
<1>1. PICK j \in Jobs : j = wq[1].job
  BY CommitStep
<1>2. PICK f \in Executors : Answered(j, f)
  BY <1>1, CommitStep
<1>3. /\ wq # <<>> /\ 1 \in 1..Len(wq) /\ Len(wq) \in Nat /\ TypeInv'
      /\ ex'[j] = f /\ \A n \in Jobs \ {j} : ex'[n] = ex[n]
  BY <1>2, CommitStep, Tails DEF Answered, TypeInv, TypeEx
<1>4. ex[k] \in Executors /\ Sound(ex[k]) /\ Sound(ex'[k]) /\ Owes(k)
      /\ ex[j].todo \in Seq(PlainWrites)
  BY <1>3 DEF TypeInv, TypeEx, OweInv, Executors
<1>5. Pos(ex'[k]) = Pos(ex[k])
  BY <1>2, <1>3 DEF Answered
<1>6. Live(k)' <=> Live(k)
  <2>1. \A e : Sound(e) => (Pos(e) = "none" <=> e.pc = "none")
    BY DEF Sound, Pos
  <2> QED BY <1>4, <1>5, <2>1 DEF Live
<1>7. ASSUME wq' = Tail(wq) PROVE Sent(k)' = IF Mine(1, k) THEN {} ELSE Sent(k)
  <2>1. Len(wq') = Len(wq) - 1 /\ \A i \in 1..(Len(wq) - 1) : wq'[i] = wq[i + 1]
    BY <1>3, <1>7, Tails
  <2> QED BY <1>3, <2>1, SentTail
<1>8. CASE ~Mine(1, k) /\ wq' = Tail(wq)
  <2>1. Sent(k)' = Sent(k)
    BY <1>7, <1>8
  <2>2. /\ ex'[k].todo = ex[k].todo /\ ex'[k].pc = ex[k].pc /\ ex'[k].cand = ex[k].cand
    BY <1>2, <1>3, <1>8 DEF Answered, SameItems
  <2>3. Owes(k)' /\ Owed(k)' = Owed(k)
    BY <1>4, <1>5, <2>1, <2>2, OwesSame
  <2> QED BY <1>5, <1>6, <2>3 DEF OwesLess
<1>9. CASE Mine(1, k)
  <2>0. k = j
    BY <1>1, <1>9 DEF Mine
  <2>1. Sent(k) = {wq[1].write}
    BY <1>3, <1>9, OneSent
  <2>2. f.cand = ex[k].cand /\ \A w : May(ex[k], w) => May(ex'[k], w)
    BY <1>2, <1>3, <1>5, <2>0 DEF Answered, SameItems, May
  <2>3. CASE ex[k].todo = <<>> /\ f.todo = <<>> /\ wq' = Tail(wq)
    <3>1. Owed(k)' = {}
      BY <1>3, <1>7, <1>9, <2>0, <2>3, NoMembers DEF Owed
    <3>2. \A w \in Owed(k) : w = wq[1].write
      BY <2>1, <2>3, NoMembers DEF Owed
    <3> QED BY <1>3, <1>5, <1>6, <1>9, <1>1, <2>0, <2>3, <3>1, <3>2, NoMembers DEF OwesLess, Owes
  <2>4. ASSUME NEW w \in PlainWrites, wq' = Append(Tail(wq), Entry(j, "main", w)),
               w = Submitted(Head(ex[k].todo)), f.pc = "await", ex[k].todo # <<>>,
               f.todo = Tail(ex[k].todo)
        PROVE  OwesLess(k)
    <3>0. PICK h \in PlainWrites : h = Head(ex[k].todo)
      BY <1>4, <2>0, <2>4
    <3>1. /\ w \in Writes /\ w.kind # "items" /\ h.kind # "items"
          /\ w.kind = h.kind /\ (w.kind # "pauseAccount" => w = h)
      BY <2>4, <3>0, SubmittedType DEF Writes, PlainWrites
    <3>2. Sent(k)' = {w}
      BY <1>3, <1>9, <2>0, <2>4, <3>1, SentNext
    <3>3. Members(ex[k].todo) = {h} \cup Members(f.todo)
      BY <1>4, <2>0, <2>4, <3>0, MembersSplit
    <3>4. Owed(k)' = {x \in Members(f.todo) : x.kind # "items"} \cup {w}
      BY <1>3, <2>0, <3>1, <3>2 DEF Owed
    <3>5. /\ Owed(k) = {x \in Members(f.todo) \cup {h, wq[1].write} : x.kind # "items"}
          /\ h \in Owed(k)
      BY <2>1, <3>1, <3>3 DEF Owed
    <3>6. \A x \in Owed(k) : (\E v \in Owed(k)' : v.kind = x.kind) \/ x = wq[1].write
      BY <3>1, <3>4, <3>5
    <3>7. May(ex'[k], w)
      <4>1. CASE w.kind = "pauseAccount"
        BY <4>1 DEF May
      <4>2. CASE w.kind # "pauseAccount"
        BY <1>4, <2>2, <3>1, <3>5, <4>2 DEF Owes
      <4> QED BY <4>1, <4>2
    <3>8. \A x \in Owed(k)' : May(ex'[k], x)
      <4>1. \A x \in Owed(k)' : x \in Owed(k) \/ x = w
        BY <3>4, <3>5
      <4> QED BY <1>4, <2>2, <3>7, <4>1 DEF Owes
    <3>9. Owes(k)'
      BY <1>3, <1>4, <2>0, <2>4, <3>3, <3>8 DEF Owes
    <3> QED BY <1>1, <1>9, <2>0, <3>6, <3>9 DEF OwesLess
  <2> QED BY <1>2, <1>5, <1>6, <1>9, <2>0, <2>3, <2>4 DEF Answered
<1>10. CASE ~Mine(1, k) /\ wq' # Tail(wq)
  <2>1. PICK w \in PlainWrites : wq' = Append(Tail(wq), Entry(j, "main", w)) /\ Mine(1, j)
    BY <1>2, <1>10 DEF Answered
  <2>2. k # j /\ w \in Writes
    BY <1>10, <2>1 DEF Writes
  <2>3. Sent(k)' = Sent(k)
    BY <1>3, <2>1, <2>2, SentNext
  <2>4. Owes(k)' /\ Owed(k)' = Owed(k)
    BY <1>3, <1>4, <2>2, <2>3, OwesSame
  <2> QED BY <1>5, <1>6, <2>4 DEF OwesLess
<1> QED BY <1>8, <1>9, <1>10

\* What a step in which run begins to await a series does to what is owed.
Begins(j) ==
  /\ Owes(j)' /\ Live(j)' /\ \A k \in Jobs \ {j} : ex'[k] = ex[k] /\ Owed(k)' = Owed(k)
  /\ Pos(ex'[j]) \in Last => /\ \E w \in Owed(j)' : w.kind \in {"job"}
                             /\ \E w \in Owed(j)' : w.kind \in {"account", "pauseAccount"}
  /\ \/ wq' = wq
     \/ \E w \in Writes : /\ wq' = Append(wq, Entry(j, "main", w))
                          /\ Claim(w) => ex[j].pc = "summary"

LEMMA SeriesBegins ==
  ASSUME TypeInv, MainInv, NEW j \in Jobs, ex[j].pc # "await", NEW e \in Executors,
         e.todo = <<>>, NEW flush \in BOOLEAN, NEW writes \in Seq(PlainWrites),
         NEW then \in Places \ {"none"}, Await(j, e, flush, writes, then),
         Series(writes, flush, ex[j].pc, e.cand, then)
  PROVE  /\ Begins(j) /\ Pos(ex'[j]) = then /\ ex'[j].cand = e.cand
         /\ flush => ex'[j].results = <<>>
<1>1. /\ Owed(j)' = Members(writes) /\ Pos(ex'[j]) = then /\ ex'[j].cand = e.cand
      /\ ex'[j].pc # "await" => ex'[j].todo = <<>>
      /\ Members(ex'[j].todo) \subseteq Members(writes)
      /\ flush => ex'[j].results = <<>>
      /\ ~flush /\ writes # <<>> => ex'[j].todo = Tail(writes)
      /\ \/ wq' = wq
         \/ \E w \in Writes : /\ wq' = Append(wq, Entry(j, "main", w))
                              /\ w.kind = "items" \/ w \in Members(writes)
  BY AwaitOwes
<1>2. \A w \in Members(writes) : May(ex'[j], w) /\ (Claim(w) => ex[j].pc = "summary")
  BY <1>1 DEF Series, Fits, May
<1>3. \A w \in Members(ex'[j].todo) : ~Claim(w)
  <2>1. CASE ex[j].pc = "summary"
    BY <1>1, <2>1 DEF Series
  <2>2. CASE ex[j].pc # "summary"
    BY <1>1, <1>2, <2>2
  <2> QED BY <2>1, <2>2
<1>4. Owes(j)'
  BY <1>1, <1>2, <1>3 DEF Owes
<1>5. \A w : w.kind = "items" => ~Claim(w)
  BY DEF Claim
<1>6. \/ wq' = wq
      \/ \E w \in Writes : /\ wq' = Append(wq, Entry(j, "main", w))
                           /\ Claim(w) => ex[j].pc = "summary"
  BY <1>1, <1>2, <1>5
<1>7. ASSUME NEW k \in Jobs \ {j} PROVE ex'[k] = ex[k] /\ Owed(k)' = Owed(k)
  <2>1. ex'[k] = ex[k]
    <3>1. \E f : ex' = [ex EXCEPT ![j] = f]
      BY Zenon DEF Await
    <3> QED BY <3>1 DEF TypeInv, TypeEx
  <2> QED BY <1>1, <2>1, OwedOthers
<1>8. Live(j)'
  BY <1>1 DEF Live, Pos
<1> QED BY <1>1, <1>4, <1>6, <1>7, <1>8 DEF Begins, Series

LEMMA AwaitBegins ==
  ASSUME TypeInv, MainInv, OweInv, NEW j \in Jobs, AwaitStep(j)
  PROVE  /\ Begins(j) /\ Live(j) /\ ex[j].pc # "await"
         /\ Pos(ex'[j]) = "summary" => NoCandidate(j) /\ ex'[j].results = <<>>
<1>1. PICK e \in Executors, flush \in BOOLEAN, writes \in Seq(PlainWrites), then \in Places :
        /\ Await(j, e, flush, writes, then) /\ e.todo = ex[j].todo /\ e.cand = ex[j].cand
        /\ Series(writes, flush, ex[j].pc, ex[j].cand, then)
        /\ then = "summary" => NoCandidate(j) /\ flush
        /\ then # "none"
  BY AwaitSeries
<1>2. ex[j].pc \notin {"none", "await"}
  <2>1. \E then1 : <<ex[j].pc, then1>> \in Moves
    BY AwaitSteps
  <2> QED BY <2>1 DEF Moves
<1>3. e.todo = <<>>
  BY <1>1, <1>2 DEF OweInv, Owes
<1>4. /\ Begins(j) /\ Pos(ex'[j]) = then /\ (flush => ex'[j].results = <<>>)
  BY <1>1, <1>2, <1>3, SeriesBegins
<1> QED BY <1>1, <1>2, <1>4 DEF Live

\* The except block.
LEMMA ExceptFits ==
  ASSUME NEW pc, NEW cand, NEW flush \in BOOLEAN
  PROVE  Series(ExceptWrites, flush, pc, cand, "exit")
<1>1. PICK a, b : a = JobWrite("FAILED", None, FALSE) /\ b = AccountWrite("ERROR")
  OBVIOUS
<1>2. a.kind = "job" /\ b.kind = "account"
  BY <1>1 DEF JobWrite, AccountWrite
<1>3. Fits(a, pc, cand, "exit") /\ Fits(b, pc, cand, "exit") /\ ~Claim(a) /\ ~Claim(b)
  BY <1>1, WritesFit
<1>4. Members(ExceptWrites) = {a, b}
  BY <1>1, TwoMembers DEF ExceptWrites
<1> QED BY <1>2, <1>3, <1>4 DEF Series

LEMMA ReadFailBegins ==
  ASSUME TypeInv, MainInv, OweInv, NEW j \in Jobs, ReadFails(j)
  PROVE  Begins(j) /\ Live(j) /\ ex[j].pc # "await" /\ Pos(ex'[j]) = "exit"
<1>1. /\ ex[j].pc \in {"loop", "summary"} /\ ex[j] \in Executors
      /\ Await(j, Excepted(ex[j]), TRUE, ExceptWrites, "exit")
  BY ReadFailStep DEF TypeInv, TypeEx
<1>2. PICK e \in Executors : e = Excepted(ex[j]) /\ e.todo = <<>>
  BY <1>1, ExceptedType DEF OweInv, Owes
<1>3. /\ ExceptWrites \in Seq(PlainWrites) /\ "exit" \in Places \ {"none"} /\ TRUE \in BOOLEAN
      /\ Series(ExceptWrites, TRUE, ex[j].pc, e.cand, "exit")
  BY ExceptWritesType, ExceptFits DEF Places
<1> QED BY <1>1, <1>2, <1>3, SeriesBegins DEF Live

LEMMA LaunchBegins ==
  ASSUME TypeInv, MainInv, NEW j \in Jobs, ~Live(j), Launch(j)
  PROVE  Begins(j) /\ Pos(ex'[j]) = "prime" /\ ex'[j].last = None
<1> DEFINE e == [NoExecutor EXCEPT !.gate = RemainingWait(AccountOf[j]), !.action = ActionOf(row[j])]
           writes == <<JobWrite("RUNNING", Keep, FALSE), AccountWrite("BUSY")>>
<1>1. RemainingWait(AccountOf[j]) \in Nat /\ ActionOf(row[j]) \in Actions
  BY RemainingWaitType, ExecutorAssumption DEF TypeInv, TypeDb, ActionOf, Actions
<1>2. e \in Executors /\ e.todo = <<>> /\ e.last = None
  BY <1>1, NoExecutorType DEF Executors, NoExecutor
<1>3. Await(j, e, FALSE, writes, "prime") /\ ex[j].pc = "none"
  BY DEF Launch, Live
<1>4. writes \in Seq(PlainWrites)
  <2>1. JobWrite("RUNNING", Keep, FALSE) \in PlainWrites /\ AccountWrite("BUSY") \in PlainWrites
    BY WriteTypes, StateNames
  <2> QED BY <2>1, Tuples
<1>5. "prime" \in Places \ {"none"} /\ "prime" \notin Last
  BY DEF Places, Last
<1>6. Series(writes, FALSE, ex[j].pc, e.cand, "prime")
  <2>1. PICK a, b : a = JobWrite("RUNNING", Keep, FALSE) /\ b = AccountWrite("BUSY")
    OBVIOUS
  <2>2. PICK c : c = e.cand
    OBVIOUS
  <2>3. Fits(a, ex[j].pc, c, "prime") /\ Fits(b, ex[j].pc, c, "prime")
    BY <1>5, <2>1, WritesFit
  <2>4. Series(<<a, b>>, FALSE, ex[j].pc, c, "prime")
    BY <1>3, <1>5, <2>3, TwoMembers DEF Series
  <2> QED BY <2>1, <2>2, <2>4
<1>7. ex'[j].last = None
  <2> DEFINE f == [e EXCEPT !.pc = "await", !.todo = Tail(writes), !.then = "prime"]
  <2>1. writes # <<>>
    OBVIOUS
  <2> HIDE DEF e, writes
  <2>2. ex' = [ex EXCEPT ![j] = f]
    BY <1>3, <2>1 DEF Await
  <2>3. ex'[j] = f
    BY <2>2 DEF TypeInv, TypeEx
  <2> QED BY <1>2, <2>3 DEF Executors
<1> HIDE DEF e, writes
<1> QED BY <1>2, <1>3, <1>4, <1>5, <1>6, <1>7, SeriesBegins

LEMMA RecordBegins ==
  ASSUME TypeInv, MainInv, OweInv, NEW j \in Jobs, NEW st \in Done, RecordStep(j, st)
  PROVE  Begins(j) /\ Pos(ex'[j]) = "loop" /\ Live(j) /\ ex[j].pc # "await"
<1> DEFINE e == Recorded(ex[j], st)
<1>0. ex[j] \in Executors /\ Recorded(ex[j], st) \in Executors
  BY RecordSteps DEF TypeInv, TypeEx
<1>1. ex[j].pc \in {"attempt", "rpc", "backoff"}
  BY DEF RecordStep
<1>2. e.todo = ex[j].todo /\ ex[j].todo = <<>>
  BY <1>0, <1>1 DEF Recorded, Executors, OweInv, Owes
<1>3. PICK flush \in BOOLEAN : Await(j, e, flush, <<>>, "loop")
  BY DEF RecordStep, Record, Recorded
<1>4. Series(<<>>, flush, ex[j].pc, e.cand, "loop")
  BY <1>1, NoMembers DEF Series, Last
<1>5. <<>> \in Seq(PlainWrites) /\ "loop" \in Places \ {"none"}
  BY DEF Places
<1> HIDE DEF e
<1>6. e \in Executors
  BY <1>0 DEF e
<1> QED BY <1>1, <1>2, <1>3, <1>4, <1>5, <1>6, SeriesBegins DEF Live

\* A run that a failing write does not end keeps its writes or turns to the two
\* of its except block.
FailKeeps(k) ==
  \/ k \in broken'
  \/ Owed(k)' = Owed(k) /\ ex'[k].pc = ex[k].pc /\ Pos(ex'[k]) = Pos(ex[k])
  \/ /\ Live(k)'
     /\ \E w \in Owed(k)' : w.kind \in {"job"}
     /\ \E w \in Owed(k)' : w.kind \in {"account", "pauseAccount"}

LEMMA FailOwes ==
  ASSUME TypeInv, MainInv, OweInv, MainInv', WriteFails, NEW k \in Jobs
  PROVE  Owes(k)' /\ FailKeeps(k)
<1>1. PICK j \in Jobs : j = wq[1].job
  BY FailStep
<1>2. /\ wq # <<>> /\ 1 \in 1..Len(wq) /\ Len(wq) \in Nat /\ Owes(k)
      /\ ex \in [Jobs -> Executors] /\ ex[k] \in Executors
      /\ RunDies(j) \/ \E f \in Executors : ExceptBegins(j, f) \/ NotWaited(j, f)
  BY <1>1, FailStep, Tails DEF OweInv, TypeInv, TypeEx
<1>3. ASSUME wq' = Tail(wq), ~Mine(1, k) PROVE Sent(k)' = Sent(k)
  <2>1. Len(wq') = Len(wq) - 1 /\ \A i \in 1..(Len(wq) - 1) : wq'[i] = wq[i + 1]
    BY <1>2, <1>3, Tails
  <2> QED BY <1>2, <1>3, <2>1, SentTail
<1>4. CASE RunDies(j)
  <2>1. ex' = [ex EXCEPT ![j] = NoExecutor] /\ \A i \in 1..Len(wq') : ~Mine(i, j)'
    BY <1>2, <1>4, QueueDies DEF RunDies
  <2>2. CASE k = j
    <3>1. k \in broken'
      BY <1>4, <2>2 DEF RunDies
    <3> QED BY <1>2, <2>1, <2>2, <3>1, OwesNone DEF FailKeeps
  <2>3. CASE k # j
    <3>1. ~Mine(1, k) /\ ex'[k] = ex[k]
      BY <1>1, <1>2, <2>1, <2>3 DEF Mine
    <3>2. Sent(k)' = Sent(k)
      <4>1. CASE wq' = Tail(wq)
        BY <1>3, <3>1, <4>1
      <4>2. CASE wq' # Tail(wq)
        <5>1. /\ Len(wq') = Len(wq) - 1
              /\ \A i \in 1..(Len(wq) - 1) :
                   /\ wq'[i].job = wq[i + 1].job /\ wq'[i].write = wq[i + 1].write
                   /\ wq[i + 1].job # j => wq'[i].by = wq[i + 1].by
          BY <1>4, <4>2 DEF RunDies
        <5>2. \A i \in 1..(Len(wq) - 1) :
                /\ wq'[i].write = wq[i + 1].write
                /\ wq[i + 1].job = k \/ wq'[i].job = k
                     => wq'[i].job = wq[i + 1].job /\ wq'[i].by = wq[i + 1].by
          BY <2>3, <5>1
        <5> QED BY <1>2, <3>1, <5>1, <5>2, SentTail
      <4> QED BY <4>1, <4>2
    <3> QED BY <1>2, <3>1, <3>2, OwesSame DEF FailKeeps
  <2> QED BY <2>2, <2>3
<1>5. ASSUME NEW f \in Executors, NotWaited(j, f) PROVE Owes(k)' /\ FailKeeps(k)
  <2>1. /\ wq' = Tail(wq) /\ ~Mine(1, j)
        /\ ex'[j] = f /\ \A n \in Jobs \ {j} : ex'[n] = ex[n]
    BY <1>2, <1>5 DEF NotWaited
  <2>2. /\ f.pc = ex[j].pc /\ f.then = ex[j].then /\ f.todo = ex[j].todo /\ f.cand = ex[j].cand
        /\ Pos(f) = Pos(ex[j])
    BY <1>5 DEF NotWaited, SameItems, Pos
  <2>3. ~Mine(1, k)
    BY <1>1, <2>1 DEF Mine
  <2>4. Sent(k)' = Sent(k)
    BY <1>3, <2>1, <2>3
  <2> QED BY <1>2, <2>1, <2>2, <2>4, OwesSame DEF FailKeeps
<1>6. ASSUME NEW f \in Executors, ExceptBegins(j, f) PROVE Owes(k)' /\ FailKeeps(k)
  <2>1. /\ Mine(1, j) /\ f.pc = "await"
        /\ ex'[j] = f /\ \A n \in Jobs \ {j} : ex'[n] = ex[n]
    BY <1>2, <1>6 DEF ExceptBegins
  <2>2. PICK w \in Writes :
          /\ wq' = Append(Tail(wq), Entry(j, "main", w))
          /\ \/ w = ItemsWrite(ex[j].results) /\ f.todo = ExceptWrites
             \/ w = Head(ExceptWrites) /\ f.todo = Tail(ExceptWrites)
    BY <1>6 DEF ExceptBegins
  <2>3. Sent(j)' = {w} /\ \A n \in Jobs \ {j} : Sent(n)' = Sent(n)
    BY <1>2, <2>1, <2>2, SentNext
  <2>4. CASE k # j
    BY <1>2, <2>1, <2>3, <2>4, OwesSame DEF FailKeeps
  <2>5. CASE k = j
    <3>1. PICK a, b : a = JobWrite("FAILED", None, FALSE) /\ b = AccountWrite("ERROR")
      OBVIOUS
    <3>2. /\ Fits(a, "rpc", f.cand, "exit") /\ Fits(b, "rpc", f.cand, "exit")
      BY <3>1, WritesFit
    <3>3. ~Claim(a) /\ ~Claim(b) /\ Pos(f) = "exit"
      BY <1>6, <3>2 DEF Fits, ExceptBegins, Pos
    <3>4. May(f, a) /\ May(f, b)
      BY <3>2, <3>3 DEF Fits, May
    <3>5. Members(ExceptWrites) = {a, b} /\ Members(Tail(ExceptWrites)) = {b} /\ Head(ExceptWrites) = a
      <4>1. Tail(<<a, b>>) = <<b>> /\ Head(<<a, b>>) = a
        OBVIOUS
      <4>2. Members(<<b>>) = {b}
        BY DEF Members
      <4> QED BY <3>1, <4>1, <4>2, TwoMembers DEF ExceptWrites
    <3>6. ItemsWrite(ex[j].results).kind = "items"
      BY DEF ItemsWrite
    <3>7. Members(f.todo) \subseteq {a, b} /\ (w = a \/ w.kind = "items")
      BY <2>2, <3>5, <3>6
    <3>8. Owed(k)' \subseteq {a, b}
      BY <2>1, <2>3, <2>5, <3>7 DEF Owed
    <3>9. a.kind = "job" /\ b.kind = "account"
      BY <3>1 DEF JobWrite, AccountWrite
    <3>10. {a, b} \subseteq Owed(k)'
      BY <2>1, <2>2, <2>3, <2>5, <3>5, <3>9 DEF Owed
    <3>11. FailKeeps(k)
      BY <2>1, <2>5, <3>9, <3>10 DEF FailKeeps, Live
    <3> QED BY <2>1, <2>5, <3>3, <3>4, <3>7, <3>8, <3>11 DEF Owes
  <2> QED BY <2>4, <2>5
<1> QED BY <1>2, <1>4, <1>5, <1>6

\* No entry loses who waits for it, but those with results.
LEMMA LeftKept ==
  ASSUME NoneLeft, app' = app, app # "down",
         \A i \in 1..Len(wq') :
           \/ wq'[i].write.kind = "items" \/ wq'[i].by = "main"
           \/ \E n \in 1..Len(wq) : wq'[i].write = wq[n].write /\ wq'[i].by = wq[n].by
  PROVE  NoneLeft'
  BY DEF NoneLeft

LEMMA LeftAppend ==
  ASSUME TypeInv, NoneLeft, app' = app, app # "down", NEW en, wq' = Append(wq, en),
         en.write.kind = "items" \/ en.by = "main"
  PROVE  NoneLeft'
<1>1. wq \in Seq(Entries) /\ Len(wq) \in Nat
  BY DEF TypeInv, TypeWq
<1>2. \A i \in 1..Len(wq') : (i \in 1..Len(wq) /\ wq'[i] = wq[i]) \/ wq'[i] = en
  BY <1>1
<1> QED BY <1>2, LeftKept

LEMMA LeftSame ==
  ASSUME NoneLeft, app' = app, app # "down", wq' = wq
  PROVE  NoneLeft'
  BY LeftKept

LEMMA LeftTail ==
  ASSUME TypeInv, NoneLeft, app' = app, app # "down", wq # <<>>,
         wq' = Tail(wq) \/ \E en : en.by = "main" /\ wq' = Append(Tail(wq), en)
  PROVE  NoneLeft'
<1>1. /\ Len(wq) \in Nat /\ Tail(wq) \in Seq(Entries) /\ Len(Tail(wq)) \in Nat
      /\ \A i \in 1..Len(Tail(wq)) : i + 1 \in 1..Len(wq) /\ Tail(wq)[i] = wq[i + 1]
  BY Tails
<1>2. CASE wq' = Tail(wq)
  BY <1>1, <1>2, LeftKept
<1>3. ASSUME NEW en, en.by = "main", wq' = Append(Tail(wq), en) PROVE NoneLeft'
  <2>1. \A i \in 1..Len(wq') : (i \in 1..Len(Tail(wq)) /\ wq'[i] = Tail(wq)[i]) \/ wq'[i] = en
    BY <1>1, <1>3
  <2> QED BY <1>1, <1>3, <2>1, LeftKept
<1> QED BY <1>2, <1>3

\* While nobody is left nobody makes a step.
LEMMA DownStays ==
  ASSUME app' = app, app = "down", NoneLeft,
         \A j \in Jobs : /\ ex'[j].pc = ex[j].pc
                         /\ ex'[j].flusher \in {ex[j].flusher, "none"}
  PROVE  NoneLeft'
  BY DEF NoneLeft

LEMMA LeftOrphans ==
  ASSUME TypeInv, MainInv, NoneLeft, app' = app, app # "down", NEW j \in Jobs,
         ex[j].pc # "await", wq' = Orphaned(j)
  PROVE  NoneLeft'
<1>1. Len(wq') = Len(wq)
  BY OrphanedType
<1>2. ASSUME NEW i \in 1..Len(wq') PROVE wq'[i].write.kind = "items" \/ wq'[i] = wq[i]
  <2>1. CASE wq[i].job = j
    <3>1. wq[i].by # "main"
      BY <1>1, <2>1 DEF MainInv, Mine
    <3>2. wq'[i].write = wq[i].write
      BY <1>1, OrphanedType
    <3> QED BY <1>1, <3>1, <3>2 DEF NoneLeft
  <2>2. CASE wq[i].job # j
    BY <1>1, <2>2, OrphanedType
  <2> QED BY <2>1, <2>2
<1> QED BY <1>1, <1>2, LeftKept

LEMMA LeftDies ==
  ASSUME TypeInv, MainInv, NoneLeft, app' = app, app # "down", wq # <<>>, NEW j \in Jobs,
         RunDies(j)
  PROVE  NoneLeft'
<1>1. CASE wq' = Tail(wq)
  BY <1>1, LeftTail
<1>2. CASE wq' # Tail(wq)
  <2>0. Len(wq) \in Nat /\ 1 \in 1..Len(wq) /\ Mine(1, j)
    BY Tails DEF RunDies
  <2>1. /\ Len(wq') = Len(wq) - 1
        /\ \A i \in 1..(Len(wq) - 1) :
             /\ wq'[i].job = wq[i + 1].job /\ wq'[i].write = wq[i + 1].write
             /\ wq[i + 1].job # j => wq'[i].by = wq[i + 1].by
    BY <1>2 DEF RunDies
  <2>2. ASSUME NEW i \in 1..Len(wq')
        PROVE  \/ wq'[i].write.kind = "items"
               \/ \E n \in 1..Len(wq) : wq'[i].write = wq[n].write /\ wq'[i].by = wq[n].by
    <3>1. i + 1 \in 1..Len(wq) /\ i + 1 # 1 /\ i \in 1..(Len(wq) - 1)
      BY <2>0, <2>1
    <3>2. CASE wq[i + 1].job = j
      <4>1. ~Mine(i + 1, j)
        BY <2>0, <3>1 DEF MainInv
      <4>2. wq[i + 1].write.kind = "items"
        BY <3>1, <3>2, <4>1 DEF NoneLeft, Mine
      <4> QED BY <2>1, <3>1, <4>2
    <3>3. CASE wq[i + 1].job # j
      BY <2>1, <3>1, <3>3
    <3> QED BY <3>2, <3>3
  <2> QED BY <2>2, LeftKept
<1> QED BY <1>1, <1>2

\* The steps of one executor on which nothing of this depends.
QuietStep(j) == SimpleStep(j) \/ Prime(j) \/ PopCandidate(j)

LEMMA QuietOwes ==
  ASSUME TypeInv, MainInv, OweInv, NEW j \in Jobs, QuietStep(j)
  PROVE  /\ wq' = wq /\ app' = app /\ Live(j) /\ Live(j)'
         /\ Pos(ex'[j]) \in Last => Pos(ex[j]) \in Last
         /\ \A k \in Jobs : Owes(k)' /\ Owed(k)' = Owed(k)
         /\ \A k \in Jobs \ {j} : ex'[k] = ex[k]
<1>0. ex \in [Jobs -> Executors] /\ ex[j] \in Executors
  BY DEF TypeInv, TypeEx
<1>1. \E f \in Executors :
        /\ ex' = [ex EXCEPT ![j] = f] /\ f.todo = ex[j].todo /\ wq' = wq /\ app' = app
        /\ ex[j].pc # "none" /\ f.pc # "none"
        /\ \/ f.pc = ex[j].pc /\ f.then = ex[j].then /\ f.cand = ex[j].cand
           \/ ex[j].pc # "await" /\ f.pc # "await" /\ f.pc \notin Last
  <2>1. CASE SimpleStep(j)
    <3>1. PICK f \in Executors : Simple(j, f)
      BY <2>1, SimpleSteps
    <3>2. wq' = wq /\ app' = app
      BY <2>1, SimpleSteps
    <3>3. ex[j].pc # "none"
      BY <2>1 DEF SimpleStep, AcquireLock, GoOn, SendRpc, RpcTransient, PauseMigration,
                  StopMigration, Live
    <3> QED BY <3>1, <3>2, <3>3 DEF Simple, SameWork, Last
  <2>2. CASE Prime(j)
    BY <2>2, PrimeStep DEF Last
  <2>3. CASE PopCandidate(j)
    BY <2>3, PopStep DEF Last
  <2> QED BY <2>1, <2>2, <2>3 DEF QuietStep
<1>2. PICK f \in Executors :
        /\ ex' = [ex EXCEPT ![j] = f] /\ f.todo = ex[j].todo /\ wq' = wq /\ app' = app
        /\ ex[j].pc # "none" /\ f.pc # "none"
        /\ \/ f.pc = ex[j].pc /\ f.then = ex[j].then /\ f.cand = ex[j].cand
           \/ ex[j].pc # "await" /\ f.pc # "await" /\ f.pc \notin Last
  BY <1>1
<1>3. ex'[j] = f /\ \A k \in Jobs \ {j} : ex'[k] = ex[k]
  BY <1>0, <1>2
<1>4. /\ f.pc = "await" <=> ex[j].pc = "await"
      /\ ex[j].pc = "await" => f.cand = ex[j].cand /\ Pos(f) = Pos(ex[j])
      /\ Pos(f) \in Last => Pos(ex[j]) \in Last
  BY <1>2 DEF Pos
<1>5. ASSUME NEW k \in Jobs PROVE Owes(k)' /\ Owed(k)' = Owed(k)
  <2>1. Sent(k)' = Sent(k) /\ Owes(k)
    BY <1>2, SentSame DEF OweInv
  <2> QED BY <1>2, <1>3, <1>4, <2>1, OwesSame
<1> QED BY <1>2, <1>3, <1>4, <1>5 DEF Live

LEMMA FlushOwes ==
  ASSUME TypeInv, MainInv, OweInv, NEW j \in Jobs, DelayedFlush(j)
  PROVE  /\ app' = app /\ ex'[j].pc = ex[j].pc /\ Pos(ex'[j]) = Pos(ex[j])
         /\ \A k \in Jobs : Owes(k)' /\ Owed(k)' = Owed(k)
         /\ \A k \in Jobs \ {j} : ex'[k] = ex[k]
<1>1. PICK f \in Executors :
        /\ ex' = [ex EXCEPT ![j] = f] /\ f.pc = ex[j].pc /\ f.then = ex[j].then
        /\ f.cand = ex[j].cand /\ f.todo = ex[j].todo
        /\ \/ wq' = wq
           \/ wq' = Append(wq, Entry(j, "flusher", ItemsWrite(ex[j].results)))
  BY FlushStep
<1>2. ex'[j] = f /\ (\A k \in Jobs \ {j} : ex'[k] = ex[k]) /\ Pos(f) = Pos(ex[j]) /\ app' = app
  BY <1>1, FlushStep DEF TypeInv, TypeEx, Pos
<1>3. ItemsWrite(ex[j].results) \in Writes
  BY DEF ItemsWrite, Writes, ItemWrites, TypeInv, TypeEx, Executors
<1>4. ASSUME NEW k \in Jobs PROVE Owes(k)' /\ Owed(k)' = Owed(k)
  <2>1. Sent(k)' = Sent(k)
    <3>1. PICK w \in Writes : w = ItemsWrite(ex[j].results)
      BY <1>3
    <3> QED BY <1>1, <3>1, SentSame, SentAppend
  <2>2. Owes(k)
    BY DEF OweInv
  <2> QED BY <1>1, <1>2, <2>1, <2>2, OwesSame
<1> QED BY <1>1, <1>2, <1>4

LEMMA OweInvKept ==
  ASSUME TypeInv, MainInv, OweInv, MainInv', [Next]_vars
  PROVE  OweInv'
<1>0. /\ ex \in [Jobs -> Executors] /\ NoneLeft
      /\ \A j \in Jobs : ex[j] \in Executors /\ Owes(j)
  BY DEF TypeInv, TypeEx, OweInv
<1>1. CASE UNCHANGED vars
  BY <1>1 DEF vars, OweInv, Owes, Owed, Sent, Mine, Members, May, Pos, NoneLeft
<1>2. ASSUME NEW j \in Jobs, ex[j].pc # "none" \/ ex[j].flusher # "none" PROVE app # "down"
  BY <1>0, <1>2 DEF NoneLeft
<1>3. ASSUME NEW j \in Jobs, Begins(j), app' = app, app # "down" PROVE OweInv'
  <2>1. ASSUME NEW k \in Jobs \ {j} PROVE Owes(k)'
    <3>1. Owes(k) /\ ex'[k] = ex[k] /\ Owed(k)' = Owed(k)
      BY <1>0, <1>3 DEF Begins
    <3> QED BY <3>1 DEF Owes
  <2>2. NoneLeft'
    <3>1. CASE wq' = wq
      BY <1>0, <1>3, <3>1, LeftSame
    <3>2. ASSUME NEW w, wq' = Append(wq, Entry(j, "main", w)) PROVE NoneLeft'
      <4>1. Entry(j, "main", w).by = "main"
        BY DEF Entry
      <4> QED BY <1>0, <1>3, <3>2, <4>1, LeftAppend
    <3> QED BY <1>3, <3>1, <3>2 DEF Begins
  <2> QED BY <1>3, <2>1, <2>2 DEF OweInv, Begins
<1>4. ASSUME NEW j \in Jobs, app = "up", ~Live(j), Launch(j) PROVE OweInv'
  BY <1>3, <1>4, LaunchBegins, LaunchType
<1>5. ASSUME NEW j \in Jobs, AwaitStep(j) PROVE OweInv'
  <2>1. Begins(j) /\ app' = app /\ ex[j].pc # "none"
    BY <1>5, AwaitBegins, AwaitSteps DEF Live
  <2> QED BY <1>2, <1>3, <2>1
<1>6. ASSUME NEW j \in Jobs, NEW st \in Done, RecordStep(j, st) PROVE OweInv'
  <2>1. Begins(j) /\ app' = app /\ ex[j].pc # "none"
    BY <1>6, RecordBegins, RecordSteps DEF Live
  <2> QED BY <1>2, <1>3, <2>1
<1>7. ASSUME NEW j \in Jobs, QuietStep(j) PROVE OweInv'
  <2>1. /\ wq' = wq /\ app' = app /\ ex[j].pc # "none" /\ \A k \in Jobs : Owes(k)'
    BY <1>7, QuietOwes DEF Live
  <2> QED BY <1>0, <1>2, <2>1, LeftSame DEF OweInv
<1>8. ASSUME NEW j \in Jobs, FinishStep(j) PROVE OweInv'
  <2>1. /\ ex[j].pc \notin {"none", "await"} /\ ex' = [ex EXCEPT ![j] = NoExecutor]
        /\ wq' = Orphaned(j) /\ app' = app
    BY <1>8, FinishSteps
  <2>2. ex'[j] = NoExecutor /\ \A k \in Jobs \ {j} : ex'[k] = ex[k]
    BY <1>0, <2>1
  <2>3. Owes(j)'
    BY <2>1, <2>2, QueueOrphans, OwesNone
  <2>4. ASSUME NEW k \in Jobs \ {j} PROVE Owes(k)'
    <3>1. Sent(k)' = Sent(k)
      BY <2>1, SentOrphans
    <3> QED BY <1>0, <2>2, <3>1, OwesSame
  <2>5. NoneLeft'
    BY <1>0, <1>2, <2>1, LeftOrphans
  <2> QED BY <2>3, <2>4, <2>5 DEF OweInv
<1>9. ASSUME NEW j \in Jobs, DelayedFlush(j) PROVE OweInv'
  <2>1. app' = app /\ \A k \in Jobs : Owes(k)'
    BY <1>9, FlushOwes
  <2>2. /\ ex[j].flusher # "none"
        /\ \/ wq' = wq
           \/ wq' = Append(wq, Entry(j, "flusher", ItemsWrite(ex[j].results)))
    BY <1>9, FlushStep
  <2>3. Entry(j, "flusher", ItemsWrite(ex[j].results)).write.kind = "items"
    BY DEF Entry, ItemsWrite
  <2>4. NoneLeft'
    BY <1>0, <1>2, <2>1, <2>2, <2>3, LeftSame, LeftAppend
  <2> QED BY <2>1, <2>4 DEF OweInv
<1>10. ASSUME NEW j \in Jobs, NEW f, ex' = [ex EXCEPT ![j] = f], wq # <<>>, app' = app,
              \/ Mine(1, j) /\ app # "down"
                 /\ (wq' = Tail(wq) \/ \E w : wq' = Append(Tail(wq), Entry(j, "main", w)))
              \/ f.pc = ex[j].pc /\ f.flusher \in {ex[j].flusher, "none"} /\ wq' = Tail(wq)
       PROVE  NoneLeft'
  <2>1. \A w : Entry(j, "main", w).by = "main"
    BY DEF Entry
  <2>2. CASE app # "down"
    BY <1>0, <1>10, <2>1, <2>2, LeftTail
  <2>3. CASE app = "down"
    <3>1. \A k \in Jobs : ex'[k].pc = ex[k].pc /\ ex'[k].flusher \in {ex[k].flusher, "none"}
      BY <1>0, <1>10, <2>3
    <3> QED BY <1>0, <1>10, <2>3, <3>1, DownStays
  <2> QED BY <2>2, <2>3
<1>11. ASSUME NEW j \in Jobs, wq # <<>>, Mine(1, j) PROVE app # "down"
  <2>1. ex[j].pc = "await"
    BY <1>11, Tails DEF MainInv
  <2> QED BY <1>2, <2>1
<1>12. CASE WriteCommits
  <2>1. PICK j \in Jobs : j = wq[1].job
    BY <1>12, CommitStep
  <2>2. wq # <<>> /\ app' = app /\ \E f \in Executors : Answered(j, f)
    BY <1>12, <2>1, CommitStep
  <2>3. PICK f \in Executors : Answered(j, f)
    BY <2>2
  <2>4. NoneLeft'
    BY <1>10, <1>11, <2>2, <2>3 DEF Answered, SameItems
  <2>5. \A k \in Jobs : Owes(k)'
    BY <1>12, CommitOwes DEF OwesLess
  <2> QED BY <2>4, <2>5 DEF OweInv
<1>13. CASE WriteFails
  <2>1. PICK j \in Jobs : j = wq[1].job
    BY <1>13, FailStep
  <2>2. /\ wq # <<>> /\ app' = app
        /\ RunDies(j) \/ \E f \in Executors : ExceptBegins(j, f) \/ NotWaited(j, f)
    BY <1>13, <2>1, FailStep
  <2>3. CASE RunDies(j)
    <3>1. app # "down"
      BY <1>11, <2>2, <2>3 DEF RunDies
    <3>2. NoneLeft'
      BY <1>0, <2>2, <2>3, <3>1, LeftDies
    <3> QED BY <1>13, <3>2, FailOwes DEF OweInv
  <2>4. ASSUME NEW f \in Executors, ExceptBegins(j, f) \/ NotWaited(j, f) PROVE NoneLeft'
    <3>1. CASE ExceptBegins(j, f)
      BY <1>10, <1>11, <2>2, <3>1 DEF ExceptBegins
    <3>2. CASE NotWaited(j, f)
      BY <1>10, <2>2, <3>2 DEF NotWaited, SameItems
    <3> QED BY <2>4, <3>1, <3>2
  <2> QED BY <1>13, <2>2, <2>3, <2>4, FailOwes DEF OweInv
<1>14. CASE ProcessStep
  <2>1. CASE Quit \/ Crash
    <3>1. app' = "down" /\ ex' = [j \in Jobs |-> NoExecutor]
      BY <2>1 DEF Quit, Crash, Vanish
    <3>2. \A k \in Jobs : ex'[k] = NoExecutor
      BY <3>1
    <3>3. NoExecutor.pc = "none" /\ NoExecutor.flusher = "none"
      BY DEF NoExecutor
    <3>4. \A i \in 1..Len(wq'), k \in Jobs : ~Mine(i, k)'
      BY <3>2, <3>3 DEF MainInv
    <3>5. \A k \in Jobs : Owes(k)'
      BY <3>2, <3>4, OwesNone
    <3> QED BY <3>1, <3>2, <3>3, <3>5 DEF OweInv, NoneLeft
  <2>2. CASE Tick \/ Close \/ Restart
    <3>1. Continues
      <4>2. UNCHANGED <<wq, lock, perf, broken, leaked>>
        BY <2>2 DEF Tick, Close, Restart, brokenVars
      <4>3. CASE Tick \/ Restart
        BY <1>0, <4>2, <4>3 DEF Tick, Restart, Continues, SameWork
      <4>4. CASE Close
        <5>1. /\ ex' = [j \in Jobs |-> IF Live(j) THEN RequestPause(ex[j]) ELSE ex[j]]
          BY <4>4 DEF Close
        <5>2. \A j \in Jobs : /\ RequestPause(ex[j]) \in Executors
                              /\ SameWork(ex[j], RequestPause(ex[j]))
                              /\ RequestPause(ex[j]).pc = ex[j].pc
                              /\ RequestPause(ex[j]).then = ex[j].then
                              /\ RequestPause(ex[j]).transient = ex[j].transient
          BY <1>0 DEF RequestPause, Executors, SameWork
        <5> QED BY <1>0, <4>2, <5>1, <5>2 DEF Continues, SameWork
      <4> QED BY <2>2, <4>3, <4>4
    <3>2. ASSUME NEW k \in Jobs PROVE Owes(k)'
      <4>1. Sent(k)' = Sent(k)
        BY <3>1, SentSame DEF Continues
      <4>2. /\ ex'[k].todo = ex[k].todo /\ ex'[k].pc = ex[k].pc /\ ex'[k].cand = ex[k].cand
            /\ Pos(ex'[k]) = Pos(ex[k])
        BY <3>1 DEF Continues, SameWork, Pos
      <4> QED BY <1>0, <4>1, <4>2, OwesSame
    <3>3. NoneLeft'
      <4>1. \A k \in Jobs : ex'[k].pc = ex[k].pc /\ ex'[k].flusher = ex[k].flusher
        BY <3>1 DEF Continues, SameWork
      <4>2. CASE Tick
        <5>1. app' = app /\ wq' = wq
          BY <4>2 DEF Tick
        <5> QED BY <1>0, <4>1, <5>1 DEF NoneLeft
      <4>3. CASE Close
        <5>1. app = "up" /\ app' = "closing" /\ wq' = wq
          BY <4>3 DEF Close, Dispatch
        <5> QED BY <1>0, <4>1, <5>1 DEF NoneLeft
      <4>4. CASE Restart
        <5>1. app' = "up" /\ wq' = <<>>
          BY <4>4 DEF Restart
        <5> QED BY <5>1 DEF NoneLeft
      <4> QED BY <2>2, <4>2, <4>3, <4>4
    <3> QED BY <3>2, <3>3 DEF OweInv
  <2> QED BY <1>14, <2>1, <2>2 DEF ProcessStep
<1>15. ASSUME NEW j \in Jobs, PrimeFails(j) PROVE OweInv'
  <2>1. /\ ex[j].pc = "prime" /\ ex' = [ex EXCEPT ![j] = NoExecutor]
        /\ wq' = wq /\ app' = app
    BY <1>15, PrimeFailStep
  <2>2. ex'[j] = NoExecutor /\ \A k \in Jobs \ {j} : ex'[k] = ex[k]
    BY <1>0, <2>1
  <2>3. \A i \in 1..Len(wq') : ~Mine(i, j)'
    BY <2>1 DEF MainInv, Mine
  <2>4. Owes(j)'
    BY <2>2, <2>3, OwesNone
  <2>5. ASSUME NEW k \in Jobs \ {j} PROVE Owes(k)'
    <3>1. Sent(k)' = Sent(k)
      BY <2>1, SentSame
    <3> QED BY <1>0, <2>2, <3>1, OwesSame
  <2>6. NoneLeft'
    BY <1>0, <1>2, <2>1, LeftSame
  <2> QED BY <2>4, <2>5, <2>6 DEF OweInv
<1>16. ASSUME NEW j \in Jobs, ReadFails(j) PROVE OweInv'
  <2>1. Begins(j) /\ app' = app /\ ex[j].pc # "none"
    BY <1>16, ReadFailBegins, ReadFailStep DEF Live
  <2> QED BY <1>2, <1>3, <2>1
<1> QED BY <1>1, <1>4, <1>5, <1>6, <1>7, <1>8, <1>9, <1>12, <1>13, <1>14, <1>15, <1>16,
           StepKinds DEF QuietStep

LEMMA RestartsOnly ==
  ASSUME Next, ~Restart
  PROVE  restarts' = restarts /\ (app' # "down" => app # "down")
<1>1. ASSUME NEW j \in Jobs, StartMigration(j) \/ ResumeMigration(j)
      PROVE  restarts' = restarts /\ app' = app
  BY <1>1 DEF StartMigration, ResumeMigration, Launch
<1>2. ASSUME NEW j \in Jobs, PauseMigration(j) \/ StopMigration(j)
      PROVE  restarts' = restarts /\ app' = app
  BY <1>2 DEF PauseMigration, StopMigration
<1>3. ASSUME NEW j \in Jobs, ExecutorStep(j)
      PROVE  restarts' = restarts /\ app' = app
  BY <1>3 DEF ExecutorStep, RpcEnds, Prime, AcquireLock, HandleControl, PopCandidate,
              NoCandidate, Attempt, SendRpc, RpcSucceeds, RpcRejected, RpcFloodWait,
              RpcRateLimited, RpcPausesJob, RpcTransient, WaitOver, BackoffOver, Leave,
              Summarize, Exit, DelayedFlush, LoopUnchanged, boundVars, brokenVars
<1>4. CASE WriteCommits \/ WriteFails \/ \E j \in Jobs : PrimeFails(j) \/ ReadFails(j)
  BY <1>4 DEF WriteCommits, WriteFails, PrimeFails, ReadFails, Failure, boundVars
<1>5. CASE Tick \/ Close \/ Quit \/ Crash
  BY <1>5 DEF Tick, Close, Quit, Crash, Vanish, Dispatch, boundVars
<1> QED BY <1>1, <1>2, <1>3, <1>4, <1>5 DEF Next

\* Neither the rows nor what stands behind them change.
LEMMA RowsKept ==
  ASSUME RowInv, restarts' = restarts, app' # "down" => app # "down",
         row' = row, acct' = acct,
         \A j \in Jobs : \A kinds \in {{"job"}, {"account", "pauseAccount"}} :
           Backs(j, kinds) => Backs(j, kinds)'
  PROVE  RowInv'
<1>1. \A j \in Jobs : /\ Backs(j, {"job"}) => Backs(j, {"job"})'
                      /\ Backs(j, {"account", "pauseAccount"}) => Backs(j, {"account", "pauseAccount"})'
  OBVIOUS
<1> QED BY <1>1 DEF RowInv

LEMMA BacksSame ==
  ASSUME NEW j \in Jobs, NEW kinds, Owed(j)' = Owed(j), Live(j)' <=> Live(j),
         Pos(ex'[j]) \in Last => Pos(ex[j]) \in Last, broken \subseteq broken', Backs(j, kinds)
  PROVE  Backs(j, kinds)'
  BY DEF Pays, Backs

LEMMA CommitRows ==
  ASSUME TypeInv, MainInv, OweInv, MainInv', RowInv, WriteCommits
  PROVE  RowInv'
<1>1. PICK j \in Jobs : j = wq[1].job
  BY CommitStep
<1>2. /\ wq # <<>> /\ app' = app /\ Commit(j, wq[1].write)
      /\ wq[1].write \in Writes /\ 1 \in 1..Len(wq)
  BY <1>1, CommitStep, HeadJob, Tails
<1>3. restarts' = restarts /\ broken' = broken
  BY DEF WriteCommits, boundVars, brokenVars
<1>4. \A k \in Jobs : OwesLess(k) /\ Pos(ex'[k]) = Pos(ex[k]) /\ (Live(k)' <=> Live(k))
  BY CommitOwes
<1> DEFINE w == wq[1].write
<1>5. ASSUME NEW k \in Jobs, NEW kinds, Backs(k, kinds), k # j \/ w.kind \notin kinds
      PROVE  Backs(k, kinds)'
  <2>1. \A x \in Owed(k) : x.kind \in kinds => \E v \in Owed(k)' : v.kind \in kinds
    BY <1>1, <1>4, <1>5 DEF OwesLess
  <2> QED BY <1>3, <1>4, <1>5, <2>1 DEF Pays, Backs
<1>6. SUFFICES ASSUME app # "down"
               PROVE  /\ \A k \in Jobs : row'[k].state = "RUNNING" => Backs(k, {"job"})'
                      /\ restarts = 0 => \A a \in Accounts : acct'[a] = "BUSY" =>
                           \E k \in Jobs : /\ AccountOf[k] = a
                                           /\ Backs(k, {"account", "pauseAccount"})'
  BY <1>2, <1>3 DEF RowInv
<1>7. /\ \A k \in Jobs : row[k].state = "RUNNING" => Backs(k, {"job"})
      /\ restarts = 0 => \A a \in Accounts : acct[a] = "BUSY" =>
           \E k \in Jobs : AccountOf[k] = a /\ Backs(k, {"account", "pauseAccount"})
  BY <1>6 DEF RowInv
<1>8. ASSUME w.kind # "items" PROVE Live(j)' /\ May(ex'[j], w)
  <2>1. Mine(1, j)
    BY <1>1, <1>2, <1>6, <1>8 DEF OweInv, NoneLeft, Mine
  <2>2. w \in Sent(j)
    BY <1>2, <2>1, OneSent
  <2>3. May(ex[j], w)
    BY <1>8, <2>2 DEF OweInv, Owes, Owed
  <2>4. ex[j].pc = "await"
    BY <1>2, <2>1 DEF MainInv
  <2>5. ex'[j].cand = ex[j].cand
    BY <1>1, CommitStep DEF Answered, SameItems, TypeInv, TypeEx
  <2> QED BY <1>4, <2>3, <2>4, <2>5 DEF May, Live
<1>9. /\ row \in [Jobs -> [state : JobStates, until : Nat,
                           action : Actions \cup {"none"}, failed : Nat]]
      /\ acct \in [Accounts -> AccountStates] /\ AccountOf \in [Jobs -> Accounts]
  BY ExecutorAssumption DEF TypeInv, TypeDb
<1>10. CASE w.kind = "job"
  <2>1. acct' = acct /\ row'[j].state = w.state /\ \A k \in Jobs \ {j} : row'[k] = row[k]
    BY <1>2, <1>9, <1>10 DEF Commit
  <2>2. w.state = "RUNNING" => Backs(j, {"job"})'
    BY <1>8, <1>10 DEF Pays, Backs, May
  <2>3. \A k \in Jobs : row'[k].state = "RUNNING" => Backs(k, {"job"})'
    BY <1>5, <1>7, <2>1, <2>2
  <2>4. \A k \in Jobs : Backs(k, {"account", "pauseAccount"}) => Backs(k, {"account", "pauseAccount"})'
    BY <1>5, <1>10
  <2> QED BY <1>7, <2>1, <2>3, <2>4
<1>11. CASE w.kind \in {"account", "pauseAccount"}
  <2>1. /\ row' = row /\ \A a \in Accounts \ {AccountOf[j]} : acct'[a] = acct[a]
        /\ \/ w.kind = "account" /\ acct'[AccountOf[j]] = w.state
           \/ acct'[AccountOf[j]] # "BUSY"
    <3>1. CASE w.kind = "account"
      BY <1>2, <1>9, <3>1 DEF Commit
    <3>2. CASE w.kind = "pauseAccount"
      BY <1>2, <1>9, <3>2 DEF Commit
    <3> QED BY <1>11, <3>1, <3>2
  <2>2. acct'[AccountOf[j]] = "BUSY" => Backs(j, {"account", "pauseAccount"})'
    BY <1>8, <1>11, <2>1 DEF Pays, Backs, May
  <2>3. ASSUME restarts = 0, NEW a \in Accounts, acct'[a] = "BUSY"
        PROVE  \E k \in Jobs : AccountOf[k] = a /\ Backs(k, {"account", "pauseAccount"})'
    <3>1. CASE a = AccountOf[j]
      BY <2>2, <2>3, <3>1
    <3>2. CASE a # AccountOf[j]
      <4>1. PICK k \in Jobs : AccountOf[k] = a /\ Backs(k, {"account", "pauseAccount"})
        BY <1>7, <2>1, <2>3, <3>2
      <4> QED BY <1>5, <3>2, <4>1
    <3> QED BY <3>1, <3>2
  <2>4. \A k \in Jobs : row'[k].state = "RUNNING" => Backs(k, {"job"})'
    BY <1>5, <1>7, <1>11, <2>1
  <2> QED BY <2>3, <2>4
<1>12. CASE w.kind \in {"retry", "restriction", "items"}
  <2>1. acct' = acct /\ \A k \in Jobs : row'[k].state = row[k].state
    <3>1. CASE w.kind \in {"retry", "restriction"}
      BY <1>2, <3>1 DEF Commit
    <3>2. CASE w.kind = "items"
      <4>1. acct' = acct /\ \E n : row' = [row EXCEPT ![j].failed = n, ![j].action = "none"]
        BY <1>2, <3>2, Zenon DEF Commit
      <4> QED BY <1>9, <4>1
    <3> QED BY <1>12, <3>1, <3>2
  <2>2. \A k \in Jobs : /\ Backs(k, {"job"}) => Backs(k, {"job"})'
                        /\ Backs(k, {"account", "pauseAccount"}) => Backs(k, {"account", "pauseAccount"})'
    BY <1>5, <1>12
  <2> QED BY <1>7, <2>1, <2>2
<1>13. w.kind \in {"job", "account", "pauseAccount", "restriction", "retry", "items"}
  BY <1>2 DEF Writes, PlainWrites, ItemWrites
<1> QED BY <1>10, <1>11, <1>12, <1>13

LEMMA RowInvKept ==
  ASSUME TypeInv, MainInv, OweInv, MainInv', RowInv, [Next]_vars
  PROVE  RowInv'
<1>0. /\ ex \in [Jobs -> Executors] /\ restarts \in Nat
      /\ \A j \in Jobs : ex[j] \in Executors /\ Owes(j)
  BY DEF TypeInv, TypeEx, OweInv, RowInv
<1>1. CASE UNCHANGED vars
  BY <1>1 DEF vars, dbVars, boundVars, brokenVars, RowInv, Backs, Pays, Live, Owed, Sent, Mine, Members, Pos
<1>2. SUFFICES ASSUME Next PROVE RowInv'
  BY <1>1
<1>3. ASSUME NEW j \in Jobs, NEW k \in Jobs \ {j}, NEW kinds, ex'[k] = ex[k],
             Owed(k)' = Owed(k), k \in broken => k \in broken', Backs(k, kinds)
      PROVE  Backs(k, kinds)'
  BY <1>3 DEF Live, Backs, Pays
<1>4. ASSUME NEW j \in Jobs, Begins(j), row' = row, acct' = acct, ~Restart,
            broken' \in {broken, broken \ {j}}
      PROVE  RowInv'
  <2>1. Backs(j, {"job"})' /\ Backs(j, {"account", "pauseAccount"})'
    BY <1>4 DEF Begins, Backs, Pays
  <2>2. \A k \in Jobs \ {j} : ex'[k] = ex[k] /\ Owed(k)' = Owed(k)
    BY <1>4 DEF Begins
  <2>3. \A k \in Jobs : \A kinds \in {{"job"}, {"account", "pauseAccount"}} :
          Backs(k, kinds) => Backs(k, kinds)'
    BY <1>3, <1>4, <2>1, <2>2
  <2> QED BY <1>2, <1>4, <2>3, RestartsOnly, RowsKept
<1>5. ASSUME app = "up" \/ app' = "down" \/ wq # <<>> PROVE ~Restart
  BY <1>5 DEF Restart
<1>6. ASSUME NEW j \in Jobs, Live(j) \/ ex[j].flusher # "none" PROVE app # "down" /\ ~Restart
  <2>1. app # "down"
    BY <1>6 DEF OweInv, NoneLeft, Live
  <2> QED BY <2>1 DEF Restart
<1>7. ASSUME NEW j \in Jobs, app = "up", ~Live(j), Launch(j) PROVE RowInv'
  <2>1. Begins(j) /\ row' = row /\ acct' = acct /\ broken' = broken \ {j}
    BY <1>7, LaunchBegins DEF Launch, dbVars
  <2> QED BY <1>4, <1>5, <1>7, <2>1
<1>8. ASSUME NEW j \in Jobs, AwaitStep(j) PROVE RowInv'
  <2>1. Begins(j) /\ row' = row /\ acct' = acct /\ broken' = broken /\ Live(j)
    BY <1>8, AwaitBegins, AwaitSteps DEF dbVars, boundVars, brokenVars
  <2> QED BY <1>4, <1>6, <2>1
<1>9. ASSUME NEW j \in Jobs, NEW st \in Done, RecordStep(j, st) PROVE RowInv'
  <2>1. Begins(j) /\ row' = row /\ acct' = acct /\ broken' = broken /\ Live(j)
    BY <1>9, RecordBegins, RecordSteps DEF dbVars
  <2> QED BY <1>4, <1>6, <2>1
<1>10. ASSUME NEW j \in Jobs, QuietStep(j) PROVE RowInv'
  <2>1. /\ row' = row /\ acct' = acct /\ broken' = broken
    BY <1>10, SimpleSteps, PrimeStep, PopStep DEF QuietStep, dbVars
  <2>2. /\ Live(j) /\ Live(j)' /\ (Pos(ex'[j]) \in Last => Pos(ex[j]) \in Last)
        /\ Owed(j)' = Owed(j) /\ \A k \in Jobs \ {j} : ex'[k] = ex[k] /\ Owed(k)' = Owed(k)
    BY <1>10, QuietOwes
  <2>3. \A k \in Jobs : \A kinds \in {{"job"}, {"account", "pauseAccount"}} :
          Backs(k, kinds) => Backs(k, kinds)'
    <3>1. \A kinds : Backs(j, kinds) => Backs(j, kinds)'
      BY <2>1, <2>2, BacksSame
    <3> QED BY <1>3, <2>1, <2>2, <3>1
  <2> QED BY <1>2, <1>6, <2>1, <2>2, <2>3, RestartsOnly, RowsKept
<1>11. ASSUME NEW j \in Jobs, FinishStep(j) PROVE RowInv'
  <2>1. /\ ex[j].pc \in {"leave", "exit"} /\ ex' = [ex EXCEPT ![j] = NoExecutor]
        /\ wq' = Orphaned(j) /\ row' = row /\ acct' = acct /\ broken' = broken
    BY <1>11, FinishSteps DEF dbVars
  <2>2. Owed(j) = {} /\ Pos(ex[j]) \in Last /\ Live(j)
    BY <1>0, <2>1, NothingOwed DEF Pos, Last, Live
  <2>3. \A kinds : Backs(j, kinds) => Backs(j, kinds)'
    BY <2>1, <2>2 DEF Pays, Backs
  <2>4. ASSUME NEW k \in Jobs \ {j} PROVE ex'[k] = ex[k] /\ Owed(k)' = Owed(k)
    <3>1. Sent(k)' = Sent(k)
      BY <2>1, SentOrphans
    <3>2. ex'[k] = ex[k]
      BY <1>0, <2>1
    <3> QED BY <3>1, <3>2 DEF Owed, Members
  <2>5. \A k \in Jobs : \A kinds \in {{"job"}, {"account", "pauseAccount"}} :
          Backs(k, kinds) => Backs(k, kinds)'
    BY <1>3, <2>1, <2>3, <2>4
  <2> QED BY <1>2, <1>6, <2>1, <2>2, <2>5, RestartsOnly, RowsKept
<1>12. ASSUME NEW j \in Jobs, DelayedFlush(j) PROVE RowInv'
  <2>1. row' = row /\ acct' = acct /\ broken' = broken /\ ex[j].flusher # "none"
    BY <1>12, FlushStep DEF dbVars
  <2>2. /\ (Live(j)' <=> Live(j)) /\ Pos(ex'[j]) = Pos(ex[j]) /\ Owed(j)' = Owed(j)
        /\ \A k \in Jobs \ {j} : ex'[k] = ex[k] /\ Owed(k)' = Owed(k)
    BY <1>12, FlushOwes DEF Live
  <2>3. \A k \in Jobs : \A kinds \in {{"job"}, {"account", "pauseAccount"}} :
          Backs(k, kinds) => Backs(k, kinds)'
    <3>1. \A kinds : Backs(j, kinds) => Backs(j, kinds)'
      BY <2>1, <2>2, BacksSame
    <3> QED BY <1>3, <2>1, <2>2, <3>1
  <2> QED BY <1>2, <1>6, <2>1, <2>3, RestartsOnly, RowsKept
<1>13. CASE WriteFails
  <2>1. wq # <<>> /\ row' = row /\ acct' = acct /\ wq[1].job \in Jobs
    BY <1>13, FailStep DEF dbVars
  <2>2. broken \subseteq broken'
    BY <1>13, FailStep DEF RunDies, ExceptBegins, NotWaited
  <2>3. ASSUME NEW k \in Jobs, NEW kinds \in {{"job"}, {"account", "pauseAccount"}},
               Backs(k, kinds)
        PROVE  Backs(k, kinds)'
    <3>1. FailKeeps(k)
      BY <1>13, FailOwes
    <3> QED BY <2>2, <2>3, <3>1 DEF FailKeeps, Backs, Pays, Live
  <2> QED BY <1>2, <1>5, <2>1, <2>3, RestartsOnly, RowsKept
<1>14. CASE ProcessStep
  <2>1. CASE Quit \/ Crash
    <3>1. app' = "down"
      BY <2>1 DEF Quit, Crash, Vanish
    <3>2. restarts' = restarts
      BY <1>2, <1>5, <3>1, RestartsOnly
    <3> QED BY <1>0, <3>1, <3>2 DEF RowInv
  <2>2. CASE Tick \/ Close
    <3>1. row' = row /\ acct' = acct /\ broken' = broken /\ restarts' = restarts
          /\ (app' # "down" => app # "down") /\ wq' = wq
      BY <2>2 DEF Tick, Close, Dispatch, dbVars, boundVars, brokenVars
    <3>2. ASSUME NEW k \in Jobs
          PROVE  /\ ex'[k].pc = ex[k].pc /\ ex'[k].todo = ex[k].todo /\ Pos(ex'[k]) = Pos(ex[k])
      <4>1. ex'[k] = ex[k] \/ ex'[k] = RequestPause(ex[k])
        BY <2>2 DEF Tick, Close
      <4> QED BY <1>0, <4>1 DEF RequestPause, Executors, Pos
    <3>3. ASSUME NEW k \in Jobs, NEW kinds, Backs(k, kinds) PROVE Backs(k, kinds)'
      <4>1. Owed(k)' = Owed(k)
        BY <3>1, <3>2, SentSame DEF Owed, Members
      <4> QED BY <3>1, <3>2, <3>3, <4>1, BacksSame DEF Live
    <3>4. \A k \in Jobs : \A kinds \in {{"job"}, {"account", "pauseAccount"}} :
            Backs(k, kinds) => Backs(k, kinds)'
      BY <3>3
    <3> QED BY <3>1, <3>4, RowsKept
  <2>3. CASE Restart
    <3>1. row' = [j \in Jobs |-> Normalized(row[j])] /\ restarts' = restarts + 1
      BY <2>3 DEF Restart
    <3>2. restarts' \in Nat /\ restarts' # 0
      BY <1>0, <3>1
    <3>3. ASSUME NEW j \in Jobs PROVE row'[j].state # "RUNNING"
      <4>1. row[j] \in [state : JobStates, until : Nat, action : Actions \cup {"none"}, failed : Nat]
        BY DEF TypeInv, TypeDb
      <4>2. Normalized(row[j]).state # "RUNNING"
        BY <4>1 DEF Normalized, Recoverable
      <4> QED BY <3>1, <4>2
    <3> QED BY <3>2, <3>3 DEF RowInv
  <2> QED BY <1>14, <2>1, <2>2, <2>3 DEF ProcessStep
<1>15. ASSUME NEW j \in Jobs, PrimeFails(j) PROVE RowInv'
  <2>1. /\ ex[j].pc = "prime" /\ ex' = [ex EXCEPT ![j] = NoExecutor]
        /\ wq' = wq /\ row' = row /\ acct' = acct /\ broken' = broken \cup {j}
    BY <1>15, PrimeFailStep DEF dbVars
  <2>2. Live(j)
    BY <2>1 DEF Live
  <2>3. ASSUME NEW k \in Jobs \ {j} PROVE ex'[k] = ex[k] /\ Owed(k)' = Owed(k)
    <3>1. Sent(k)' = Sent(k)
      BY <2>1, SentSame
    <3>2. ex'[k] = ex[k]
      BY <1>0, <2>1
    <3> QED BY <3>1, <3>2 DEF Owed, Members
  <2>4. \A kinds : Backs(j, kinds)'
    BY <2>1 DEF Backs
  <2>5. \A k \in Jobs : \A kinds \in {{"job"}, {"account", "pauseAccount"}} :
          Backs(k, kinds) => Backs(k, kinds)'
    BY <1>3, <2>1, <2>3, <2>4
  <2> QED BY <1>2, <1>6, <2>1, <2>2, <2>5, RestartsOnly, RowsKept
<1>16. ASSUME NEW j \in Jobs, ReadFails(j) PROVE RowInv'
  <2>1. Begins(j) /\ row' = row /\ acct' = acct /\ broken' = broken /\ Live(j)
    BY <1>16, ReadFailBegins, ReadFailStep DEF dbVars
  <2> QED BY <1>4, <1>6, <2>1
<1> QED BY <1>2, <1>7, <1>8, <1>9, <1>10, <1>11, <1>12, <1>13, <1>14, <1>15, <1>16,
           CommitRows, StepKinds DEF QuietStep

LEMMA RowInvImplies ==
  ASSUME RowInv
  PROVE  RowsMatchWhatRuns
  BY DEF RowInv, Backs, Pays, RowsMatchWhatRuns

-----------------------------------------------------------------------------
(* A candidate that is put back has no result.                             *)

\* What run writes RETRY for is the candidate that it holds.
LEMMA RetryHeld ==
  ASSUME TypeInv', OweInv', FreshInv', (app # "down")'
  PROVE  RetryInv'
<1> SUFFICES ASSUME NEW i \in 1..Len(wq'), wq'[i].write.kind = "retry"
             PROVE  ~KnownResult(wq[i].job, wq[i].write.ordinal)'
  BY DEF RetryInv
<1>1. wq'[i] \in Entries
  BY DEF TypeInv, TypeWq
<1>2. PICK j \in Jobs : j = wq'[i].job
  BY <1>1 DEF Entries
<1>3. Mine(i, j)' /\ wq'[i].write \in Writes
  BY <1>1, <1>2 DEF OweInv, NoneLeft, Mine, Entries
<1>4. wq'[i].write \in Owed(j)'
  BY <1>3 DEF Owed, Sent
<1>5. wq'[i].write.ordinal = ex'[j].cand
  BY <1>4 DEF OweInv, Owes, May
<1>6. wq'[i].write.ordinal \in Ordinals
  BY <1>3 DEF Writes, PlainWrites, ItemWrites
<1>7. ~KnownResult(j, ex[j].cand)'
  BY <1>5, <1>6 DEF FreshInv, Fresh
<1> QED BY <1>2, <1>5, <1>7

\* The writes have only moved, and no result has become known.
LEMMA RetryMoved ==
  ASSUME TypeInv', RetryInv, NEW d \in Nat, \A k \in Jobs : Shifted(k, d),
         \A k \in Jobs, o \in Ordinals : KnownResult(k, o)' => KnownResult(k, o)
  PROVE  RetryInv'
<1> SUFFICES ASSUME NEW i \in 1..Len(wq'), wq'[i].write.kind = "retry"
             PROVE  ~KnownResult(wq[i].job, wq[i].write.ordinal)'
  BY DEF RetryInv
<1>1. wq'[i] \in Entries
  BY DEF TypeInv, TypeWq
<1>2. PICK j \in Jobs : j = wq'[i].job
  BY <1>1 DEF Entries
<1>3. PICK o \in Ordinals : o = wq'[i].write.ordinal
  BY <1>1 DEF Entries, Writes, PlainWrites, ItemWrites
<1>4. i + d \in 1..Len(wq) /\ wq[i + d].job = j /\ wq[i + d].write = wq'[i].write
  BY <1>2 DEF Shifted, Moved
<1>5. ~KnownResult(j, o)
  BY <1>3, <1>4 DEF RetryInv
<1> QED BY <1>2, <1>3, <1>5

LEMMA RetryInvKept ==
  ASSUME TypeInv, MainInv, OweInv, RetryInv, TypeInv', MainInv', OweInv', FreshInv', [Next]_vars
  PROVE  RetryInv'
<1>0. 0 \in Nat /\ 1 \in Nat /\ ex \in [Jobs -> Executors]
  BY DEF TypeInv, TypeEx
<1>1. CASE app' # "down"
  BY <1>1, RetryHeld
<1>2. CASE UNCHANGED vars
  BY <1>2 DEF vars, dbVars, RetryInv, KnownResult, Queued, Reports
<1>3. ASSUME app' = "down", Next PROVE RetryInv'
  <2>1. CASE Crash
    BY <2>1 DEF Crash, RetryInv
  <2>2. CASE Quit
    <3>1. /\ ex' = [j \in Jobs |-> NoExecutor] /\ item' = item
          /\ wq' = [i \in 1..Len(wq) |-> [wq[i] EXCEPT !.by = "nobody"]]
      BY <2>2 DEF Quit, Vanish, dbVars
    <3>2. wq \in Seq(Entries) /\ Len(wq) \in Nat /\ \A i \in 1..Len(wq) : wq[i] \in Entries
      BY DEF TypeInv, TypeWq
    <3>3. Len(wq') = Len(wq)
      BY <3>1, <3>2
    <3>4. \A i \in 1..Len(wq') : /\ wq'[i].job = wq[i].job /\ wq'[i].write = wq[i].write
                                 /\ wq'[i].by = "nobody" /\ i + 0 = i
      BY <3>1, <3>2, <3>3 DEF Entries
    <3>5. \A k \in Jobs : Shifted(k, 0)
      BY <3>3, <3>4 DEF Shifted, Moved
    <3>6. NoExecutor.results = <<>>
      BY DEF NoExecutor
    <3>7. ASSUME NEW k \in Jobs, NEW o \in Ordinals, KnownResult(k, o)'
          PROVE  KnownResult(k, o)
      <4>1. ~Reports(ex'[k].results, o)
        BY <3>1, <3>6, EmptyReports
      <4>2. Queued(k, o)' => Queued(k, o)
        BY <1>0, <3>5, ShiftedQueue
      <4> QED BY <3>1, <3>7, <4>1, <4>2 DEF KnownResult, Reports
    <3> QED BY <1>0, <3>5, <3>7, RetryMoved
  <2>3. CASE ~Crash /\ ~Quit
    <3>1. app = "down"
      <4>1. ~Restart
        BY <1>3 DEF Restart
      <4>2. ASSUME NEW j \in Jobs, StartMigration(j) \/ ResumeMigration(j)
            PROVE  app' = app
        BY <4>2 DEF StartMigration, ResumeMigration, Launch
      <4>3. ASSUME NEW j \in Jobs, PauseMigration(j) \/ StopMigration(j)
            PROVE  app' = app
        BY <4>3 DEF PauseMigration, StopMigration
      <4>4. ASSUME NEW j \in Jobs, ExecutorStep(j) PROVE app' = app
        BY <4>4 DEF ExecutorStep, RpcEnds, Prime, AcquireLock, HandleControl, PopCandidate,
                    NoCandidate, Attempt, SendRpc, RpcSucceeds, RpcRejected, RpcFloodWait,
                    RpcRateLimited, RpcPausesJob, RpcTransient, WaitOver, BackoffOver, Leave,
                    Summarize, Exit, DelayedFlush, LoopUnchanged
      <4>5. CASE WriteCommits \/ WriteFails \/ Tick \/ \E j \in Jobs : PrimeFails(j) \/ ReadFails(j)
        BY <1>3, <4>5 DEF WriteCommits, WriteFails, Tick, PrimeFails, ReadFails
      <4>6. CASE Close
        BY <1>3, <4>6 DEF Close
      <4> QED BY <1>3, <2>3, <4>1, <4>2, <4>3, <4>4, <4>5, <4>6 DEF Next
    <3>2. \A j \in Jobs : ex[j].pc = "none" /\ ex[j].flusher = "none" /\ ~Live(j)
      BY <3>1 DEF OweInv, NoneLeft, Live
    <3>3. ASSUME NEW j \in Jobs PROVE ~ExecutorStep(j) /\ ~PrimeFails(j) /\ ~ReadFails(j)
      BY <3>2 DEF PrimeFails, ReadFails, ExecutorStep, RpcEnds, Prime, AcquireLock, HandleControl, PopCandidate,
                  NoCandidate, Attempt, SendRpc, RpcSucceeds, RpcRejected, RpcFloodWait,
                  RpcRateLimited, RpcPausesJob, RpcTransient, WaitOver, BackoffOver, Leave,
                  Summarize, Exit, DelayedFlush
    <3>4. WriteCommits \/ WriteFails \/ Tick
      BY <1>3, <2>3, <3>1, <3>3 DEF Next, StartMigration, ResumeMigration, PauseMigration,
                                    StopMigration, Dispatch, Close, Restart
    <3>5. ASSUME NEW j \in Jobs, wq # <<>> PROVE ~Mine(1, j)
      BY <3>2, <3>5, Tails DEF MainInv
    <3>6. ASSUME NEW j \in Jobs, NEW f, wq # <<>>, wq' = Tail(wq), ex' = [ex EXCEPT ![j] = f],
                 f.results = ex[j].results,
                 \A k \in Jobs, o \in Ordinals : item'[k][o] \in Done => KnownResult(k, o)
          PROVE  RetryInv'
      <4>1. \A k \in Jobs : Shifted(k, 1)
        BY <3>6, QueueTail
      <4>2. ASSUME NEW k \in Jobs, NEW o \in Ordinals, KnownResult(k, o)'
            PROVE  KnownResult(k, o)
        <5>1. ex'[k].results = ex[k].results
          BY <1>0, <3>6
        <5>2. Queued(k, o)' => Queued(k, o)
          BY <1>0, <4>1, ShiftedQueue
        <5> QED BY <3>6, <4>2, <5>1, <5>2 DEF KnownResult, Reports
      <4> QED BY <1>0, <4>1, <4>2, RetryMoved
    <3>7. CASE WriteCommits
      <4>1. PICK j \in Jobs : j = wq[1].job
        BY <3>7, CommitStep
      <4>2. wq # <<>> /\ Commit(j, wq[1].write) /\ \E f \in Executors : Answered(j, f)
        BY <3>7, <4>1, CommitStep
      <4>3. PICK f : /\ ex' = [ex EXCEPT ![j] = f] /\ wq' = Tail(wq) /\ f.results = ex[j].results
        BY <3>5, <4>2 DEF Answered, SameItems
      <4>4. \A k \in Jobs, o \in Ordinals : item'[k][o] \in Done => KnownResult(k, o)
        <5>1. /\ \A k \in Jobs \ {j} : item'[k] = item[k]
              /\ \A o \in Ordinals : item'[j][o] \in Done => KnownResult(j, o)
          BY <4>1, <4>2, CommitKnows
        <5> QED BY <5>1 DEF KnownResult
      <4> QED BY <3>6, <4>2, <4>3, <4>4
    <3>8. CASE WriteFails
      <4>1. PICK j \in Jobs : j = wq[1].job
        BY <3>8, FailStep
      <4>2. /\ wq # <<>> /\ item' = item
            /\ RunDies(j) \/ \E f \in Executors : ExceptBegins(j, f) \/ NotWaited(j, f)
        BY <3>8, <4>1, FailStep DEF dbVars
      <4>3. PICK f : /\ ex' = [ex EXCEPT ![j] = f] /\ wq' = Tail(wq) /\ f.results = ex[j].results
        BY <3>5, <4>2 DEF RunDies, ExceptBegins, NotWaited, SameItems
      <4>4. \A k \in Jobs, o \in Ordinals : item'[k][o] \in Done => KnownResult(k, o)
        BY <4>2 DEF KnownResult
      <4> QED BY <3>6, <4>2, <4>3, <4>4
    <3>9. CASE Tick
      BY <3>9 DEF Tick, dbVars, RetryInv, KnownResult, Queued, Reports
    <3> QED BY <3>4, <3>7, <3>8, <3>9
  <2> QED BY <2>1, <2>2, <2>3
<1> QED BY <1>1, <1>2, <1>3

-----------------------------------------------------------------------------
(* Results are not lost sight of.                                          *)

\* What a commit does to the items: a result stays, and a batch brings some.
LEMMA CommitSettles ==
  ASSUME TypeInv, RetryInv, wq # <<>>, NEW j \in Jobs, wq[1].job = j, Commit(j, wq[1].write)
  PROVE  /\ \A k \in Jobs \ {j} : item'[k] = item[k]
         /\ \A o \in Ordinals : item[j][o] \in Done => item'[j][o] \in Done
         /\ \A o \in Ordinals : ItemsOf(1, j) /\ Reports(wq[1].write.updates, o)
                                  => item'[j][o] \in Done
<1> DEFINE w == wq[1].write
<1>0. /\ w \in Writes /\ item \in [Jobs -> [Ordinals -> ItemStates]] /\ 1 \in 1..Len(wq)
  BY HeadJob, Tails DEF TypeInv, TypeDb
<1>1. CASE w.kind \in {"job", "account", "pauseAccount", "restriction"}
  <2>1. item' = item /\ ~ItemsOf(1, j)
    BY <1>1 DEF Commit, ItemsOf
  <2> QED BY <2>1
<1>2. CASE w.kind = "retry"
  <2>1. item' = [item EXCEPT ![j][w.ordinal] = "RETRY"] /\ ~ItemsOf(1, j)
    BY <1>2 DEF Commit, ItemsOf
  <2>2. item[j][w.ordinal] \notin Done
    BY <1>0, <1>2 DEF RetryInv, KnownResult
  <2> QED BY <1>0, <2>1, <2>2
<1>3. CASE w.kind = "items"
  <2>1. item' = [item EXCEPT ![j] = Updated(j, w.updates)]
    BY <1>3 DEF Commit
  <2>2. item'[j] = Updated(j, w.updates) /\ \A k \in Jobs \ {j} : item'[k] = item[k]
    BY <1>0, <2>1
  <2>3. w.updates \in Seq(Updates)
    BY <1>0, <1>3 DEF Writes, PlainWrites, ItemWrites
  <2>4. PICK ups \in Seq(Updates) : ups = w.updates
    BY <2>3
  <2>5. ASSUME NEW o \in Ordinals, Reports(ups, o) PROVE item'[j][o] \in Done
    <3> DEFINE c == CHOOSE i \in 1..Len(ups) : ups[i].ordinal = o
    <3>1. c \in 1..Len(ups)
      BY <2>5 DEF Reports
    <3>2. Updated(j, ups)[o] = ups[c].state
      BY <2>5 DEF Updated
    <3> HIDE DEF c
    <3>3. ups[c] \in Updates
      BY <3>1
    <3>4. ups[c].state \in Done
      BY <3>3 DEF Updates
    <3> QED BY <2>2, <2>4, <3>2, <3>4
  <2>6. ASSUME NEW o \in Ordinals, ~Reports(ups, o) PROVE item'[j][o] = item[j][o]
    BY <2>2, <2>4, <2>6 DEF Updated
  <2> QED BY <2>2, <2>4, <2>5, <2>6
<1>4. w.kind \in {"job", "account", "pauseAccount", "restriction", "retry", "items"}
  BY <1>0 DEF Writes, PlainWrites, ItemWrites
<1> QED BY <1>1, <1>2, <1>3, <1>4

\* Without a commit the items stay as they are.
LEMMA ItemsStay ==
  ASSUME TypeInv, MainInv, [Next]_vars, ~WriteCommits
  PROVE  item' = item /\ lost \subseteq lost'
<1>1. CASE UNCHANGED vars
  BY <1>1 DEF vars, dbVars
<1>2. CASE WriteFails
  BY <1>2, FailStep DEF dbVars
<1>3. CASE ProcessStep
  BY <1>3, ProcessSteps
<1>4. ASSUME NEW j \in Jobs, Launch(j) \/ AwaitStep(j) PROVE item' = item /\ lost' = lost
  BY <1>4, LaunchType, AwaitSteps DEF dbVars
<1>5. ASSUME NEW j \in Jobs, SimpleStep(j) \/ Prime(j) \/ PopCandidate(j)
      PROVE  item' = item /\ lost' = lost
  BY <1>5, SimpleSteps, PrimeStep, PopStep DEF dbVars
<1>6. ASSUME NEW j \in Jobs, FinishStep(j) \/ DelayedFlush(j) PROVE item' = item /\ lost' = lost
  BY <1>6, FinishSteps, FlushStep DEF dbVars
<1>7. ASSUME NEW j \in Jobs, NEW st \in Done, RecordStep(j, st) PROVE item' = item /\ lost' = lost
  BY <1>7, RecordSteps DEF dbVars
<1>8. ASSUME NEW j \in Jobs, PrimeFails(j) \/ ReadFails(j) PROVE item' = item /\ lost' = lost
  BY <1>8, PrimeFailStep, ReadFailStep DEF dbVars
<1> QED BY <1>1, <1>2, <1>3, <1>4, <1>5, <1>6, <1>7, <1>8, StepKinds

LEMMA SettledStays ==
  ASSUME TypeInv, MainInv, RetryInv, [Next]_vars, NEW k \in Jobs, NEW o \in Ordinals,
         Settled(k, o)
  PROVE  Settled(k, o)'
<1>1. CASE WriteCommits
  <2>1. PICK j \in Jobs : j = wq[1].job
    BY <1>1, CommitStep
  <2>2. wq # <<>> /\ Commit(j, wq[1].write) /\ lost' = lost
    BY <1>1, <2>1, CommitStep
  <2>3. item[k][o] \in Done => item'[k][o] \in Done
    BY <2>1, <2>2, CommitSettles
  <2> QED BY <2>2, <2>3 DEF Settled
<1>2. CASE ~WriteCommits
  BY <1>2, ItemsStay DEF Settled
<1> QED BY <1>1, <1>2

\* The results that are with DBWriter stay there, in their order, or are the
\* first in the queue.
Stays(k, d) ==
  \A n \in 1..Len(wq) : wq[n].job = k /\ n # d =>
    \E m \in 1..Len(wq') : m + d = n /\ wq'[m].job = k /\ wq'[m].write = wq[n].write

\* The oldest write, if it was of k, has settled what it held.
Answers(k, d) ==
  \A o \in Ordinals : d = 1 /\ ItemsOf(1, k) /\ Reports(wq[1].write.updates, o) => Settled(k, o)'

\* Every claim was in the queue before, or comes after all the results.
Ordered(k, d) ==
  \A i \in 1..Len(wq') : wq'[i].job = k /\ Claim(wq'[i].write) =>
    Moved(i, k, d) \/ \A o \in Ordinals : Settled(k, o)' \/ Ahead(i, k, o)'

LEMMA QueuedStays ==
  ASSUME TypeInv, NEW k \in Jobs, NEW d \in {0, 1}, Stays(k, d), Answers(k, d),
         NEW o \in Ordinals, Queued(k, o)
  PROVE  Settled(k, o)' \/ Queued(k, o)'
<1>1. PICK n \in 1..Len(wq) : ItemsOf(n, k) /\ Reports(wq[n].write.updates, o)
  BY DEF Queued, ItemsOf
<1>2. CASE n = d
  BY <1>1, <1>2 DEF Answers
<1>3. CASE n # d
  <2>1. PICK m \in 1..Len(wq') : wq'[m].job = k /\ wq'[m].write = wq[n].write
    BY <1>1, <1>3 DEF Stays, ItemsOf
  <2> QED BY <1>1, <2>1 DEF Queued, ItemsOf, Reports
<1> QED BY <1>2, <1>3

LEMMA AheadStays ==
  ASSUME TypeInv, NEW k \in Jobs, NEW d \in {0, 1}, Stays(k, d), Answers(k, d),
         NEW i \in Nat, NEW o \in Ordinals, Ahead(i + d, k, o)
  PROVE  Settled(k, o)' \/ Ahead(i, k, o)'
<1>1. PICK n \in 1..Len(wq) : n < i + d /\ ItemsOf(n, k) /\ Reports(wq[n].write.updates, o)
  BY DEF Ahead
<1>2. CASE n = d
  BY <1>1, <1>2 DEF Answers
<1>3. CASE n # d
  <2>1. PICK m \in 1..Len(wq') : m + d = n /\ wq'[m].job = k /\ wq'[m].write = wq[n].write
    BY <1>1, <1>3 DEF Stays, ItemsOf
  <2>2. m < i
    BY <1>1, <2>1
  <2> QED BY <1>1, <2>1, <2>2 DEF Ahead, ItemsOf, Reports
<1> QED BY <1>2, <1>3

LEMMA ClaimedStays ==
  ASSUME TypeInv, NEW k \in Jobs, NEW d \in {0, 1}, Claimed(k), Stays(k, d), Answers(k, d),
         Ordered(k, d), \A o \in Ordinals : Settled(k, o) => Settled(k, o)',
         row'[k].state \in Claims => \A o \in Ordinals : Settled(k, o)'
  PROVE  Claimed(k)'
<1>1. ASSUME NEW i \in 1..Len(wq'), wq'[i].job = k, Claim(wq'[i].write), NEW o \in Ordinals,
             Moved(i, k, d)
      PROVE  Settled(k, o)' \/ Ahead(i, k, o)'
  <2>1. i + d \in 1..Len(wq) /\ wq[i + d].job = k /\ wq[i + d].write = wq'[i].write
    BY <1>1 DEF Moved
  <2>2. Settled(k, o) \/ Ahead(i + d, k, o)
    BY <1>1, <2>1 DEF Claimed
  <2>3. i \in Nat
    OBVIOUS
  <2> QED BY <2>2, <2>3, AheadStays
<1>2. \A i \in 1..Len(wq') : wq'[i].job = k /\ Claim(wq'[i].write) =>
        \A o \in Ordinals : Settled(k, o)' \/ Ahead(i, k, o)'
  BY <1>1 DEF Ordered
<1> QED BY <1>2 DEF Claimed

\* An executor whose candidates are the same.
LEMMA AccountedStays ==
  ASSUME NEW k \in Jobs, Accounted(k), \A o \in Ordinals : Kept(k, o) => Kept(k, o)',
         ex'[k].guard = "none" <=> ex[k].guard = "none",
         ex'[k].cand = ex[k].cand, ex'[k].buf = ex[k].buf, ex'[k].last = ex[k].last,
         Pos(ex'[k]) = "summary" => Pos(ex[k]) = "summary" /\ ex'[k].results = <<>>,
         Pos(ex'[k]) \in {"loop", "lock"} => Pos(ex[k]) \in {"loop", "lock"}
  PROVE  Accounted(k)'
  BY DEF Accounted

LEMMA AccountedNone ==
  ASSUME NEW k \in Jobs, ex'[k] = NoExecutor
  PROVE  Accounted(k)'
<1>1. /\ NoExecutor.guard = "none" /\ NoExecutor.last = None /\ NoExecutor.cand = None
      /\ Pos(NoExecutor) = "none"
  BY DEF NoExecutor, Pos
<1> QED BY <1>1 DEF Accounted

\* How the queue moves.
LEMMA StaysMoved ==
  ASSUME TypeInv, NEW d \in {0, 1}, Len(wq') \in Nat, Len(wq') >= Len(wq) - d,
         \A m \in 1..(Len(wq) - d) :
           wq'[m].job = wq[m + d].job /\ wq'[m].write = wq[m + d].write
  PROVE  \A k \in Jobs : Stays(k, d)
<1>1. Len(wq) \in Nat
  BY DEF TypeInv, TypeWq
<1>2. ASSUME NEW n \in 1..Len(wq), n # d
      PROVE  /\ n - d \in 1..(Len(wq) - d) /\ n - d \in 1..Len(wq') /\ (n - d) + d = n
  BY <1>1, <1>2
<1>3. ASSUME NEW k \in Jobs, NEW n \in 1..Len(wq), wq[n].job = k, n # d
      PROVE  \E m \in 1..Len(wq') : m + d = n /\ wq'[m].job = k /\ wq'[m].write = wq[n].write
  <2>1. PICK m \in 1..(Len(wq) - d) : m \in 1..Len(wq') /\ m + d = n
    BY <1>2, <1>3
  <2> QED BY <1>3, <2>1
<1> QED BY <1>3 DEF Stays

LEMMA StaysSame ==
  ASSUME TypeInv, wq' = wq
  PROVE  \A k \in Jobs : Stays(k, 0)
<1>1. Len(wq) \in Nat
  BY DEF TypeInv, TypeWq
<1>2. Len(wq') \in Nat /\ Len(wq') >= Len(wq) - 0 /\ \A m \in 1..(Len(wq) - 0) : m + 0 = m
  BY <1>1
<1> QED BY <1>2, StaysMoved

LEMMA StaysAppend ==
  ASSUME TypeInv, NEW en, wq' = Append(wq, en)
  PROVE  \A k \in Jobs : Stays(k, 0)
<1>1. wq \in Seq(Entries) /\ Len(wq) \in Nat
  BY DEF TypeInv, TypeWq
<1>2. Len(wq') = Len(wq) + 1 /\ \A m \in 1..Len(wq) : wq'[m] = wq[m]
  BY <1>1
<1>3. /\ Len(wq') \in Nat /\ Len(wq') >= Len(wq) - 0
      /\ \A m \in 1..(Len(wq) - 0) : m \in 1..Len(wq) /\ m + 0 = m
  BY <1>1, <1>2
<1> QED BY <1>2, <1>3, StaysMoved

LEMMA StaysTail ==
  ASSUME TypeInv, wq # <<>>, wq' = Tail(wq) \/ \E en : wq' = Append(Tail(wq), en)
  PROVE  \A k \in Jobs : Stays(k, 1)
<1>1. /\ Tail(wq) \in Seq(Entries) /\ Len(wq) \in Nat /\ Len(Tail(wq)) = Len(wq) - 1
      /\ \A i \in 1..Len(Tail(wq)) : Tail(wq)[i] = wq[i + 1]
      /\ 1 \in 1..Len(wq)
  BY Tails
<1>2. Len(wq) - 1 \in Nat /\ Len(wq) >= Len(wq) - 1 /\ Len(wq) - 1 >= Len(wq) - 1
  BY <1>1
<1>3. CASE wq' = Tail(wq)
  BY <1>1, <1>2, <1>3, StaysMoved
<1>4. ASSUME NEW en, wq' = Append(Tail(wq), en) PROVE \A k \in Jobs : Stays(k, 1)
  <2>2. PICK t \in Seq(Entries) : t = Tail(wq)
    BY <1>1
  <2>3. Len(wq') = Len(t) + 1 /\ \A m \in 1..Len(t) : wq'[m] = t[m]
    BY <1>4, <2>2
  <2>4. (Len(wq) - 1) + 1 = Len(wq)
    BY <1>1
  <2>1. Len(wq') = Len(wq) /\ \A m \in 1..(Len(wq) - 1) : wq'[m] = wq[m + 1]
    BY <1>1, <2>2, <2>3, <2>4
  <2> QED BY <1>1, <1>2, <2>1, StaysMoved
<1> QED BY <1>3, <1>4

LEMMA StaysOrphans ==
  ASSUME TypeInv, NEW j \in Jobs, wq' = Orphaned(j)
  PROVE  \A k \in Jobs : Stays(k, 0)
<1>1. Len(wq) \in Nat
  BY DEF TypeInv, TypeWq
<1>2. /\ Len(wq') = Len(wq)
      /\ \A i \in 1..Len(wq) : wq'[i].job = wq[i].job /\ wq'[i].write = wq[i].write
  BY OrphanedType
<1>3. /\ Len(wq') \in Nat /\ Len(wq') >= Len(wq) - 0
      /\ \A m \in 1..(Len(wq) - 0) : m \in 1..Len(wq) /\ m + 0 = m
  BY <1>1, <1>2
<1> QED BY <1>2, <1>3, StaysMoved

LEMMA StaysDies ==
  ASSUME TypeInv, wq # <<>>, NEW j \in Jobs, RunDies(j)
  PROVE  \A k \in Jobs : Stays(k, 1)
<1>1. CASE wq' = Tail(wq)
  BY <1>1, StaysTail
<1>2. CASE wq' # Tail(wq)
  <2>1. /\ Len(wq') = Len(wq) - 1
        /\ \A i \in 1..(Len(wq) - 1) :
             wq'[i].job = wq[i + 1].job /\ wq'[i].write = wq[i + 1].write
    BY <1>2 DEF RunDies
  <2>2. Len(wq) - 1 \in Nat /\ Len(wq) - 1 >= Len(wq) - 1
    BY Tails
  <2> QED BY <2>1, <2>2, StaysMoved
<1> QED BY <1>1, <1>2

\* A queue that nobody waits for any more.
LEMMA StaysNobody ==
  ASSUME TypeInv, wq' = [i \in 1..Len(wq) |-> [wq[i] EXCEPT !.by = "nobody"]]
  PROVE  \A k \in Jobs : Stays(k, 0) /\ Ordered(k, 0)
<1>1. wq \in Seq(Entries) /\ Len(wq) \in Nat /\ \A i \in 1..Len(wq) : wq[i] \in Entries
  BY DEF TypeInv, TypeWq
<1>2. Len(wq') = Len(wq)
  BY <1>1
<1>3. \A i \in 1..Len(wq) : /\ wq'[i].job = wq[i].job /\ wq'[i].write = wq[i].write
                            /\ wq'[i].by = "nobody"
  BY <1>1 DEF Entries
<1>4. /\ Len(wq') \in Nat /\ Len(wq') >= Len(wq) - 0
      /\ \A m \in 1..(Len(wq) - 0) : m \in 1..Len(wq) /\ m + 0 = m
      /\ \A m \in 1..Len(wq) : m + 0 = m
  BY <1>1, <1>2
<1>5. \A k \in Jobs : Stays(k, 0)
  BY <1>3, <1>4, StaysMoved
<1> QED BY <1>2, <1>3, <1>4, <1>5 DEF Ordered, Moved

LEMMA OrderedShifted ==
  ASSUME NEW k \in Jobs, NEW d \in {0, 1}, Shifted(k, d)
  PROVE  Ordered(k, d)
  BY DEF Ordered, Shifted

LEMMA OrderedJoined ==
  ASSUME NEW k \in Jobs, NEW d \in {0, 1}, NEW en, Joined(k, d, en), NEW n, n = Len(wq'),
         ~Claim(en.write) \/ \A o \in Ordinals : Settled(k, o)' \/ Ahead(n, k, o)'
  PROVE  Ordered(k, d)
<1>1. \A i \in 1..Len(wq') : i \in 1..(Len(wq') - 1) \/ i = n
  BY LastOrEarlier DEF Joined
<1>2. wq'[n] = en /\ \A i \in 1..(Len(wq') - 1) : wq'[i].job = k => Moved(i, k, d)
  BY DEF Joined
<1> QED BY <1>1, <1>2 DEF Ordered

LEMMA NoAnswer == \A k \in Jobs : Answers(k, 0)
<1>1. 0 # 1
  OBVIOUS
<1> QED BY <1>1 DEF Answers

LEMMA HeadAnswered ==
  ASSUME TypeInv, MainInv, RetryInv, WriteCommits \/ WriteFails, NEW k \in Jobs
  PROVE  Answers(k, 1)
<1>1. SUFFICES ASSUME NEW o \in Ordinals, ItemsOf(1, k), Reports(wq[1].write.updates, o)
               PROVE  Settled(k, o)'
  BY DEF Answers
<1>2. CASE WriteCommits
  <2>1. wq # <<>> /\ wq[1].job = k /\ Commit(k, wq[1].write)
    BY <1>1, <1>2, CommitStep DEF ItemsOf
  <2>2. item'[k][o] \in Done
    BY <1>1, <2>1, CommitSettles
  <2> QED BY <2>2 DEF Settled
<1>3. CASE WriteFails
  <2>1. lost' = lost \cup LostBy(wq[1])
    BY <1>3, FailStep
  <2>2. PICK i \in 1..Len(wq[1].write.updates) : wq[1].write.updates[i].ordinal = o
    BY <1>1 DEF Reports
  <2>3. [job |-> k, ordinal |-> o] \in LostBy(wq[1])
    BY <1>1, <2>2 DEF LostBy, ItemsOf
  <2> QED BY <2>1, <2>3 DEF Settled
<1> QED BY <1>2, <1>3

\* A row is called completed by a write that comes after all the results.
LEMMA RowSettled ==
  ASSUME TypeInv, MainInv, RetryInv, CompleteInv, [Next]_vars, NEW k \in Jobs,
         row'[k].state \in Claims
  PROVE  \A o \in Ordinals : Settled(k, o)'
<1>0. /\ row \in [Jobs -> [state : JobStates, until : Nat, action : Actions \cup {"none"},
                           failed : Nat]]
      /\ Claimed(k)
  BY DEF TypeInv, TypeDb, CompleteInv
<1>1. CASE row[k].state \in Claims
  BY <1>0, <1>1, SettledStays DEF Claimed
<1>2. CASE row[k].state \notin Claims /\ WriteCommits
  <2>1. PICK j \in Jobs : j = wq[1].job
    BY <1>2, CommitStep
  <2>2. PICK w \in Writes : w = wq[1].write
    BY <1>2, CommitStep, HeadJob
  <2>3. wq # <<>> /\ Commit(j, w) /\ 1 \in 1..Len(wq)
    BY <1>2, <2>1, <2>2, CommitStep, Tails
  <2>4. w.kind = "job" /\ k = j /\ w.state \in Claims
    <3>1. w.kind \in {"job", "account", "pauseAccount", "restriction", "retry", "items"}
      BY DEF Writes, PlainWrites, ItemWrites
    <3>2. CASE w.kind \in {"account", "pauseAccount", "restriction", "retry"}
      <4>1. row' = row
        BY <2>3, <3>2 DEF Commit
      <4> QED BY <1>2, <4>1
    <3>3. CASE w.kind = "items"
      <4>1. PICK n : row' = [row EXCEPT ![j].failed = n, ![j].action = "none"]
        BY <2>3, <3>3 DEF Commit
      <4>2. row'[k].state = row[k].state
        BY <1>0, <4>1
      <4> QED BY <1>2, <4>2
    <3>4. CASE w.kind = "job"
      <4>1. PICK u, a : row' = [row EXCEPT ![j].state = w.state, ![j].until = u, ![j].action = a]
        BY <2>3, <3>4 DEF Commit
      <4>2. row'[k].state = IF k = j THEN w.state ELSE row[k].state
        BY <1>0, <4>1
      <4> QED BY <1>2, <3>4, <4>2
    <3> QED BY <3>1, <3>2, <3>3, <3>4
  <2>5. \A o \in Ordinals : Settled(k, o) \/ Ahead(1, k, o)
    BY <1>0, <2>1, <2>2, <2>3, <2>4 DEF Claimed, Claim
  <2>6. \A o : ~Ahead(1, k, o)
    BY DEF Ahead
  <2> QED BY <2>5, <2>6, SettledStays
<1>3. CASE row[k].state \notin Claims /\ ~WriteCommits
  <2>1. CASE UNCHANGED vars
    BY <1>3, <2>1 DEF vars, dbVars
  <2>2. CASE WriteFails
    BY <1>3, <2>2, FailStep DEF dbVars
  <2>3. CASE Tick \/ Close \/ Quit \/ Crash
    BY <1>3, <2>3 DEF Tick, Close, Quit, Crash, dbVars
  <2>4. CASE Restart
    <3>1. row'[k] = Normalized(row[k])
      BY <2>4 DEF Restart
    <3>2. row[k] \in [state : JobStates, until : Nat, action : Actions \cup {"none"}, failed : Nat]
      BY <1>0
    <3>3. row'[k].state \in {row[k].state, "PAUSED"}
      BY <3>1, <3>2 DEF Normalized
    <3> QED BY <1>3, <3>3 DEF Claims
  <2>5. ASSUME NEW j \in Jobs, Launch(j) \/ AwaitStep(j) PROVE row' = row
    BY <2>5, LaunchType, AwaitSteps DEF dbVars
  <2>6. ASSUME NEW j \in Jobs, SimpleStep(j) \/ Prime(j) \/ PopCandidate(j) PROVE row' = row
    BY <2>6, SimpleSteps, PrimeStep, PopStep DEF dbVars
  <2>7. ASSUME NEW j \in Jobs, FinishStep(j) \/ DelayedFlush(j) PROVE row' = row
    BY <2>7, FinishSteps, FlushStep DEF dbVars
  <2>8. ASSUME NEW j \in Jobs, NEW st \in Done, RecordStep(j, st) PROVE row' = row
    BY <2>8, RecordSteps DEF dbVars
  <2>9. ASSUME NEW j \in Jobs, PrimeFails(j) \/ ReadFails(j) PROVE row' = row
    BY <2>9, PrimeFailStep, ReadFailStep DEF dbVars
  <2> QED BY <1>3, <2>1, <2>2, <2>3, <2>4, <2>5, <2>6, <2>7, <2>8, <2>9, StepKinds DEF ProcessStep
<1> QED BY <1>1, <1>2, <1>3

\* A result stays known while it goes from the buffer to DBWriter.
LEMMA KeptStays ==
  ASSUME TypeInv, MainInv, RetryInv, [Next]_vars, NEW k \in Jobs, NEW d \in {0, 1},
         Stays(k, d), Answers(k, d), NEW o \in Ordinals,
         Reports(ex[k].results, o) => Waiting(k, o)', Kept(k, o)
  PROVE  Kept(k, o)'
  BY SettledStays, QueuedStays DEF Kept, Waiting

LEMMA SameResults ==
  ASSUME NEW k \in Jobs, ex'[k].results = ex[k].results, NEW o, Reports(ex[k].results, o)
  PROVE  Waiting(k, o)'
  BY DEF Waiting, Reports

LEMMA ResultsSent ==
  ASSUME NEW j \in Jobs, NEW d, NEW by, NEW r, Joined(j, d, Entry(j, by, ItemsWrite(r))),
         NEW o, Reports(r, o)
  PROVE  Waiting(j, o)'
<1>1. /\ Len(wq') \in 1..Len(wq')
      /\ wq'[Len(wq')] = Entry(j, by, ItemsWrite(r))
  BY DEF Joined
<1>2. /\ wq'[Len(wq')].job = j /\ wq'[Len(wq')].write.kind = "items"
      /\ wq'[Len(wq')].write.updates = r
  BY <1>1 DEF Entry, ItemsWrite
<1> QED BY <1>1, <1>2 DEF Waiting, Queued, Reports

LEMMA AwaitedForward ==
  ASSUME TypeInv, NEW j \in Jobs, NEW e, NEW f, NEW then, Awaited(j, e, f, then), NEW o,
         Reports(e.results, o)
  PROVE  Waiting(j, o)'
<1>0. ex'[j] = f
  BY DEF Awaited, TypeInv, TypeEx
<1>1. CASE f.results = e.results
  BY <1>0, <1>1 DEF Waiting, Reports
<1>2. CASE f.results # e.results
  <2>1. wq' = Append(wq, Entry(j, "main", ItemsWrite(e.results)))
    BY <1>2 DEF Awaited
  <2>2. Joined(j, 0, Entry(j, "main", ItemsWrite(e.results)))
    BY <2>1, QueueAppend DEF Entry
  <2> QED BY <2>2, ResultsSent
<1> QED BY <1>1, <1>2

LEMMA JobClaimed ==
  ASSUME TypeInv, MainInv, RetryInv, CompleteInv, [Next]_vars, NEW k \in Jobs, NEW d \in {0, 1},
         Stays(k, d), Answers(k, d), Ordered(k, d)
  PROVE  Claimed(k)'
<1>1. Claimed(k)
  BY DEF CompleteInv
<1>2. \A o \in Ordinals : Settled(k, o) => Settled(k, o)'
  BY SettledStays
<1>3. row'[k].state \in Claims => \A o \in Ordinals : Settled(k, o)'
  BY RowSettled
<1> QED BY <1>1, <1>2, <1>3, ClaimedStays

\* An executor that goes on with the same candidates and results.
LEMMA JobSame ==
  ASSUME TypeInv, MainInv, RetryInv, CompleteInv, [Next]_vars, NEW k \in Jobs, NEW d \in {0, 1},
         Stays(k, d), Answers(k, d), Ordered(k, d),
         ex'[k].guard = ex[k].guard, ex'[k].cand = ex[k].cand, ex'[k].buf = ex[k].buf,
         ex'[k].last = ex[k].last, ex'[k].results = ex[k].results, Pos(ex'[k]) = Pos(ex[k])
  PROVE  Claimed(k)' /\ Accounted(k)'
<1>1. Accounted(k)
  BY DEF CompleteInv
<1>2. \A o \in Ordinals : Kept(k, o) => Kept(k, o)'
  BY KeptStays, SameResults
<1>3. Pos(ex[k]) = "summary" => ex'[k].results = <<>>
  BY <1>1 DEF Accounted
<1>4. Accounted(k)'
  BY <1>1, <1>2, <1>3, AccountedStays
<1> QED BY <1>4, JobClaimed

LEMMA CompleteStep ==
  ASSUME TypeInv, MainInv, RetryInv, CompleteInv, [Next]_vars, NEW j \in Jobs, NEW d \in {0, 1},
         \A k \in Jobs : Stays(k, d) /\ Answers(k, d) /\ Ordered(k, d),
         \A k \in Jobs \ {j} : ex'[k] = ex[k], Accounted(j)'
  PROVE  CompleteInv'
<1>1. Claimed(j)'
  BY JobClaimed
<1>2. ASSUME NEW k \in Jobs \ {j} PROVE Claimed(k)' /\ Accounted(k)'
  BY JobSame
<1> QED BY <1>1, <1>2 DEF CompleteInv

-----------------------------------------------------------------------------

LEMMA OrderedEntry ==
  ASSUME NEW j \in Jobs, NEW d \in {0, 1}, NEW by, NEW w, Joined(j, d, Entry(j, by, w)),
         \A k \in Jobs \ {j} : Shifted(k, d), NEW n, n = Len(wq'),
         ~Claim(w) \/ \A o \in Ordinals : Settled(j, o)' \/ Ahead(n, j, o)'
  PROVE  \A k \in Jobs : Ordered(k, d)
<1>1. PICK en : en = Entry(j, by, w) /\ en.write = w
  BY DEF Entry
<1>2. Ordered(j, d)
  BY <1>1, OrderedJoined
<1>3. \A k \in Jobs \ {j} : Ordered(k, d)
  BY OrderedShifted
<1> QED BY <1>2, <1>3

LEMMA LaunchComplete ==
  ASSUME TypeInv, MainInv, FreshInv, RetryInv, CompleteInv, [Next]_vars, NEW j \in Jobs,
         ~Live(j), Launch(j)
  PROVE  CompleteInv'
<1>1. Begins(j) /\ Pos(ex'[j]) = "prime" /\ ex'[j].last = None
  BY LaunchBegins
<1>2. PICK w : wq' = Append(wq, Entry(j, "main", w)) /\ w = JobWrite("RUNNING", Keep, FALSE)
  BY LaunchEntry
<1>3. Early(ex'[j]) /\ ex'[j].guard = "none"
  BY LaunchEntry
<1>4. ~Claim(w)
  BY <1>2 DEF Claim, Claims, JobWrite
<1>5. Joined(j, 0, Entry(j, "main", w)) /\ \A k \in Jobs \ {j} : Shifted(k, 0)
  BY <1>2, QueueAppend DEF Entry
<1>6. \A k \in Jobs : Ordered(k, 0)
  BY <1>4, <1>5, OrderedEntry
<1>7. Accounted(j)'
  BY <1>1, <1>3 DEF Accounted
<1>8. \A k \in Jobs \ {j} : ex'[k] = ex[k]
  BY <1>1 DEF Begins
<1> QED BY <1>2, <1>6, <1>7, <1>8, StaysAppend, NoAnswer, CompleteStep

\* The summary is read when every candidate has its result.
LEMMA SummaryReached ==
  ASSUME TypeInv, FreshInv, CompleteInv, NEW j \in Jobs, NoCandidate(j), NEW o \in Ordinals
  PROVE  Kept(j, o)
<1>1. /\ ex[j].pc = "loop" /\ ex[j].buf = {} /\ PendingAfter(j, ex[j].last) = {}
  BY DEF NoCandidate
<1>2. Pos(ex[j]) = "loop" /\ Accounted(j) /\ Fresh(j)
  BY <1>1 DEF Pos, CompleteInv, FreshInv
<1>3. ex[j].cand = None /\ None \notin Ordinals /\ Ordinals \subseteq Nat
  BY <1>2, OrdinalNumbers DEF Accounted
<1>4. ex[j].guard # "none"
  BY <1>2 DEF Fresh, Early
<1>5. CASE o <= ex[j].last
  <2>1. o \notin ex[j].buf /\ o # ex[j].cand
    BY <1>1, <1>3
  <2> QED BY <1>2, <1>4, <1>5, <2>1 DEF Accounted
<1>6. CASE ~(o <= ex[j].last)
  <2>1. ex[j].last \in Nat /\ o \in Nat
    BY <1>3 DEF TypeInv, TypeEx, Executors
  <2>2. o > ex[j].last
    BY <1>6, <2>1
  <2>3. item[j][o] \in ItemStates /\ item[j][o] \notin {"READY", "RETRY"}
    BY <1>1, <2>2 DEF PendingAfter, TypeInv, TypeDb
  <2> QED BY <2>3 DEF Kept, Settled, ItemStates
<1> QED BY <1>5, <1>6

\* The first write of a series is claim enough only when every result is known.
LEMMA BeginsOrdered ==
  ASSUME TypeInv, MainInv, RetryInv, CompleteInv, [Next]_vars, NEW j \in Jobs, Begins(j)
  PROVE  \A k \in Jobs : Ordered(k, 0)
<1>0. Accounted(j)
  BY DEF CompleteInv
<1>1. CASE wq' = wq
  BY <1>1, QueueSame, OrderedShifted
<1>2. ASSUME NEW w \in Writes, wq' = Append(wq, Entry(j, "main", w)),
             Claim(w) => ex[j].pc = "summary"
      PROVE  \A k \in Jobs : Ordered(k, 0)
  <2>1. Joined(j, 0, Entry(j, "main", w)) /\ \A k \in Jobs \ {j} : Shifted(k, 0)
    BY <1>2, QueueAppend DEF Entry
  <2>2. PICK n : n = Len(wq')
    OBVIOUS
  <2>3. ASSUME Claim(w), NEW o \in Ordinals PROVE Settled(j, o)' \/ Ahead(n, j, o)'
    <3>1. Pos(ex[j]) = "summary"
      BY <1>2, <2>3 DEF Pos
    <3>2. ex[j].results = <<>> /\ Kept(j, o)
      BY <1>0, <3>1 DEF Accounted
    <3>3. Settled(j, o) \/ Queued(j, o)
      BY <3>2, EmptyReports DEF Kept, Waiting
    <3>4. CASE Settled(j, o)
      BY <3>4, SettledStays
    <3>5. CASE Queued(j, o)
      <4>1. PICK i \in 1..Len(wq) : ItemsOf(i, j) /\ Reports(wq[i].write.updates, o)
        BY <3>5 DEF Queued, ItemsOf
      <4>2. wq \in Seq(Entries) /\ Len(wq) \in Nat
        BY DEF TypeInv, TypeWq
      <4>3. n = Len(wq) + 1 /\ wq'[i] = wq[i]
        BY <1>2, <2>2, <4>2
      <4>4. i \in 1..Len(wq') /\ i < n
        BY <2>2, <4>2, <4>3
      <4> QED BY <4>1, <4>3, <4>4 DEF Ahead, ItemsOf, Reports
    <3> QED BY <3>3, <3>4, <3>5
  <2> QED BY <2>1, <2>2, <2>3, OrderedEntry
<1> QED BY <1>1, <1>2 DEF Begins

LEMMA AwaitComplete ==
  ASSUME TypeInv, MainInv, FreshInv, OweInv, RetryInv, CompleteInv, [Next]_vars,
         NEW j \in Jobs, AwaitStep(j)
  PROVE  CompleteInv'
<1>1. PICK f \in Executors, then \in Places \ {"none"} :
        Awaited(j, ex[j], f, then) /\ <<ex[j].pc, then>> \in Moves
  BY AwaitSteps
<1>2. /\ Begins(j) /\ (Pos(ex'[j]) = "summary" => NoCandidate(j) /\ ex'[j].results = <<>>)
  BY AwaitBegins
<1>3. /\ ex'[j] = f /\ Pos(f) = then /\ f.guard = ex[j].guard /\ f.cand = ex[j].cand
      /\ f.buf = ex[j].buf /\ f.last = ex[j].last
  BY <1>1 DEF Awaited, TypeInv, TypeEx
<1>4. Accounted(j) /\ then \notin {"loop", "lock"}
  BY <1>1 DEF CompleteInv, Moves
<1>5. \A k \in Jobs : Stays(k, 0) /\ Answers(k, 0)
  BY <1>2, StaysSame, StaysAppend, NoAnswer DEF Begins
<1>6. \A o \in Ordinals : Kept(j, o) => Kept(j, o)'
  <2>1. \A o : Reports(ex[j].results, o) => Waiting(j, o)'
    BY <1>1, AwaitedForward
  <2> QED BY <1>5, <2>1, KeptStays
<1>7. Accounted(j)'
  <2>1. then = "summary" => /\ ex'[j].results = <<>> /\ ex'[j].cand = None
                            /\ \A o \in Ordinals : Kept(j, o)'
    <3>1. SUFFICES ASSUME then = "summary"
                   PROVE  /\ ex'[j].results = <<>> /\ ex'[j].cand = None
                          /\ \A o \in Ordinals : Kept(j, o)'
      OBVIOUS
    <3>2. NoCandidate(j) /\ ex'[j].results = <<>>
      BY <1>2, <1>3, <3>1
    <3>3. Pos(ex[j]) = "loop"
      BY <3>2 DEF NoCandidate, Pos
    <3>4. ex[j].cand = None
      BY <1>4, <3>3 DEF Accounted
    <3>5. \A o \in Ordinals : Kept(j, o)'
      BY <1>6, <3>2, SummaryReached
    <3> QED BY <1>3, <3>2, <3>4, <3>5
  <2> QED BY <1>3, <1>4, <1>6, <2>1 DEF Accounted
<1>8. \A k \in Jobs : Ordered(k, 0)
  BY <1>2, BeginsOrdered
<1>9. \A k \in Jobs \ {j} : ex'[k] = ex[k]
  BY <1>2 DEF Begins
<1> QED BY <1>5, <1>7, <1>8, <1>9, CompleteStep

\* A step of j that leaves the queue alone.
LEMMA SameQueueComplete ==
  ASSUME TypeInv, MainInv, RetryInv, CompleteInv, [Next]_vars, NEW j \in Jobs, wq' = wq,
         \A k \in Jobs \ {j} : ex'[k] = ex[k], ex'[j].results = ex[j].results,
         (\A o \in Ordinals : Kept(j, o) => Kept(j, o)') => Accounted(j)'
  PROVE  CompleteInv'
<1>1. \A k \in Jobs : Stays(k, 0) /\ Answers(k, 0) /\ Ordered(k, 0)
  BY StaysSame, NoAnswer, QueueSame, OrderedShifted
<1>2. \A o \in Ordinals : Kept(j, o) => Kept(j, o)'
  BY <1>1, KeptStays, SameResults
<1> QED BY <1>1, <1>2, CompleteStep

LEMMA SimpleComplete ==
  ASSUME TypeInv, MainInv, RetryInv, CompleteInv, [Next]_vars, NEW j \in Jobs, SimpleStep(j)
  PROVE  CompleteInv'
<1>1. PICK f \in Executors : Simple(j, f)
  BY SimpleSteps
<1>2. wq' = wq
  BY SimpleSteps
<1>3. ex'[j] = f /\ \A k \in Jobs \ {j} : ex'[k] = ex[k]
  BY <1>1 DEF Simple, TypeInv, TypeEx
<1>4. SameWork(ex[j], f)
  BY <1>1 DEF Simple
<1>5. /\ Pos(f) = "summary" => Pos(ex[j]) = "summary"
      /\ Pos(f) \in {"loop", "lock"} => Pos(ex[j]) \in {"loop", "lock"}
  BY <1>1 DEF Simple, Pos
<1>6. Accounted(j)
  BY DEF CompleteInv
<1>7. (\A o \in Ordinals : Kept(j, o) => Kept(j, o)') => Accounted(j)'
  <2>1. Pos(ex[j]) = "summary" => ex[j].results = <<>>
    BY <1>6 DEF Accounted
  <2> QED BY <1>3, <1>4, <1>5, <1>6, <2>1, AccountedStays DEF SameWork
<1> QED BY <1>2, <1>3, <1>4, <1>7, SameQueueComplete DEF SameWork

LEMMA PrimeComplete ==
  ASSUME TypeInv, MainInv, FreshInv, RetryInv, CompleteInv, [Next]_vars, NEW j \in Jobs, Prime(j)
  PROVE  CompleteInv'
<1>1. PICK f \in Executors :
        /\ ex' = [ex EXCEPT ![j] = f] /\ f.pc = "lock" /\ f.guard = "body"
        /\ f.cand = ex[j].cand /\ f.results = ex[j].results
        /\ f.buf = PendingAfter(j, ex[j].last)
  BY PrimeStep
<1>2. ex[j].pc = "prime" /\ wq' = wq /\ item' = item
  BY PrimeStep DEF dbVars
<1>3. ex'[j] = f /\ \A k \in Jobs \ {j} : ex'[k] = ex[k]
  BY <1>1 DEF TypeInv, TypeEx
<1>4. ex[j].guard = "none" /\ Early(ex[j])
  BY <1>2 DEF FreshInv, Fresh, Pos
<1>5. ex[j].last = None /\ f.cand = None
  BY <1>1, <1>4 DEF CompleteInv, Accounted, Early
<1>6. \A o \in Ordinals : o \in f.buf \/ Kept(j, o)
  <2>1. \A o \in Ordinals : o > None
    BY OrdinalNumbers DEF None
  <2>2. \A o \in Ordinals : item[j][o] \in ItemStates
    BY DEF TypeInv, TypeDb
  <2>3. \A o \in Ordinals : o \in f.buf \/ item[j][o] \in Done
    BY <1>1, <1>5, <2>1, <2>2 DEF PendingAfter, ItemStates
  <2> QED BY <2>3 DEF Kept, Settled
<1>7. Pos(f) = "lock"
  BY <1>1 DEF Pos
<1>8. (\A o \in Ordinals : Kept(j, o) => Kept(j, o)') => Accounted(j)'
  BY <1>1, <1>3, <1>5, <1>6, <1>7 DEF Accounted
<1> QED BY <1>1, <1>2, <1>3, <1>8, SameQueueComplete

LEMMA PopComplete ==
  ASSUME TypeInv, MainInv, FreshInv, RetryInv, CompleteInv, [Next]_vars, NEW j \in Jobs,
         PopCandidate(j)
  PROVE  CompleteInv'
<1>1. PICK e \in Executors, f \in Executors :
        /\ ex' = [ex EXCEPT ![j] = f] /\ f.pc = "attempt"
        /\ f.guard = ex[j].guard /\ f.results = ex[j].results
        /\ \/ e.buf = ex[j].buf /\ e.last = ex[j].last
           \/ ex[j].buf = {} /\ e.buf = PendingAfter(j, ex[j].last)
        /\ f.cand \in e.buf /\ f.buf = e.buf \ {f.cand} /\ f.last = e.last
  BY PopStep
<1>2. ex[j].pc = "loop" /\ wq' = wq
  BY PopStep
<1>3. ex'[j] = f /\ \A k \in Jobs \ {j} : ex'[k] = ex[k]
  BY <1>1 DEF TypeInv, TypeEx
<1>4. Pos(ex[j]) = "loop" /\ Pos(f) = "attempt" /\ Accounted(j)
  BY <1>1, <1>2 DEF Pos, CompleteInv
<1>5. ex[j].cand = None /\ None \notin Ordinals
  BY <1>4, OrdinalNumbers DEF Accounted
<1>6. ex[j].guard # "none"
  BY <1>4 DEF FreshInv, Fresh, Early
<1>7. \A o \in Ordinals : o <= e.last => o \in e.buf \/ Kept(j, o)
  <2>1. \A o \in Ordinals : o <= ex[j].last => o \in ex[j].buf \/ Kept(j, o)
    BY <1>4, <1>5, <1>6 DEF Accounted
  <2>2. CASE e.buf = ex[j].buf /\ e.last = ex[j].last
    BY <2>1, <2>2
  <2>3. CASE ex[j].buf = {} /\ e.buf = PendingAfter(j, ex[j].last)
    <3>1. ASSUME NEW o \in Ordinals, ~(o <= ex[j].last), o \notin e.buf PROVE Kept(j, o)
      <4>1. ex[j].last \in Nat /\ o \in Nat
        BY OrdinalNumbers DEF TypeInv, TypeEx, Executors
      <4>2. o > ex[j].last
        BY <3>1, <4>1
      <4>3. item[j][o] \in ItemStates /\ item[j][o] \notin {"READY", "RETRY"}
        BY <2>3, <3>1, <4>2 DEF PendingAfter, TypeInv, TypeDb
      <4> QED BY <4>3 DEF Kept, Settled, ItemStates
    <3> QED BY <2>1, <2>3, <3>1
  <2> QED BY <1>1, <2>2, <2>3
<1>8. (\A o \in Ordinals : Kept(j, o) => Kept(j, o)') => Accounted(j)'
  BY <1>1, <1>3, <1>4, <1>6, <1>7 DEF Accounted
<1> QED BY <1>1, <1>2, <1>3, <1>8, SameQueueComplete

LEMMA RecordComplete ==
  ASSUME TypeInv, MainInv, OweInv, RetryInv, CompleteInv, [Next]_vars, NEW j \in Jobs,
         NEW st \in Done, RecordStep(j, st)
  PROVE  CompleteInv'
<1> DEFINE e == Recorded(ex[j], st)
<1>0. ex[j] \in Executors /\ ex[j].cand \in Ordinals
  BY RecordSteps DEF TypeInv, TypeEx
<1>1. PICK f \in Executors : Awaited(j, e, f, "loop")
  BY RecordSteps
<1>2. /\ e.guard = ex[j].guard /\ e.cand = None /\ e.buf = ex[j].buf /\ e.last = ex[j].last
      /\ e.results = Append(ex[j].results, ItemUpdate(ex[j].cand, st))
  BY <1>0 DEF Recorded, Executors
<1>3. \A o : Reports(ex[j].results, o) \/ o = ex[j].cand => Reports(e.results, o)
  <2>1. PICK r \in Seq(Updates), u \in Updates : r = ex[j].results /\ u = ItemUpdate(ex[j].cand, st)
    BY <1>0 DEF Executors, ItemUpdate, Updates
  <2>2. e.results = Append(r, u) /\ u.ordinal = ex[j].cand
    BY <1>2, <2>1 DEF ItemUpdate
  <2>3. /\ \A i \in 1..Len(r) : i \in 1..Len(e.results) /\ e.results[i] = r[i]
        /\ Len(r) + 1 \in 1..Len(e.results) /\ e.results[Len(r) + 1] = u
    BY <2>2
  <2> QED BY <2>1, <2>2, <2>3 DEF Reports
<1> HIDE DEF e
<1>4. Begins(j) /\ Pos(ex'[j]) = "loop" /\ ex[j].pc # "await"
  BY RecordBegins
<1>5. ex'[j] = f /\ f.guard = ex[j].guard /\ f.cand = None /\ f.buf = ex[j].buf
      /\ f.last = ex[j].last
  BY <1>1, <1>2 DEF Awaited, TypeInv, TypeEx
<1>6. \A k \in Jobs : Stays(k, 0) /\ Answers(k, 0)
  BY <1>4, StaysSame, StaysAppend, NoAnswer DEF Begins
<1>7. \A o \in Ordinals : Kept(j, o) \/ o = ex[j].cand => Kept(j, o)'
  <2>1. \A o : Reports(ex[j].results, o) \/ o = ex[j].cand => Waiting(j, o)'
    BY <1>1, <1>3, AwaitedForward
  <2>2. \A o \in Ordinals : Kept(j, o) => Kept(j, o)'
    BY <1>6, <2>1, KeptStays
  <2> QED BY <2>1, <2>2 DEF Kept
<1>8. Accounted(j)'
  BY <1>4, <1>5, <1>7 DEF Accounted, CompleteInv
<1>9. ex[j].pc # "summary"
  BY DEF RecordStep
<1>10. \A k \in Jobs : Ordered(k, 0)
  <2>1. CASE wq' = wq
    BY <2>1, QueueSame, OrderedShifted
  <2>2. ASSUME NEW w \in Writes, wq' = Append(wq, Entry(j, "main", w)), ~Claim(w)
        PROVE  \A k \in Jobs : Ordered(k, 0)
    <3>1. Joined(j, 0, Entry(j, "main", w)) /\ \A k \in Jobs \ {j} : Shifted(k, 0)
      BY <2>2, QueueAppend DEF Entry
    <3> QED BY <2>2, <3>1, OrderedEntry
  <2> QED BY <1>4, <1>9, <2>1, <2>2 DEF Begins
<1>11. \A k \in Jobs \ {j} : ex'[k] = ex[k]
  BY <1>4 DEF Begins
<1> QED BY <1>6, <1>8, <1>10, <1>11, CompleteStep

\* The except block writes the results that are left.
LEMMA ReadFailComplete ==
  ASSUME TypeInv, MainInv, FreshInv, OweInv, RetryInv, CompleteInv, [Next]_vars,
         NEW j \in Jobs, ReadFails(j)
  PROVE  CompleteInv'
<1>1. PICK f \in Executors : Awaited(j, Excepted(ex[j]), f, "exit")
  BY ReadFailStep
<1>2. Begins(j) /\ ex[j].pc \in {"loop", "summary"} /\ ex[j] \in Executors
  BY ReadFailBegins, ReadFailStep DEF TypeInv, TypeEx
<1>3. /\ Excepted(ex[j]).guard = "except" /\ Excepted(ex[j]).cand = ex[j].cand
      /\ Excepted(ex[j]).buf = ex[j].buf /\ Excepted(ex[j]).last = ex[j].last
      /\ Excepted(ex[j]).results = ex[j].results
  BY <1>2, ExceptedType
<1>4. /\ ex'[j] = f /\ Pos(f) = "exit" /\ f.guard = "except" /\ f.cand = ex[j].cand
      /\ f.buf = ex[j].buf /\ f.last = ex[j].last
  BY <1>1, <1>3 DEF Awaited, TypeInv, TypeEx
<1>5. Accounted(j) /\ ex[j].guard # "none"
  BY <1>2 DEF CompleteInv, FreshInv, Fresh, Early, Pos
<1>6. \A k \in Jobs : Stays(k, 0) /\ Answers(k, 0) /\ Ordered(k, 0)
  BY <1>2, StaysSame, StaysAppend, NoAnswer, BeginsOrdered DEF Begins
<1>7. \A o \in Ordinals : Kept(j, o) => Kept(j, o)'
  <2>1. \A o : Reports(ex[j].results, o) => Waiting(j, o)'
    BY <1>1, <1>3, AwaitedForward
  <2> QED BY <1>6, <2>1, KeptStays
<1>8. Accounted(j)'
  BY <1>4, <1>5, <1>7 DEF Accounted
<1>9. \A k \in Jobs \ {j} : ex'[k] = ex[k]
  BY <1>2 DEF Begins
<1> QED BY <1>6, <1>8, <1>9, CompleteStep

LEMMA PrimeFailComplete ==
  ASSUME TypeInv, MainInv, RetryInv, CompleteInv, [Next]_vars, NEW j \in Jobs, PrimeFails(j)
  PROVE  CompleteInv'
<1>1. ex' = [ex EXCEPT ![j] = NoExecutor] /\ wq' = wq
  BY PrimeFailStep
<1>2. ex'[j] = NoExecutor /\ \A k \in Jobs \ {j} : ex'[k] = ex[k]
  BY <1>1 DEF TypeInv, TypeEx
<1>3. \A k \in Jobs : Stays(k, 0) /\ Answers(k, 0) /\ Ordered(k, 0)
  BY <1>1, StaysSame, NoAnswer, QueueSame, OrderedShifted
<1> QED BY <1>2, <1>3, AccountedNone, CompleteStep

LEMMA FinishComplete ==
  ASSUME TypeInv, MainInv, RetryInv, CompleteInv, [Next]_vars, NEW j \in Jobs, FinishStep(j)
  PROVE  CompleteInv'
<1>1. ex' = [ex EXCEPT ![j] = NoExecutor] /\ wq' = Orphaned(j)
  BY FinishSteps
<1>2. ex'[j] = NoExecutor /\ \A k \in Jobs \ {j} : ex'[k] = ex[k]
  BY <1>1 DEF TypeInv, TypeEx
<1>3. \A k \in Jobs : Stays(k, 0) /\ Answers(k, 0) /\ Ordered(k, 0)
  BY <1>1, StaysOrphans, NoAnswer, QueueOrphans, OrderedShifted
<1> QED BY <1>2, <1>3, AccountedNone, CompleteStep

LEMMA FlushComplete ==
  ASSUME TypeInv, MainInv, RetryInv, CompleteInv, [Next]_vars, NEW j \in Jobs, DelayedFlush(j)
  PROVE  CompleteInv'
<1>1. PICK f \in Executors :
        /\ ex' = [ex EXCEPT ![j] = f] /\ f.pc = ex[j].pc /\ f.then = ex[j].then
        /\ f.guard = ex[j].guard /\ f.cand = ex[j].cand /\ f.buf = ex[j].buf
        /\ f.last = ex[j].last /\ f.results = <<>>
        /\ \/ wq' = wq /\ ex[j].results = <<>>
           \/ wq' = Append(wq, Entry(j, "flusher", ItemsWrite(ex[j].results)))
  BY FlushStep
<1>2. ex'[j] = f /\ \A k \in Jobs \ {j} : ex'[k] = ex[k]
  BY <1>1 DEF TypeInv, TypeEx
<1>3. Pos(f) = Pos(ex[j]) /\ Accounted(j)
  BY <1>1 DEF Pos, CompleteInv
<1>4. \A k \in Jobs : Stays(k, 0) /\ Answers(k, 0)
  BY <1>1, StaysSame, StaysAppend, NoAnswer
<1>5. /\ \A k \in Jobs : Ordered(k, 0)
      /\ \A o : Reports(ex[j].results, o) => Waiting(j, o)'
  <2>1. CASE wq' = wq /\ ex[j].results = <<>>
    BY <2>1, QueueSame, OrderedShifted, EmptyReports
  <2>2. CASE wq' = Append(wq, Entry(j, "flusher", ItemsWrite(ex[j].results)))
    <3>0. ItemsWrite(ex[j].results).kind = "items"
      BY DEF ItemsWrite
    <3>1. PICK w : w = ItemsWrite(ex[j].results) /\ ~Claim(w)
      BY <3>0 DEF Claim
    <3>2. Joined(j, 0, Entry(j, "flusher", w)) /\ \A k \in Jobs \ {j} : Shifted(k, 0)
      BY <2>2, <3>1, QueueAppend DEF Entry
    <3>3. \A k \in Jobs : Ordered(k, 0)
      BY <3>1, <3>2, OrderedEntry
    <3> QED BY <3>1, <3>2, <3>3, ResultsSent
  <2> QED BY <1>1, <2>1, <2>2
<1>6. \A o \in Ordinals : Kept(j, o) => Kept(j, o)'
  BY <1>4, <1>5, KeptStays
<1>7. Accounted(j)'
  BY <1>1, <1>2, <1>3, <1>6, AccountedStays
<1> QED BY <1>2, <1>4, <1>5, <1>7, CompleteStep

\* The oldest write is answered, and the one that waited has no claim to send.
LEMMA AnswerComplete ==
  ASSUME TypeInv, MainInv, RetryInv, CompleteInv, [Next]_vars, WriteCommits \/ WriteFails,
         NEW j \in Jobs, NEW f, ex' = [ex EXCEPT ![j] = f], wq # <<>>,
         \/ wq' = Tail(wq)
         \/ \E w \in Writes : wq' = Append(Tail(wq), Entry(j, "main", w)) /\ ~Claim(w),
         SameItems(ex[j], f), Pos(f) = Pos(ex[j])
  PROVE  CompleteInv'
<1>1. ex'[j] = f /\ \A k \in Jobs \ {j} : ex'[k] = ex[k]
  BY DEF TypeInv, TypeEx
<1>2. \A k \in Jobs : Stays(k, 1) /\ Answers(k, 1)
  BY StaysTail, HeadAnswered
<1>3. \A k \in Jobs : Ordered(k, 1)
  <2>1. CASE wq' = Tail(wq)
    BY <2>1, QueueTail, OrderedShifted
  <2>2. ASSUME NEW w \in Writes, wq' = Append(Tail(wq), Entry(j, "main", w)), ~Claim(w)
        PROVE  \A k \in Jobs : Ordered(k, 1)
    <3>1. Joined(j, 1, Entry(j, "main", w)) /\ \A k \in Jobs \ {j} : Shifted(k, 1)
      BY <2>2, QueueNext DEF Entry
    <3> QED BY <2>2, <3>1, OrderedEntry
  <2> QED BY <2>1, <2>2
<1>4. Accounted(j)'
  BY <1>1, <1>2, <1>3, JobSame DEF SameItems
<1> QED BY <1>1, <1>2, <1>3, <1>4, CompleteStep

LEMMA CommitComplete ==
  ASSUME TypeInv, MainInv, OweInv, RetryInv, CompleteInv, [Next]_vars, WriteCommits
  PROVE  CompleteInv'
<1>1. PICK j \in Jobs : j = wq[1].job
  BY CommitStep
<1>2. PICK f \in Executors : Answered(j, f)
  BY <1>1, CommitStep
<1>3. wq # <<>> /\ ex' = [ex EXCEPT ![j] = f] /\ SameItems(ex[j], f) /\ Pos(f) = Pos(ex[j])
  BY <1>2, CommitStep DEF Answered
<1>4. \/ wq' = Tail(wq)
      \/ \E w \in Writes : wq' = Append(Tail(wq), Entry(j, "main", w)) /\ ~Claim(w)
  <2>1. CASE wq' = Tail(wq)
    BY <2>1
  <2>2. CASE wq' # Tail(wq)
    <3>1. PICK w \in PlainWrites : wq' = Append(Tail(wq), Entry(j, "main", w))
                                   /\ w = Submitted(Head(ex[j].todo)) /\ ex[j].todo # <<>>
      BY <1>2, <2>2 DEF Answered
    <3>2. ex[j].todo \in Seq(PlainWrites)
      BY DEF TypeInv, TypeEx, Executors
    <3>3. PICK h \in PlainWrites : h = Head(ex[j].todo) /\ h \in Members(ex[j].todo)
      BY <3>1, <3>2, MembersSplit
    <3>4. ~Claim(w)
      <4>1. ~Claim(h)
        BY <3>3 DEF OweInv, Owes
      <4>2. w = h \/ w.kind = "pauseAccount"
        BY <3>1, <3>3, SubmittedType
      <4> QED BY <4>1, <4>2 DEF Claim
    <3> QED BY <3>1, <3>4 DEF Writes
  <2> QED BY <2>1, <2>2
<1> QED BY <1>3, <1>4, AnswerComplete

LEMMA FailComplete ==
  ASSUME TypeInv, MainInv, RetryInv, CompleteInv, [Next]_vars, WriteFails
  PROVE  CompleteInv'
<1>1. PICK j \in Jobs : j = wq[1].job
  BY FailStep
<1>2. /\ wq # <<>>
      /\ RunDies(j) \/ \E f \in Executors : ExceptBegins(j, f) \/ NotWaited(j, f)
  BY <1>1, FailStep
<1>3. CASE RunDies(j)
  <2>1. ex'[j] = NoExecutor /\ \A k \in Jobs \ {j} : ex'[k] = ex[k]
    BY <1>3 DEF RunDies, TypeInv, TypeEx
  <2>2. \A k \in Jobs : Stays(k, 1) /\ Answers(k, 1) /\ Ordered(k, 1)
    BY <1>2, <1>3, StaysDies, HeadAnswered, QueueDies, OrderedShifted
  <2> QED BY <2>1, <2>2, AccountedNone, CompleteStep
<1>4. ASSUME NEW f \in Executors, NotWaited(j, f) PROVE CompleteInv'
  <2>1. /\ ex' = [ex EXCEPT ![j] = f] /\ SameItems(ex[j], f) /\ Pos(f) = Pos(ex[j])
        /\ wq' = Tail(wq)
    BY <1>4 DEF NotWaited, Pos
  <2> QED BY <1>2, <2>1, AnswerComplete
<1>5. ASSUME NEW f \in Executors, ExceptBegins(j, f) PROVE CompleteInv'
  <2>1. /\ ex' = [ex EXCEPT ![j] = f] /\ ex[j].guard # "none" /\ f.guard # "none"
        /\ Pos(f) = "exit" /\ f.results = <<>> /\ f.cand = ex[j].cand
        /\ f.buf = ex[j].buf /\ f.last = ex[j].last
    BY <1>5 DEF ExceptBegins, Pos
  <2>2. ex'[j] = f /\ \A k \in Jobs \ {j} : ex'[k] = ex[k]
    BY <2>1 DEF TypeInv, TypeEx
  <2>3. PICK w \in Writes : /\ wq' = Append(Tail(wq), Entry(j, "main", w))
                            /\ \/ w = ItemsWrite(ex[j].results)
                               \/ ex[j].results = <<>> /\ w = Head(ExceptWrites)
    BY <1>5 DEF ExceptBegins
  <2>4. ~Claim(w)
    <3>1. ItemsWrite(ex[j].results).kind = "items"
      BY DEF ItemsWrite
    <3>2. Head(ExceptWrites) = JobWrite("FAILED", None, FALSE)
      BY DEF ExceptWrites
    <3>3. JobWrite("FAILED", None, FALSE).state = "FAILED"
      BY DEF JobWrite
    <3> QED BY <2>3, <3>1, <3>2, <3>3 DEF Claim, Claims
  <2>5. Joined(j, 1, Entry(j, "main", w)) /\ \A k \in Jobs \ {j} : Shifted(k, 1)
    BY <1>2, <2>3, QueueNext DEF Entry
  <2>6. \A k \in Jobs : Stays(k, 1) /\ Answers(k, 1) /\ Ordered(k, 1)
    BY <1>2, <2>3, <2>4, <2>5, StaysTail, HeadAnswered, OrderedEntry
  <2>7. \A o : Reports(ex[j].results, o) => Waiting(j, o)'
    <3>1. CASE ex[j].results = <<>>
      BY <3>1, EmptyReports
    <3>2. CASE w = ItemsWrite(ex[j].results)
      BY <2>5, <3>2, ResultsSent
    <3> QED BY <2>3, <3>1, <3>2
  <2>8. \A o \in Ordinals : Kept(j, o) => Kept(j, o)'
    BY <2>6, <2>7, KeptStays
  <2>9. Accounted(j)'
    BY <2>1, <2>2, <2>8 DEF Accounted, CompleteInv
  <2> QED BY <2>2, <2>6, <2>9, CompleteStep
<1> QED BY <1>2, <1>3, <1>4, <1>5

LEMMA ProcessComplete ==
  ASSUME TypeInv, MainInv, RetryInv, CompleteInv, [Next]_vars, ProcessStep
  PROVE  CompleteInv'
<1>1. CASE Continues
  <2>1. \A k \in Jobs : Stays(k, 0) /\ Answers(k, 0) /\ Ordered(k, 0)
    BY <1>1, StaysSame, NoAnswer, QueueSame, OrderedShifted DEF Continues
  <2>2. ASSUME NEW k \in Jobs PROVE Claimed(k)' /\ Accounted(k)'
    <3>1. SameWork(ex[k], ex'[k]) /\ Pos(ex'[k]) = Pos(ex[k])
      BY <1>1 DEF Continues, Pos
    <3> QED BY <2>1, <3>1, JobSame DEF SameWork
  <2> QED BY <2>2 DEF CompleteInv
<1>2. CASE Vanished
  <2>1. \A k \in Jobs : Accounted(k)'
    BY <1>2, AccountedNone DEF Vanished
  <2>2. CASE wq' = <<>>
    <3>1. \A k \in Jobs : Claimed(k)'
      BY <2>2, RowSettled DEF Claimed
    <3> QED BY <2>1, <3>1 DEF CompleteInv
  <2>3. CASE wq' = [i \in 1..Len(wq) |-> [wq[i] EXCEPT !.by = "nobody"]]
    <3>1. \A k \in Jobs : Stays(k, 0) /\ Answers(k, 0) /\ Ordered(k, 0)
      BY <2>3, StaysNobody, NoAnswer
    <3>2. \A k \in Jobs : Claimed(k)'
      BY <3>1, JobClaimed
    <3> QED BY <2>1, <3>2 DEF CompleteInv
  <2> QED BY <1>2, <2>2, <2>3 DEF Vanished
<1> QED BY <1>1, <1>2, ProcessSteps

LEMMA CompleteInvKept ==
  ASSUME TypeInv, MainInv, FreshInv, OweInv, RetryInv, CompleteInv, [Next]_vars
  PROVE  CompleteInv'
<1>1. CASE UNCHANGED vars
  <2>1. wq' = wq /\ ex' = ex
    BY <1>1 DEF vars
  <2>2. \A k \in Jobs : Stays(k, 0) /\ Answers(k, 0) /\ Ordered(k, 0)
    BY <2>1, StaysSame, NoAnswer, QueueSame, OrderedShifted
  <2>3. \A k \in Jobs : Claimed(k)' /\ Accounted(k)'
    BY <2>1, <2>2, JobSame
  <2> QED BY <2>3 DEF CompleteInv
<1>2. ASSUME NEW j \in Jobs, ~Live(j), Launch(j) PROVE CompleteInv'
  BY <1>2, LaunchComplete
<1>3. ASSUME NEW j \in Jobs, AwaitStep(j) PROVE CompleteInv'
  BY <1>3, AwaitComplete
<1>4. ASSUME NEW j \in Jobs, SimpleStep(j) PROVE CompleteInv'
  BY <1>4, SimpleComplete
<1>5. ASSUME NEW j \in Jobs, NEW st \in Done, RecordStep(j, st) PROVE CompleteInv'
  BY <1>5, RecordComplete
<1>6. ASSUME NEW j \in Jobs, Prime(j) PROVE CompleteInv'
  BY <1>6, PrimeComplete
<1>7. ASSUME NEW j \in Jobs, PopCandidate(j) PROVE CompleteInv'
  BY <1>7, PopComplete
<1>8. ASSUME NEW j \in Jobs, FinishStep(j) PROVE CompleteInv'
  BY <1>8, FinishComplete
<1>9. ASSUME NEW j \in Jobs, DelayedFlush(j) PROVE CompleteInv'
  BY <1>9, FlushComplete
<1>10. CASE WriteCommits
  BY <1>10, CommitComplete
<1>11. CASE WriteFails
  BY <1>11, FailComplete
<1>12. CASE ProcessStep
  BY <1>12, ProcessComplete
<1>13. ASSUME NEW j \in Jobs, PrimeFails(j) PROVE CompleteInv'
  BY <1>13, PrimeFailComplete
<1>14. ASSUME NEW j \in Jobs, ReadFails(j) PROVE CompleteInv'
  BY <1>14, ReadFailComplete
<1> QED BY <1>1, <1>2, <1>3, <1>4, <1>5, <1>6, <1>7, <1>8, <1>9, <1>10, <1>11, <1>12, <1>13,
           <1>14, StepKinds

LEMMA CompleteInvImplies ==
  ASSUME CompleteInv
  PROVE  CompletedIsComplete
  BY DEF CompleteInv, Claimed, Settled, Claims, CompletedIsComplete

LEMMA StartsOwing ==
  ASSUME Init
  PROVE  OweInv /\ RowInv /\ RetryInv /\ CompleteInv
<1>1. /\ wq = <<>> /\ app = "up" /\ restarts = 0
      /\ \A j \in Jobs : ex[j] = NoExecutor /\ row[j].state = "READY"
      /\ \A a \in Accounts : acct[a] = "READY"
  BY DEF Init
<1>2. /\ NoExecutor.pc = "none" /\ NoExecutor.todo = <<>> /\ NoExecutor.guard = "none"
      /\ NoExecutor.last = None /\ NoExecutor.cand = None /\ Pos(NoExecutor) = "none"
  BY DEF NoExecutor, Pos
<1>3. OweInv
  <2>1. \A j \in Jobs : Owed(j) = {} /\ Members(ex[j].todo) = {}
    BY <1>1, <1>2, NoMembers DEF Owed, Sent
  <2> QED BY <1>1, <1>2, <2>1 DEF OweInv, Owes, NoneLeft
<1>4. RowInv
  BY <1>1 DEF RowInv
<1>5. RetryInv
  BY <1>1 DEF RetryInv
<1>6. CompleteInv
  BY <1>1, <1>2 DEF CompleteInv, Claimed, Accounted, Claims
<1> QED BY <1>3, <1>4, <1>5, <1>6

-----------------------------------------------------------------------------
(* Theorems.                                                               *)

ExecutorInv ==
  /\ TypeInv /\ MainInv /\ LockInv /\ CountInv /\ FreshInv /\ GateInv
  /\ OweInv /\ RowInv /\ RetryInv /\ CompleteInv

LEMMA StartsFresh ==
  ASSUME Init
  PROVE  CountInv /\ FreshInv
<1>1. wq = <<>> /\ ex = [j \in Jobs |-> NoExecutor] /\ perf = 0 /\ failures = 0 /\ leaked = 0
  BY DEF Init
<1>2. CountInv
  <2>1. {j \in Jobs : Live(j)} = {}
    BY <1>1 DEF Live, NoExecutor
  <2> QED BY <1>1, <2>1, FS_EmptySet DEF CountInv, PerformanceModeIsCounted
<1>3. ASSUME NEW j \in Jobs PROVE Fresh(j)
  <2>1. /\ ex[j].guard = "none" /\ ex[j].pc = "none" /\ ex[j].cand = None
        /\ ex[j].buf = {} /\ Early(ex[j])
    BY <1>1 DEF NoExecutor, Early, Pos
  <2>2. None \notin Ordinals
    BY OrdinalNumbers DEF None
  <2>3. Behind(j)
    BY <1>1 DEF Behind
  <2> QED BY <2>1, <2>2, <2>3 DEF Fresh
<1> QED BY <1>2, <1>3 DEF FreshInv

LEMMA StartsGate ==
  ASSUME Init
  PROVE  GateInv
<1>1. /\ deadline = [a \in Accounts |-> None] /\ commands = 0 /\ crashes = 0
      /\ now = 0 /\ app = "up" /\ ex = [j \in Jobs |-> NoExecutor]
  BY DEF Init
<1>2. deadline \in [Accounts -> Nat] /\ \A a \in Accounts : deadline[a] <= now
  BY <1>1 DEF None
<1>3. \A j \in Jobs : ~ex[j].stop /\ ~ex[j].pause
  BY <1>1 DEF NoExecutor
<1> QED BY <1>1, <1>2, <1>3 DEF GateInv

\* Every variable keeps its type, run waits for at most one write at a time, the
\* account lock is held all through the candidate loop, performance mode counts
\* the executors, the RAM window is fresh, a job of the account sleeps out the
\* server's wait, run pays what it owes to its row and its account, no RETRY
\* overtakes a result, and a job that calls itself completed has its results:
\* together these are inductive.
THEOREM ExecutorInvCorrect == Spec => []ExecutorInv
<1>1. Init => ExecutorInv
  BY StartsWell, StartsFresh, StartsGate, StartsOwing DEF ExecutorInv
<1>2. ExecutorInv /\ [Next]_vars => ExecutorInv'
  <2> SUFFICES ASSUME ExecutorInv, [Next]_vars PROVE ExecutorInv'
    OBVIOUS
  <2>1. TypeInv' /\ MainInv'
    BY TypeAndMain DEF ExecutorInv
  <2>2. LockInv' /\ CountInv' /\ FreshInv' /\ GateInv'
    BY <2>1, LockInvKept, CountInvKept, FreshInvKept, GateInvKept DEF ExecutorInv
  <2>3. OweInv' /\ RowInv'
    BY <2>1, OweInvKept, RowInvKept DEF ExecutorInv
  <2>4. RetryInv' /\ CompleteInv'
    BY <2>1, <2>2, <2>3, RetryInvKept, CompleteInvKept DEF ExecutorInv
  <2> QED BY <2>1, <2>2, <2>3, <2>4 DEF ExecutorInv
<1> QED BY <1>1, <1>2, PTL DEF Spec

\* Every variable has a value of its type in every reachable state.
THEOREM TypeCorrect == Spec => []TypeOK
<1>1. ExecutorInv => TypeOK
  BY TypeInvImplies DEF ExecutorInv
<1> QED BY <1>1, ExecutorInvCorrect, PTL

\* Two executors of one account are never inside the candidate loop together:
\* governor.mutation_lock is taken before the loop and given back on every path
\* that leaves it, and only there.
THEOREM OneMutationPerAccountCorrect == Spec => []OneMutationPerAccount
<1>1. ExecutorInv => OneMutationPerAccount
  BY LockInvImplies DEF ExecutorInv
<1> QED BY <1>1, ExecutorInvCorrect, PTL

\* governor._performance_users counts the executors and the runs that a failing
\* first write or first read ended before their try statement: every other way
\* out of run, those over its except block included, gives its share back once.
THEOREM PerformanceModeIsCountedCorrect == Spec => []PerformanceModeIsCounted
<1>1. ExecutorInv => PerformanceModeIsCounted
  BY DEF ExecutorInv, CountInv
<1> QED BY <1>1, ExecutorInvCorrect, PTL

\* No candidate is asked for whose result is in the database, with DBWriter or
\* in the buffer, whatever the delayed flush, pauses, failing writes, crashes and
\* restarts do in between.
THEOREM NoRepeatedCandidateCorrect == Spec => []NoRepeatedCandidate
<1>1. ExecutorInv => NoRepeatedCandidate
  BY FreshImplies DEF ExecutorInv
<1> QED BY <1>1, ExecutorInvCorrect, PTL

\* A FloodWait stops every job of its account until the wait is over: the job that
\* met it sleeps with the account's lock in its hands, so as long as nobody pauses
\* or stops it, and nothing fails, no other job of the account calls the server.
THEOREM GateIsHandedOnCorrect == Spec => []GateIsHandedOn
<1>1. ExecutorInv => GateIsHandedOn
  BY GateImplies DEF ExecutorInv
<1> QED BY <1>1, ExecutorInvCorrect, PTL

\* A job whose row says COMPLETED, with or without errors, has a final result for
\* every candidate, except those whose result write failed: summary() is read
\* when the window is empty and nothing is pending, and the row is written after
\* the last results in DBWriter's order, whatever the flush task, pauses, failing
\* writes, crashes and restarts did before.
THEOREM CompletedIsCompleteCorrect == Spec => []CompletedIsComplete
<1>1. ExecutorInv => CompletedIsComplete
  BY CompleteInvImplies DEF ExecutorInv
<1> QED BY <1>1, ExecutorInvCorrect, PTL

\* While the program is up a job that is shown as RUNNING has an executor, and until
\* the first restart so has an account that is shown as BUSY, whatever reads and
\* writes fail in the try statement of run: on every way out run still has, or has
\* sent, the writes that change both.  The jobs whose last run a failure ended
\* before that statement or in its except block are the only others.
THEOREM RowsMatchWhatRunsCorrect == Spec => []RowsMatchWhatRuns
<1>1. ExecutorInv => RowsMatchWhatRuns
  BY RowInvImplies DEF ExecutorInv
<1> QED BY <1>1, ExecutorInvCorrect, PTL
=============================================================================
