--------------------------- MODULE DBWriterProofs ---------------------------
(* Theorems about DBWriter for every set of tasks, batch size and queue size. *)
EXTENDS DBWriter, TLAPS

\* TypeOK without the bound that the steps of _commit_batch rely on: while a
\* future is being set, the index is a position of the batch.
IndexOK == thread = "set" => index <= Len(batch)

TypeInv == TypeOK /\ IndexOK

\* The part of TypeInv about the writer thread's own variables.
ThreadOK ==
  /\ thread \in ThreadStates
  /\ pending \in Seq(Tasks)
  /\ item \in Items \cup {NoItem}
  /\ batch \in Seq(AllTasks)
  /\ batchOf \in {"pending", "critical", "finally"}
  /\ index \in Nat \ {0}
  /\ outcome \in {"ok", "error"}
  /\ IndexOK

\* What _run does after a commit keeps the thread's variables well typed.
LEMMA HandleHeldType ==
  ASSUME ThreadOK, NEW i \in Items \cup {NoItem}, HandleHeld(i)
  PROVE  ThreadOK'
<1>1. CASE i \in AllTasks
  <2>1. <<i>> \in Seq(AllTasks)
    BY <1>1
  <2>2. /\ pending' = <<>> /\ item' = NoItem /\ batch' = <<i>>
        /\ batchOf' = "critical" /\ index' = 1 /\ thread' = "txn"
        /\ outcome' = outcome
    BY <1>1 DEF HandleHeld, StartBatch
  <2> QED BY <2>1, <2>2 DEF ThreadOK, IndexOK, ThreadStates
<1>2. CASE i \notin AllTasks
  <2>1. /\ pending' = <<>> /\ item' = NoItem /\ batch' = batch
        /\ batchOf' = batchOf /\ index' = index /\ thread' \in {"down", "get"}
        /\ outcome' = outcome
    BY <1>2 DEF HandleHeld
  <2> QED BY <2>1 DEF ThreadOK, IndexOK, ThreadStates
<1> QED BY <1>1, <1>2

\* Likewise entering _commit_batch with well-typed arguments.
LEMMA StartBatchType ==
  ASSUME ThreadOK, NEW s \in Seq(AllTasks),
         NEW of \in {"pending", "critical", "finally"}, StartBatch(s, of),
         pending' \in Seq(Tasks), item' \in Items \cup {NoItem}
  PROVE  ThreadOK'
BY DEF ThreadOK, IndexOK, ThreadStates, StartBatch

\* Likewise committing `pending' before the item i is handled.
LEMMA FlushPendingType ==
  ASSUME ThreadOK, NEW i \in Items \cup {NoItem}, FlushPending(i)
  PROVE  ThreadOK'
<1>1. CASE pending = <<>>
  BY <1>1, HandleHeldType DEF FlushPending
<1>2. CASE pending # <<>>
  <2>1. pending \in Seq(AllTasks) /\ pending' = pending /\ item' = i
    BY <1>2 DEF FlushPending, ThreadOK, AllTasks
  <2> QED BY <1>2, <2>1, StartBatchType DEF FlushPending, ThreadOK
<1> QED BY <1>1, <1>2

\* The part of TypeOK about submit() before its put.
EntryOK ==
  /\ entered \subseteq AllTasks /\ checked \subseteq AllTasks
  /\ future \in [AllTasks -> FutureStates]

\* The test of _stopped keeps it, whether it rejects the task or lets it in.
LEMMA TestType ==
  ASSUME EntryOK, NEW t \in AllTasks, Test(t), UNCHANGED checked
  PROVE  EntryOK'
BY DEF Test, EntryOK, FutureStates

\* The look at the thread keeps its variables well typed.
LEMMA LookType ==
  ASSUME ThreadOK, EntryOK, stopped \in BOOLEAN, NEW t \in AllTasks, SubmitLook(t)
  PROVE  ThreadOK' /\ EntryOK' /\ stopped' \in BOOLEAN
<1>1. EntryOK'
  BY DEF SubmitLook, EntryOK
<1>2. CASE thread = "down"
  <2>1. /\ thread' = "get" /\ pending' = <<>> /\ item' = NoItem /\ stopped' = FALSE
        /\ UNCHANGED <<batch, batchOf, index, outcome>>
    BY <1>2 DEF SubmitLook
  <2>2. ThreadOK'
    BY <2>1 DEF ThreadOK, IndexOK, ThreadStates
  <2>3. stopped' \in BOOLEAN
    BY <2>1
  <2> QED BY <1>1, <2>2, <2>3
<1>3. CASE thread # "down"
  BY <1>1, <1>3 DEF SubmitLook, ThreadOK, IndexOK, threadVars
<1> QED BY <1>2, <1>3

\* Committing a batch adds its tasks to the database and removes none.
LEMMA CommitElements ==
  ASSUME NEW S, NEW a \in Seq(S), NEW b \in Seq(S)
  PROVE  /\ a \o b \in Seq(S)
         /\ Elements(a) \subseteq Elements(a \o b)
         /\ Elements(b) \subseteq Elements(a \o b)
<1>1. a \o b \in Seq(S)
  OBVIOUS
<1>2. Len(a \o b) = Len(a) + Len(b)
  OBVIOUS
<1>3. ASSUME NEW x \in Elements(a) PROVE x \in Elements(a \o b)
  <2>1. PICK i \in 1..Len(a) : a[i] = x
    BY <1>3 DEF Elements
  <2>2. i \in 1..Len(a \o b) /\ (a \o b)[i] = x
    BY <2>1, <1>2
  <2> QED BY <2>2 DEF Elements
<1>4. ASSUME NEW x \in Elements(b) PROVE x \in Elements(a \o b)
  <2>1. PICK i \in 1..Len(b) : b[i] = x
    BY <1>4 DEF Elements
  <2>2. Len(a) + i \in 1..Len(a \o b) /\ (a \o b)[Len(a) + i] = x
    BY <2>1, <1>2
  <2> QED BY <2>2 DEF Elements
<1> QED BY <1>1, <1>3, <1>4

\* Every step of submit(), of the writer thread and of stop() keeps TypeInv.
THEOREM TypeInvCorrect == Spec => []TypeInv
<1> USE ConstantsAssumption
<1>1. Init => TypeInv
  <2>1. Init => stopped \in BOOLEAN
    BY DEF Init
  <2> QED BY <2>1 DEF Init, TypeInv, TypeOK, IndexOK, ThreadStates, FutureStates,
             StopperStates, AllTasks, Items
<1>2. TypeInv /\ [Next]_vars => TypeInv'
  <2> SUFFICES ASSUME TypeInv, [Next]_vars PROVE TypeInv'
    OBVIOUS
  <2> USE DEF queueVars, threadVars
  <2>0. /\ Tasks \subseteq AllTasks /\ FlushTask \in AllTasks
        /\ AllTasks \subseteq Items /\ Stop \in Items
        /\ ThreadOK
    BY DEF AllTasks, Items, TypeInv, TypeOK, ThreadOK
  <2>1. ASSUME NEW t \in AllTasks, SubmitTest(t) \/ SubmitLook(t) PROVE TypeInv'
    <3>1. EntryOK
      BY DEF TypeInv, TypeOK, EntryOK
    <3>2. CASE SubmitTest(t)
      <4>1. EntryOK'
        BY <3>1, <3>2, TestType DEF SubmitTest
      <4> QED BY <3>2, <4>1 DEF SubmitTest, TypeInv, TypeOK, IndexOK, EntryOK
    <3>3. CASE SubmitLook(t)
      <4>1. ThreadOK' /\ EntryOK' /\ stopped' \in BOOLEAN
        BY <2>0, <3>1, <3>3, LookType DEF TypeInv, TypeOK
      <4> QED BY <3>3, <4>1 DEF SubmitLook, TypeInv, TypeOK, ThreadOK, EntryOK
    <3> QED BY <2>1, <3>2, <3>3
  <2>2. ASSUME NEW t \in AllTasks, SubmitPut(t) PROVE TypeInv'
    BY <2>0, <2>2 DEF SubmitPut, TypeInv, TypeOK, IndexOK, FutureStates
  <2>3. ASSUME NEW t \in AllTasks, Cancel(t) PROVE TypeInv'
    BY <2>3 DEF Cancel, TypeInv, TypeOK, IndexOK, FutureStates
  <2>4. CASE Get
    <3>1. Head(queue) \in Items /\ queue' \in Seq(Items)
      BY <2>4 DEF Get, TypeInv, TypeOK
    <3>2. ThreadOK'
      <4>1. CASE Head(queue) = Stop \/ IsCritical(Head(queue))
        BY <2>4, <3>1, <4>1, <2>0, FlushPendingType DEF Get
      <4>2. CASE ~(Head(queue) = Stop \/ IsCritical(Head(queue)))
        <5> DEFINE p == Append(pending, Head(queue))
        <5>1. Head(queue) \in Tasks
          BY <3>1, <4>2 DEF Items, AllTasks, IsCritical
        <5>2. p \in Seq(Tasks) /\ p \in Seq(AllTasks)
          BY <5>1, <2>0 DEF ThreadOK
        <5>3. pending' = p /\ item' = NoItem
          BY <2>4, <4>2 DEF Get
        <5>4. CASE Len(p) >= BatchLimit
          <6>1. StartBatch(p, "pending")
            BY <2>4, <4>2, <5>4 DEF Get
          <6> QED BY <2>0, <5>2, <5>3, <6>1, StartBatchType
        <5>5. CASE ~(Len(p) >= BatchLimit)
          BY <2>0, <2>4, <4>2, <5>2, <5>3, <5>5
             DEF Get, ThreadOK, IndexOK, ThreadStates
        <5> QED BY <5>4, <5>5
      <4> QED BY <4>1, <4>2
    <3> QED BY <2>4, <3>1, <3>2 DEF Get, TypeInv, TypeOK, ThreadOK
  <2>5. CASE GetEmpty
    <3>1. ThreadOK'
      BY <2>0, <2>5, FlushPendingType DEF GetEmpty
    <3> QED BY <2>5, <3>1 DEF GetEmpty, TypeInv, TypeOK, ThreadOK
  <2>6. CASE CommitTxn
    BY <2>6, CommitElements DEF CommitTxn, TypeInv, TypeOK, IndexOK, ThreadStates
  <2>7. CASE RollbackTxn
    BY <2>7 DEF RollbackTxn, TypeInv, TypeOK, IndexOK, ThreadStates
  <2>8. CASE ResolveCheck
    BY <2>8 DEF ResolveCheck, TypeInv, TypeOK, IndexOK, ThreadStates
  <2>9. CASE ResolveSet
    BY <2>9 DEF ResolveSet, TypeInv, TypeOK, IndexOK, ThreadStates, FutureStates
  <2>10. CASE ResolveRaises
    <3>1. ThreadOK'
      <4>1. CASE batchOf = "pending"
        <5>1. /\ StartBatch(pending, "finally")
              /\ pending' = pending /\ item' = NoItem
          BY <2>10, <4>1 DEF ResolveRaises
        <5>2. pending \in Seq(AllTasks)
          BY <2>0 DEF ThreadOK
        <5> QED BY <2>0, <5>1, <5>2, StartBatchType DEF ThreadOK
      <4>2. CASE batchOf # "pending"
        BY <2>0, <2>10, <4>2 DEF ResolveRaises, ThreadOK, IndexOK, ThreadStates
      <4> QED BY <4>1, <4>2
    <3>2. crashes' \in {0, 1}
      BY <2>10 DEF ResolveRaises, TypeInv, TypeOK
    <3> QED BY <2>10, <3>1, <3>2 DEF ResolveRaises, TypeInv, TypeOK, ThreadOK
  <2>11. CASE BatchDone
    <3>1. ThreadOK'
      BY <2>0, <2>11, HandleHeldType DEF BatchDone, ThreadOK
    <3> QED BY <2>11, <3>1 DEF BatchDone, TypeInv, TypeOK, ThreadOK
  <2>12. CASE StopFlush
    <3>1. EntryOK'
      BY <2>0, <2>12, TestType DEF StopFlush, TypeInv, TypeOK, EntryOK
    <3> QED BY <2>12, <3>1 DEF StopFlush, TypeInv, TypeOK, IndexOK, EntryOK,
               StopperStates
  <2>13. CASE StopFlushed
    BY <2>13 DEF StopFlushed, TypeInv, TypeOK, IndexOK, StopperStates
  <2>14. CASE StopPut
    BY <2>0, <2>14 DEF StopPut, TypeInv, TypeOK, IndexOK, StopperStates
  <2>15. CASE StopJoined
    BY <2>15 DEF StopJoined, TypeInv, TypeOK, IndexOK, StopperStates
  <2>16. CASE UNCHANGED vars
    BY <2>16 DEF vars, TypeInv, TypeOK, IndexOK
  <2> QED BY <2>1, <2>2, <2>3, <2>4, <2>5, <2>6, <2>7, <2>8, <2>9, <2>10,
             <2>11, <2>12, <2>13, <2>14, <2>15, <2>16
             DEF Next, WriterStep, StopStep
<1> QED BY <1>1, <1>2, PTL DEF Spec

\* The type invariant of the writer.
THEOREM TypeCorrect == Spec => []TypeOK
<1>1. TypeInv => TypeOK
  BY DEF TypeInv
<1> QED BY <1>1, TypeInvCorrect, PTL

-----------------------------------------------------------------------------
\* OkIsCommitted is not inductive: the futures of a batch are set one by one
\* after the commit.  While they are, the whole batch is in the database.
BatchCommitted ==
  thread \in {"resolve", "set"} /\ outcome = "ok" =>
    Elements(batch) \subseteq Elements(db)

CommitInv == OkIsCommitted /\ BatchCommitted

\* A step that commits nothing, gives no future a result and leaves the
\* resolving of a batch alone, or is not resolving one, keeps CommitInv.
LEMMA CommitInvFrame ==
  ASSUME CommitInv, db' = db,
         \A t \in AllTasks : future'[t] = "ok" => future[t] = "ok",
         \/ thread' \notin {"resolve", "set"}
         \/ /\ thread \in {"resolve", "set"}
            /\ outcome' = outcome /\ batch' = batch
         \/ outcome' # "ok"
  PROVE  CommitInv'
BY DEF CommitInv, OkIsCommitted, BatchCommitted, Elements

\* A future has a result only if the operation is in a committed transaction,
\* whatever is cancelled, fails, is stopped or crashes.
THEOREM OkIsCommittedCorrect == Spec => []OkIsCommitted
<1>1. Init => CommitInv
  BY DEF Init, CommitInv, OkIsCommitted, BatchCommitted
<1>2. TypeInv /\ CommitInv /\ [Next]_vars => CommitInv'
  <2> SUFFICES ASSUME TypeInv, CommitInv, [Next]_vars PROVE CommitInv'
    OBVIOUS
  <2> USE DEF queueVars, threadVars
  <2>1. ASSUME NEW t \in AllTasks, SubmitTest(t) \/ SubmitLook(t) \/ (StopFlush /\ Test(t))
        PROVE  CommitInv'
    <3>1. \A u \in AllTasks : future'[u] = "ok" => future[u] = "ok"
      BY <2>1 DEF SubmitTest, SubmitLook, Test, TypeInv, TypeOK
    <3>2. \/ thread' \notin {"resolve", "set"}
          \/ thread' = thread /\ outcome' = outcome /\ batch' = batch
      BY <2>1 DEF SubmitTest, SubmitLook, StopFlush
    <3>3. db' = db
      BY <2>1 DEF SubmitTest, SubmitLook, StopFlush
    <3> QED BY <3>1, <3>2, <3>3, CommitInvFrame
  <2>2. ASSUME NEW t \in AllTasks, SubmitPut(t) PROVE CommitInv'
    BY <2>2, CommitInvFrame DEF SubmitPut, TypeInv, TypeOK
  <2>3. ASSUME NEW t \in AllTasks, Cancel(t) PROVE CommitInv'
    BY <2>3, CommitInvFrame DEF Cancel, TypeInv, TypeOK
  <2>4. CASE Get
    <3>1. thread' \notin {"resolve", "set"} /\ db' = db /\ future' = future
      BY <2>4 DEF Get, FlushPending, HandleHeld, StartBatch
    <3> QED BY <3>1, CommitInvFrame
  <2>5. CASE GetEmpty
    <3>1. thread' \notin {"resolve", "set"} /\ db' = db /\ future' = future
      BY <2>5 DEF GetEmpty, FlushPending, HandleHeld, StartBatch
    <3> QED BY <3>1, CommitInvFrame
  <2>6. CASE CommitTxn
    <3>1. /\ Elements(db) \subseteq Elements(db')
          /\ Elements(batch) \subseteq Elements(db')
      BY <2>6, CommitElements DEF CommitTxn, TypeInv, TypeOK
    <3> QED BY <2>6, <3>1
            DEF CommitTxn, CommitInv, OkIsCommitted, BatchCommitted, Elements
  <2>7. CASE RollbackTxn
    BY <2>7, CommitInvFrame DEF RollbackTxn
  <2>8. CASE ResolveCheck
    BY <2>8, CommitInvFrame DEF ResolveCheck
  <2>9. CASE ResolveSet
    <3>1. batch[index] \in Elements(batch)
      BY <2>9 DEF ResolveSet, TypeInv, TypeOK, IndexOK, Elements
    <3>2. OkIsCommitted'
      <4>1. ASSUME NEW t \in AllTasks, future'[t] = "ok"
            PROVE  t \in Elements(db)
        <5>1. CASE t = batch[index] /\ outcome = "ok"
          BY <2>9, <3>1, <5>1 DEF ResolveSet, CommitInv, BatchCommitted
        <5>2. CASE ~(t = batch[index] /\ outcome = "ok")
          BY <2>9, <4>1, <5>2
             DEF ResolveSet, CommitInv, OkIsCommitted, TypeInv, TypeOK
        <5> QED BY <5>1, <5>2
      <4> QED BY <2>9, <4>1 DEF ResolveSet, OkIsCommitted, Elements
    <3>3. BatchCommitted'
      BY <2>9 DEF ResolveSet, CommitInv, BatchCommitted, Elements
    <3> QED BY <3>2, <3>3 DEF CommitInv
  <2>10. CASE ResolveRaises
    <3>1. thread' \notin {"resolve", "set"} /\ db' = db /\ future' = future
      BY <2>10 DEF ResolveRaises, StartBatch
    <3> QED BY <3>1, CommitInvFrame
  <2>11. CASE BatchDone
    <3>1. thread' \notin {"resolve", "set"} /\ db' = db /\ future' = future
      BY <2>11 DEF BatchDone, HandleHeld, StartBatch
    <3> QED BY <3>1, CommitInvFrame
  <2>12. CASE StopStep
    BY <2>12 DEF StopStep, StopFlushed, StopPut, StopJoined, CommitInv,
                 OkIsCommitted, BatchCommitted, Elements
  <2>13. CASE UNCHANGED vars
    BY <2>13 DEF vars, CommitInv, OkIsCommitted, BatchCommitted, Elements
  <2>14. FlushTask \in AllTasks
    BY DEF AllTasks
  <2> QED BY <2>1, <2>2, <2>3, <2>4, <2>5, <2>6, <2>7, <2>8, <2>9, <2>10,
             <2>11, <2>12, <2>13, <2>14
             DEF Next, WriterStep, StopFlush
<1>3. CommitInv => OkIsCommitted
  BY DEF CommitInv
<1> QED BY <1>1, <1>2, <1>3, TypeInvCorrect, PTL DEF Spec

-----------------------------------------------------------------------------
(* The order of the writes, as long as no InvalidStateError has ended the  *)
(* thread.  The items accepted fall into those that are done with, b of    *)
(* them, the ones the thread is busy with or collects, the item it holds,  *)
(* and the queue, in this order.                                           *)

Busy      == thread \in {"txn", "resolve", "set"}
Resolving == thread \in {"resolve", "set"}
Now       == IF Busy THEN batch ELSE pending
Held      == IF item = NoItem THEN 0 ELSE 1
Answered  == IF Resolving THEN index - 1 ELSE 0
Written   == IF Resolving THEN Len(batch) ELSE 0

Places == 1..Len(accepted)

InLine(b) ==
  /\ Len(accepted) = b + Len(Now) + Held + Len(queue)
  /\ \A i \in 1..Len(Now) : accepted[b + i] = Now[i]
  /\ item # NoItem => accepted[b + Len(Now) + 1] = item
  /\ \A i \in 1..Len(queue) : accepted[b + Len(Now) + Held + i] = queue[i]

\* What _run has in its hands.
Shape(b) ==
  /\ Busy => \/ batchOf = "pending" /\ batch = pending
             \/ batchOf = "critical" /\ pending = <<>> /\ item = NoItem
  /\ ~Busy => item = NoItem
  /\ thread = "down" => pending = <<>> /\ \E p \in 1..b : accepted[p] = Stop
  /\ thread = "txn" => index = 1
  /\ Resolving => index <= Len(batch) + 1

\* Nothing is accepted twice.
Once ==
  /\ \A p, q \in Places : p < q => accepted[p] # accepted[q]
  /\ \A p \in Places : accepted[p] \in AllTasks => future[accepted[p]] # "none"
  /\ entered \cap checked = {}
  /\ \A t \in entered \cup checked : future[t] = "none"
  /\ \A p \in Places : accepted[p] = Stop => stopper \in {"join", "done"}

\* The writes are answered in line.
Front(b) ==
  \A p \in Places : accepted[p] \in AllTasks =>
    /\ p <= b + Answered => future[accepted[p]] # "pending"
    /\ future[accepted[p]] \in {"ok", "error"} => p <= b + Answered

\* The writes are committed in line, and not if their batch has failed.
Stored(b) ==
  /\ \A i \in 1..Len(db) : \E p \in 1..(b + Written) : accepted[p] = db[i]
  /\ \A i, j \in 1..Len(db) : i < j => Before(db[i], db[j])
  /\ Resolving /\ outcome = "error" =>
       \A i \in 1..Len(batch), j \in 1..Len(db) : batch[i] # db[j]
  /\ \A i \in 1..Len(db) : future[db[i]] # "error"

Flow(b) == InLine(b) /\ Shape(b) /\ Once /\ Front(b) /\ Stored(b)

FlowInv == crashes = 0 => \E b \in Nat : Flow(b)

\* The positions that Flow speaks of are numbers, its sequences sequences.
LEMMA FlowTypes ==
  ASSUME TypeInv
  PROVE  /\ Answered \in Nat /\ Written \in Nat /\ Held \in {0, 1}
         /\ Now \in Seq(AllTasks) /\ queue \in Seq(Items) /\ accepted \in Seq(Items)
         /\ db \in Seq(AllTasks) /\ batch \in Seq(AllTasks)
<1>1. pending \in Seq(AllTasks)
  BY DEF TypeInv, TypeOK, AllTasks
<1> QED BY <1>1 DEF TypeInv, TypeOK, Answered, Written, Held, Now

LEMMA InLineKept ==
  ASSUME NEW b \in Nat, InLine(b), UNCHANGED <<accepted, queue, item>>, Now' = Now
  PROVE  InLine(b)'
  BY DEF InLine, Held

LEMMA OnceKept ==
  ASSUME Once, UNCHANGED accepted,
         \A t \in AllTasks : future[t] # "none" => future'[t] # "none",
         entered' \cap checked' = {},
         \A t \in entered' \cup checked' : future'[t] = "none",
         stopper \in {"join", "done"} => stopper' \in {"join", "done"}
  PROVE  Once'
  BY DEF Once, Places

\* The front stays where it is, and only it may bring answers.
LEMMA FrontKept ==
  ASSUME NEW b \in Nat, NEW c \in Nat, Front(b), UNCHANGED accepted,
         \A p \in Places : accepted[p] \in AllTasks =>
           /\ p <= c + Answered' <=> p <= b + Answered
           /\ future'[accepted[p]] = "pending" => future[accepted[p]] = "pending"
           /\ future'[accepted[p]] \in {"ok", "error"} => future[accepted[p]] \in {"ok", "error"}
  PROVE  Front(c)'
  BY DEF Front, Places

\* Facts about numbers, away from the state.
LEMMA Wider ==
  ASSUME NEW m \in Nat, NEW n \in Nat, m <= n, NEW p \in 1..m
  PROVE  p \in 1..n
  OBVIOUS

LEMMA OneLonger ==
  ASSUME NEW b \in Nat, NEW n \in Nat, NEW h \in Nat, NEW q \in Nat
  PROVE  (b + n + h + q) + 1 = b + n + h + (q + 1)
  OBVIOUS

LEMMA StoredKept ==
  ASSUME TypeInv, TypeInv', NEW b \in Nat, NEW c \in Nat, Stored(b), UNCHANGED <<accepted, db>>,
         b + Written <= c + Written',
         Resolving' /\ outcome' = "error" => Resolving /\ outcome = "error" /\ batch' = batch,
         \A i \in 1..Len(db) : future'[db[i]] = "error" => future[db[i]] = "error"
  PROVE  Stored(c)'
<1>1. Written \in Nat /\ Written' \in Nat
  BY FlowTypes DEF TypeInv, TypeOK, Written
<1>2. \A i \in 1..Len(db') : \E p \in 1..(c + Written') : accepted'[p] = db'[i]
  <2> SUFFICES ASSUME NEW i \in 1..Len(db)
               PROVE  \E p \in 1..(c + Written') : accepted[p] = db[i]
    OBVIOUS
  <2>1. PICK m \in Nat : m = b + Written
    BY <1>1
  <2>2. PICK n \in Nat : n = c + Written'
    <3>1. PICK w \in Nat : w = Written'
      BY <1>1
    <3>2. c + w \in Nat
      OBVIOUS
    <3> QED BY <3>1, <3>2
  <2>3. m <= n
    BY <2>1, <2>2
  <2>4. PICK p \in 1..m : accepted[p] = db[i]
    <3>1. \E p \in 1..(b + Written) : accepted[p] = db[i]
      BY DEF Stored
    <3> QED BY <2>1, <3>1
  <2>5. p \in 1..n
    BY <2>3, Wider
  <2> QED BY <2>2, <2>4, <2>5
<1>3. \A i, j \in 1..Len(db') : i < j => Before(db[i], db[j])'
  BY DEF Stored, Before
<1>4. Resolving' /\ outcome' = "error" =>
        \A i \in 1..Len(batch'), j \in 1..Len(db') : batch'[i] # db'[j]
  BY DEF Stored
<1>5. \A i \in 1..Len(db') : future'[db'[i]] # "error"
  BY DEF Stored
<1> QED BY <1>2, <1>3, <1>4, <1>5 DEF Stored

\* An item joins the queue.
LEMMA AcceptFlow ==
  ASSUME TypeInv, TypeInv', NEW b \in Nat, Flow(b), NEW x \in Items,
         Len(accepted') = Len(accepted) + 1, accepted'[Len(accepted) + 1] = x,
         \A p \in Places : accepted'[p] = accepted[p],
         Len(queue') = Len(queue) + 1, queue'[Len(queue) + 1] = x,
         \A i \in 1..Len(queue) : queue'[i] = queue[i],
         UNCHANGED <<threadVars, db>>,
         \A p \in Places : accepted[p] # x,
         x \in AllTasks => future'[x] = "pending",
         \A t \in AllTasks \ {x} : future'[t] = future[t],
         entered' = entered, x \notin entered, checked' \subseteq checked \ {x},
         x = Stop => stopper' = "join",
         x # Stop => UNCHANGED stopper
  PROVE  Flow(b)'
<1> USE DEF threadVars
<1>0. InLine(b) /\ Shape(b) /\ Once /\ Front(b) /\ Stored(b)
  BY DEF Flow
<1>1. /\ Answered \in Nat /\ Written \in Nat /\ Held \in {0, 1}
      /\ Now \in Seq(AllTasks) /\ queue \in Seq(Items) /\ accepted \in Seq(Items)
      /\ db \in Seq(AllTasks)
  BY FlowTypes
<1>2. /\ Now' = Now /\ Held' = Held /\ Answered' = Answered /\ Written' = Written
      /\ Resolving' = Resolving /\ Busy' = Busy
  BY DEF Now, Held, Answered, Written, Resolving, Busy
<1>3. /\ Len(accepted') = Len(accepted) + 1 /\ accepted'[Len(accepted) + 1] = x
      /\ Len(queue') = Len(queue) + 1 /\ queue'[Len(queue) + 1] = x
      /\ \A p \in Places : accepted'[p] = accepted[p]
      /\ \A i \in 1..Len(queue) : queue'[i] = queue[i]
  OBVIOUS
<1>4. /\ Len(accepted) \in Nat /\ Len(queue) \in Nat /\ Len(Now) \in Nat
      /\ Len(accepted) = b + Len(Now) + Held + Len(queue)
  BY <1>0, <1>1 DEF InLine
<1>5. InLine(b)'
  <2>1. \A i \in 1..Len(Now) : b + i \in Places
    BY <1>1, <1>4 DEF Places
  <2>2. \A i \in 1..Len(Now') : accepted'[b + i] = Now'[i]
    BY <1>0, <1>2, <1>3, <2>1 DEF InLine
  <2>3. item' # NoItem => accepted'[b + Len(Now') + 1] = item'
    BY <1>0, <1>2, <1>3, <1>4 DEF InLine, Held, Places
  <2>4. \A i \in 1..Len(queue') : accepted'[b + Len(Now') + Held' + i] = queue'[i]
    <3> TAKE i \in 1..Len(queue')
    <3>1. CASE i = Len(queue) + 1
      BY <1>1, <1>2, <1>3, <1>4, <3>1
    <3>2. CASE i \in 1..Len(queue)
      <4>1. b + Len(Now) + Held + i \in Places
        BY <1>1, <1>4, <3>2 DEF Places
      <4> QED BY <1>0, <1>2, <1>3, <3>2, <4>1 DEF InLine
    <3> QED BY <1>3, <1>4, <3>1, <3>2
  <2>5. Len(accepted') = b + Len(Now') + Held' + Len(queue')
    <3>1. Len(Now') = Len(Now) /\ Held' = Held
      BY <1>2
    <3>2. Len(accepted) = b + Len(Now) + Held + Len(queue)
      BY <1>0 DEF InLine
    <3>3. Held \in Nat
      BY <1>1
    <3>4. Len(accepted) + 1 = b + Len(Now) + Held + (Len(queue) + 1)
      BY <1>4, <3>2, <3>3, OneLonger
    <3> QED BY <1>3, <3>1, <3>4
  <2> QED BY <2>2, <2>3, <2>4, <2>5 DEF InLine
<1>6. Shape(b)'
  <2>1. ASSUME thread = "down" PROVE \E p \in 1..b : accepted'[p] = Stop
    <3>1. PICK p \in 1..b : accepted[p] = Stop
      BY <1>0, <2>1 DEF Shape
    <3>2. b <= Len(accepted)
      BY <1>1, <1>4
    <3>3. p \in Places
      BY <1>4, <3>2, Wider DEF Places
    <3> QED BY <1>3, <3>1, <3>3
  <2> QED BY <1>0, <1>2, <2>1 DEF Shape
<1>7. \A p \in Places' : p \in Places \/ p = Len(accepted) + 1
  BY <1>3, <1>4 DEF Places
<1>8. Once'
  <2>1. \A p, q \in Places' : p < q => accepted'[p] # accepted'[q]
    BY <1>0, <1>3, <1>4, <1>7 DEF Once, Places
  <2>2. \A p \in Places' : accepted'[p] \in AllTasks => future'[accepted'[p]] # "none"
    BY <1>0, <1>3, <1>7 DEF Once
  <2>3. entered' \cap checked' = {} /\ \A t \in entered' \cup checked' : future'[t] = "none"
    BY <1>0 DEF Once, TypeInv, TypeOK
  <2>4. \A p \in Places' : accepted'[p] = Stop => stopper' \in {"join", "done"}
    BY <1>0, <1>3, <1>7 DEF Once
  <2> QED BY <2>1, <2>2, <2>3, <2>4 DEF Once
<1>9. Front(b)'
  <2> SUFFICES ASSUME NEW p \in Places', accepted'[p] \in AllTasks
               PROVE  /\ p <= b + Answered' => future'[accepted'[p]] # "pending"
                      /\ future'[accepted'[p]] \in {"ok", "error"} => p <= b + Answered'
    BY DEF Front
  <2>1. CASE p \in Places
    BY <1>0, <1>2, <1>3, <2>1 DEF Front
  <2>2. CASE p = Len(accepted) + 1
    <3>1. Answered <= Len(Now)
      BY <1>0, <1>1 DEF Shape, Answered, Now, Resolving, Busy, TypeInv, TypeOK
    <3>2. ~(p <= b + Answered')
      BY <1>1, <1>2, <1>4, <2>2, <3>1
    <3> QED BY <1>3, <2>2, <3>2
  <2> QED BY <1>7, <2>1, <2>2
<1>10. Stored(b)'
  <2>1. b + Written <= Len(accepted)
    BY <1>1, <1>4 DEF Written, Now, Resolving, Busy
  <2>2. \A i \in 1..Len(db) : \E p \in 1..(b + Written) : p \in Places /\ accepted[p] = db[i]
    <3>1. 1..(b + Written) \subseteq Places
      BY <1>1, <1>4, <2>1 DEF Places
    <3> QED BY <1>0, <3>1 DEF Stored
  <2>3. \A i \in 1..Len(db') : \E p \in 1..(b + Written') : accepted'[p] = db'[i]
    BY <1>2, <1>3, <2>2
  <2>4. \A u, t : Before(u, t) => Before(u, t)'
    BY <1>3, <1>4 DEF Before, Places
  <2>5. \A i, j \in 1..Len(db') : i < j => Before(db[i], db[j])'
    <3> SUFFICES ASSUME NEW i \in 1..Len(db), NEW j \in 1..Len(db), i < j
                 PROVE  Before(db[i], db[j])'
      OBVIOUS
    <3>1. PICK p, q \in Places : p < q /\ accepted[p] = db[i] /\ accepted[q] = db[j]
      BY <1>0 DEF Stored, Before, Places
    <3>2. p \in 1..Len(accepted') /\ q \in 1..Len(accepted')
      BY <1>3, <1>4 DEF Places
    <3>3. accepted'[p] = db'[i] /\ accepted'[q] = db'[j]
      BY <1>3, <3>1
    <3> QED BY <3>1, <3>2, <3>3 DEF Before
  <2>6. \A i \in 1..Len(db') : future'[db'[i]] # "error"
    BY <1>0, <1>1 DEF Stored
  <2> QED BY <1>0, <1>2, <2>3, <2>5, <2>6 DEF Stored
<1> QED BY <1>5, <1>6, <1>8, <1>9, <1>10 DEF Flow

\* Sequences at their ends.
LEMMA AppendFacts ==
  ASSUME NEW S, NEW s \in Seq(S), NEW x \in S
  PROVE  /\ Len(Append(s, x)) = Len(s) + 1 /\ Append(s, x)[Len(s) + 1] = x
         /\ \A i \in 1..Len(s) : Append(s, x)[i] = s[i]
  OBVIOUS

LEMMA TailFacts ==
  ASSUME NEW S, NEW s \in Seq(S), s # <<>>
  PROVE  /\ Len(s) \in Nat \ {0} /\ Tail(s) \in Seq(S) /\ Len(Tail(s)) = Len(s) - 1
         /\ Head(s) = s[1] /\ s[1] \in S
         /\ \A i \in 1..Len(Tail(s)) : Tail(s)[i] = s[i + 1]
  OBVIOUS

LEMMA PutFlow ==
  ASSUME TypeInv, TypeInv', NEW b \in Nat, Flow(b),
         (\E t \in AllTasks : SubmitPut(t)) \/ StopPut
  PROVE  Flow(b)'
<1>0. Once /\ queue \in Seq(Items) /\ accepted \in Seq(Items) /\ AllTasks \subseteq Items /\ Stop \in Items
  BY DEF Flow, TypeInv, TypeOK, Items
<1>1. CASE \E t \in AllTasks : SubmitPut(t)
  <2>1. PICK t \in AllTasks : SubmitPut(t)
    BY <1>1
  <2>2. /\ t \in checked /\ checked' = checked \ {t} /\ UNCHANGED <<entered, threadVars, db, stopper>>
        /\ queue' = Append(queue, t) /\ accepted' = Append(accepted, t)
        /\ future' = [future EXCEPT ![t] = "pending"]
    BY <2>1 DEF SubmitPut
  <2>3. /\ future'[t] = "pending" /\ \A u \in AllTasks \ {t} : future'[u] = future[u]
    BY <2>2 DEF TypeInv, TypeOK
  <2>4. t \notin entered /\ \A p \in Places : accepted[p] # t
    BY <1>0, <2>2 DEF Once
  <2>5. t \in Items /\ t # Stop
    BY <1>0, ConstantsAssumption
  <2>6. /\ Len(accepted') = Len(accepted) + 1 /\ accepted'[Len(accepted) + 1] = t
        /\ \A p \in Places : accepted'[p] = accepted[p]
    BY <1>0, <2>2, <2>5, AppendFacts DEF Places
  <2>7. /\ Len(queue') = Len(queue) + 1 /\ queue'[Len(queue) + 1] = t
        /\ \A i \in 1..Len(queue) : queue'[i] = queue[i]
    BY <1>0, <2>2, <2>5, AppendFacts
  <2> QED BY <2>2, <2>3, <2>4, <2>5, <2>6, <2>7, AcceptFlow
<1>2. CASE StopPut
  <2>2. /\ stopper = "put" /\ stopper' = "join" /\ UNCHANGED <<threadVars, db, entered, checked, future>>
        /\ queue' = Append(queue, Stop) /\ accepted' = Append(accepted, Stop)
    BY <1>2 DEF StopPut
  <2>4. \A p \in Places : accepted[p] # Stop
    BY <1>0, <2>2 DEF Once
  <2>5. Stop \notin AllTasks /\ entered \subseteq AllTasks /\ checked \subseteq AllTasks
    BY ConstantsAssumption DEF TypeInv, TypeOK
  <2>6. /\ Len(accepted') = Len(accepted) + 1 /\ accepted'[Len(accepted) + 1] = Stop
        /\ \A p \in Places : accepted'[p] = accepted[p]
    BY <1>0, <2>2, AppendFacts DEF Places
  <2>7. /\ Len(queue') = Len(queue) + 1 /\ queue'[Len(queue) + 1] = Stop
        /\ \A i \in 1..Len(queue) : queue'[i] = queue[i]
    BY <1>0, <2>2, AppendFacts
  <2> QED BY <1>0, <2>2, <2>4, <2>5, <2>6, <2>7, AcceptFlow
<1> QED BY <1>1, <1>2

\* The steps that keep the line: nothing is put, taken, committed or answered.
LEMMA StillFlow ==
  ASSUME TypeInv, TypeInv', NEW b \in Nat, Flow(b), UNCHANGED <<queue, accepted, db, threadVars>>,
         \A p \in Places : accepted[p] \in AllTasks =>
           /\ future'[accepted[p]] = "pending" => future[accepted[p]] = "pending"
           /\ future'[accepted[p]] \in {"ok", "error"} => future'[accepted[p]] = future[accepted[p]],
         \A t \in AllTasks : future[t] # "none" => future'[t] # "none",
         entered' \cap checked' = {},
         \A t \in entered' \cup checked' : future'[t] = "none",
         stopper \in {"join", "done"} => stopper' \in {"join", "done"}
  PROVE  Flow(b)'
<1> USE DEF threadVars
<1>0. InLine(b) /\ Shape(b) /\ Once /\ Front(b) /\ Stored(b)
  BY DEF Flow
<1>1. /\ Now' = Now /\ Answered' = Answered /\ Written' = Written
      /\ Resolving' = Resolving /\ Busy' = Busy
  BY DEF Now, Answered, Written, Resolving, Busy
<1>2. InLine(b)' /\ Once'
  BY <1>0, <1>1, InLineKept, OnceKept
<1>3. Shape(b)'
  BY <1>0, <1>1 DEF Shape
<1>4. Front(b)'
  BY <1>0, <1>1, FrontKept
<1>5. \A i \in 1..Len(db) : future'[db[i]] = "error" => future[db[i]] = "error"
  <2> TAKE i \in 1..Len(db)
  <2>1. PICK p \in 1..(b + Written) : accepted[p] = db[i]
    BY <1>0 DEF Stored
  <2>2. p \in Places /\ db[i] \in AllTasks
    <3>1. /\ Len(accepted) = b + Len(Now) + Held + Len(queue) /\ Held \in Nat
          /\ Len(queue) \in Nat /\ Len(Now) \in Nat /\ Len(accepted) \in Nat
      BY <1>0, FlowTypes DEF InLine
    <3>2. Written \in Nat /\ Written <= Len(Now)
      BY <3>1, FlowTypes DEF Written, Now, Resolving, Busy
    <3> QED BY <2>1, <3>1, <3>2, FlowTypes DEF Places
  <2> QED BY <2>1, <2>2
<1>6. Stored(b)'
  BY <1>0, <1>1, <1>5, StoredKept, FlowTypes
<1> QED BY <1>2, <1>3, <1>4, <1>6 DEF Flow

\* The test of _stopped; a failed future belongs to a task never accepted.
LEMMA TestFlow ==
  ASSUME TypeInv, TypeInv', NEW b \in Nat, Flow(b), NEW t \in AllTasks, Test(t),
         UNCHANGED <<queue, checked, accepted, db, threadVars>>,
         stopper \in {"join", "done"} => stopper' \in {"join", "done"}
  PROVE  Flow(b)'
<1>0. Once
  BY DEF Flow
<1>1. \A p \in Places : accepted[p] # t
  BY <1>0 DEF Test, Once
<1>2. CASE stopped
  <2>1. /\ future'[t] = "error" /\ \A u \in AllTasks \ {t} : future'[u] = future[u]
        /\ entered' = entered /\ t \notin entered \cup checked
    BY <1>2 DEF Test, TypeInv, TypeOK
  <2>2. entered' \cap checked' = {} /\ \A u \in entered' \cup checked' : future'[u] = "none"
    BY <1>0, <2>1 DEF Once, TypeInv, TypeOK
  <2> QED BY <1>1, <2>1, <2>2, StillFlow
<1>3. CASE ~stopped
  <2>1. /\ future' = future /\ entered' = entered \cup {t}
        /\ future[t] = "none" /\ t \notin checked
    BY <1>3 DEF Test
  <2>2. entered' \cap checked' = {} /\ \A u \in entered' \cup checked' : future'[u] = "none"
    BY <1>0, <2>1 DEF Once
  <2> QED BY <2>1, <2>2, StillFlow
<1> QED BY <1>2, <1>3

\* The look at the thread; a thread that is down has nothing in its hands.
LEMMA LookFlow ==
  ASSUME TypeInv, TypeInv', NEW b \in Nat, Flow(b), NEW t \in AllTasks, SubmitLook(t)
  PROVE  Flow(b)'
<1>0. InLine(b) /\ Shape(b) /\ Once /\ Front(b) /\ Stored(b)
  BY DEF Flow
<1>1. /\ UNCHANGED <<queue, accepted, stopper, future, db>>
      /\ t \in entered /\ entered' = entered \ {t} /\ checked' = checked \cup {t}
  BY DEF SubmitLook
<1>2. entered' \cap checked' = {} /\ \A u \in entered' \cup checked' : future'[u] = "none"
  BY <1>0, <1>1 DEF Once
<1>3. CASE UNCHANGED threadVars
  BY <1>1, <1>2, <1>3, StillFlow
<1>4. CASE ~UNCHANGED threadVars
  <2>1. /\ thread = "down" /\ thread' = "get" /\ pending' = <<>> /\ item' = NoItem
        /\ UNCHANGED <<batch, batchOf, index, outcome>>
    BY <1>4 DEF SubmitLook
  <2>2. pending = <<>> /\ item = NoItem
    BY <1>0, <2>1 DEF Shape, Busy
  <2>3. /\ Now' = Now /\ ~Resolving /\ ~Resolving' /\ ~Busy'
        /\ Answered' = Answered /\ Written' = Written
    BY <2>1, <2>2 DEF Now, Answered, Written, Resolving, Busy
  <2>4. InLine(b)' /\ Once'
    BY <1>0, <1>1, <1>2, <2>1, <2>2, <2>3, InLineKept, OnceKept
  <2>5. Shape(b)'
    BY <2>1, <2>3 DEF Shape
  <2>6. Front(b)'
    BY <1>0, <1>1, <2>3, FrontKept
  <2>7. Stored(b)'
    BY <1>0, <1>1, <2>1, <2>3, StoredKept, FlowTypes
  <2> QED BY <2>4, <2>5, <2>6, <2>7 DEF Flow
<1> QED BY <1>3, <1>4

LEMMA QuietFlow ==
  ASSUME TypeInv, TypeInv', NEW b \in Nat, Flow(b),
         (\E t \in AllTasks : Cancel(t)) \/ StopFlushed \/ StopJoined \/ UNCHANGED vars
  PROVE  Flow(b)'
<1>0. Once
  BY DEF Flow
<1>1. CASE \E t \in AllTasks : Cancel(t)
  <2>1. PICK t \in AllTasks : Cancel(t)
    BY <1>1
  <2>2. /\ future[t] = "pending" /\ future' = [future EXCEPT ![t] = "cancelled"]
        /\ UNCHANGED <<queueVars, threadVars, stopper, db>>
    BY <2>1 DEF Cancel
  <2>3. future'[t] = "cancelled" /\ \A u \in AllTasks \ {t} : future'[u] = future[u]
    BY <2>2 DEF TypeInv, TypeOK
  <2>4. entered' \cap checked' = {} /\ \A u \in entered' \cup checked' : future'[u] = "none"
    BY <1>0, <2>2, <2>3 DEF Once, queueVars, TypeInv, TypeOK
  <2> QED BY <2>2, <2>3, <2>4, StillFlow DEF queueVars
<1>2. CASE StopFlushed \/ StopJoined \/ UNCHANGED vars
  <2>1. /\ UNCHANGED <<queueVars, threadVars, future, db>>
        /\ stopper \in {"join", "done"} => stopper' \in {"join", "done"}
    BY <1>2 DEF StopFlushed, StopJoined, vars
  <2>2. entered' \cap checked' = {} /\ \A u \in entered' \cup checked' : future'[u] = "none"
    BY <1>0, <2>1 DEF Once, queueVars
  <2> QED BY <2>1, <2>2, StillFlow DEF queueVars
<1> QED BY <1>1, <1>2

-----------------------------------------------------------------------------
\* The head of the queue is collected, or held until the pending ones are done.
LEMMA TakeLine ==
  ASSUME TypeInv, NEW b \in Nat, InLine(b), item = NoItem, queue # <<>>,
         UNCHANGED accepted, queue' = Tail(queue), Now' \in Seq(AllTasks),
         \/ /\ item' = NoItem /\ Len(Now') = Len(Now) + 1 /\ Now'[Len(Now) + 1] = Head(queue)
            /\ \A i \in 1..Len(Now) : Now'[i] = Now[i]
         \/ item' = Head(queue) /\ item' # NoItem /\ Now' = Now
  PROVE  InLine(b)'
<1>1. /\ Len(queue) \in Nat \ {0} /\ Len(queue') = Len(queue) - 1 /\ Head(queue) = queue[1]
      /\ \A i \in 1..Len(queue') : queue'[i] = queue[i + 1] /\ i + 1 \in 1..Len(queue)
  <2>1. /\ Len(queue) \in Nat \ {0} /\ Len(queue') = Len(queue) - 1 /\ Head(queue) = queue[1]
        /\ \A i \in 1..Len(queue') : queue'[i] = queue[i + 1]
    BY FlowTypes, TailFacts
  <2> QED BY <2>1
<1>2. /\ Len(accepted) = b + Len(Now) + Len(queue)
      /\ \A i \in 1..Len(queue) : accepted[b + Len(Now) + i] = queue[i]
      /\ \A i \in 1..Len(Now) : accepted[b + i] = Now[i]
      /\ Len(Now) \in Nat
  BY <1>1, FlowTypes DEF InLine, Held
<1>3. accepted[b + Len(Now) + 1] = Head(queue)
  BY <1>1, <1>2
<1>4. \A i \in 1..Len(queue') : accepted[b + Len(Now) + 1 + i] = queue'[i]
  <2> TAKE i \in 1..Len(queue')
  <2>1. accepted[b + Len(Now) + (i + 1)] = queue[i + 1]
    BY <1>1, <1>2
  <2>2. b + Len(Now) + (i + 1) = b + Len(Now) + 1 + i
    BY <1>1, <1>2
  <2> QED BY <1>1, <2>1, <2>2
<1>5. CASE item' = NoItem
  <2>1. /\ Len(Now') = Len(Now) + 1 /\ Now'[Len(Now) + 1] = Head(queue)
        /\ \A i \in 1..Len(Now) : Now'[i] = Now[i]
    BY <1>5
  <2>2. Held' = 0
    BY <1>5 DEF Held
  <2>3. \A i \in 1..Len(Now') : accepted[b + i] = Now'[i]
    <3> TAKE i \in 1..Len(Now')
    <3>1. CASE i \in 1..Len(Now)
      BY <1>2, <2>1, <3>1
    <3>2. CASE i = Len(Now) + 1
      <4>1. b + i = b + Len(Now) + 1
        BY <1>2, <3>2
      <4> QED BY <1>3, <2>1, <3>2, <4>1
    <3> QED BY <1>2, <2>1, <3>1, <3>2
  <2>4. Len(accepted) = b + Len(Now') + 0 + Len(queue')
    BY <1>1, <1>2, <2>1
  <2>5. \A i \in 1..Len(queue') : accepted[b + Len(Now') + 0 + i] = queue'[i]
    <3> TAKE i \in 1..Len(queue')
    <3>1. b + Len(Now') + 0 + i = b + Len(Now) + 1 + i
      BY <1>1, <1>2, <2>1
    <3> QED BY <1>4, <3>1
  <2> QED BY <1>5, <2>2, <2>3, <2>4, <2>5 DEF InLine
<1>6. CASE item' # NoItem
  <2>1. item' = Head(queue) /\ Now' = Now /\ Held' = 1
    BY <1>6 DEF Held
  <2>2. Len(accepted) = b + Len(Now) + 1 + Len(queue')
    BY <1>1, <1>2
  <2>3. /\ Len(accepted') = b + Len(Now') + Held' + Len(queue')
        /\ \A i \in 1..Len(Now') : accepted'[b + i] = Now'[i]
        /\ accepted'[b + Len(Now') + 1] = item'
        /\ \A i \in 1..Len(queue') : accepted'[b + Len(Now') + Held' + i] = queue'[i]
    BY <1>2, <1>3, <1>4, <2>1, <2>2
  <2> QED BY <2>3 DEF InLine
<1> QED BY <1>5, <1>6

\* From one batch, or from the collecting, to the next: the front moves over
\* nothing but _STOP.
LEMMA NextBatch ==
  ASSUME TypeInv, TypeInv', NEW b \in Nat, NEW c \in Nat, Flow(b),
         UNCHANGED <<accepted, entered, checked, future, stopper, db>>,
         ~Resolving', b + Written <= c,
         \A p \in Places : accepted[p] \in AllTasks => (p <= c <=> p <= b + Answered),
         InLine(c)', Shape(c)'
  PROVE  Flow(c)'
<1>0. Once /\ Front(b) /\ Stored(b)
  BY DEF Flow
<1>1. Answered' = 0 /\ Written' = 0 /\ c + 0 = c
  BY DEF Answered, Written
<1>2. Once'
  BY <1>0, OnceKept DEF Once
<1>3. Front(c)'
  BY <1>0, <1>1, FrontKept
<1>4. Stored(c)'
  BY <1>0, <1>1, StoredKept, FlowTypes
<1> QED BY <1>2, <1>3, <1>4 DEF Flow

LEMMA GetFlow ==
  ASSUME TypeInv, TypeInv', NEW b \in Nat, Flow(b), Get
  PROVE  \E c \in Nat : Flow(c)'
<1> DEFINE h == Head(queue)
<1>0. /\ InLine(b) /\ Shape(b)
      /\ thread = "get" /\ queue # <<>> /\ queue' = Tail(queue)
      /\ UNCHANGED <<accepted, entered, checked, future, stopper, db>>
  BY DEF Flow, Get
<1>1. /\ item = NoItem /\ Now = pending /\ Answered = 0 /\ Written = 0
      /\ pending \in Seq(AllTasks)
  BY <1>0 DEF Shape, Busy, Now, Answered, Written, Resolving, TypeInv, TypeOK, AllTasks
<1>2. /\ h \in Items /\ Len(queue) \in Nat \ {0} /\ h = queue[1]
      /\ h # NoItem /\ (h \in AllTasks <=> h # Stop)
  <2>1. h \in Items /\ Len(queue) \in Nat \ {0} /\ h = queue[1]
    BY <1>0, FlowTypes, TailFacts
  <2> QED BY <2>1, ConstantsAssumption DEF Items
<1>3. b + Written <= b /\ \A p \in Places : p <= b <=> p <= b + Answered
  BY <1>1
<1>4. CASE ~(h = Stop \/ IsCritical(h))
  <2> DEFINE q == Append(pending, h)
  <2>1. /\ pending' = q /\ item' = NoItem
        /\ \/ thread' = "txn" /\ batch' = q /\ batchOf' = "pending" /\ index' = 1
           \/ thread' = thread
    BY <1>4 DEF Get, StartBatch
  <2>2. Now' = q /\ ~Resolving'
    BY <1>0, <2>1 DEF Now, Busy, Resolving
  <2>3. /\ Len(q) = Len(pending) + 1 /\ q[Len(pending) + 1] = h /\ q \in Seq(AllTasks)
        /\ \A i \in 1..Len(pending) : q[i] = pending[i]
    BY <1>1, <1>2, <1>4, AppendFacts
  <2> HIDE DEF q, h
  <2>4. InLine(b)'
    BY <1>0, <1>1, <2>1, <2>2, <2>3, TakeLine DEF h
  <2>5. Shape(b)'
    BY <1>0, <2>1, <2>2 DEF Shape, Busy, Resolving
  <2> QED BY <1>0, <1>3, <2>2, <2>4, <2>5, NextBatch
<1>5. CASE (h = Stop \/ IsCritical(h)) /\ pending # <<>>
  <2>1. /\ item' = h /\ pending' = pending
        /\ thread' = "txn" /\ batch' = pending /\ batchOf' = "pending" /\ index' = 1
    BY <1>5 DEF Get, FlushPending, StartBatch
  <2>2. Now' = Now /\ ~Resolving'
    BY <1>1, <2>1 DEF Now, Busy, Resolving
  <2> HIDE DEF h
  <2>3. InLine(b)'
    BY <1>0, <1>1, <1>2, <2>1, <2>2, TakeLine DEF h
  <2>4. Shape(b)'
    BY <2>1, <2>2 DEF Shape, Busy
  <2> QED BY <1>0, <1>3, <2>2, <2>3, <2>4, NextBatch
<1>6. CASE IsCritical(h) /\ h # Stop /\ pending = <<>>
  <2>1. /\ item' = NoItem /\ pending' = <<>>
        /\ thread' = "txn" /\ batch' = <<h>> /\ batchOf' = "critical" /\ index' = 1
    BY <1>2, <1>6 DEF Get, FlushPending, HandleHeld, StartBatch
  <2>2. Now' = <<h>> /\ ~Resolving' /\ Len(Now) = 0
    BY <1>1, <1>6, <2>1 DEF Now, Busy, Resolving
  <2>3. <<h>> \in Seq(AllTasks) /\ Len(<<h>>) = 1 /\ <<h>>[1] = h
    BY <1>2, <1>6
  <2>4. /\ Now' \in Seq(AllTasks) /\ Len(Now') = Len(Now) + 1 /\ Now'[Len(Now) + 1] = h
        /\ \A i \in 1..Len(Now) : Now'[i] = Now[i]
    BY <2>2, <2>3
  <2> HIDE DEF h
  <2>5. InLine(b)'
    BY <1>0, <1>1, <2>1, <2>4, TakeLine DEF h
  <2>6. Shape(b)'
    BY <2>1, <2>2 DEF Shape, Busy
  <2> QED BY <1>0, <1>3, <2>2, <2>5, <2>6, NextBatch
<1>7. CASE h = Stop /\ pending = <<>>
  <2>1. item' = NoItem /\ pending' = <<>> /\ thread' = "down"
    BY <1>2, <1>7 DEF Get, FlushPending, HandleHeld
  <2>2. /\ Now' = <<>> /\ ~Resolving' /\ ~Busy' /\ Len(Now) = 0 /\ Held = 0 /\ Held' = 0
        /\ Len(Now') = 0
    BY <1>1, <1>7, <2>1 DEF Now, Busy, Resolving, Held
  <2>3. /\ Len(queue') = Len(queue) - 1
        /\ \A i \in 1..Len(queue') : queue'[i] = queue[i + 1]
    BY <1>0, FlowTypes, TailFacts
  <2>4. /\ Len(accepted) = b + Len(queue)
        /\ \A i \in 1..Len(queue) : accepted[b + i] = queue[i]
    BY <1>0, <1>1, <1>2, <2>2 DEF InLine
  <2>5. accepted[b + 1] = Stop
    BY <1>2, <1>7, <2>4
  <2>6. \A i \in 1..Len(queue') : accepted[(b + 1) + i] = queue'[i]
    <3> TAKE i \in 1..Len(queue')
    <3>1. i + 1 \in 1..Len(queue) /\ b + (i + 1) = (b + 1) + i
      BY <1>2, <2>3
    <3>2. accepted[b + (i + 1)] = queue[i + 1]
      BY <2>4, <3>1
    <3> QED BY <2>3, <3>1, <3>2
  <2> DEFINE c == b + 1
  <2>7. c \in Nat /\ b + Written <= c /\ c \in 1..c
    BY <1>1
  <2>8. \A p \in Places : accepted[p] \in AllTasks => (p <= c <=> p <= b + Answered)
    <3> SUFFICES ASSUME NEW p \in Places, accepted[p] \in AllTasks
                 PROVE  p <= c <=> p <= b + Answered
      OBVIOUS
    <3>1. p # b + 1
      BY <2>5, ConstantsAssumption
    <3> QED BY <1>1, <3>1 DEF Places
  <2>9. InLine(c)'
    <3>1. Len(accepted) = c + 0 + 0 + Len(queue')
      BY <1>2, <2>3, <2>4
    <3>2. \A i \in 1..Len(queue') : accepted[c + 0 + 0 + i] = queue'[i]
      BY <2>6, <2>7
    <3>3. 1..Len(Now') = {}
      BY <2>2
    <3> HIDE DEF c
    <3> QED BY <1>0, <2>1, <2>2, <3>1, <3>2, <3>3 DEF InLine
  <2>10. \E p \in 1..c : accepted'[p] = Stop
    BY <1>0, <2>5, <2>7
  <2> HIDE DEF c
  <2>11. Shape(c)'
    BY <2>1, <2>2, <2>10 DEF Shape
  <2> QED BY <1>0, <2>2, <2>7, <2>8, <2>9, <2>11, NextBatch
<1> QED BY <1>4, <1>5, <1>6, <1>7

LEMMA GetEmptyFlow ==
  ASSUME TypeInv, TypeInv', NEW b \in Nat, Flow(b), GetEmpty
  PROVE  Flow(b)'
<1>0. /\ InLine(b) /\ Shape(b) /\ thread = "get" /\ pending # <<>>
      /\ UNCHANGED <<queue, accepted, entered, checked, future, stopper, db>>
  BY DEF Flow, GetEmpty, queueVars
<1>1. item = NoItem /\ Now = pending /\ Answered = 0 /\ Written = 0
  BY <1>0 DEF Shape, Busy, Now, Answered, Written, Resolving
<1>2. /\ item' = NoItem /\ pending' = pending
      /\ thread' = "txn" /\ batch' = pending /\ batchOf' = "pending" /\ index' = 1
  BY <1>0 DEF GetEmpty, FlushPending, StartBatch
<1>3. Now' = Now /\ ~Resolving'
  BY <1>1, <1>2 DEF Now, Busy, Resolving
<1>4. InLine(b)'
  BY <1>0, <1>1, <1>2, <1>3, InLineKept
<1>5. Shape(b)'
  BY <1>2, <1>3 DEF Shape, Busy
<1>6. b + Written <= b /\ \A p \in Places : p <= b <=> p <= b + Answered
  BY <1>1
<1> QED BY <1>0, <1>3, <1>4, <1>5, <1>6, NextBatch

\* The futures of the batch are done; the held item is next.
LEMMA BatchDoneFlow ==
  ASSUME TypeInv, TypeInv', NEW b \in Nat, Flow(b), BatchDone
  PROVE  \E c \in Nat : Flow(c)'
<1> DEFINE n == Len(batch)
<1>0. /\ InLine(b) /\ Shape(b) /\ thread = "resolve" /\ index > n
      /\ UNCHANGED <<queue, accepted, entered, checked, future, stopper, db>>
  BY DEF Flow, BatchDone, queueVars
<1>1. Busy /\ Resolving /\ n \in Nat /\ index \in Nat /\ Len(queue) \in Nat
  BY <1>0 DEF Busy, Resolving, TypeInv, TypeOK
<1>2. HandleHeld(item)
  BY <1>0, <1>1 DEF BatchDone, Shape
<1>3. /\ Now = batch /\ Answered = n /\ Written = n
  BY <1>0, <1>1 DEF Shape, Now, Answered, Written
<1>4. /\ Len(accepted) = b + n + Held + Len(queue)
      /\ item # NoItem => accepted[b + n + 1] = item
      /\ \A i \in 1..Len(queue) : accepted[b + n + Held + i] = queue[i]
  BY <1>0, <1>3 DEF InLine
<1>5. pending' = <<>> /\ item' = NoItem /\ Held' = 0
  BY <1>2 DEF HandleHeld, Held
<1> HIDE DEF n
<1>6. CASE item \in AllTasks
  <2>0. PICK c \in Nat : c = b + n
    BY <1>1
  <2>1. /\ thread' = "txn" /\ batch' = <<item>> /\ batchOf' = "critical" /\ index' = 1
    BY <1>2, <1>6 DEF HandleHeld, StartBatch
  <2>2. Now' = <<item>> /\ ~Resolving' /\ Held = 1 /\ item # NoItem
    BY <1>6, <2>1, ConstantsAssumption DEF Now, Busy, Resolving, Held, Items
  <2>3. Len(<<item>>) = 1 /\ <<item>>[1] = item
    OBVIOUS
  <2>4. c \in Nat /\ b + Written <= c /\ \A p \in Places : p <= c <=> p <= b + Answered
    BY <2>0, <1>1, <1>3
  <2>5. InLine(c)'
    <3>1. Len(accepted) = c + 1 + 0 + Len(queue)
      BY <2>0, <1>1, <1>4, <2>2
    <3>2. accepted[c + 1] = item
      BY <2>0, <1>4, <2>2
    <3>3. \A i \in 1..Len(queue) : accepted[c + 1 + 0 + i] = queue[i]
      BY <2>0, <1>1, <1>4, <2>2
    <3>4. \A i \in 1..Len(Now') : accepted[c + i] = Now'[i]
      BY <2>2, <2>3, <3>2
    <3> QED BY <1>0, <1>5, <2>2, <2>3, <3>1, <3>3, <3>4 DEF InLine
  <2>6. Shape(c)'
    BY <1>5, <2>1, <2>2 DEF Shape, Busy
  <2> QED BY <1>0, <2>2, <2>4, <2>5, <2>6, NextBatch
<1>7. CASE item = NoItem
  <2>0. PICK c \in Nat : c = b + n
    BY <1>1
  <2>1. thread' = "get"
    BY <1>2, <1>7, ConstantsAssumption DEF HandleHeld, Items
  <2>2. Now' = <<>> /\ ~Resolving' /\ ~Busy' /\ Held = 0 /\ Len(Now') = 0 /\ 1..Len(Now') = {}
    BY <1>5, <1>7, <2>1 DEF Now, Busy, Resolving, Held
  <2>3. c \in Nat /\ b + Written <= c /\ \A p \in Places : p <= c <=> p <= b + Answered
    BY <2>0, <1>1, <1>3
  <2>4. InLine(c)'
    <3>1. Len(accepted) = c + 0 + 0 + Len(queue)
      BY <2>0, <1>1, <1>4, <2>2
    <3>2. \A i \in 1..Len(queue) : accepted[c + 0 + 0 + i] = queue[i]
      BY <2>0, <1>1, <1>4, <2>2
    <3> QED BY <1>0, <1>5, <2>2, <3>1, <3>2 DEF InLine
  <2>5. Shape(c)'
    BY <1>5, <2>1, <2>2 DEF Shape
  <2> QED BY <1>0, <2>2, <2>3, <2>4, <2>5, NextBatch
<1>8. CASE item = Stop
  <2>0. PICK c \in Nat : c = b + n + 1
    BY <1>1
  <2>1. thread' = "down" /\ item # NoItem
    BY <1>2, <1>8, ConstantsAssumption DEF HandleHeld, Items
  <2>2. Now' = <<>> /\ ~Resolving' /\ ~Busy' /\ Held = 1 /\ Len(Now') = 0 /\ 1..Len(Now') = {}
    BY <1>5, <2>1 DEF Now, Busy, Resolving, Held
  <2>3. c \in Nat /\ b + Written <= c /\ c \in 1..c /\ accepted[c] = Stop
    BY <2>0, <1>1, <1>3, <1>4, <1>8, <2>1
  <2>4. \A p \in Places : accepted[p] \in AllTasks => (p <= c <=> p <= b + Answered)
    <3> SUFFICES ASSUME NEW p \in Places, accepted[p] \in AllTasks
                 PROVE  p <= c <=> p <= b + Answered
      OBVIOUS
    <3>1. p # c
      BY <2>3, ConstantsAssumption
    <3> QED BY <2>0, <1>1, <1>3, <3>1 DEF Places
  <2>5. InLine(c)'
    <3>1. Len(accepted) = c + 0 + 0 + Len(queue)
      BY <2>0, <1>1, <1>4, <2>2
    <3>2. \A i \in 1..Len(queue) : accepted[c + 0 + 0 + i] = queue[i]
      BY <2>0, <1>1, <1>4, <2>2
    <3> QED BY <1>0, <1>5, <2>2, <3>1, <3>2 DEF InLine
  <2>6. Shape(c)'
    <3>1. \E p \in 1..c : accepted'[p] = Stop
      BY <1>0, <2>3
    <3> QED BY <1>5, <2>1, <2>2, <3>1 DEF Shape
  <2> QED BY <1>0, <2>2, <2>3, <2>4, <2>5, <2>6, NextBatch
<1> QED BY <1>6, <1>7, <1>8 DEF TypeInv, TypeOK, Items

\* The batch in the line of the accepted ones.
LEMMA BatchPlaces ==
  ASSUME TypeInv, NEW b \in Nat, InLine(b), Busy
  PROVE  \A i \in 1..Len(batch) : b + i \in Places /\ accepted[b + i] = batch[i]
<1>1. /\ Now = batch /\ Len(batch) \in Nat /\ Len(queue) \in Nat /\ Held \in {0, 1}
  BY FlowTypes DEF Now
<1>2. Len(accepted) = b + Len(batch) + Held + Len(queue)
  BY <1>1 DEF InLine
<1>3. \A i \in 1..Len(batch) : b + i \in Places
  BY <1>1, <1>2 DEF Places
<1> QED BY <1>1, <1>3 DEF InLine

\* The transaction is over, one way or the other; no future is set yet.
LEMMA TxnFrame ==
  ASSUME TypeInv, TypeInv', NEW b \in Nat, Flow(b), thread = "txn", thread' = "resolve",
         UNCHANGED <<queueVars, stopper, future, pending, item, batch, batchOf, index>>
  PROVE  /\ InLine(b)' /\ Shape(b)' /\ Once' /\ Front(b)' /\ Resolving'
         /\ Written = 0 /\ Written' = Len(batch) /\ Answered = 0
<1> USE DEF queueVars
<1>0. InLine(b) /\ Shape(b) /\ Once /\ Front(b)
  BY DEF Flow
<1>1. /\ Busy /\ Busy' /\ ~Resolving /\ Resolving' /\ index = 1
      /\ Now' = Now /\ Written = 0 /\ Written' = Len(batch)
      /\ Answered = 0 /\ Answered' = 0
  BY <1>0 DEF Shape, Busy, Resolving, Now, Written, Answered
<1>2. InLine(b)' /\ Once'
  BY <1>0, <1>1, InLineKept, OnceKept DEF Once
<1>3. Shape(b)'
  <2>1. Len(batch) \in Nat
    BY DEF TypeInv, TypeOK
  <2> QED BY <1>0, <1>1, <2>1 DEF Shape
<1>4. Front(b)'
  BY <1>0, <1>1, FrontKept
<1> QED BY <1>1, <1>2, <1>3, <1>4

\* BEGIN ... COMMIT: the batch follows what is in the database, none of it had
\* an answer before.
LEMMA CommitFlow ==
  ASSUME TypeInv, TypeInv', NEW b \in Nat, Flow(b), CommitTxn
  PROVE  Flow(b)'
<1> DEFINE n == Len(db)  m == Len(batch)
<1>0. /\ InLine(b) /\ Shape(b) /\ Once /\ Front(b) /\ Stored(b)
      /\ thread = "txn" /\ thread' = "resolve" /\ outcome' = "ok" /\ db' = db \o batch
      /\ UNCHANGED <<queueVars, stopper, future, pending, item, batch, batchOf, index>>
  BY DEF Flow, CommitTxn
<1>1. /\ InLine(b)' /\ Shape(b)' /\ Once' /\ Front(b)' /\ Resolving'
      /\ Written = 0 /\ Written' = m /\ Answered = 0
  BY <1>0, TxnFrame
<1>2. /\ n \in Nat /\ m \in Nat /\ Len(db') = n + m
      /\ \A i \in 1..n : db'[i] = db[i]
      /\ \A i \in 1..m : db'[n + i] = batch[i]
  BY <1>0 DEF TypeInv, TypeOK
<1>3. \A i \in 1..m : b + i \in Places /\ accepted[b + i] = batch[i]
  BY <1>0, BatchPlaces DEF Busy
<1>4. \A i \in 1..n : \E p \in 1..b : accepted[p] = db[i]
  BY <1>0, <1>1 DEF Stored
<1>5. UNCHANGED <<accepted, future, batch>>
  BY <1>0 DEF queueVars
<1>6. \A k \in 1..(n + m) : k \in 1..n \/ (k - n \in 1..m /\ db'[k] = batch[k - n])
  <2> TAKE k \in 1..(n + m)
  <2>1. k \in 1..n \/ (k - n \in 1..m /\ n + (k - n) = k)
    BY <1>2
  <2> QED BY <1>2, <2>1
<1> HIDE DEF n, m
<1>7. \A k \in 1..(n + m) : \E p \in 1..(b + m) : accepted[p] = db'[k]
  <2> TAKE k \in 1..(n + m)
  <2>1. CASE k \in 1..n
    <3>1. PICK p \in 1..b : accepted[p] = db[k]
      BY <1>4, <2>1
    <3>2. p \in 1..(b + m) /\ db'[k] = db[k]
      BY <1>2, <2>1
    <3> QED BY <3>1, <3>2
  <2>2. CASE k - n \in 1..m /\ db'[k] = batch[k - n]
    <3>1. b + (k - n) \in 1..(b + m)
      BY <1>2, <2>2
    <3> QED BY <1>3, <2>2, <3>1
  <2> QED BY <1>6, <2>1, <2>2
<1>8. \A i, j \in 1..(n + m) : i < j => Before(db'[i], db'[j])
  <2> SUFFICES ASSUME NEW i \in 1..(n + m), NEW j \in 1..(n + m), i < j
               PROVE  Before(db'[i], db'[j])
    OBVIOUS
  <2>1. CASE j \in 1..n
    <3>1. i \in 1..n
      BY <1>2, <2>1
    <3> QED BY <1>0, <1>2, <2>1, <3>1 DEF Stored, n
  <2>2. CASE j - n \in 1..m /\ db'[j] = batch[j - n]
    <3>1. b + (j - n) \in Places /\ accepted[b + (j - n)] = db'[j]
      BY <1>3, <2>2
    <3>2. \E p \in Places : p < b + (j - n) /\ accepted[p] = db'[i]
      <4>1. CASE i \in 1..n
        <5>1. PICK p \in 1..b : accepted[p] = db[i]
          BY <1>4, <4>1
        <5>2. p \in Places /\ p < b + (j - n)
          BY <1>2, <2>2, <3>1 DEF Places
        <5> QED BY <1>2, <4>1, <5>1, <5>2
      <4>2. CASE i - n \in 1..m /\ db'[i] = batch[i - n]
        <5>1. b + (i - n) \in Places /\ accepted[b + (i - n)] = db'[i]
          BY <1>3, <4>2
        <5>2. b + (i - n) < b + (j - n)
          BY <1>2, <2>2, <4>2
        <5> QED BY <5>1, <5>2
      <4> QED BY <1>6, <4>1, <4>2
    <3> QED BY <3>1, <3>2 DEF Before, Places
  <2> QED BY <1>6, <2>1, <2>2
<1>9. \A k \in 1..(n + m) : future[db'[k]] # "error"
  <2> TAKE k \in 1..(n + m)
  <2>1. CASE k \in 1..n
    BY <1>0, <1>2, <2>1 DEF Stored, n
  <2>2. CASE k - n \in 1..m /\ db'[k] = batch[k - n]
    <3>1. b + (k - n) \in Places /\ accepted[b + (k - n)] = db'[k] /\ ~(b + (k - n) <= b + Answered)
      BY <1>1, <1>2, <1>3, <2>2
    <3>2. batch[k - n] \in AllTasks
      BY <2>2 DEF TypeInv, TypeOK, m
    <3> QED BY <1>0, <2>2, <3>1, <3>2 DEF Front
  <2> QED BY <1>6, <2>1, <2>2
<1>10. Stored(b)'
  <2>1. \A i, j \in 1..Len(db') : i < j => Before(db[i], db[j])'
    <3> SUFFICES ASSUME NEW i \in 1..(n + m), NEW j \in 1..(n + m), i < j
                 PROVE  Before(db[i], db[j])'
      BY <1>2
    <3>1. \E p, q \in 1..Len(accepted) : p < q /\ accepted[p] = db'[i] /\ accepted[q] = db'[j]
      BY <1>8 DEF Before
    <3> QED BY <1>5, <3>1 DEF Before
  <2>2. \A i \in 1..Len(db') : \E p \in 1..(b + Written') : accepted'[p] = db'[i]
    BY <1>1, <1>2, <1>5, <1>7
  <2>3. \A i \in 1..Len(db') : future'[db'[i]] # "error"
    BY <1>2, <1>5, <1>9
  <2>4. outcome' # "error"
    BY <1>0
  <2> QED BY <2>1, <2>2, <2>3, <2>4 DEF Stored
<1> QED BY <1>1, <1>10 DEF Flow

\* A rollback: nothing of the batch is in the database, from an earlier batch
\* neither.
LEMMA RollbackFlow ==
  ASSUME TypeInv, TypeInv', NEW b \in Nat, Flow(b), RollbackTxn
  PROVE  Flow(b)'
<1>0. /\ InLine(b) /\ Once /\ Stored(b)
      /\ thread = "txn" /\ thread' = "resolve" /\ db' = db
      /\ UNCHANGED <<queueVars, stopper, future, pending, item, batch, batchOf, index>>
  BY DEF Flow, RollbackTxn
<1>1. /\ InLine(b)' /\ Shape(b)' /\ Once' /\ Front(b)' /\ Resolving'
      /\ Written = 0 /\ Written' = Len(batch) /\ Len(batch) \in Nat
  BY <1>0, TxnFrame DEF TypeInv, TypeOK
<1>2. \A i \in 1..Len(batch) : b + i \in Places /\ accepted[b + i] = batch[i]
  BY <1>0, BatchPlaces DEF Busy
<1>3. \A i \in 1..Len(batch), j \in 1..Len(db) : batch[i] # db[j]
  <2> TAKE i \in 1..Len(batch), j \in 1..Len(db)
  <2>1. PICK p \in 1..b : accepted[p] = db[j]
    BY <1>0, <1>1 DEF Stored
  <2>2. p \in Places /\ b + i \in Places /\ p < b + i
    BY <1>1, <1>2 DEF Places
  <2>3. accepted[p] # accepted[b + i]
    BY <1>0, <2>2 DEF Once
  <2> QED BY <1>2, <2>1, <2>3
<1>4. UNCHANGED <<accepted, future, batch, db>>
  BY <1>0 DEF queueVars
<1>5. Stored(b)'
  <2>1. \A i, j \in 1..Len(db') : i < j => Before(db[i], db[j])'
    <3> SUFFICES ASSUME NEW i \in 1..Len(db), NEW j \in 1..Len(db), i < j
                 PROVE  Before(db[i], db[j])'
      BY <1>0
    <3>1. Before(db[i], db[j])
      BY <1>0 DEF Stored
    <3> QED BY <1>0, <1>4, <3>1 DEF Before
  <2>2. \A i \in 1..Len(db') : \E p \in 1..(b + Written') : accepted'[p] = db'[i]
    <3> SUFFICES ASSUME NEW i \in 1..Len(db)
                 PROVE  \E p \in 1..(b + Written') : accepted[p] = db[i]
      BY <1>4
    <3>1. PICK p \in 1..(b + Written) : accepted[p] = db[i]
      BY <1>0 DEF Stored
    <3>2. p \in 1..(b + Written')
      BY <1>1
    <3> QED BY <3>1, <3>2
  <2>3. \A i \in 1..Len(db') : future'[db'[i]] # "error"
    BY <1>0, <1>4 DEF Stored
  <2>4. \A i \in 1..Len(batch'), j \in 1..Len(db') : batch'[i] # db'[j]
    BY <1>3, <1>4
  <2> QED BY <2>1, <2>2, <2>3, <2>4 DEF Stored
<1> QED BY <1>1, <1>5 DEF Flow

\* The front moves over one future of the batch.
LEMMA ResolveFlow ==
  ASSUME TypeInv, TypeInv', NEW b \in Nat, Flow(b), ResolveCheck \/ ResolveSet
  PROVE  Flow(b)'
<1>0. /\ InLine(b) /\ Shape(b) /\ Once /\ Front(b) /\ Stored(b)
      /\ UNCHANGED <<queueVars, stopper, db, pending, item, batch, batchOf, outcome>>
  BY DEF Flow, ResolveCheck, ResolveSet
<1>1. UNCHANGED <<queue, accepted, entered, checked>>
  BY <1>0 DEF queueVars
<1>2. /\ Resolving /\ Resolving' /\ Busy /\ Busy' /\ thread' \notin {"down", "txn"}
      /\ index \in 1..Len(batch)
  BY DEF ResolveCheck, ResolveSet, Resolving, Busy, TypeInv, TypeOK, IndexOK
<1>3. /\ Now' = Now /\ Written' = Written /\ Answered = index - 1 /\ Answered' = index' - 1
  BY <1>0, <1>2 DEF Now, Written, Answered
<1>4. Len(batch) \in Nat /\ batch[index] \in AllTasks /\ index \in Nat
  BY <1>2 DEF TypeInv, TypeOK
<1>5. b + index \in Places /\ accepted[b + index] = batch[index]
  BY <1>0, <1>2, BatchPlaces
<1>6. InLine(b)'
  BY <1>0, <1>1, <1>3, InLineKept
<1>7. index' \in {index, index + 1}
  BY DEF ResolveCheck, ResolveSet
<1>8. Shape(b)'
  BY <1>0, <1>2, <1>4, <1>7 DEF Shape
<1>9. CASE ResolveCheck /\ future[batch[index]] = "pending"
  <2>1. UNCHANGED <<future, index>>
    BY <1>9 DEF ResolveCheck
  <2>2. Once' /\ Front(b)' /\ Stored(b)'
    BY <1>0, <1>1, <1>2, <1>3, <2>1, OnceKept, FrontKept, StoredKept, FlowTypes DEF Once
  <2> QED BY <1>6, <1>8, <2>2 DEF Flow
<1>10. CASE ResolveCheck /\ future[batch[index]] # "pending"
  <2>1. UNCHANGED future /\ index' = index + 1
    BY <1>10 DEF ResolveCheck
  <2>2. Once' /\ Stored(b)'
    BY <1>0, <1>1, <1>2, <1>3, <2>1, OnceKept, StoredKept, FlowTypes DEF Once
  <2>3. Front(b)'
    <3> SUFFICES ASSUME NEW p \in Places, accepted[p] \in AllTasks
                 PROVE  /\ p <= b + Answered' => future[accepted[p]] # "pending"
                        /\ future[accepted[p]] \in {"ok", "error"} => p <= b + Answered'
      BY <1>1, <2>1 DEF Front, Places
    <3>1. Answered' = index /\ (p <= b + index => p <= b + Answered \/ p = b + index)
      BY <1>3, <1>4, <2>1 DEF Places
    <3>2. p <= b + Answered => p <= b + index
      BY <1>3, <1>4 DEF Places
    <3> QED BY <1>0, <1>5, <1>10, <3>1, <3>2 DEF Front
  <2> QED BY <1>6, <1>8, <2>2, <2>3 DEF Flow
<1>11. CASE ResolveSet
  <2>1. /\ index' = index + 1 /\ future[batch[index]] = "pending"
        /\ future' = [future EXCEPT ![batch[index]] = outcome]
    BY <1>11 DEF ResolveSet
  <2>2. /\ future'[batch[index]] = outcome /\ outcome \in {"ok", "error"}
        /\ \A t \in AllTasks \ {batch[index]} : future'[t] = future[t]
    BY <1>4, <2>1 DEF TypeInv, TypeOK
  <2>3. Once'
    <3>1. entered' \cap checked' = {} /\ \A t \in entered' \cup checked' : future'[t] = "none"
      BY <1>0, <1>1, <2>1, <2>2 DEF Once, TypeInv, TypeOK
    <3> QED BY <1>0, <1>1, <2>2, <3>1, OnceKept
  <2>4. Front(b)'
    <3> SUFFICES ASSUME NEW p \in Places, accepted[p] \in AllTasks
                 PROVE  /\ p <= b + Answered' => future'[accepted[p]] # "pending"
                        /\ future'[accepted[p]] \in {"ok", "error"} => p <= b + Answered'
      BY <1>1 DEF Front, Places
    <3>1. /\ Answered' = index /\ (p <= b + index => p <= b + Answered \/ p = b + index)
          /\ p <= b + Answered => p <= b + index
          /\ p = b + index => p <= b + index
      BY <1>3, <1>4, <2>1 DEF Places
    <3>2. CASE p = b + index
      BY <1>5, <2>2, <3>1, <3>2
    <3>3. CASE p # b + index
      <4>1. accepted[p] # batch[index]
        BY <1>0, <1>5, <3>3 DEF Once, Places
      <4> QED BY <1>0, <2>2, <3>1, <3>3, <4>1 DEF Front
    <3> QED BY <3>2, <3>3
  <2>5. \A i \in 1..Len(db) : future'[db[i]] = "error" => future[db[i]] = "error"
    <3> TAKE i \in 1..Len(db)
    <3>1. db[i] \in AllTasks
      BY DEF TypeInv, TypeOK
    <3>2. db[i] = batch[index] => outcome # "error"
      BY <1>0, <1>2 DEF Stored
    <3> QED BY <2>2, <3>1, <3>2
  <2>6. Stored(b)'
    <3>1. UNCHANGED <<accepted, db>> /\ b + Written <= b + Written'
      BY <1>0, <1>1, <1>3, FlowTypes
    <3>2. Resolving' /\ outcome' = "error" => Resolving /\ outcome = "error" /\ batch' = batch
      BY <1>0, <1>2
    <3> QED BY <1>0, <2>5, <3>1, <3>2, StoredKept
  <2> QED BY <1>6, <1>8, <2>3, <2>4, <2>6 DEF Flow
<1> QED BY <1>9, <1>10, <1>11

-----------------------------------------------------------------------------
\* Without a crash the writer keeps the line.
THEOREM FlowInvCorrect == Spec => []FlowInv
<1>1. Init => FlowInv
  <2> SUFFICES ASSUME Init PROVE Flow(0)
    BY DEF FlowInv
  <2>1. /\ accepted = <<>> /\ queue = <<>> /\ db = <<>> /\ pending = <<>> /\ item = NoItem
        /\ thread = "get" /\ entered = {} /\ checked = {} /\ Len(accepted) = 0 /\ Len(queue) = 0 /\ Len(db) = 0
    BY DEF Init
  <2>2. Now = <<>> /\ Len(Now) = 0 /\ Held = 0 /\ ~Busy /\ ~Resolving
    BY <2>1 DEF Now, Held, Busy, Resolving
  <2>3. InLine(0)
    BY <2>1, <2>2 DEF InLine
  <2>4. Shape(0)
    BY <2>1, <2>2 DEF Shape
  <2>5. Once /\ Front(0)
    BY <2>1 DEF Once, Front, Places
  <2>6. Stored(0)
    BY <2>1, <2>2 DEF Stored
  <2> QED BY <2>3, <2>4, <2>5, <2>6 DEF Flow
<1>2. TypeInv /\ TypeInv' /\ FlowInv /\ [Next]_vars => FlowInv'
  <2> SUFFICES ASSUME TypeInv, TypeInv', FlowInv, [Next]_vars, crashes' = 0
               PROVE  \E b \in Nat : Flow(b)'
    BY DEF FlowInv
  <2>0. crashes = 0 /\ ~ResolveRaises
    <3>1. ~ResolveRaises
      BY DEF ResolveRaises, TypeInv, TypeOK
    <3>2. crashes' = crashes
      BY <3>1 DEF Next, WriterStep, SubmitTest, SubmitLook, SubmitPut, Cancel, Get, GetEmpty, CommitTxn,
                  RollbackTxn, ResolveCheck, ResolveSet, BatchDone, StopFlush, StopStep,
                  StopFlushed, StopPut, StopJoined, vars
    <3> QED BY <3>1, <3>2
  <2>1. PICK b \in Nat : Flow(b)
    BY <2>0 DEF FlowInv
  <2>2. CASE \E t \in AllTasks : SubmitTest(t) \/ SubmitLook(t)
    BY <2>1, <2>2, TestFlow, LookFlow DEF SubmitTest
  <2>3. CASE StopFlush
    <3>1. /\ FlushTask \in AllTasks /\ Test(FlushTask) /\ stopper = "idle"
          /\ UNCHANGED <<queue, checked, accepted, db, threadVars>>
      BY <2>3 DEF StopFlush, AllTasks
    <3> QED BY <2>1, <3>1, TestFlow
  <2>4. CASE (\E t \in AllTasks : SubmitPut(t)) \/ StopPut
    BY <2>1, <2>4, PutFlow
  <2>5. CASE (\E t \in AllTasks : Cancel(t)) \/ StopFlushed \/ StopJoined \/ UNCHANGED vars
    BY <2>1, <2>5, QuietFlow
  <2>6. CASE Get
    BY <2>1, <2>6, GetFlow
  <2>7. CASE GetEmpty
    BY <2>1, <2>7, GetEmptyFlow
  <2>8. CASE CommitTxn
    BY <2>1, <2>8, CommitFlow
  <2>9. CASE RollbackTxn
    BY <2>1, <2>9, RollbackFlow
  <2>10. CASE ResolveCheck \/ ResolveSet
    BY <2>1, <2>10, ResolveFlow
  <2>11. CASE BatchDone
    BY <2>1, <2>11, BatchDoneFlow
  <2> QED BY <2>0, <2>2, <2>3, <2>4, <2>5, <2>6, <2>7, <2>8, <2>9, <2>10, <2>11
          DEF Next, WriterStep, StopStep
<1> QED BY <1>1, <1>2, TypeInvCorrect, PTL DEF Spec

\* A failed future means a write that is not in the database: its caller may
\* repeat it.
THEOREM ErrorIsRolledBackCorrect == Spec => []ErrorIsRolledBack
<1>1. FlowInv => ErrorIsRolledBack
  BY DEF FlowInv, Flow, Stored, ErrorIsRolledBack, Elements
<1> QED BY <1>1, FlowInvCorrect, PTL

\* The database sees the writes in the order of the queue, each at most once.
THEOREM CommittedInOrderCorrect == Spec => []CommittedInOrder
<1>1. FlowInv => CommittedInOrder
  BY DEF FlowInv, Flow, Stored, CommittedInOrder
<1> QED BY <1>1, FlowInvCorrect, PTL

\* When a critical write is answered, so is all that was queued before it.
THEOREM CriticalIsBarrierCorrect == Spec => []CriticalIsBarrier
<1>1. TypeInv /\ FlowInv => CriticalIsBarrier
  <2> SUFFICES ASSUME TypeInv, FlowInv, crashes = 0, NEW t \in AllTasks, NEW u \in AllTasks,
                      future[t] \in {"ok", "error"}, Before(u, t)
               PROVE  future[u] # "pending"
    BY DEF CriticalIsBarrier
  <2>1. PICK b \in Nat : Front(b)
    BY DEF FlowInv, Flow
  <2>2. PICK p, q \in Places : p < q /\ accepted[p] = u /\ accepted[q] = t
    BY DEF Before, Places
  <2>3. Answered \in Nat /\ q <= b + Answered
    BY <2>1, <2>2, FlowTypes DEF Front
  <2>4. p <= b + Answered
    BY <2>2, <2>3 DEF Places
  <2> QED BY <2>1, <2>2, <2>4 DEF Front
<1> QED BY <1>1, FlowInvCorrect, TypeInvCorrect, PTL

\* When _STOP has ended the thread, all that was queued before it is answered.
THEOREM ShutdownDrainsCorrect == Spec => []ShutdownDrains
<1>1. TypeInv /\ FlowInv => ShutdownDrains
  <2> SUFFICES ASSUME TypeInv, FlowInv, crashes = 0, thread = "down", NEW u \in AllTasks,
                      Before(u, Stop)
               PROVE  future[u] # "pending"
    BY DEF ShutdownDrains
  <2>1. PICK b \in Nat : Flow(b)
    BY DEF FlowInv
  <2>2. PICK s \in 1..b : accepted[s] = Stop
    BY <2>1 DEF Flow, Shape
  <2>3. PICK p, q \in Places : p < q /\ accepted[p] = u /\ accepted[q] = Stop
    BY DEF Before, Places
  <2>4. /\ Len(accepted) = b + Len(Now) + Held + Len(queue) /\ Held \in Nat
        /\ Len(queue) \in Nat /\ Len(Now) \in Nat /\ Answered \in Nat
    BY <2>1, FlowTypes DEF Flow, InLine
  <2>5. s \in Places
    BY <2>4 DEF Places
  <2>6. q = s
    BY <2>1, <2>2, <2>3, <2>5 DEF Flow, Once, Places
  <2>7. p <= b + Answered
    BY <2>3, <2>4, <2>6 DEF Places
  <2> QED BY <2>1, <2>3, <2>7 DEF Flow, Front
<1> QED BY <1>1, FlowInvCorrect, TypeInvCorrect, PTL
=============================================================================
