------------------------ MODULE ParticipantScannerProofs ------------------------
(***************************************************************************)
(* What a scan has noted is persisted, for any list of participants, any   *)
(* number of calls of scan() and any limits (tms/telegram/                 *)
(* participant_scanner.py).                                                *)
(*                                                                         *)
(* The checkpoint of a scan is an offset: the claim that everybody before  *)
(* it is in the dataset passes from the server's pages through a queue, a  *)
(* batch and DBWriter before it reaches the job row, and two calls may do  *)
(* that at the same time.  ScannerInv follows it on that way: a call goes  *)
(* on only with the answer to its own write (WaitInv), its pages follow    *)
(* each other without a gap (FlowInv), what lies behind its offset is in   *)
(* the dataset or in its batch (PersistInv), and so a call that comes to   *)
(* the end has the whole group (CompleteInv).                              *)
(*                                                                         *)
(* Two invariants on top of it are about what two calls may spoil:         *)
(* AloneInv, that no write left in DBWriter's queue carries an older       *)
(* offset than the row, and FirstInv, that no batch follows the final      *)
(* write of the only call.                                                 *)
(***************************************************************************)
EXTENDS ParticipantScanner, FiniteSetTheorems, SequenceTheorems, TLAPS
\* What a page, a call and a write are.
Total == Len(Participants)

Page == [ids : SUBSET Members, next : 0..Total]

Call ==
  [pc : {"none", "queued", "starting", "started", "run", "final", "finalEvent", "failing",
         "failedEvent"},
   prod : Ended \cup {"off", "slot", "fetch", "put", "sentinel"},
   cons : Ended \cup {"off", "get", "ingest", "check"},
   current : 0..Total, page : Page, error : BOOLEAN, queue : Seq(Page),
   batch : SUBSET Members, batchOffset : 0..Total, last : BOOLEAN, seen : SUBSET Members,
   offset : 0..Total, accepted : Nat, cancel : BOOLEAN]

Write ==
  [by : Scans \cup {NoScan}, kind : {"state", "ingest", "checkpoint", "event"},
   state : Terminal \cup {"none", "RUNNING"}, ids : SUBSET Members,
   offset : 0..Total, accepted : Nat]

\* Every variable and every local of a call has its type.
TypeInv ==
  /\ row \in [state : Terminal \cup {"none", "READY", "RUNNING", "PAUSED"},
              offset : 0..Total, accepted : Nat]
  /\ dataset \subseteq Members
  /\ scan \in [Scans -> Call]
  /\ registered \in Scans \cup {NoScan} /\ prepared \in BOOLEAN
  /\ wq \in Seq(Write)
  /\ app \in {"up", "down"} /\ doubled \in BOOLEAN
  /\ {commands, crashes, failures, rpcErrors, restarts} \subseteq Nat

\* The children exist while the parent is between its event and its final write.
Staged(c) ==
  /\ c.pc \in {"none", "queued", "starting", "started"} =>
       /\ c.prod = "off" /\ c.cons = "off"
       /\ c.queue = <<>> /\ ~c.last /\ c.batch = {} /\ c.seen = {}
  /\ c.pc = "run" => c.prod # "off" /\ c.cons # "off"
  /\ c.pc \in {"final", "finalEvent", "failing", "failedEvent"} =>
       c.prod \in Ended /\ c.cons \in Ended

\* What call c awaits when write w is its own.
Awaits(c, w) ==
  /\ w.kind = "state" => c.pc \in {"starting", "final", "failing"}
  /\ w.kind = "event" => c.pc \in {"started", "finalEvent", "failedEvent"}
  /\ w.kind = "ingest" => c.pc = "run" /\ c.cons = "ingest" /\ w.ids = c.batch
  /\ w.kind = "checkpoint" => c.pc = "run" /\ c.cons = "check"

\* A call awaits at most one write, and does what that write says; a process that is
\* down has no calls.
WaitInv ==
  /\ \A s \in Scans : Staged(scan[s])
  /\ \A i \in 1..Len(wq) : wq[i].by # NoScan => Awaits(scan[wq[i].by], wq[i])
  /\ \A i, j \in 1..Len(wq) : wq[i].by = wq[j].by /\ wq[i].by # NoScan => i = j
  /\ app = "down" => \A s \in Scans : ~Live(s)

\* The pages in queue q follow each other from offset b; only the end is a sentinel.
From(q, b, i) == IF i = 1 THEN b ELSE q[i - 1].next
Chained(q, b) ==
  \A i \in 1..Len(q) :
    /\ q[i] = Sentinel => i = Len(q)
    /\ q[i] # Sentinel => q[i] = PageAt(From(q, b, i))
ReadTo(c) == From(c.queue, c.batchOffset, Len(c.queue) + 1)

\* Producer, queue and consumer of a running call pass the list on without a gap.
Flows(c) ==
  /\ Chained(c.queue, c.batchOffset)
  /\ c.prod = "slot" => c.queue = <<>> /\ c.batchOffset = c.offset
  /\ c.prod \in {"slot", "fetch", "put", "sentinel"} =>
       /\ ~c.last
       /\ \A i \in 1..Len(c.queue) : c.queue[i] # Sentinel
  /\ c.prod \in {"fetch", "put"} => c.current = ReadTo(c)
  /\ c.prod = "put" => c.page = PageAt(c.current) /\ c.page.ids # {}
  /\ c.prod = "sentinel" /\ ~c.error /\ ~c.cancel => ReadTo(c) = Total
  /\ c.prod = "done" /\ ~c.cancel =>
       \A i \in 1..Len(c.queue) :
         c.queue[i] = Sentinel => From(c.queue, c.batchOffset, i) = Total
  /\ c.last => c.prod \in Ended /\ c.cons # "get"
  /\ c.last /\ c.prod = "done" /\ ~c.cancel => c.batchOffset = Total
  /\ c.cons = "done" => c.last /\ c.batch = {}
FlowInv == \A s \in Scans : scan[s].pc = "run" => Flows(scan[s])

\* Everybody before an offset that a call, a write or the row carries is in dataset d; who
\* lies before the offset of a call's batch is there or in the batch.
Persisted(off, d) == \A i \in 1..off : Participants[i] \in d
Collected(c, d) ==
  /\ c.seen \subseteq d \cup c.batch
  /\ \A i \in 1..c.batchOffset : Participants[i] \in d \cup c.batch
  /\ c.cons = "check" => c.batch \subseteq d
PersistInv ==
  /\ Persisted(row.offset, dataset)
  /\ \A i \in 1..Len(wq) : Persisted(wq[i].offset, dataset)
  /\ \A s \in Scans : /\ Persisted(scan[s].offset, dataset)
                      /\ scan[s].pc = "run" => Collected(scan[s], dataset)

\* Nobody writes COMPLETED before the whole group is in the dataset.
CompleteInv ==
  /\ row.state = "COMPLETED" => dataset = Members
  /\ \A i \in 1..Len(wq) : /\ wq[i].state = "COMPLETED" => dataset = Members
                           /\ wq[i].kind = "state" => wq[i].state # "none"

\* Before the first call nothing is written.
BeginInv ==
  /\ prepared => row.state = "READY" /\ app = "up"
  /\ prepared \/ row.state = "none" =>
       /\ wq = <<>> /\ dataset = {} /\ row.offset = 0 /\ row.accepted = 0
       /\ \A s \in Scans : ~Live(s)

\* No counter exceeds the members it stands for.
AtMost(n, d) == n <= Cardinality(d)
CountInv ==
  /\ AtMost(row.accepted, dataset)
  /\ \A i \in 1..Len(wq) : AtMost(wq[i].accepted, dataset)
  /\ \A s \in Scans : AtMost(scan[s].accepted, dataset)

\* The inductive invariant.
ScannerInv ==
  TypeInv /\ WaitInv /\ FlowInv /\ PersistInv /\ CompleteInv /\ BeginInv /\ CountInv

-----------------------------------------------------------------------------
(* The list of participants and its pages.                                 *)

LEMMA TotalType == Total \in Nat /\ \A i \in 1..Total : Participants[i] \in Members
  BY ScannerAssumption DEF Total, Members

LEMMA MembersFinite == IsFiniteSet(Members)
<1> DEFINE f == [i \in 1..Total |-> Participants[i]]
<1>1. IsFiniteSet(1..Total)
  BY TotalType, FS_Interval
<1>2. f \in [1..Total -> Members]
  BY TotalType
<1>3. f \in Surjection(1..Total, Members)
  BY <1>2 DEF Surjection, Members, Total
<1> HIDE DEF f
<1> QED BY <1>1, <1>3, FS_Surjection

\* A page goes on where it begins, stays within the list, is short only at the end and
\* empty only behind it.
LEMMA PageFacts ==
  ASSUME NEW off \in 0..Total
  PROVE  /\ PageAt(off) \in Page
         /\ PageAt(off).next \in off..Total
         /\ \A i \in off + 1..PageAt(off).next : Participants[i] \in PageAt(off).ids
         /\ PageAt(off).ids = {} => off = Total
         /\ PageAt(off).next - off < PageLimit => PageAt(off).next = Total
         /\ PageAt(off).ids # {} => PageAt(off) # Sentinel
<1> DEFINE n == Smaller(off + PageLimit, Len(Participants))
<1>1. /\ n \in off..Total
      /\ off < Total => n > off
      /\ n - off < PageLimit => n = Total
  BY TotalType, ScannerAssumption DEF Total, Smaller
<1> HIDE DEF n
<1>2. PageAt(off) = [ids |-> {Participants[i] : i \in off + 1..n}, next |-> n]
  BY DEF PageAt, n
<1>3. \A i \in off + 1..n : i \in 1..Total
  BY <1>1, TotalType
<1>4. PageAt(off).ids = {Participants[i] : i \in off + 1..n} /\ PageAt(off).next = n
  BY <1>2
<1>5. {Participants[i] : i \in off + 1..n} \subseteq Members
  BY <1>3, TotalType
<1>6. PageAt(off) \in Page
  BY <1>1, <1>2, <1>5, TotalType DEF Page
<1>7. PageAt(off).ids = {} => off = Total
  <2> SUFFICES ASSUME off # Total PROVE PageAt(off).ids # {}
    OBVIOUS
  <2>1. off + 1 \in off + 1..n
    BY <1>1, TotalType
  <2> QED BY <1>4, <2>1
<1>8. PageAt(off).ids # {} => PageAt(off) # Sentinel
  BY DEF Sentinel
<1> QED BY <1>1, <1>4, <1>6, <1>7, <1>8

-----------------------------------------------------------------------------
(* The queue of pages.                                                     *)

LEMMA AppendAt ==
  ASSUME NEW S, NEW q \in Seq(S), NEW x \in S
  PROVE  /\ Append(q, x) \in Seq(S) /\ Len(Append(q, x)) = Len(q) + 1
         /\ \A i \in 1..Len(q) : Append(q, x)[i] = q[i]
         /\ Append(q, x)[Len(q) + 1] = x
  OBVIOUS

LEMMA TailAt ==
  ASSUME NEW S, NEW q \in Seq(S), q # <<>>
  PROVE  /\ Tail(q) \in Seq(S) /\ Len(Tail(q)) = Len(q) - 1 /\ Head(q) = q[1]
         /\ Head(q) \in S /\ Len(q) \in Nat \ {0}
         /\ \A i \in 1..Len(Tail(q)) : i + 1 \in 1..Len(q) /\ Tail(q)[i] = q[i + 1]
  OBVIOUS

LEMMA FromAppend ==
  ASSUME NEW q \in Seq(Page), NEW b, NEW x \in Page
  PROVE  /\ \A i \in 1..Len(q) + 1 : From(Append(q, x), b, i) = From(q, b, i)
         /\ From(Append(q, x), b, Len(q) + 2) = x.next
<1>1. Len(q) \in Nat
  OBVIOUS
<1>2. ASSUME NEW i \in 1..Len(q) + 1, i # 1 PROVE Append(q, x)[i - 1] = q[i - 1]
  <2>1. i - 1 \in 1..Len(q)
    BY <1>1, <1>2
  <2> QED BY <2>1, AppendAt
<1>3. (Len(q) + 2) - 1 = Len(q) + 1 /\ Len(q) + 2 # 1
  BY <1>1
<1>4. Append(q, x)[Len(q) + 1] = x
  BY AppendAt
<1> QED BY <1>2, <1>3, <1>4 DEF From

LEMMA ChainAppend ==
  ASSUME NEW q \in Seq(Page), NEW b \in 0..Total, Chained(q, b), NEW x \in Page,
         \A i \in 1..Len(q) : q[i] # Sentinel,
         x # Sentinel => x = PageAt(From(q, b, Len(q) + 1))
  PROVE  Chained(Append(q, x), b)
<1> DEFINE r == Append(q, x)
<1>1. Len(q) \in Nat /\ Len(r) = Len(q) + 1 /\ r[Len(q) + 1] = x
      /\ \A i \in 1..Len(q) : r[i] = q[i]
  BY AppendAt
<1>2. \A i \in 1..Len(q) + 1 : From(r, b, i) = From(q, b, i)
  BY FromAppend
<1> HIDE DEF r
<1> SUFFICES ASSUME NEW i \in 1..Len(r)
             PROVE  /\ r[i] = Sentinel => i = Len(r)
                    /\ r[i] # Sentinel => r[i] = PageAt(From(r, b, i))
  BY DEF Chained, r
<1>3. CASE i \in 1..Len(q)
  <2>1. r[i] = q[i] /\ q[i] # Sentinel /\ q[i] = PageAt(From(q, b, i))
    BY <1>1, <1>3 DEF Chained
  <2>2. From(r, b, i) = From(q, b, i)
    BY <1>1, <1>2, <1>3
  <2> QED BY <2>1, <2>2
<1>4. CASE i = Len(q) + 1
  <2>1. From(r, b, i) = From(q, b, i)
    BY <1>1, <1>2, <1>4
  <2> QED BY <1>1, <1>4, <2>1
<1> QED BY <1>1, <1>3, <1>4

\* Taking a page moves the beginning of the queue to its end.
LEMMA ChainTail ==
  ASSUME NEW q \in Seq(Page), q # <<>>, NEW b \in 0..Total, Chained(q, b),
         Head(q) # Sentinel
  PROVE  /\ Head(q) = PageAt(b)
         /\ Chained(Tail(q), Head(q).next)
         /\ \A i \in 1..Len(q) : From(Tail(q), Head(q).next, i) = From(q, b, i + 1)
<1> DEFINE r == Tail(q)
<1>1. /\ r \in Seq(Page) /\ Len(r) = Len(q) - 1 /\ Len(q) \in Nat \ {0} /\ Head(q) = q[1]
      /\ \A i \in 1..Len(r) : i + 1 \in 1..Len(q) /\ r[i] = q[i + 1]
  BY TailAt
<1> HIDE DEF r
<1>2. Head(q) = PageAt(b)
  BY <1>1 DEF Chained, From
<1>3. ASSUME NEW i \in 1..Len(q) PROVE From(r, Head(q).next, i) = From(q, b, i + 1)
  <2>1. (i + 1) - 1 = i /\ i + 1 # 1
    OBVIOUS
  <2>2. From(q, b, i + 1) = q[i].next
    BY <2>1 DEF From
  <2>3. CASE i = 1
    BY <1>1, <2>2, <2>3 DEF From
  <2>4. CASE i # 1
    <3>1. i - 1 \in 1..Len(r) /\ (i - 1) + 1 = i
      BY <1>1, <2>4
    <3>2. r[i - 1] = q[i]
      BY <1>1, <3>1
    <3> QED BY <2>2, <2>4, <3>2 DEF From
  <2> QED BY <2>3, <2>4
<1>4. Chained(r, Head(q).next)
  <2> SUFFICES ASSUME NEW i \in 1..Len(r)
               PROVE  /\ r[i] = Sentinel => i = Len(r)
                      /\ r[i] # Sentinel => r[i] = PageAt(From(r, Head(q).next, i))
    BY DEF Chained
  <2>1. i + 1 \in 1..Len(q) /\ r[i] = q[i + 1] /\ i \in 1..Len(q)
    BY <1>1
  <2>2. From(r, Head(q).next, i) = From(q, b, i + 1)
    BY <1>3, <2>1
  <2>3. /\ q[i + 1] = Sentinel => i + 1 = Len(q)
        /\ q[i + 1] # Sentinel => q[i + 1] = PageAt(From(q, b, i + 1))
    BY <2>1 DEF Chained
  <2>4. i + 1 = Len(q) => i = Len(r)
    BY <1>1
  <2> QED BY <2>1, <2>2, <2>3, <2>4
<1> QED BY <1>2, <1>3, <1>4 DEF r

-----------------------------------------------------------------------------
(* The dataset only grows, and what was persisted stays so.                *)

RowType == [state : Terminal \cup {"none", "READY", "RUNNING", "PAUSED"},
            offset : 0..Total, accepted : Nat]

BoundsType == {commands, crashes, failures, rpcErrors, restarts} \subseteq Nat

LEMMA Grows ==
  ASSUME dataset \subseteq dataset', dataset' \subseteq Members
  PROVE  /\ Cardinality(dataset) \in Nat /\ Cardinality(dataset') \in Nat
         /\ Cardinality(dataset) <= Cardinality(dataset')
         /\ \A n \in Nat : AtMost(n, dataset) => AtMost(n, dataset')
         /\ \A off : Persisted(off, dataset) => Persisted(off, dataset')
         /\ \A c \in Call : Collected(c, dataset) => Collected(c, dataset')
         /\ dataset = Members => dataset' = Members
<1>1. IsFiniteSet(dataset') /\ IsFiniteSet(dataset)
  BY MembersFinite, FS_Subset
<1>2. /\ Cardinality(dataset) \in Nat /\ Cardinality(dataset') \in Nat
      /\ Cardinality(dataset) <= Cardinality(dataset')
  BY <1>1, FS_Subset, FS_CardinalityType
<1>3. \A n \in Nat : AtMost(n, dataset) => AtMost(n, dataset')
  BY <1>2 DEF AtMost
<1>4. \A off : Persisted(off, dataset) => Persisted(off, dataset')
  BY DEF Persisted
<1>5. \A c \in Call : Collected(c, dataset) => Collected(c, dataset')
  BY DEF Collected
<1> QED BY <1>2, <1>3, <1>4, <1>5

-----------------------------------------------------------------------------
(* Shapes of steps.                                                        *)

\* A step of call s that hands over no write.
LEMMA QuietStep ==
  ASSUME ScannerInv, NEW s \in Scans, NEW c \in Call, scan' = [scan EXCEPT ![s] = c],
         UNCHANGED <<row, dataset, prepared, wq, app, doubled>>,
         registered' \in Scans \cup {NoScan}, BoundsType',
         c.pc = scan[s].pc, c.offset = scan[s].offset, c.accepted = scan[s].accepted,
         Staged(c), \A w \in Write : Awaits(scan[s], w) => Awaits(c, w),
         c.pc = "run" => Flows(c) /\ Collected(c, dataset)
  PROVE  ScannerInv'
<1> USE DEF ScannerInv
<1>1. scan \in [Scans -> Call] /\ wq \in Seq(Write)
  BY DEF TypeInv
<1>2. scan'[s] = c /\ \A t \in Scans \ {s} : scan'[t] = scan[t]
  BY <1>1
<1>3. TypeInv'
  BY <1>1 DEF TypeInv, BoundsType
<1>4. \A t \in Scans : Live(t)' = Live(t)
  BY <1>2 DEF Live
<1>5. WaitInv'
  <2>1. \A t \in Scans : Staged(scan'[t])
    BY <1>2 DEF WaitInv
  <2>2. ASSUME NEW i \in 1..Len(wq), wq[i].by # NoScan
        PROVE  Awaits(scan'[wq[i].by], wq[i])
    <3>1. wq[i] \in Write
      BY <1>1
    <3>2. wq[i].by \in Scans /\ Awaits(scan[wq[i].by], wq[i])
      BY <2>2, <3>1 DEF Write, WaitInv
    <3> QED BY <1>2, <3>1, <3>2
  <2>3. app' = "down" => \A t \in Scans : ~Live(t)'
    BY <1>4 DEF WaitInv
  <2> QED BY <2>1, <2>2, <2>3 DEF WaitInv
<1>6. FlowInv'
  BY <1>2 DEF FlowInv
<1>7. PersistInv'
  BY <1>2 DEF PersistInv, Persisted, Collected
<1>8. CompleteInv'
  BY DEF CompleteInv
<1>9. BeginInv'
  BY <1>4 DEF BeginInv
<1>10. CountInv'
  BY <1>2 DEF CountInv, AtMost
<1> QED BY <1>3, <1>5, <1>6, <1>7, <1>8, <1>9, <1>10

\* The same write, which nobody may wait for any more.
Same(u, w) ==
  /\ u.by \in {w.by, NoScan}
  /\ u.kind = w.kind /\ u.state = w.state /\ u.ids = w.ids
  /\ u.offset = w.offset /\ u.accepted = w.accepted

\* What is left of the queue when call s has nothing to wait for.
Rest(R, s) ==
  /\ R \in Seq(Write)
  /\ \A i \in 1..Len(R) : R[i].by # s /\ \E j \in 1..Len(wq) : Same(R[i], wq[j])
  /\ \A i, j \in 1..Len(R) : R[i].by = R[j].by /\ R[i].by # NoScan => i = j

LEMMA RestAll ==
  ASSUME TypeInv, WaitInv, NEW s \in Scans, \A w \in Write : ~Awaits(scan[s], w)
  PROVE  Rest(wq, s)
<1>1. wq \in Seq(Write)
  BY DEF TypeInv
<1>2. ASSUME NEW i \in 1..Len(wq) PROVE wq[i].by # s /\ Same(wq[i], wq[i])
  <2>1. wq[i] \in Write
    BY <1>1
  <2>2. wq[i].by # s
    BY <2>1, ScannerAssumption DEF WaitInv
  <2> QED BY <2>2 DEF Same
<1> QED BY <1>1, <1>2 DEF Rest, WaitInv

LEMMA RestTail ==
  ASSUME TypeInv, WaitInv, wq # <<>>, NEW s \in Scans, Head(wq).by = s
  PROVE  Rest(Tail(wq), s)
<1> DEFINE R == Tail(wq)
<1>1. wq \in Seq(Write)
  BY DEF TypeInv
<1>2. /\ R \in Seq(Write) /\ Len(R) = Len(wq) - 1 /\ Head(wq) = wq[1]
      /\ Len(wq) \in Nat \ {0}
      /\ \A i \in 1..Len(R) : i + 1 \in 1..Len(wq) /\ R[i] = wq[i + 1]
  BY <1>1, TailAt
<1> HIDE DEF R
<1>3. ASSUME NEW i \in 1..Len(R) PROVE R[i].by # s /\ Same(R[i], wq[i + 1])
  <2>1. 1 \in 1..Len(wq) /\ i + 1 # 1 /\ wq[1].by = s /\ s # NoScan
    BY <1>2, ScannerAssumption
  <2>2. wq[i + 1].by # s
    BY <1>2, <2>1 DEF WaitInv
  <2> QED BY <1>2, <2>2 DEF Same
<1>4. ASSUME NEW i \in 1..Len(R), NEW j \in 1..Len(R), R[i].by = R[j].by, R[i].by # NoScan
      PROVE  i = j
  <2>1. i + 1 = j + 1
    BY <1>2, <1>4 DEF WaitInv
  <2> QED BY <2>1
<1> QED BY <1>2, <1>3, <1>4 DEF Rest, R

LEMMA AbandonedType ==
  ASSUME TypeInv, NEW s \in Scans
  PROVE  /\ Abandoned(s) \in Seq(Write) /\ Len(Abandoned(s)) = Len(wq)
         /\ \A i \in 1..Len(wq) : /\ Same(Abandoned(s)[i], wq[i]) /\ Abandoned(s)[i].by # s
                                  /\ Abandoned(s)[i].by # NoScan => Abandoned(s)[i] = wq[i]
<1>1. wq \in Seq(Write) /\ Len(wq) \in Nat
  BY DEF TypeInv
<1> DEFINE q == Abandoned(s)
           n == Len(wq)
<1>2. \A i \in 1..n : q[i] = IF wq[i].by = s THEN [wq[i] EXCEPT !.by = NoScan] ELSE wq[i]
  BY DEF Abandoned
<1>3. ASSUME NEW i \in 1..n
      PROVE  /\ q[i] \in Write /\ Same(q[i], wq[i]) /\ q[i].by # s
             /\ q[i].by # NoScan => q[i] = wq[i]
  <2>1. wq[i] \in Write
    BY <1>1
  <2>2. CASE wq[i].by = s
    <3>1. q[i] = [wq[i] EXCEPT !.by = NoScan]
      BY <1>2, <2>2
    <3> QED BY <2>1, <3>1, ScannerAssumption DEF Write, Same
  <2>3. CASE wq[i].by # s
    <3>1. q[i] = wq[i]
      BY <1>2, <2>3
    <3> QED BY <2>1, <2>3, <3>1 DEF Same
  <2> QED BY <2>2, <2>3
<1>4. DOMAIN q = 1..n
  BY DEF Abandoned
<1>5. q = [i \in 1..n |-> q[i]]
  BY DEF Abandoned
<1> HIDE DEF q
<1>6. q \in [1..n -> Write]
  BY <1>3, <1>5
<1>7. q \in Seq(Write) /\ Len(q) = n
  BY <1>1, <1>6
<1> QED BY <1>3, <1>7 DEF q

LEMMA RestAbandoned ==
  ASSUME TypeInv, WaitInv, NEW s \in Scans
  PROVE  Rest(Abandoned(s), s)
<1> DEFINE R == Abandoned(s)
<1>1. /\ R \in Seq(Write) /\ Len(R) = Len(wq)
      /\ \A i \in 1..Len(wq) : Same(R[i], wq[i]) /\ R[i].by # s
                               /\ (R[i].by # NoScan => R[i] = wq[i])
  BY AbandonedType
<1> HIDE DEF R
<1>2. ASSUME NEW i \in 1..Len(R), NEW j \in 1..Len(R), R[i].by = R[j].by, R[i].by # NoScan
      PROVE  i = j
  BY <1>1, <1>2 DEF WaitInv
<1> QED BY <1>1, <1>2 DEF Rest, R

\* What a write must be when it enters the queue.
Sound(v, d) ==
  /\ Persisted(v.offset, d)
  /\ v.state = "COMPLETED" => d = Members
  /\ v.kind = "state" => v.state # "none"
  /\ AtMost(v.accepted, d)

\* A step of call s that ends its wait, if it waits, and hands over a write or not.
LEMMA FreeStep ==
  ASSUME ScannerInv, NEW s \in Scans, Live(s), NEW c \in Call, scan' = [scan EXCEPT ![s] = c],
         NEW R, Rest(R, s),
         \/ wq' = R
         \/ \E v \in Write : wq' = Append(R, v) /\ v.by = s /\ Awaits(c, v) /\ Sound(v, dataset'),
         dataset \subseteq dataset', dataset' \subseteq Members,
         row' \in RowType, row'.state # "none", Persisted(row'.offset, dataset'),
         AtMost(row'.accepted, dataset'),
         row'.state = "COMPLETED" => dataset' = Members,
         UNCHANGED <<prepared, app, doubled>>,
         registered' \in Scans \cup {NoScan}, BoundsType',
         Staged(c), c.pc = "run" => Flows(c) /\ Collected(c, dataset'),
         Persisted(c.offset, dataset'), AtMost(c.accepted, dataset')
  PROVE  ScannerInv'
<1> USE DEF ScannerInv
<1>1. scan \in [Scans -> Call] /\ wq \in Seq(Write) /\ R \in Seq(Write)
  BY DEF TypeInv, Rest
<1>2. scan'[s] = c /\ \A t \in Scans \ {s} : scan'[t] = scan[t]
  BY <1>1
<1>3. s # NoScan /\ app = "up"
  BY ScannerAssumption DEF WaitInv, TypeInv
<1>4. ASSUME NEW i \in 1..Len(R)
      PROVE  /\ R[i] \in Write /\ Sound(R[i], dataset')
             /\ R[i].by # NoScan => Awaits(scan'[R[i].by], R[i])
  <2>1. PICK j \in 1..Len(wq) : Same(R[i], wq[j])
    BY DEF Rest
  <2>2. R[i] \in Write /\ wq[j] \in Write
    BY <1>1
  <2>3. Sound(wq[j], dataset)
    BY DEF Sound, PersistInv, CompleteInv, CountInv
  <2>4. Sound(R[i], dataset)
    BY <2>1, <2>3 DEF Sound, Same
  <2>5. R[i].accepted \in Nat
    BY <2>2 DEF Write
  <2>6. Sound(R[i], dataset')
    BY <2>4, <2>5, Grows DEF Sound
  <2>7. ASSUME R[i].by # NoScan PROVE Awaits(scan'[R[i].by], R[i])
    <3>1. R[i].by = wq[j].by /\ R[i].by # s /\ R[i].by \in Scans
      BY <2>1, <2>2, <2>7 DEF Same, Rest, Write
    <3>2. Awaits(scan[R[i].by], wq[j])
      BY <2>7, <3>1 DEF WaitInv
    <3>3. scan'[R[i].by] = scan[R[i].by]
      BY <1>2, <3>1
    <3> QED BY <2>1, <3>2, <3>3 DEF Same, Awaits
  <2> QED BY <2>2, <2>6, <2>7
<1>5. /\ wq' \in Seq(Write)
      /\ \A i \in 1..Len(wq') : /\ wq'[i] \in Write /\ Sound(wq'[i], dataset')
                                /\ wq'[i].by # NoScan => Awaits(scan'[wq'[i].by], wq'[i])
      /\ \A i, j \in 1..Len(wq') : wq'[i].by = wq'[j].by /\ wq'[i].by # NoScan => i = j
  <2>1. CASE wq' = R
    BY <1>1, <1>4, <2>1 DEF Rest
  <2>2. CASE wq' # R
    <3>1. PICK v \in Write : wq' = Append(R, v) /\ v.by = s /\ Awaits(c, v) /\ Sound(v, dataset')
      BY <2>2
    <3>2. /\ wq' \in Seq(Write) /\ Len(wq') = Len(R) + 1 /\ Len(R) \in Nat
          /\ \A i \in 1..Len(R) : wq'[i] = R[i]
          /\ wq'[Len(R) + 1] = v
      BY <1>1, <3>1, AppendAt
    <3>3. \A i \in 1..Len(wq') : i \in 1..Len(R) \/ i = Len(R) + 1
      BY <3>2
    <3>4. \A i \in 1..Len(R) : R[i].by # s
      BY DEF Rest
    <3>5. ASSUME NEW i \in 1..Len(wq')
          PROVE  /\ wq'[i] \in Write /\ Sound(wq'[i], dataset')
                 /\ wq'[i].by # NoScan => Awaits(scan'[wq'[i].by], wq'[i])
      <4>1. CASE i \in 1..Len(R)
        BY <1>4, <3>2, <4>1
      <4>2. CASE i = Len(R) + 1
        BY <1>2, <3>1, <3>2, <4>2
      <4> QED BY <3>3, <4>1, <4>2
    <3>6. ASSUME NEW i \in 1..Len(wq'), NEW j \in 1..Len(wq'),
                 wq'[i].by = wq'[j].by, wq'[i].by # NoScan
          PROVE  i = j
      <4>1. CASE i \in 1..Len(R) /\ j \in 1..Len(R)
        BY <3>2, <3>6, <4>1 DEF Rest
      <4>2. CASE i = Len(R) + 1 \/ j = Len(R) + 1
        BY <3>1, <3>2, <3>3, <3>4, <3>6, <4>2
      <4> QED BY <3>3, <4>1, <4>2
    <3> QED BY <3>2, <3>5, <3>6
  <2> QED BY <2>1, <2>2
<1>6. TypeInv'
  BY <1>1, <1>5 DEF TypeInv, BoundsType, RowType
<1>7. WaitInv'
  BY <1>2, <1>3, <1>5 DEF WaitInv
<1>8. FlowInv'
  BY <1>2 DEF FlowInv
<1>9. PersistInv'
  <2>1. ASSUME NEW t \in Scans
        PROVE  /\ Persisted(scan'[t].offset, dataset')
               /\ scan'[t].pc = "run" => Collected(scan'[t], dataset')
    <3>1. CASE t = s
      BY <1>2, <3>1
    <3>2. CASE t # s
      <4>1. scan'[t] = scan[t] /\ scan[t] \in Call
        BY <1>1, <1>2, <3>2
      <4>2. /\ Persisted(scan[t].offset, dataset)
            /\ scan[t].pc = "run" => Collected(scan[t], dataset)
        BY DEF PersistInv
      <4> QED BY <4>1, <4>2, Grows
    <3> QED BY <3>1, <3>2
  <2>2. \A i \in 1..Len(wq') : Persisted(wq'[i].offset, dataset')
    BY <1>5 DEF Sound
  <2> QED BY <2>1, <2>2 DEF PersistInv, Persisted, Collected
<1>10. CompleteInv'
  BY <1>5 DEF CompleteInv, Sound
<1>11. BeginInv'
  BY DEF BeginInv
<1>12. CountInv'
  <2>1. ASSUME NEW t \in Scans PROVE AtMost(scan'[t].accepted, dataset')
    <3>1. CASE t = s
      BY <1>2, <3>1
    <3>2. CASE t # s
      <4>1. scan'[t] = scan[t] /\ scan[t] \in Call
        BY <1>1, <1>2, <3>2
      <4>2. AtMost(scan[t].accepted, dataset) /\ scan[t].accepted \in Nat
        BY <4>1 DEF CountInv, Call
      <4> QED BY <4>1, <4>2, Grows
    <3> QED BY <3>1, <3>2
  <2> QED BY <1>5, <2>1 DEF CountInv, Sound, AtMost
<1> QED BY <1>6, <1>7, <1>8, <1>9, <1>10, <1>11, <1>12

\* The oldest write, which nobody waits for, leaves the queue.
LEMMA DropStep ==
  ASSUME ScannerInv, wq # <<>>, Head(wq).by = NoScan, wq' = Tail(wq),
         dataset \subseteq dataset', dataset' \subseteq Members,
         row' \in RowType, row'.state # "none", Persisted(row'.offset, dataset'),
         AtMost(row'.accepted, dataset'),
         row'.state = "COMPLETED" => dataset' = Members,
         UNCHANGED <<scan, registered, prepared, app, doubled>>, BoundsType'
  PROVE  ScannerInv'
<1> USE DEF ScannerInv
<1>1. scan \in [Scans -> Call] /\ wq \in Seq(Write)
  BY DEF TypeInv
<1>2. /\ wq' \in Seq(Write)
      /\ \A i \in 1..Len(wq') : i + 1 \in 1..Len(wq) /\ wq'[i] = wq[i + 1]
  BY <1>1, TailAt
<1>3. ~prepared
  BY DEF BeginInv
<1>4. TypeInv'
  BY <1>2 DEF TypeInv, BoundsType, RowType
<1>5. WaitInv'
  <2>1. ASSUME NEW i \in 1..Len(wq'), NEW j \in 1..Len(wq'), wq'[i].by = wq'[j].by,
               wq'[i].by # NoScan
        PROVE  i = j
    <3>1. i + 1 = j + 1
      BY <1>2, <2>1 DEF WaitInv
    <3> QED BY <3>1
  <2>2. \A i \in 1..Len(wq') : wq'[i].by # NoScan => Awaits(scan'[wq'[i].by], wq'[i])
    BY <1>2 DEF WaitInv
  <2> QED BY <2>1, <2>2 DEF WaitInv, Live
<1>6. FlowInv'
  BY DEF FlowInv
<1>7. ASSUME NEW i \in 1..Len(wq') PROVE Sound(wq'[i], dataset')
  <2>1. wq'[i] = wq[i + 1] /\ i + 1 \in 1..Len(wq) /\ wq[i + 1] \in Write
    BY <1>1, <1>2
  <2>2. Sound(wq[i + 1], dataset) /\ wq[i + 1].accepted \in Nat
    BY <2>1 DEF Sound, PersistInv, CompleteInv, CountInv, Write
  <2> QED BY <2>1, <2>2, Grows DEF Sound
<1>8. ASSUME NEW t \in Scans
      PROVE  /\ Persisted(scan[t].offset, dataset')
             /\ scan[t].pc = "run" => Collected(scan[t], dataset')
             /\ AtMost(scan[t].accepted, dataset')
  <2>1. scan[t] \in Call /\ scan' = scan
    BY <1>1
  <2>2. /\ Persisted(scan[t].offset, dataset)
        /\ scan[t].pc = "run" => Collected(scan[t], dataset)
        /\ AtMost(scan[t].accepted, dataset) /\ scan[t].accepted \in Nat
    BY <2>1 DEF PersistInv, CountInv, Call
  <2> QED BY <2>1, <2>2, Grows
<1>9. PersistInv' /\ CountInv' /\ CompleteInv'
  BY <1>7, <1>8 DEF PersistInv, CountInv, CompleteInv, Sound
<1>10. BeginInv'
  BY <1>3 DEF BeginInv
<1> QED BY <1>4, <1>5, <1>6, <1>9, <1>10

-----------------------------------------------------------------------------
(* The producer.                                                           *)

LEMMA Running ==
  ASSUME ScannerInv, NEW s \in Scans,
         scan[s].prod \notin Ended \cup {"off"} \/ scan[s].cons \notin Ended \cup {"off"}
           \/ scan[s].pc = "run"
  PROVE  /\ scan[s] \in Call /\ scan[s].pc = "run" /\ Live(s)
         /\ Staged(scan[s]) /\ Flows(scan[s]) /\ Collected(scan[s], dataset)
<1>1. scan[s] \in Call /\ Staged(scan[s])
  BY DEF ScannerInv, TypeInv, WaitInv
<1>2. scan[s].pc = "run"
  BY <1>1 DEF Staged, Call
<1> QED BY <1>1, <1>2 DEF ScannerInv, FlowInv, PersistInv, Live

\* The producer moves and the consumer does not.
LEMMA ProducerStep ==
  ASSUME ScannerInv, NEW s \in Scans, scan[s].pc = "run", NEW c \in Call,
         scan' = [scan EXCEPT ![s] = c], ScanUnchanged, UNCHANGED <<registered, wq>>,
         rpcErrors' \in Nat, c.prod # "off",
         c.pc = "run", c.cons = scan[s].cons, c.batch = scan[s].batch, c.seen = scan[s].seen,
         c.batchOffset = scan[s].batchOffset, c.offset = scan[s].offset,
         c.accepted = scan[s].accepted, Flows(c)
  PROVE  ScannerInv'
<1>1. Staged(scan[s]) /\ Collected(scan[s], dataset)
  BY Running
<1>2. Staged(c)
  BY <1>1 DEF Staged
<1>3. \A w \in Write : Awaits(scan[s], w) => Awaits(c, w)
  BY DEF Awaits
<1>4. Collected(c, dataset)
  BY <1>1 DEF Collected
<1>5. /\ UNCHANGED <<row, dataset, prepared, app, doubled, commands, crashes, failures, restarts>>
      /\ registered' \in Scans \cup {NoScan} /\ BoundsType'
  BY DEF ScanUnchanged, dbVars, ScannerInv, TypeInv, BoundsType
<1> QED BY <1>2, <1>3, <1>4, <1>5, QuietStep

LEMMA AcquireSlotStep ==
  ASSUME ScannerInv, NEW s \in Scans, AcquireSlot(s)
  PROVE  ScannerInv'
<1> DEFINE c == [scan[s] EXCEPT !.prod = "fetch", !.current = scan[s].offset]
<1>1. scan[s].prod = "slot" /\ ScanUnchanged /\ UNCHANGED <<registered, wq, rpcErrors>>
  BY DEF AcquireSlot
<1>2. scan[s] \in Call /\ scan[s].pc = "run" /\ Flows(scan[s])
  BY <1>1, Running DEF Ended
<1>3. scan' = [scan EXCEPT ![s] = c]
  BY <1>2 DEF AcquireSlot, Call, ScannerInv, TypeInv
<1>4. /\ c \in Call /\ c.pc = "run" /\ c.prod = "fetch" /\ c.cons = scan[s].cons
      /\ c.batch = scan[s].batch /\ c.seen = scan[s].seen /\ c.queue = scan[s].queue
      /\ c.batchOffset = scan[s].batchOffset /\ c.offset = scan[s].offset
      /\ c.accepted = scan[s].accepted /\ c.last = scan[s].last
      /\ c.current = scan[s].offset
  BY <1>2 DEF Call
<1>5. rpcErrors' \in Nat
  BY <1>1 DEF ScannerInv, TypeInv
<1> HIDE DEF c
<1>6. Flows(c)
  BY <1>1, <1>2, <1>4 DEF Flows, ReadTo, From, Ended
<1> QED BY <1>1, <1>2, <1>3, <1>4, <1>5, <1>6, ProducerStep

LEMMA FetchStep ==
  ASSUME ScannerInv, NEW s \in Scans, Fetch(s)
  PROVE  ScannerInv'
<1> DEFINE p == PageAt(scan[s].current)
           k == IF p.ids = {} \/ scan[s].cancel THEN "sentinel" ELSE "put"
           c == [scan[s] EXCEPT !.prod = k, !.page = p]
<1>1. scan[s].prod = "fetch" /\ ScanUnchanged /\ UNCHANGED <<registered, wq, rpcErrors>>
  BY DEF Fetch
<1>2. scan[s] \in Call /\ scan[s].pc = "run" /\ Flows(scan[s])
  BY <1>1, Running DEF Ended
<1>3. scan' = [scan EXCEPT ![s] = c]
  BY <1>2 DEF Fetch, Call, ScannerInv, TypeInv
<1>4. scan[s].current \in 0..Total
  BY <1>2 DEF Call
<1>5. p \in Page /\ (p.ids = {} => scan[s].current = Total)
  BY <1>4, PageFacts
<1>6. k \in {"sentinel", "put"} /\ (k = "sentinel" => p.ids = {} \/ scan[s].cancel)
      /\ (k = "put" => p.ids # {})
  OBVIOUS
<1> HIDE DEF k
<1>7. p = PageAt(scan[s].current)
  OBVIOUS
<1> HIDE DEF p
<1>8. /\ c \in Call /\ c.pc = "run" /\ c.prod = k /\ c.cons = scan[s].cons
      /\ c.batch = scan[s].batch /\ c.seen = scan[s].seen /\ c.queue = scan[s].queue
      /\ c.batchOffset = scan[s].batchOffset /\ c.offset = scan[s].offset
      /\ c.accepted = scan[s].accepted /\ c.last = scan[s].last
      /\ c.current = scan[s].current /\ c.page = p /\ c.cancel = scan[s].cancel
  BY <1>2, <1>5, <1>6 DEF Call
<1>9. rpcErrors' \in Nat
  BY <1>1 DEF ScannerInv, TypeInv
<1> HIDE DEF c
<1>10. Flows(c)
  <2>1. ReadTo(c) = ReadTo(scan[s]) /\ scan[s].current = ReadTo(scan[s])
    BY <1>1, <1>2, <1>8 DEF Flows, ReadTo
  <2> HIDE DEF ReadTo
  <2> QED BY <1>1, <1>2, <1>5, <1>6, <1>7, <1>8, <2>1 DEF Flows, Ended
<1> QED BY <1>1, <1>2, <1>3, <1>6, <1>8, <1>9, <1>10, ProducerStep

LEMMA FetchFailsStep ==
  ASSUME ScannerInv, NEW s \in Scans, FetchFails(s)
  PROVE  ScannerInv'
<1> DEFINE c == [scan[s] EXCEPT !.prod = "sentinel", !.error = TRUE]
<1>1. scan[s].prod = "fetch" /\ ScanUnchanged /\ UNCHANGED <<registered, wq>>
      /\ rpcErrors' = rpcErrors + 1
  BY DEF FetchFails
<1>2. scan[s] \in Call /\ scan[s].pc = "run" /\ Flows(scan[s])
  BY <1>1, Running DEF Ended
<1>3. scan' = [scan EXCEPT ![s] = c]
  BY <1>2 DEF FetchFails, Call, ScannerInv, TypeInv
<1>4. /\ c \in Call /\ c.pc = "run" /\ c.prod = "sentinel" /\ c.cons = scan[s].cons
      /\ c.batch = scan[s].batch /\ c.seen = scan[s].seen /\ c.queue = scan[s].queue
      /\ c.batchOffset = scan[s].batchOffset /\ c.offset = scan[s].offset
      /\ c.accepted = scan[s].accepted /\ c.last = scan[s].last /\ c.error = TRUE
  BY <1>2 DEF Call
<1>5. rpcErrors' \in Nat
  BY <1>1 DEF ScannerInv, TypeInv
<1> HIDE DEF c
<1>6. Flows(c)
  BY <1>1, <1>2, <1>4 DEF Flows, Ended
<1> QED BY <1>1, <1>2, <1>3, <1>4, <1>5, <1>6, ProducerStep

\* The page that is queued begins where the one before it ended.
LEMMA PutPageStep ==
  ASSUME ScannerInv, NEW s \in Scans, PutPage(s)
  PROVE  ScannerInv'
<1> DEFINE p == scan[s].page
           q == Append(scan[s].queue, p)
           k == IF p.next - scan[s].current < PageLimit THEN "sentinel" ELSE "fetch"
           c == [scan[s] EXCEPT !.queue = q, !.current = p.next, !.prod = k]
<1>1. scan[s].prod = "put" /\ ScanUnchanged /\ UNCHANGED <<registered, wq, rpcErrors>>
  BY DEF PutPage
<1>2. scan[s] \in Call /\ scan[s].pc = "run" /\ Flows(scan[s])
  BY <1>1, Running DEF Ended
<1>3. scan' = [scan EXCEPT ![s] = c]
  BY <1>2 DEF PutPage, Call, ScannerInv, TypeInv
<1>4. scan[s].current \in 0..Total /\ scan[s].queue \in Seq(Page) /\ p \in Page
      /\ scan[s].batchOffset \in 0..Total
  BY <1>2 DEF Call
<1>5. /\ p = PageAt(scan[s].current) /\ p.ids # {} /\ scan[s].current = ReadTo(scan[s])
      /\ \A i \in 1..Len(scan[s].queue) : scan[s].queue[i] # Sentinel
      /\ Chained(scan[s].queue, scan[s].batchOffset) /\ ~scan[s].last
  BY <1>1, <1>2 DEF Flows
<1>6. /\ p # Sentinel /\ p.next \in 0..Total
      /\ p.next - scan[s].current < PageLimit => p.next = Total
  BY <1>4, <1>5, PageFacts DEF Page
<1>7. k \in {"sentinel", "fetch"} /\ (k = "sentinel" => p.next = Total)
  BY <1>6
<1> HIDE DEF k
<1>8. /\ q \in Seq(Page) /\ Len(q) = Len(scan[s].queue) + 1
      /\ \A i \in 1..Len(q) : q[i] # Sentinel
  <2>1. /\ q \in Seq(Page) /\ Len(q) = Len(scan[s].queue) + 1 /\ q[Len(scan[s].queue) + 1] = p
        /\ \A i \in 1..Len(scan[s].queue) : q[i] = scan[s].queue[i]
    BY <1>4, AppendAt
  <2>2. \A i \in 1..Len(q) : i \in 1..Len(scan[s].queue) \/ i = Len(scan[s].queue) + 1
    BY <1>4, <2>1
  <2> HIDE DEF q
  <2> QED BY <1>5, <1>6, <2>1, <2>2
<1>9. Chained(q, scan[s].batchOffset)
  BY <1>4, <1>5, ChainAppend DEF ReadTo
<1>10. From(q, scan[s].batchOffset, Len(q) + 1) = p.next
  <2>1. Len(q) + 1 = Len(scan[s].queue) + 2
    BY <1>4, <1>8
  <2> QED BY <1>4, <2>1, FromAppend
<1> HIDE DEF p, q
<1>11. /\ c \in Call /\ c.pc = "run" /\ c.prod = k /\ c.cons = scan[s].cons
       /\ c.batch = scan[s].batch /\ c.seen = scan[s].seen /\ c.queue = q
       /\ c.batchOffset = scan[s].batchOffset /\ c.offset = scan[s].offset
       /\ c.accepted = scan[s].accepted /\ c.last = scan[s].last
       /\ c.current = p.next
  BY <1>2, <1>6, <1>7, <1>8 DEF Call
<1>12. rpcErrors' \in Nat
  BY <1>1 DEF ScannerInv, TypeInv
<1> HIDE DEF c
<1>13. Flows(c)
  <2>1. ReadTo(c) = p.next
    BY <1>10, <1>11 DEF ReadTo
  <2>2. Chained(c.queue, c.batchOffset)
    BY <1>9, <1>11
  <2> HIDE DEF ReadTo, Chained
  <2>3. c.cons = "done" => c.last /\ c.batch = {}
    BY <1>2, <1>11 DEF Flows
  <2> QED BY <1>5, <1>7, <1>8, <1>11, <2>1, <2>2, <2>3 DEF Flows, Ended
<1> QED BY <1>1, <1>2, <1>3, <1>7, <1>11, <1>12, <1>13, ProducerStep

\* The sentinel closes the queue at the end of the list, unless the producer failed or
\* was told to stop.
LEMMA PutSentinelStep ==
  ASSUME ScannerInv, NEW s \in Scans, PutSentinel(s)
  PROVE  ScannerInv'
<1> DEFINE b == scan[s].batchOffset
           q == Append(scan[s].queue, Sentinel)
           k == IF scan[s].error THEN "failed" ELSE "done"
           c == [scan[s] EXCEPT !.queue = q, !.prod = k]
<1>1. scan[s].prod = "sentinel" /\ ScanUnchanged /\ UNCHANGED <<registered, wq, rpcErrors>>
  BY DEF PutSentinel
<1>2. scan[s] \in Call /\ scan[s].pc = "run" /\ Flows(scan[s])
  BY <1>1, Running DEF Ended
<1>3. scan' = [scan EXCEPT ![s] = c]
  BY <1>2 DEF PutSentinel, Call, ScannerInv, TypeInv
<1>4. scan[s].queue \in Seq(Page) /\ Sentinel \in Page /\ b \in 0..Total
  BY <1>2, TotalType DEF Call, Sentinel, Page
<1>5. /\ \A i \in 1..Len(scan[s].queue) : scan[s].queue[i] # Sentinel
      /\ Chained(scan[s].queue, b) /\ ~scan[s].last
      /\ ~scan[s].error /\ ~scan[s].cancel => ReadTo(scan[s]) = Total
  BY <1>1, <1>2 DEF Flows
<1>6. k \in {"failed", "done"} /\ (k = "done" => ~scan[s].error)
  OBVIOUS
<1> HIDE DEF k
<1>7. q \in Seq(Page) /\ Chained(q, b)
  BY <1>4, <1>5, AppendAt, ChainAppend
<1>8. ASSUME NEW i \in 1..Len(q), q[i] = Sentinel
      PROVE  From(q, b, i) = ReadTo(scan[s])
  <2>1. Len(q) = Len(scan[s].queue) + 1 /\ Len(scan[s].queue) \in Nat
    BY <1>4, AppendAt
  <2>2. i = Len(q)
    BY <1>7, <1>8 DEF Chained
  <2>3. i = Len(scan[s].queue) + 1 /\ i \in 1..Len(scan[s].queue) + 1
    BY <2>1, <2>2
  <2> QED BY <1>4, <2>3, FromAppend DEF ReadTo
<1> HIDE DEF q
<1>9. /\ c \in Call /\ c.pc = "run" /\ c.prod = k /\ c.cons = scan[s].cons
      /\ c.batch = scan[s].batch /\ c.seen = scan[s].seen /\ c.queue = q
      /\ c.batchOffset = b /\ c.offset = scan[s].offset
      /\ c.accepted = scan[s].accepted /\ c.last = scan[s].last /\ c.cancel = scan[s].cancel
  BY <1>2, <1>6, <1>7 DEF Call, Ended
<1>10. rpcErrors' \in Nat
  BY <1>1 DEF ScannerInv, TypeInv
<1> HIDE DEF c
<1>11. Flows(c)
  <2>1. Chained(c.queue, c.batchOffset)
    BY <1>7, <1>9
  <2>2. c.prod = "done" /\ ~c.cancel =>
          \A i \in 1..Len(c.queue) :
            c.queue[i] = Sentinel => From(c.queue, c.batchOffset, i) = Total
    BY <1>5, <1>6, <1>8, <1>9
  <2>3. c.cons = "done" => c.last /\ c.batch = {}
    BY <1>2, <1>9 DEF Flows
  <2> QED BY <1>5, <1>6, <1>9, <2>1, <2>2, <2>3 DEF Flows
<1> QED BY <1>1, <1>2, <1>3, <1>6, <1>9, <1>10, <1>11, ProducerStep

-----------------------------------------------------------------------------
(* The consumer.                                                           *)

\* The conditions of FreeStep on row and dataset when a step leaves them alone.
LEMMA RowsKept ==
  ASSUME ScannerInv, NEW s \in Scans, Live(s), ScanUnchanged
  PROVE  /\ UNCHANGED <<row, dataset, prepared, app, doubled, commands, crashes, failures,
                        restarts>>
         /\ dataset \subseteq dataset' /\ dataset' \subseteq Members
         /\ row' \in RowType /\ row'.state # "none"
         /\ Persisted(row'.offset, dataset') /\ AtMost(row'.accepted, dataset')
         /\ row'.state = "COMPLETED" => dataset' = Members
         /\ Persisted(scan[s].offset, dataset') /\ AtMost(scan[s].accepted, dataset')
<1>1. UNCHANGED <<row, dataset, prepared, app, doubled, commands, crashes, failures, restarts>>
  BY DEF ScanUnchanged, dbVars
<1> QED BY <1>1 DEF ScannerInv, TypeInv, RowType, BeginInv, PersistInv, CountInv, CompleteInv

\* What the consumer has when it has taken an item and goes on to step k.
Took(c, o, k) ==
  LET item == Head(o.queue) IN
  c = [o EXCEPT
         !.queue = Tail(@),
         !.last = item = Sentinel,
         !.batch = @ \cup (item.ids \ o.seen),
         !.seen = @ \cup item.ids,
         !.batchOffset = IF item = Sentinel THEN @ ELSE item.next,
         !.cons = k]

LEMMA TookFacts ==
  ASSUME NEW o \in Call, o.queue # <<>>, o.pc = "run", o.prod # "off", o.cons = "get", Flows(o),
         Collected(o, dataset), NEW k \in {"get", "ingest", "done"}, NEW c, Took(c, o, k),
         k = "get" => ~c.last, k = "done" => c.last /\ c.batch = {}
  PROVE  /\ c \in Call /\ Flows(c) /\ Collected(c, dataset)
         /\ c.pc = "run" /\ c.cons = k /\ c.prod = o.prod
         /\ c.offset = o.offset /\ c.accepted = o.accepted
         /\ c.batchOffset \in Nat /\ o.batchOffset \in Nat /\ c.batchOffset >= o.batchOffset
<1> DEFINE item == Head(o.queue)
           q == Tail(o.queue)
           l == item = Sentinel
           bt == o.batch \cup (item.ids \ o.seen)
           sn == o.seen \cup item.ids
           b == IF item = Sentinel THEN o.batchOffset ELSE item.next
<1>1. /\ o.queue \in Seq(Page) /\ o.batch \subseteq Members /\ o.seen \subseteq Members
      /\ o.batchOffset \in 0..Total
  BY DEF Call
<1>2. /\ q \in Seq(Page) /\ Len(q) = Len(o.queue) - 1 /\ item = o.queue[1] /\ item \in Page
      /\ Len(o.queue) \in Nat \ {0}
      /\ \A i \in 1..Len(q) : i + 1 \in 1..Len(o.queue) /\ q[i] = o.queue[i + 1]
  BY <1>1, TailAt
<1>3. l \in BOOLEAN /\ bt \subseteq Members /\ sn \subseteq Members /\ b \in 0..Total
  BY <1>1, <1>2 DEF Page
<1>4. c = [o EXCEPT !.queue = q, !.last = l, !.batch = bt, !.seen = sn, !.batchOffset = b,
                    !.cons = k]
  BY DEF Took
<1>5. Chained(o.queue, o.batchOffset) /\ ~o.last
  BY DEF Flows
<1>6. b >= o.batchOffset
  BY <1>1, <1>2, <1>5, ChainTail, PageFacts
<1> HIDE DEF q, l, bt, sn, b
<1>7. /\ c \in Call /\ c.pc = "run" /\ c.cons = k /\ c.prod = o.prod /\ c.offset = o.offset
      /\ c.accepted = o.accepted /\ c.queue = q /\ c.last = l /\ c.batch = bt /\ c.seen = sn
      /\ c.batchOffset = b /\ c.current = o.current /\ c.page = o.page
      /\ c.error = o.error /\ c.cancel = o.cancel
  BY <1>2, <1>3, <1>4 DEF Call, Ended
<1>8. CASE item = Sentinel
  <2>1. b = o.batchOffset /\ l = TRUE /\ bt = o.batch /\ sn = o.seen
    BY <1>8 DEF b, l, bt, sn, Sentinel
  <2>2. Len(o.queue) = 1
    <3>1. 1 \in 1..Len(o.queue)
      BY <1>2
    <3> QED BY <1>2, <1>5, <1>8, <3>1 DEF Chained
  <2>3. Len(q) = 0 /\ \A i \in 1..Len(q) : FALSE
    BY <1>2, <2>2
  <2>4. Chained(q, b)
    BY <2>3 DEF Chained
  <2>5. 1 \in 1..Len(o.queue) /\ From(o.queue, o.batchOffset, 1) = o.batchOffset
    BY <2>2 DEF From
  <2>6. o.prod \in Ended
    <3>1. o.prod \notin {"slot", "fetch", "put", "sentinel"}
      BY <1>2, <1>8, <2>5 DEF Flows
    <3> QED BY <3>1 DEF Call
  <2>7. o.prod = "done" /\ ~o.cancel => o.batchOffset = Total
    BY <1>2, <1>8, <2>5 DEF Flows
  <2>8. Flows(c)
    <3>1. Chained(c.queue, c.batchOffset)
      BY <1>7, <2>4
    <3>2. \A i \in 1..Len(c.queue) : FALSE
      BY <1>7, <2>3
    <3> QED BY <1>7, <2>1, <2>6, <2>7, <3>1, <3>2 DEF Flows, Ended
  <2>9. Collected(c, dataset)
    BY <1>7, <2>1 DEF Collected
  <2> QED BY <1>1, <1>3, <1>6, <1>7, <2>8, <2>9, TotalType
<1>9. CASE item # Sentinel
  <2>1. b = item.next /\ l = FALSE
    BY <1>9 DEF b, l
  <2>2. /\ item = PageAt(o.batchOffset) /\ Chained(q, b)
        /\ \A i \in 1..Len(o.queue) : From(q, b, i) = From(o.queue, o.batchOffset, i + 1)
    BY <1>1, <1>5, <1>9, <2>1, ChainTail DEF q
  <2>3. \A i \in o.batchOffset + 1..b : Participants[i] \in item.ids
    BY <1>1, <2>1, <2>2, PageFacts
  <2>4. sn \subseteq dataset \cup bt
    BY DEF Collected, sn, bt
  <2>5. ASSUME NEW i \in 1..b PROVE Participants[i] \in dataset \cup bt
    <3>1. CASE i \in 1..o.batchOffset
      BY <3>1 DEF Collected, bt
    <3>2. CASE i \in o.batchOffset + 1..b
      BY <2>3, <2>4, <3>2 DEF sn
    <3> QED BY <1>1, <1>3, <3>1, <3>2
  <2>6. Collected(c, dataset)
    BY <1>7, <2>4, <2>5 DEF Collected
  <2>7. ReadTo(c) = ReadTo(o)
    <3>1. Len(q) + 1 = Len(o.queue) /\ Len(o.queue) \in 1..Len(o.queue)
      BY <1>2
    <3> QED BY <1>7, <2>2, <3>1 DEF ReadTo
  <2>8. ASSUME NEW i \in 1..Len(q)
        PROVE  /\ i + 1 \in 1..Len(o.queue) /\ q[i] = o.queue[i + 1]
               /\ From(q, b, i) = From(o.queue, o.batchOffset, i + 1)
    <3>1. i \in 1..Len(o.queue)
      BY <1>2
    <3> QED BY <1>2, <2>2, <3>1
  <2>9. Flows(c)
    <3>1. Chained(c.queue, c.batchOffset)
      BY <1>7, <2>2
    <3>2. c.prod \in {"slot", "fetch", "put", "sentinel"} =>
            \A i \in 1..Len(c.queue) : c.queue[i] # Sentinel
      BY <1>7, <2>8 DEF Flows
    <3>3. c.prod = "done" /\ ~c.cancel =>
            \A i \in 1..Len(c.queue) :
              c.queue[i] = Sentinel => From(c.queue, c.batchOffset, i) = Total
      BY <1>7, <2>8 DEF Flows
    <3>4. c.prod # "slot"
      BY <1>7 DEF Flows
    <3>5. /\ c.prod \in {"fetch", "put"} => c.current = ReadTo(c)
          /\ c.prod = "put" => c.page = PageAt(c.current) /\ c.page.ids # {}
          /\ c.prod = "sentinel" /\ ~c.error /\ ~c.cancel => ReadTo(c) = Total
      BY <1>7, <2>7 DEF Flows
    <3>6. ~c.last /\ c.cons # "done"
      BY <1>7, <2>1
    <3> QED BY <3>1, <3>2, <3>3, <3>4, <3>5, <3>6 DEF Flows
  <2> QED BY <1>1, <1>3, <1>6, <1>7, <2>6, <2>9, TotalType
<1> QED BY <1>8, <1>9

\* What Get does to its call: the item is taken, and a write handed over with it.
LEMMA GetShape ==
  ASSUME ScannerInv, NEW s \in Scans, Get(s)
  PROVE  \E k \in {"get", "ingest", "done"}, c \in Call :
           /\ Took(c, scan[s], k) /\ scan' = [scan EXCEPT ![s] = c]
           /\ k = "get" => ~c.last
           /\ k = "done" => c.last /\ c.batch = {}
           /\ k = "ingest" => wq' = Append(wq, IngestWrite(s, c.batch))
           /\ k # "ingest" => wq' = wq
<1> DEFINE o == scan[s]
           item == Head(o.queue)
           c1 == [o EXCEPT
                    !.queue = Tail(@),
                    !.last = item = Sentinel,
                    !.batch = @ \cup (item.ids \ o.seen),
                    !.seen = @ \cup item.ids,
                    !.batchOffset = IF item = Sentinel THEN @ ELSE item.next]
           full == IF c1.last THEN c1.batch # {} ELSE Cardinality(c1.batch) >= BatchLimit
           k == IF full THEN "ingest" ELSE IF c1.last THEN "done" ELSE "get"
           c == [c1 EXCEPT !.cons = k]
<1>1. o.cons = "get" /\ o.queue # <<>>
  BY DEF Get
<1>2. o \in Call
  BY DEF ScannerInv, TypeInv
<1>3. /\ o.queue \in Seq(Page) /\ item \in Page /\ Tail(o.queue) \in Seq(Page)
      /\ (item = Sentinel) \in BOOLEAN
  BY <1>1, <1>2, TailAt DEF Call
<1>4. c1 \in Call
  BY <1>2, <1>3 DEF Call, Page
<1>5. /\ scan' = [scan EXCEPT ![s] = c]
      /\ wq' = IF full THEN Append(wq, IngestWrite(s, c1.batch)) ELSE wq
  BY DEF Get
<1>6. Took(c, o, k)
  BY <1>2 DEF Took, Call
<1> HIDE DEF c1
<1>7. k \in {"get", "ingest", "done"} /\ (k = "ingest" <=> full) /\ (k = "get" => ~c1.last)
      /\ (k = "done" => c1.last /\ c1.batch = {})
  OBVIOUS
<1> HIDE DEF k, full
<1>8. c \in Call /\ c.batch = c1.batch /\ c.last = c1.last
  BY <1>4, <1>7 DEF Call, Ended
<1> HIDE DEF c
<1> QED BY <1>5, <1>6, <1>7, <1>8

LEMMA GetStep ==
  ASSUME ScannerInv, NEW s \in Scans, Get(s)
  PROVE  ScannerInv'
<1>1. PICK k \in {"get", "ingest", "done"}, c \in Call :
        /\ Took(c, scan[s], k) /\ scan' = [scan EXCEPT ![s] = c]
        /\ k = "get" => ~c.last
        /\ k = "done" => c.last /\ c.batch = {}
        /\ k = "ingest" => wq' = Append(wq, IngestWrite(s, c.batch))
        /\ k # "ingest" => wq' = wq
  BY GetShape
<1>2. scan[s].cons = "get" /\ scan[s].queue # <<>> /\ ScanUnchanged
      /\ UNCHANGED <<registered, rpcErrors>>
  BY DEF Get
<1>3. /\ scan[s] \in Call /\ scan[s].pc = "run" /\ Live(s) /\ Staged(scan[s])
      /\ Flows(scan[s]) /\ Collected(scan[s], dataset)
  BY <1>2, Running DEF Ended
<1>4. /\ Flows(c) /\ Collected(c, dataset)
      /\ c.pc = "run" /\ c.cons = k /\ c.prod = scan[s].prod
      /\ c.offset = scan[s].offset /\ c.accepted = scan[s].accepted
  BY <1>1, <1>2, <1>3, TookFacts DEF Staged
<1>5. Staged(c)
  BY <1>3, <1>4 DEF Staged
<1>6. \A w \in Write : ~Awaits(scan[s], w)
  BY <1>2, <1>3 DEF Awaits, Write
<1>7. registered' \in Scans \cup {NoScan} /\ BoundsType'
  BY <1>2 DEF ScanUnchanged, ScannerInv, TypeInv, BoundsType
<1>8. CASE k # "ingest"
  <2>1. UNCHANGED <<row, dataset, prepared, wq, app, doubled>>
    BY <1>1, <1>2, <1>8 DEF ScanUnchanged, dbVars
  <2> QED BY <1>1, <1>3, <1>4, <1>5, <1>6, <1>7, <2>1, QuietStep
<1>9. CASE k = "ingest"
  <2> DEFINE v == IngestWrite(s, c.batch)
  <2>1. Rest(wq, s)
    BY <1>6, RestAll DEF ScannerInv
  <2>2. /\ v \in Write /\ v.by = s /\ v.kind = "ingest" /\ v.ids = c.batch /\ v.offset = 0
        /\ v.accepted = 0 /\ v.state = "none"
    BY TotalType DEF IngestWrite, Write, Call
  <2> HIDE DEF v
  <2>3. Awaits(c, v)
    BY <1>4, <1>9, <2>2 DEF Awaits
  <2>4. Cardinality(dataset') \in Nat
    BY <1>2, <1>3, RowsKept, Grows
  <2>5. Sound(v, dataset')
    BY <2>2, <2>4 DEF Sound, Persisted, AtMost
  <2>6. wq' = Append(wq, v)
    BY <1>1, <1>9 DEF v
  <2> QED BY <1>1, <1>2, <1>3, <1>4, <1>5, <1>7, <2>1, <2>2, <2>3, <2>5, <2>6, RowsKept, FreeStep
<1> QED BY <1>8, <1>9

-----------------------------------------------------------------------------
(* The parent and the TaskGroup.                                           *)

LEMMA IdleType ==
  /\ Idle \in Call /\ Idle.pc = "none" /\ Idle.prod = "off" /\ Idle.cons = "off"
  /\ Idle.offset = 0 /\ Idle.accepted = 0
  /\ Idle.queue = <<>> /\ ~Idle.last /\ Idle.batch = {} /\ Idle.seen = {}
<1>1. Sentinel \in Page /\ <<>> \in Seq(Page) /\ 0 \in 0..Total
  BY TotalType DEF Sentinel, Page
<1>2. Idle \in Call
  BY <1>1 DEF Idle, Call, Ended
<1> QED BY <1>2 DEF Idle

\* A new call and what it starts from.
LEMMA NewCall ==
  ASSUME ScannerInv, app = "up", NEW s \in Scans, ~Live(s), NEW c \in Call,
         c.pc = "queued", Staged(c),
         Persisted(c.offset, dataset), AtMost(c.accepted, dataset), row.state # "none",
         scan' = [scan EXCEPT ![s] = c],
         UNCHANGED <<row, dataset, registered, wq, app>>, prepared' = FALSE,
         doubled' \in BOOLEAN, BoundsType'
  PROVE  ScannerInv'
<1> USE DEF ScannerInv
<1>1. scan \in [Scans -> Call] /\ wq \in Seq(Write)
  BY DEF TypeInv
<1>2. scan'[s] = c /\ \A t \in Scans \ {s} : scan'[t] = scan[t]
  BY <1>1
<1>3. TypeInv'
  BY <1>1 DEF TypeInv, BoundsType
<1>4. WaitInv'
  <2>1. \A t \in Scans : Staged(scan'[t])
    BY <1>2 DEF WaitInv, Staged
  <2>2. ASSUME NEW i \in 1..Len(wq), wq[i].by # NoScan
        PROVE  Awaits(scan'[wq[i].by], wq[i])
    <3>1. wq[i] \in Write /\ Awaits(scan[wq[i].by], wq[i])
      BY <1>1, <2>2 DEF WaitInv
    <3>2. wq[i].by # s
      BY <3>1 DEF Awaits, Write, Live
    <3>3. wq[i].by \in Scans
      BY <2>2, <3>1 DEF Write
    <3> QED BY <1>2, <3>1, <3>2, <3>3
  <2> QED BY <2>1, <2>2 DEF WaitInv
<1>5. FlowInv'
  BY <1>2 DEF FlowInv
<1>6. PersistInv' /\ CountInv'
  BY <1>2 DEF PersistInv, CountInv
<1>7. CompleteInv' /\ BeginInv'
  BY DEF CompleteInv, BeginInv
<1> QED BY <1>3, <1>4, <1>5, <1>6, <1>7

LEMMA StartSteps ==
  ASSUME ScannerInv, NEW s \in Scans, StartScan(s) \/ ResumeScan(s)
  PROVE  ScannerInv'
<1> USE DEF ScannerInv
<1>1. row \in RowType /\ Persisted(row.offset, dataset) /\ AtMost(row.accepted, dataset)
      /\ 0 \in 0..Total /\ Persisted(0, dataset)
  BY TotalType DEF TypeInv, RowType, PersistInv, CountInv, Persisted
<1>2. AtMost(0, dataset)
  BY MembersFinite, FS_Subset, FS_CardinalityType DEF AtMost, TypeInv
<1>3. CASE StartScan(s)
  <2>1. /\ app = "up" /\ ~Live(s) /\ prepared' = FALSE /\ row.state # "none"
        /\ UNCHANGED <<row, dataset, registered, wq, app>> /\ doubled' \in BOOLEAN
    BY <1>3 DEF StartScan, Meets, dbVars, BeginInv
  <2>2. BoundsType'
    BY <1>3 DEF StartScan, TypeInv, BoundsType
  <2> DEFINE c == [Idle EXCEPT !.pc = "queued"]
  <2>3. scan' = [scan EXCEPT ![s] = c]
    BY <1>3 DEF StartScan
  <2>4. /\ c \in Call /\ c.pc = "queued" /\ c.prod = "off" /\ c.cons = "off"
        /\ c.offset = 0 /\ c.accepted = 0
        /\ c.queue = <<>> /\ ~c.last /\ c.batch = {} /\ c.seen = {}
    BY IdleType DEF Call
  <2> HIDE DEF c
  <2>5. Staged(c)
    BY <2>4 DEF Staged
  <2> QED BY <1>1, <1>2, <2>1, <2>2, <2>3, <2>4, <2>5, NewCall
<1>4. CASE ResumeScan(s)
  <2>1. /\ app = "up" /\ ~Live(s) /\ row.state # "none"
        /\ UNCHANGED <<row, dataset, registered, wq, app>> /\ doubled' \in BOOLEAN
    BY <1>4 DEF ResumeScan, Dispatch, Meets, dbVars
  <2>2. prepared' = FALSE
    BY <1>4 DEF ResumeScan, BeginInv, TypeInv
  <2>3. BoundsType'
    BY <1>4 DEF ResumeScan, Dispatch, TypeInv, BoundsType
  <2> DEFINE c == [Idle EXCEPT !.pc = "queued", !.offset = row.offset,
                               !.accepted = row.accepted]
  <2>4. scan' = [scan EXCEPT ![s] = c]
    BY <1>4 DEF ResumeScan
  <2>5. row.offset \in 0..Total /\ row.accepted \in Nat
    BY <1>1 DEF RowType
  <2>6. /\ c \in Call /\ c.pc = "queued" /\ c.prod = "off" /\ c.cons = "off"
        /\ c.offset = row.offset /\ c.accepted = row.accepted
        /\ c.queue = <<>> /\ ~c.last /\ c.batch = {} /\ c.seen = {}
    BY <2>5, IdleType DEF Call
  <2> HIDE DEF c
  <2>7. Staged(c)
    BY <2>6 DEF Staged
  <2> QED BY <1>1, <2>1, <2>2, <2>3, <2>4, <2>6, <2>7, NewCall
<1> QED BY <1>3, <1>4

LEMMA ScanSourceStep ==
  ASSUME ScannerInv, ScanSource
  PROVE  ScannerInv'
<1> USE DEF ScannerInv
<1>1. /\ app = "up" /\ row.state = "none" /\ row' = [row EXCEPT !.state = "READY"]
      /\ prepared' = TRUE
      /\ UNCHANGED <<dataset, scan, registered, wq, app, commands, crashes, failures, rpcErrors,
                     restarts, doubled>>
  BY DEF ScanSource, boundVars
<1>2. /\ row' \in RowType /\ row'.offset = row.offset /\ row'.accepted = row.accepted
      /\ row'.state = "READY"
  BY <1>1 DEF TypeInv, RowType
<1>3. TypeInv' /\ WaitInv' /\ FlowInv'
  BY <1>1, <1>2 DEF TypeInv, WaitInv, FlowInv, RowType, Live
<1>4. PersistInv' /\ CountInv' /\ CompleteInv'
  BY <1>1, <1>2 DEF PersistInv, CountInv, CompleteInv
<1>5. BeginInv'
  BY <1>1, <1>2 DEF BeginInv, Live
<1> QED BY <1>3, <1>4, <1>5

\* The cancel event only weakens what the producer promises.
LEMMA CancelScanStep ==
  ASSUME ScannerInv, CancelScan
  PROVE  ScannerInv'
<1> DEFINE s == registered
           c == [scan[s] EXCEPT !.cancel = TRUE]
<1>1. s \in Scans /\ Live(s)
  BY DEF CancelScan, Cancel, ScannerInv, TypeInv
<1>2. scan' = [scan EXCEPT ![s] = c]
      /\ UNCHANGED <<row, dataset, registered, prepared, wq, app, doubled>>
  BY <1>1 DEF CancelScan, Cancel, dbVars, ScannerInv, TypeInv
<1>3. BoundsType' /\ registered' \in Scans \cup {NoScan}
  BY DEF CancelScan, Dispatch, ScannerInv, TypeInv, BoundsType
<1>4. scan[s] \in Call /\ Staged(scan[s])
      /\ (scan[s].pc = "run" => Flows(scan[s]) /\ Collected(scan[s], dataset))
  BY <1>1 DEF ScannerInv, TypeInv, WaitInv, FlowInv, PersistInv
<1> HIDE DEF s
<1>5. /\ c \in Call /\ c.pc = scan[s].pc /\ c.prod = scan[s].prod /\ c.cons = scan[s].cons
      /\ c.offset = scan[s].offset /\ c.accepted = scan[s].accepted /\ c.queue = scan[s].queue
      /\ c.last = scan[s].last /\ c.batch = scan[s].batch /\ c.seen = scan[s].seen
      /\ c.batchOffset = scan[s].batchOffset /\ c.current = scan[s].current
      /\ c.page = scan[s].page /\ c.error = scan[s].error /\ c.cancel = TRUE
  BY <1>4 DEF Call
<1> HIDE DEF c
<1>6. Staged(c) /\ \A w \in Write : Awaits(scan[s], w) => Awaits(c, w)
  BY <1>4, <1>5 DEF Staged, Awaits
<1>7. c.pc = "run" => Flows(c) /\ Collected(c, dataset)
  BY <1>4, <1>5 DEF Flows, Collected, ReadTo
<1> QED BY <1>1, <1>2, <1>3, <1>5, <1>6, <1>7, QuietStep

\* The same call at another step of its parent, its children over or not begun.
LEMMA ParentStep ==
  ASSUME NEW c \in Call, NEW k \in {"starting", "final", "failing"},
         k = "starting" => c.pc = "queued" /\ Staged(c),
         k # "starting" => c.prod \in Ended /\ c.cons \in Ended
  PROVE  /\ [c EXCEPT !.pc = k] \in Call /\ [c EXCEPT !.pc = k].pc = k
         /\ Staged([c EXCEPT !.pc = k])
         /\ [c EXCEPT !.pc = k].offset = c.offset
         /\ [c EXCEPT !.pc = k].accepted = c.accepted
<1> DEFINE d == [c EXCEPT !.pc = k]
<1>1. /\ d \in Call /\ d.pc = k /\ d.offset = c.offset /\ d.accepted = c.accepted
      /\ d.prod = c.prod /\ d.cons = c.cons /\ d.queue = c.queue /\ d.last = c.last
      /\ d.batch = c.batch /\ d.seen = c.seen
  BY DEF Call
<1>2. Staged(d)
  BY <1>1 DEF Staged
<1> QED BY <1>1, <1>2

\* A row that the parent writes: the state, with the offset and the counter of the call.
LEMMA StateWriteFacts ==
  ASSUME ScannerInv, NEW s \in Scans, NEW st \in Terminal \cup {"RUNNING"}, ScanUnchanged,
         Live(s), st = "COMPLETED" => dataset = Members
  PROVE  /\ StateWrite(s, st) \in Write /\ StateWrite(s, st).by = s
         /\ StateWrite(s, st).kind = "state" /\ Sound(StateWrite(s, st), dataset')
         /\ StateWrite(s, st).state = st
<1> DEFINE v == StateWrite(s, st)
<1>1. scan[s].offset \in 0..Total /\ scan[s].accepted \in Nat
  BY DEF ScannerInv, TypeInv, Call
<1>2. /\ v \in Write /\ v.by = s /\ v.kind = "state" /\ v.state = st
      /\ v.offset = scan[s].offset /\ v.accepted = scan[s].accepted
  BY <1>1 DEF StateWrite, Write
<1> HIDE DEF v
<1>3. Persisted(v.offset, dataset') /\ AtMost(v.accepted, dataset') /\ dataset' = dataset
  BY <1>2, RowsKept
<1>4. Sound(v, dataset')
  BY <1>2, <1>3 DEF Sound, Terminal
<1> QED BY <1>2, <1>4 DEF v

LEMMA BeginStep ==
  ASSUME ScannerInv, NEW s \in Scans, Begin(s)
  PROVE  ScannerInv'
<1> DEFINE c == [scan[s] EXCEPT !.pc = "starting"]
           v == StateWrite(s, "RUNNING")
<1>1. /\ scan[s].pc = "queued" /\ Live(s) /\ registered' = s /\ wq' = Append(wq, v)
      /\ ScanUnchanged /\ UNCHANGED rpcErrors
  BY DEF Begin, Live
<1>2. scan[s] \in Call /\ Staged(scan[s])
  BY DEF ScannerInv, TypeInv, WaitInv
<1>3. scan' = [scan EXCEPT ![s] = c]
  BY DEF Begin, ScannerInv, TypeInv
<1>4. /\ c \in Call /\ c.pc = "starting" /\ Staged(c) /\ c.offset = scan[s].offset
      /\ c.accepted = scan[s].accepted
  BY <1>1, <1>2, ParentStep
<1>5. Rest(wq, s)
  BY <1>1, RestAll DEF ScannerInv, Awaits, Write
<1>6. v \in Write /\ v.by = s /\ v.kind = "state" /\ Sound(v, dataset')
  BY <1>1, StateWriteFacts
<1> HIDE DEF c, v
<1>7. Awaits(c, v)
  BY <1>4, <1>6 DEF Awaits
<1>8. registered' \in Scans \cup {NoScan} /\ BoundsType'
  BY <1>1 DEF ScanUnchanged, ScannerInv, TypeInv, BoundsType
<1> QED BY <1>1, <1>3, <1>4, <1>5, <1>6, <1>7, <1>8, RowsKept, FreeStep

\* A child is cancelled: nothing is promised any more, but what is persisted stays so.
LEMMA AbortStep ==
  ASSUME ScannerInv, NEW s \in Scans, Abort(s)
  PROVE  ScannerInv'
<1>1. scan[s].pc = "run" /\ ScanUnchanged /\ UNCHANGED <<registered, rpcErrors>>
  BY DEF Abort
<1>2. /\ scan[s] \in Call /\ Live(s) /\ Staged(scan[s]) /\ Flows(scan[s])
      /\ Collected(scan[s], dataset)
  BY <1>1, Running
<1>3. registered' \in Scans \cup {NoScan} /\ BoundsType'
  BY <1>1 DEF ScanUnchanged, ScannerInv, TypeInv, BoundsType
<1>4. CASE scan' = [scan EXCEPT ![s].cons = "cancelled"] /\ wq' = Abandoned(s)
  <2> DEFINE c == [scan[s] EXCEPT !.cons = "cancelled"]
  <2>1. scan' = [scan EXCEPT ![s] = c]
    BY <1>4 DEF ScannerInv, TypeInv
  <2>2. /\ c \in Call /\ c.pc = "run" /\ c.prod = scan[s].prod /\ c.cons = "cancelled"
        /\ c.offset = scan[s].offset /\ c.accepted = scan[s].accepted
        /\ c.queue = scan[s].queue /\ c.last = scan[s].last /\ c.batch = scan[s].batch
        /\ c.seen = scan[s].seen /\ c.batchOffset = scan[s].batchOffset
        /\ c.current = scan[s].current /\ c.page = scan[s].page /\ c.error = scan[s].error
        /\ c.cancel = scan[s].cancel
    BY <1>1, <1>2 DEF Call, Ended
  <2> HIDE DEF c
  <2>3. Staged(c) /\ Flows(c) /\ Collected(c, dataset')
    BY <1>1, <1>2, <2>2, RowsKept DEF Staged, Flows, ReadTo, Collected
  <2>4. Rest(Abandoned(s), s)
    BY RestAbandoned DEF ScannerInv
  <2> QED BY <1>1, <1>2, <1>3, <1>4, <2>1, <2>2, <2>3, <2>4, RowsKept, FreeStep
<1>5. CASE /\ scan[s].prod \notin Ended
           /\ scan' = [scan EXCEPT ![s].prod = "cancelled"] /\ wq' = wq
  <2> DEFINE c == [scan[s] EXCEPT !.prod = "cancelled"]
  <2>1. scan' = [scan EXCEPT ![s] = c]
    BY <1>5 DEF ScannerInv, TypeInv
  <2>2. /\ c \in Call /\ c.pc = "run" /\ c.prod = "cancelled" /\ c.cons = scan[s].cons
        /\ c.offset = scan[s].offset /\ c.accepted = scan[s].accepted
        /\ c.queue = scan[s].queue /\ c.last = scan[s].last /\ c.batch = scan[s].batch
        /\ c.seen = scan[s].seen /\ c.batchOffset = scan[s].batchOffset
    BY <1>1, <1>2 DEF Call, Ended
  <2> HIDE DEF c
  <2>3. Flows(c)
    BY <1>2, <1>5, <2>2 DEF Flows, Ended
  <2>4. rpcErrors' \in Nat
    BY <1>1 DEF ScannerInv, TypeInv
  <2> QED BY <1>1, <1>5, <2>1, <2>2, <2>3, <2>4, ProducerStep
<1> QED BY <1>4, <1>5 DEF Abort

\* When both children have done their work and nobody has cancelled, the consumer has
\* passed the end of the list and persisted its last batch.
LEMMA JoinedIsComplete ==
  ASSUME ScannerInv, NEW s \in Scans, scan[s].pc = "run", scan[s].prod = "done",
         scan[s].cons = "done", ~scan[s].cancel
  PROVE  dataset = Members
<1>1. Flows(scan[s]) /\ Collected(scan[s], dataset)
  BY Running
<1>2. scan[s].batchOffset = Total /\ scan[s].batch = {}
  BY <1>1 DEF Flows
<1>3. \A i \in 1..Total : Participants[i] \in dataset
  BY <1>1, <1>2 DEF Collected
<1>4. Members \subseteq dataset
  BY <1>3 DEF Members, Total
<1> QED BY <1>4 DEF ScannerInv, TypeInv

LEMMA JoinStep ==
  ASSUME ScannerInv, NEW s \in Scans, Join(s)
  PROVE  ScannerInv'
<1>1. /\ scan[s].pc = "run" /\ scan[s].prod \in Ended /\ scan[s].cons \in Ended /\ Live(s)
      /\ ScanUnchanged /\ UNCHANGED <<registered, rpcErrors>>
  BY DEF Join, Live
<1>2. scan[s] \in Call /\ scan \in [Scans -> Call]
  BY DEF ScannerInv, TypeInv
<1>3. PICK k \in {"final", "failing"}, st \in Terminal :
        /\ scan' = [scan EXCEPT ![s].pc = k] /\ wq' = Append(wq, StateWrite(s, st))
        /\ st = "COMPLETED" => scan[s].prod = "done" /\ scan[s].cons = "done" /\ ~scan[s].cancel
  BY DEF Join, Terminal
<1> DEFINE c == [scan[s] EXCEPT !.pc = k]
           v == StateWrite(s, st)
<1>4. /\ c \in Call /\ c.pc = k /\ Staged(c) /\ c.offset = scan[s].offset
      /\ c.accepted = scan[s].accepted
  <2>1. k \in {"starting", "final", "failing"} /\ k # "starting"
    OBVIOUS
  <2> QED BY <1>1, <1>2, <2>1, ParentStep
<1>5. scan' = [scan EXCEPT ![s] = c]
  BY <1>2, <1>3
<1>6. Rest(wq, s)
  BY <1>1, RestAll DEF ScannerInv, Awaits, Write, Ended
<1>7. v \in Write /\ v.by = s /\ v.kind = "state" /\ Sound(v, dataset')
  BY <1>1, <1>3, StateWriteFacts, JoinedIsComplete
<1>8. wq' = Append(wq, v)
  BY <1>3
<1> HIDE DEF c, v
<1>9. Awaits(c, v)
  BY <1>4, <1>7 DEF Awaits
<1>10. registered' \in Scans \cup {NoScan} /\ BoundsType'
  BY <1>1 DEF ScanUnchanged, ScannerInv, TypeInv, BoundsType
<1> QED BY <1>1, <1>4, <1>5, <1>6, <1>7, <1>8, <1>9, <1>10, RowsKept, FreeStep

-----------------------------------------------------------------------------
(* DBWriter answers.                                                       *)

LEMMA HeadFacts ==
  ASSUME ScannerInv, wq # <<>>
  PROVE  /\ Head(wq) \in Write /\ Tail(wq) \in Seq(Write) /\ Sound(Head(wq), dataset)
         /\ Head(wq).by # NoScan =>
              Head(wq).by \in Scans /\ Awaits(scan[Head(wq).by], Head(wq))
              /\ Live(Head(wq).by) /\ Rest(Tail(wq), Head(wq).by)
         /\ row \in RowType /\ row.state # "none"
         /\ Persisted(row.offset, dataset) /\ AtMost(row.accepted, dataset)
         /\ row.state = "COMPLETED" => dataset = Members
         /\ dataset \subseteq Members /\ BoundsType /\ registered \in Scans \cup {NoScan}
<1> USE DEF ScannerInv
<1>1. wq \in Seq(Write)
  BY DEF TypeInv
<1>2. /\ Head(wq) = wq[1] /\ Head(wq) \in Write /\ Tail(wq) \in Seq(Write) /\ 1 \in 1..Len(wq)
  BY <1>1, TailAt
<1>3. Sound(Head(wq), dataset)
  BY <1>2 DEF Sound, PersistInv, CompleteInv, CountInv
<1>4. ASSUME Head(wq).by # NoScan
      PROVE  /\ Head(wq).by \in Scans /\ Awaits(scan[Head(wq).by], Head(wq))
             /\ Live(Head(wq).by) /\ Rest(Tail(wq), Head(wq).by)
  <2>1. Head(wq).by \in Scans /\ Awaits(scan[Head(wq).by], Head(wq))
    BY <1>2, <1>4 DEF Write, WaitInv
  <2>2. Live(Head(wq).by)
    BY <1>2, <2>1 DEF Awaits, Live, Write
  <2> QED BY <2>1, <2>2, RestTail
<1> QED BY <1>2, <1>3, <1>4
        DEF TypeInv, RowType, BeginInv, PersistInv, CompleteInv, CountInv, BoundsType

\* What a commit does to the row and to the dataset.
LEMMA CommitFacts ==
  ASSUME ScannerInv, wq # <<>>, NEW w \in Write, w = Head(wq), Commit(w)
  PROVE  /\ dataset \subseteq dataset' /\ dataset' \subseteq Members
         /\ row' \in RowType /\ row'.state # "none"
         /\ Persisted(row'.offset, dataset') /\ AtMost(row'.accepted, dataset')
         /\ row'.state = "COMPLETED" => dataset' = Members
         /\ dataset' = IF w.kind = "ingest" THEN dataset \cup w.ids ELSE dataset
<1>1. /\ Sound(w, dataset) /\ row \in RowType /\ row.state # "none"
      /\ Persisted(row.offset, dataset) /\ AtMost(row.accepted, dataset)
      /\ row.state = "COMPLETED" => dataset = Members
      /\ dataset \subseteq Members
  BY HeadFacts
<1>2. CASE w.kind = "state"
  <2>1. row' = [state |-> w.state, offset |-> w.offset, accepted |-> w.accepted]
        /\ dataset' = dataset
    BY <1>2 DEF Commit
  <2>2. /\ row' \in RowType /\ row'.state = w.state /\ row'.offset = w.offset
        /\ row'.accepted = w.accepted
    BY <2>1 DEF RowType, Write
  <2> QED BY <1>1, <1>2, <2>1, <2>2 DEF Sound
<1>3. CASE w.kind = "checkpoint"
  <2>1. row' = [row EXCEPT !.offset = w.offset, !.accepted = w.accepted] /\ dataset' = dataset
    BY <1>3 DEF Commit
  <2>2. /\ row' \in RowType /\ row'.state = row.state /\ row'.offset = w.offset
        /\ row'.accepted = w.accepted
    BY <1>1, <2>1 DEF RowType, Write
  <2> QED BY <1>1, <1>3, <2>1, <2>2 DEF Sound
<1>4. CASE w.kind = "ingest"
  <2>1. row' = row /\ dataset' = dataset \cup w.ids
    BY <1>4 DEF Commit
  <2>2. w.ids \subseteq Members /\ row.accepted \in Nat
    BY <1>1 DEF Write, RowType
  <2>3. dataset \subseteq dataset' /\ dataset' \subseteq Members
    BY <1>1, <2>1, <2>2
  <2>4. Persisted(row'.offset, dataset') /\ AtMost(row'.accepted, dataset')
        /\ (row.state = "COMPLETED" => dataset' = Members)
    BY <1>1, <2>1, <2>2, <2>3, Grows
  <2> QED BY <1>1, <1>4, <2>1, <2>3, <2>4
<1>5. CASE w.kind = "event"
  <2>1. row' = row /\ dataset' = dataset
    BY <1>5 DEF Commit, dbVars
  <2> QED BY <1>1, <1>5, <2>1
<1> QED BY <1>2, <1>3, <1>4, <1>5 DEF Write

LEMMA NewMembers ==
  ASSUME NEW D \in SUBSET Members, NEW I \in SUBSET Members
  PROVE  /\ Cardinality(D) \in Nat /\ Cardinality(I \ D) \in Nat
         /\ Cardinality(D \cup I) = Cardinality(D) + Cardinality(I \ D)
<1>1. IsFiniteSet(D) /\ IsFiniteSet(I) /\ IsFiniteSet(I \ D)
  BY MembersFinite, FS_Subset
<1>2. D \cup I = D \cup (I \ D) /\ D \cap (I \ D) = {}
  OBVIOUS
<1>3. Cardinality(D \cup (I \ D)) =
        Cardinality(D) + Cardinality(I \ D) - Cardinality(D \cap (I \ D))
  BY <1>1, FS_Union
<1>4. Cardinality(D \cap (I \ D)) = 0
  BY <1>2, FS_EmptySet
<1>5. Cardinality(D) \in Nat /\ Cardinality(I \ D) \in Nat
  BY <1>1, FS_CardinalityType
<1>6. Cardinality(D \cup I) = Cardinality(D \cup (I \ D))
  BY <1>2, Zenon
<1> DEFINE x == Cardinality(D \cup I)
           y == Cardinality(D \cap (I \ D))
<1>7. x = Cardinality(D) + Cardinality(I \ D) - y /\ y = 0
  BY <1>3, <1>4, <1>6
<1> HIDE DEF x, y
<1>8. x = Cardinality(D) + Cardinality(I \ D)
  BY <1>5, <1>7
<1> QED BY <1>5, <1>8 DEF x

\* The batch is in the dataset, its offset and the new members are noted, and the
\* checkpoint follows.
LEMMA AfterIngestStep ==
  ASSUME ScannerInv, wq # <<>>, NEW s \in Scans, NEW w \in Write, w = Head(wq), w.by = s,
         w.kind = "ingest", Commit(w), AfterIngest(s, w),
         UNCHANGED <<registered, prepared, app, boundVars>>
  PROVE  ScannerInv'
<1> DEFINE o == scan[s]
           a == o.accepted + Cardinality(w.ids \ dataset)
           c == [o EXCEPT !.accepted = a, !.offset = o.batchOffset, !.cons = "check"]
           v == CheckpointWrite(s, o.batchOffset, a)
<1>1. s # NoScan /\ Awaits(o, w) /\ Live(s) /\ Rest(Tail(wq), s) /\ dataset \subseteq Members
  BY HeadFacts, ScannerAssumption
<1>2. o.pc = "run" /\ o.cons = "ingest" /\ w.ids = o.batch
  BY <1>1 DEF Awaits
<1>3. o \in Call /\ Staged(o) /\ Flows(o) /\ Collected(o, dataset)
  BY <1>2, Running
<1>4. /\ dataset' = dataset \cup w.ids /\ dataset \subseteq dataset' /\ dataset' \subseteq Members
  BY CommitFacts
<1>5. o.accepted \in Nat /\ o.batchOffset \in 0..Total /\ w.ids \in SUBSET Members
  BY <1>3 DEF Call, Write
<1>6. /\ Cardinality(dataset) \in Nat /\ Cardinality(w.ids \ dataset) \in Nat
      /\ Cardinality(dataset') = Cardinality(dataset) + Cardinality(w.ids \ dataset)
  BY <1>1, <1>4, <1>5, NewMembers
<1>7. o.accepted <= Cardinality(dataset)
  BY DEF ScannerInv, CountInv, AtMost
<1>8. a \in Nat /\ AtMost(a, dataset')
  BY <1>5, <1>6, <1>7 DEF AtMost
<1>9. scan' = [scan EXCEPT ![s] = c] /\ wq' = Append(Tail(wq), v)
  <2> DEFINE d == [o EXCEPT !.accepted = a, !.offset = o.batchOffset]
  <2>1. scan' = [scan EXCEPT ![s] = [d EXCEPT !.cons = "check"]]
        /\ wq' = Append(Tail(wq), CheckpointWrite(s, d.offset, d.accepted))
    BY DEF AfterIngest
  <2>2. d.offset = o.batchOffset /\ d.accepted = a
    BY <1>3 DEF Call
  <2>3. [d EXCEPT !.cons = "check"] = c
    BY <1>3 DEF Call
  <2> QED BY <2>1, <2>2, <2>3
<1> HIDE DEF a
<1>10. /\ c \in Call /\ c.pc = "run" /\ c.prod = o.prod /\ c.cons = "check"
       /\ c.offset = o.batchOffset /\ c.accepted = a
       /\ c.queue = o.queue /\ c.last = o.last /\ c.batch = o.batch
       /\ c.seen = o.seen /\ c.batchOffset = o.batchOffset
       /\ c.current = o.current /\ c.page = o.page /\ c.error = o.error
       /\ c.cancel = o.cancel
  BY <1>2, <1>3, <1>5, <1>8 DEF Call
<1>11. /\ v \in Write /\ v.by = s /\ v.kind = "checkpoint" /\ v.state = "none"
       /\ v.offset = o.batchOffset /\ v.accepted = a
  BY <1>5, <1>8 DEF CheckpointWrite, Write
<1> HIDE DEF c, v
<1>12. Persisted(o.batchOffset, dataset')
  BY <1>2, <1>3, <1>4 DEF Persisted, Collected
<1>13. Staged(c) /\ Flows(c) /\ Collected(c, dataset')
  BY <1>2, <1>3, <1>4, <1>10 DEF Staged, Flows, ReadTo, Collected
<1>14. Sound(v, dataset') /\ Awaits(c, v)
  BY <1>8, <1>10, <1>11, <1>12 DEF Sound, Awaits
<1>15. registered' \in Scans \cup {NoScan} /\ BoundsType' /\ UNCHANGED <<prepared, app, doubled>>
  BY DEF boundVars, ScannerInv, TypeInv, BoundsType
<1>16. Persisted(c.offset, dataset') /\ AtMost(c.accepted, dataset')
  BY <1>8, <1>10, <1>12
<1> QED BY <1>1, <1>4, <1>9, <1>10, <1>11, <1>13, <1>14, <1>15, <1>16, CommitFacts, FreeStep

\* The other answers: the row and the dataset are what the commit leaves.
LEMMA AnswerStep ==
  ASSUME ScannerInv, wq # <<>>, NEW s \in Scans, Head(wq).by = s, NEW c \in Call,
         scan' = [scan EXCEPT ![s] = c],
         \/ wq' = Tail(wq)
         \/ \E v \in Write : wq' = Append(Tail(wq), v) /\ v.by = s /\ Awaits(c, v)
                             /\ Sound(v, dataset'),
         dataset' = dataset, row' \in RowType, row'.state # "none",
         Persisted(row'.offset, dataset'), AtMost(row'.accepted, dataset'),
         row'.state = "COMPLETED" => dataset' = Members,
         UNCHANGED <<prepared, app, doubled>>, BoundsType',
         registered' \in Scans \cup {NoScan}, Staged(c),
         c.pc = "run" => Flows(c) /\ Collected(c, dataset),
         c = Idle \/ (c.offset = scan[s].offset /\ c.accepted = scan[s].accepted)
  PROVE  ScannerInv'
<1>1. s # NoScan /\ Live(s) /\ Rest(Tail(wq), s) /\ dataset \subseteq Members
  BY HeadFacts, ScannerAssumption
<1>2. Cardinality(dataset') \in Nat
  BY <1>1, Grows
<1>3. Persisted(c.offset, dataset') /\ AtMost(c.accepted, dataset')
  <2>1. CASE c = Idle
    BY <1>2, <2>1, IdleType DEF Persisted, AtMost
  <2>2. CASE c.offset = scan[s].offset /\ c.accepted = scan[s].accepted
    BY <2>2 DEF ScannerInv, PersistInv, CountInv
  <2> QED BY <2>1, <2>2
<1> QED BY <1>1, <1>3, FreeStep

\* A write of no consequence for the row: an event, for the log of the page.
LEMMA EventWriteFacts ==
  ASSUME NEW s \in Scans, NEW d \in SUBSET Members
  PROVE  /\ EventWrite(s) \in Write /\ EventWrite(s).by = s /\ EventWrite(s).kind = "event"
         /\ EventWrite(s).state = "none" /\ Sound(EventWrite(s), d)
         /\ EventWrite(s).offset = 0 /\ EventWrite(s).accepted = 0
<1> DEFINE v == EventWrite(s)
<1>1. /\ v \in Write /\ v.by = s /\ v.kind = "event" /\ v.state = "none" /\ v.offset = 0
      /\ v.accepted = 0
  BY TotalType DEF EventWrite, Write
<1>2. Cardinality(d) \in Nat
  BY MembersFinite, FS_Subset, FS_CardinalityType
<1> HIDE DEF v
<1>3. Sound(v, d)
  BY <1>1, <1>2 DEF Sound, Persisted, AtMost
<1> QED BY <1>1, <1>3 DEF v

LEMMA AnsweredStep ==
  ASSUME ScannerInv, wq # <<>>, NEW s \in Scans, NEW w \in Write, w = Head(wq), w.by = s,
         w.kind # "ingest", Commit(w), Answered(s, w), UNCHANGED <<prepared, app, boundVars>>
  PROVE  ScannerInv'
<1> DEFINE o == scan[s]
<1>1. /\ Awaits(o, w) /\ Live(s) /\ dataset \subseteq Members
  BY HeadFacts, ScannerAssumption
<1>2. o \in Call /\ Staged(o) /\ scan \in [Scans -> Call]
      /\ (o.pc = "run" => Flows(o) /\ Collected(o, dataset))
  BY DEF ScannerInv, TypeInv, WaitInv, FlowInv, PersistInv
<1>3. /\ dataset' = dataset /\ row' \in RowType /\ row'.state # "none"
      /\ Persisted(row'.offset, dataset') /\ AtMost(row'.accepted, dataset')
      /\ row'.state = "COMPLETED" => dataset' = Members
  BY CommitFacts
<1>4. BoundsType' /\ UNCHANGED <<prepared, app, doubled>>
      /\ registered \in Scans \cup {NoScan}
  BY DEF boundVars, ScannerInv, TypeInv, BoundsType
<1>5. CASE w.kind = "checkpoint"
  <2> DEFINE k == IF o.last THEN "done" ELSE "get"
             c == [o EXCEPT !.batch = {}, !.cons = k]
  <2>1. scan' = [scan EXCEPT ![s] = c] /\ wq' = Tail(wq) /\ registered' = registered
    BY <1>2, <1>5 DEF Answered
  <2>2. o.pc = "run" /\ o.cons = "check"
    BY <1>1, <1>5 DEF Awaits
  <2>3. k \in {"done", "get"} /\ (k = "done" <=> o.last)
    OBVIOUS
  <2> HIDE DEF k
  <2>4. /\ c \in Call /\ c.pc = "run" /\ c.prod = o.prod /\ c.cons = k
        /\ c.offset = o.offset /\ c.accepted = o.accepted
        /\ c.queue = o.queue /\ c.last = o.last /\ c.batch = {}
        /\ c.seen = o.seen /\ c.batchOffset = o.batchOffset
        /\ c.current = o.current /\ c.page = o.page /\ c.error = o.error
        /\ c.cancel = o.cancel
    BY <1>2, <2>2, <2>3 DEF Call, Ended
  <2> HIDE DEF c
  <2>5. Staged(c) /\ Flows(c) /\ Collected(c, dataset)
    BY <1>2, <2>2, <2>3, <2>4 DEF Staged, Flows, ReadTo, Collected
  <2> QED BY <1>3, <1>4, <2>1, <2>4, <2>5, AnswerStep
<1>6. CASE w.kind = "state"
  <2> DEFINE k == CASE o.pc = "starting" -> "started"
                    [] o.pc = "final"    -> "finalEvent"
                    [] OTHER             -> "failedEvent"
             c == [o EXCEPT !.pc = k]
  <2>1. scan' = [scan EXCEPT ![s] = c] /\ wq' = Append(Tail(wq), EventWrite(s))
        /\ registered' = registered
    BY <1>2, <1>6 DEF Answered
  <2>2. o.pc \in {"starting", "final", "failing"}
    BY <1>1, <1>6 DEF Awaits
  <2>3. k \in {"started", "finalEvent", "failedEvent"} /\ (k = "started" <=> o.pc = "starting")
    BY <2>2
  <2> HIDE DEF k
  <2>4. /\ c \in Call /\ c.pc = k /\ c.prod = o.prod /\ c.cons = o.cons
        /\ c.offset = o.offset /\ c.accepted = o.accepted
        /\ c.queue = o.queue /\ c.last = o.last /\ c.batch = o.batch /\ c.seen = o.seen
    BY <1>2, <2>3 DEF Call
  <2> HIDE DEF c
  <2>5. Staged(c) /\ c.pc # "run"
    BY <1>2, <2>2, <2>3, <2>4 DEF Staged
  <2>6. /\ EventWrite(s) \in Write /\ EventWrite(s).by = s /\ EventWrite(s).kind = "event"
        /\ Sound(EventWrite(s), dataset')
    BY <1>1, <1>3, EventWriteFacts
  <2>7. Awaits(c, EventWrite(s))
    BY <2>3, <2>4, <2>6 DEF Awaits
  <2> QED BY <1>3, <1>4, <2>1, <2>4, <2>5, <2>6, <2>7, AnswerStep
<1>7. CASE w.kind = "event" /\ o.pc = "started"
  <2> DEFINE c == [o EXCEPT !.pc = "run", !.prod = "slot", !.cons = "get",
                            !.batchOffset = o.offset]
  <2>1. scan' = [scan EXCEPT ![s] = c] /\ wq' = Tail(wq) /\ registered' = registered
    BY <1>2, <1>7 DEF Answered
  <2>2. /\ c \in Call /\ c.pc = "run" /\ c.prod = "slot" /\ c.cons = "get"
        /\ c.offset = o.offset /\ c.accepted = o.accepted
        /\ c.queue = o.queue /\ c.last = o.last /\ c.batch = o.batch /\ c.seen = o.seen
        /\ c.batchOffset = o.offset
    BY <1>2 DEF Call
  <2> HIDE DEF c
  <2>3. o.queue = <<>> /\ ~o.last /\ o.batch = {} /\ o.seen = {}
    BY <1>2, <1>7 DEF Staged
  <2>4. Staged(c)
    BY <2>2 DEF Staged
  <2>5. Flows(c)
    BY <2>2, <2>3 DEF Flows, Chained
  <2>6. Collected(c, dataset)
    <3>1. Persisted(o.offset, dataset)
      BY DEF ScannerInv, PersistInv
    <3> QED BY <2>2, <2>3, <3>1 DEF Collected, Persisted
  <2> QED BY <1>3, <1>4, <2>1, <2>2, <2>4, <2>5, <2>6, AnswerStep
<1>8. CASE w.kind = "event" /\ o.pc # "started"
  <2>1. scan' = [scan EXCEPT ![s] = Idle] /\ wq' = Tail(wq) /\ registered' = NoScan
    BY <1>8 DEF Answered, Forget
  <2>2. Staged(Idle) /\ Idle \in Call /\ Idle.pc # "run"
    BY IdleType DEF Staged
  <2> QED BY <1>3, <1>4, <2>1, <2>2, AnswerStep
<1> QED BY <1>5, <1>6, <1>7, <1>8 DEF Write

LEMMA WriteCommitsStep ==
  ASSUME ScannerInv, WriteCommits
  PROVE  ScannerInv'
<1>1. wq # <<>> /\ Commit(Head(wq)) /\ UNCHANGED <<prepared, app, boundVars>>
  BY DEF WriteCommits
<1>2. Head(wq) \in Write
  BY <1>1, HeadFacts
<1>3. CASE Head(wq).by = NoScan
  <2>1. wq' = Tail(wq) /\ UNCHANGED <<scan, registered>>
    BY <1>3 DEF WriteCommits
  <2>2. BoundsType' /\ UNCHANGED <<prepared, app, doubled>>
    BY <1>1 DEF boundVars, ScannerInv, TypeInv, BoundsType
  <2> QED BY <1>1, <1>2, <1>3, <2>1, <2>2, CommitFacts, DropStep
<1>4. CASE Head(wq).by # NoScan
  <2> DEFINE w == Head(wq)
             s == w.by
  <2>1. s \in Scans /\ Answered(s, w)
    BY <1>1, <1>4, HeadFacts DEF WriteCommits
  <2>2. CASE w.kind = "ingest"
    <3>1. AfterIngest(s, w) /\ UNCHANGED registered
      BY <2>1, <2>2 DEF Answered
    <3> HIDE DEF w
    <3> QED BY <1>1, <1>2, <2>1, <2>2, <3>1, AfterIngestStep DEF w
  <2>3. CASE w.kind # "ingest"
    BY <1>1, <1>2, <2>1, <2>3, AnsweredStep
  <2> QED BY <2>2, <2>3
<1> QED BY <1>3, <1>4

\* A failing write leaves the database alone; what its call promised is given up with it.
LEMMA WriteFailsStep ==
  ASSUME ScannerInv, WriteFails
  PROVE  ScannerInv'
<1>1. /\ wq # <<>> /\ UNCHANGED <<row, dataset, prepared, app, doubled>>
  BY DEF WriteFails, dbVars
<1>2. BoundsType'
  BY DEF WriteFails, ScannerInv, TypeInv, BoundsType
<1>3. /\ row' \in RowType /\ row'.state # "none"
      /\ Persisted(row'.offset, dataset') /\ AtMost(row'.accepted, dataset')
      /\ row'.state = "COMPLETED" => dataset' = Members
      /\ dataset \subseteq Members /\ registered \in Scans \cup {NoScan}
  BY <1>1, HeadFacts
<1>4. CASE Head(wq).by = NoScan
  <2>1. wq' = Tail(wq) /\ UNCHANGED <<scan, registered>>
    BY <1>4 DEF WriteFails
  <2> QED BY <1>1, <1>2, <1>3, <1>4, <2>1, DropStep
<1>5. CASE Head(wq).by # NoScan
  <2>1. PICK s \in Scans : s = Head(wq).by
    BY <1>1, <1>5, HeadFacts
  <2>2. Raised(s)
    BY <1>5, <2>1 DEF WriteFails
  <2> DEFINE o == scan[s]
  <2>3. /\ o \in Call /\ Staged(o) /\ scan \in [Scans -> Call]
        /\ (o.pc = "run" => Flows(o) /\ Collected(o, dataset))
    BY DEF ScannerInv, TypeInv, WaitInv, FlowInv, PersistInv
  <2>4. CASE /\ scan' = [scan EXCEPT ![s] = Idle] /\ wq' = Tail(wq)
             /\ registered' \in {registered, NoScan}
    <3>1. Staged(Idle) /\ Idle \in Call /\ Idle.pc # "run"
      BY IdleType DEF Staged
    <3> QED BY <1>1, <1>2, <1>3, <2>1, <2>4, <3>1, AnswerStep
  <2>5. CASE o.pc = "run" /\ scan' = [scan EXCEPT ![s].cons = "failed"] /\ wq' = Tail(wq)
             /\ registered' = registered
    <3> DEFINE c == [o EXCEPT !.cons = "failed"]
    <3>1. scan' = [scan EXCEPT ![s] = c]
      BY <2>3, <2>5
    <3>2. /\ c \in Call /\ c.pc = "run" /\ c.prod = o.prod /\ c.cons = "failed"
          /\ c.offset = o.offset /\ c.accepted = o.accepted
          /\ c.queue = o.queue /\ c.last = o.last /\ c.batch = o.batch
          /\ c.seen = o.seen /\ c.batchOffset = o.batchOffset
          /\ c.current = o.current /\ c.page = o.page /\ c.error = o.error
          /\ c.cancel = o.cancel
      BY <2>3, <2>5 DEF Call, Ended
    <3> HIDE DEF c
    <3>3. Staged(c) /\ Flows(c) /\ Collected(c, dataset)
      BY <2>3, <2>5, <3>2 DEF Staged, Flows, ReadTo, Collected
    <3> QED BY <1>1, <1>2, <1>3, <2>1, <2>5, <3>1, <3>2, <3>3, AnswerStep
  <2>6. CASE /\ o.pc \in {"final", "finalEvent"} /\ scan' = [scan EXCEPT ![s].pc = "failing"]
             /\ wq' = Append(Tail(wq), StateWrite(s, "FAILED")) /\ registered' = registered
    <3> DEFINE c == [o EXCEPT !.pc = "failing"]
               v == StateWrite(s, "FAILED")
    <3>1. scan' = [scan EXCEPT ![s] = c] /\ wq' = Append(Tail(wq), v)
      BY <2>3, <2>6
    <3>2. /\ c \in Call /\ c.pc = "failing" /\ Staged(c) /\ c.offset = o.offset
          /\ c.accepted = o.accepted
      BY <2>3, <2>6, ParentStep DEF Staged
    <3>3. /\ v \in Write /\ v.by = s /\ v.kind = "state" /\ v.state = "FAILED"
          /\ v.offset = o.offset /\ v.accepted = o.accepted
      BY <2>3 DEF StateWrite, Write, Call, Terminal
    <3> HIDE DEF c, v
    <3>4. Awaits(c, v) /\ c.pc # "run"
      BY <3>2, <3>3 DEF Awaits
    <3>5. Sound(v, dataset')
      BY <1>1, <3>3 DEF Sound, ScannerInv, PersistInv, CountInv
    <3> QED BY <1>1, <1>2, <1>3, <2>1, <2>6, <3>1, <3>2, <3>3, <3>4, <3>5, AnswerStep
  <2> QED BY <2>2, <2>4, <2>5, <2>6 DEF Raised, Forget
<1> QED BY <1>4, <1>5

-----------------------------------------------------------------------------
(* The process.                                                            *)

\* DBWriter drains its queue, but nobody waits for it any more.
LEMMA QuitQueue ==
  ASSUME wq \in Seq(Write), Quit
  PROVE  /\ wq' \in Seq(Write) /\ Len(wq') = Len(wq)
         /\ \A i \in 1..Len(wq) : wq'[i].by = NoScan /\ Same(wq'[i], wq[i])
<1> DEFINE n == Len(wq)
           q == [i \in 1..n |-> [wq[i] EXCEPT !.by = NoScan]]
<1>1. wq' = q /\ n \in Nat
  BY DEF Quit
<1>2. ASSUME NEW i \in 1..n
      PROVE  q[i] \in Write /\ q[i].by = NoScan /\ Same(q[i], wq[i])
  <2>1. wq[i] \in Write /\ q[i] = [wq[i] EXCEPT !.by = NoScan]
    OBVIOUS
  <2> QED BY <2>1 DEF Write, Same
<1>3. q = [i \in 1..n |-> q[i]]
  OBVIOUS
<1> HIDE DEF q
<1>4. q \in [1..n -> Write]
  BY <1>2, <1>3
<1>5. q \in Seq(Write) /\ Len(q) = n
  BY <1>1, <1>4
<1> QED BY <1>1, <1>2, <1>5

LEMMA EndSteps ==
  ASSUME ScannerInv, Quit \/ Crash
  PROVE  ScannerInv'
<1> USE DEF ScannerInv
<1>1. /\ UNCHANGED <<row, dataset, doubled>> /\ prepared' = FALSE /\ app' = "down"
      /\ scan' = [s \in Scans |-> Idle] /\ registered' = NoScan
  BY DEF Quit, Crash, Vanish, dbVars
<1>2. BoundsType'
  BY DEF Quit, Crash, TypeInv, BoundsType
<1>3. /\ wq' \in Seq(Write) /\ Len(wq') \in 0..Len(wq)
      /\ \A i \in 1..Len(wq') : wq'[i].by = NoScan /\ Same(wq'[i], wq[i]) /\ i \in 1..Len(wq)
  <2>1. wq \in Seq(Write) /\ Len(wq) \in Nat
    BY DEF TypeInv
  <2>2. CASE Crash
    <3>1. wq' = <<>>
      BY <2>2 DEF Crash
    <3> QED BY <2>1, <3>1
  <2>3. CASE Quit
    BY <2>1, <2>3, QuitQueue
  <2> QED BY <2>2, <2>3
<1>4. \A s \in Scans : scan'[s] = Idle
  BY <1>1
<1>5. Staged(Idle)
  BY IdleType DEF Staged
<1>6. TypeInv'
  BY <1>1, <1>2, <1>3, IdleType DEF TypeInv, BoundsType
<1>7. WaitInv'
  BY <1>1, <1>3, <1>4, <1>5, IdleType DEF WaitInv, Live
<1>8. FlowInv'
  BY <1>4, IdleType DEF FlowInv
<1>9. \A i \in 1..Len(wq') : Sound(wq'[i], dataset')
  BY <1>1, <1>3 DEF Same, Sound, PersistInv, CompleteInv, CountInv
<1>10. PersistInv'
  <2>1. Persisted(0, dataset')
    BY DEF Persisted
  <2> QED BY <1>1, <1>4, <1>9, <2>1, IdleType DEF PersistInv, Sound
<1>11. CompleteInv'
  BY <1>1, <1>9 DEF CompleteInv, Sound
<1>12. BeginInv'
  <2>1. row.state = "none" => wq' = <<>>
    BY <1>3 DEF BeginInv
  <2> QED BY <1>1, <1>4, <2>1, IdleType DEF BeginInv, Live
<1>13. CountInv'
  <2>1. AtMost(0, dataset')
    BY <1>1, MembersFinite, FS_Subset, FS_CardinalityType DEF AtMost, TypeInv
  <2> QED BY <1>1, <1>4, <1>9, <2>1, IdleType DEF CountInv, Sound
<1> QED BY <1>6, <1>7, <1>8, <1>10, <1>11, <1>12, <1>13

LEMMA RestartStep ==
  ASSUME ScannerInv, Restart
  PROVE  ScannerInv'
<1> USE DEF ScannerInv
<1>1. /\ app = "down" /\ wq = <<>> /\ app' = "up"
      /\ row' = IF row.state = "RUNNING" THEN [row EXCEPT !.state = "PAUSED"] ELSE row
      /\ restarts' = restarts + 1
      /\ UNCHANGED <<dataset, scan, registered, prepared, wq, commands, crashes, failures,
                     rpcErrors, doubled>>
  BY DEF Restart
<1>2. /\ row' \in RowType /\ row'.offset = row.offset /\ row'.accepted = row.accepted
      /\ row'.state = row.state \/ (row.state = "RUNNING" /\ row'.state = "PAUSED")
  BY <1>1 DEF TypeInv, RowType
<1>3. TypeInv' /\ WaitInv' /\ FlowInv'
  BY <1>1, <1>2 DEF TypeInv, WaitInv, FlowInv, RowType, Live
<1>4. PersistInv' /\ CountInv' /\ CompleteInv'
  BY <1>1, <1>2 DEF PersistInv, CountInv, CompleteInv
<1>5. BeginInv'
  BY <1>1, <1>2 DEF BeginInv, Live
<1> QED BY <1>3, <1>4, <1>5

-----------------------------------------------------------------------------
LEMMA InitStep == Init => ScannerInv
<1> SUFFICES ASSUME Init PROVE ScannerInv
  OBVIOUS
<1>1. /\ row = [state |-> "none", offset |-> 0, accepted |-> 0] /\ dataset = {}
      /\ scan = [s \in Scans |-> Idle] /\ wq = <<>> /\ app = "up" /\ prepared = FALSE
  BY DEF Init
<1>2. \A s \in Scans : scan[s] = Idle
  BY <1>1
<1>3. row \in RowType /\ row.offset = 0 /\ row.accepted = 0 /\ row.state = "none"
  BY <1>1, TotalType DEF RowType
<1>4. TypeInv
  <2>1. row \in RowType /\ dataset \subseteq Members /\ scan \in [Scans -> Call]
    BY <1>1, <1>3, IdleType
  <2>2. wq \in Seq(Write)
    BY <1>1
  <2>4. registered \in Scans \cup {NoScan} /\ app \in {"up", "down"}
    BY DEF Init
  <2>5. prepared \in BOOLEAN /\ doubled \in BOOLEAN
    BY Zenon DEF Init
  <2>3. {commands, crashes, failures, rpcErrors, restarts} \subseteq Nat
    BY DEF Init
  <2> QED BY <2>1, <2>2, <2>3, <2>4, <2>5 DEF TypeInv, RowType
<1>5. WaitInv /\ FlowInv
  BY <1>1, <1>2, IdleType DEF WaitInv, FlowInv, Staged, Live
<1>6. PersistInv /\ CompleteInv
  BY <1>1, <1>2, <1>3, IdleType DEF PersistInv, CompleteInv, Persisted
<1>7. BeginInv
  BY <1>1, <1>2, <1>3, IdleType DEF BeginInv, Live
<1>8. AtMost(0, dataset)
  BY <1>1, FS_EmptySet DEF AtMost
<1>9. CountInv
  BY <1>1, <1>2, <1>3, <1>8, IdleType DEF CountInv
<1> QED BY <1>4, <1>5, <1>6, <1>7, <1>9 DEF ScannerInv

\* ScannerInv is inductive: whatever a call, its children, DBWriter, the user and the
\* process do, in any order, nothing is noted as persisted before it is.
THEOREM ScannerInvCorrect == Spec => []ScannerInv
<1>1. ScannerInv /\ [Next]_vars => ScannerInv'
  <2> SUFFICES ASSUME ScannerInv, [Next]_vars PROVE ScannerInv'
    OBVIOUS
  <2>1. ASSUME NEW s \in Scans, StartScan(s) \/ ResumeScan(s) \/ ScanStep(s)
        PROVE  ScannerInv'
    BY <2>1, StartSteps, BeginStep, AcquireSlotStep, FetchStep, FetchFailsStep, PutPageStep,
       PutSentinelStep, GetStep, AbortStep, JoinStep DEF ScanStep
  <2>2. CASE ScanSource \/ CancelScan
    BY <2>2, ScanSourceStep, CancelScanStep
  <2>3. CASE WriteCommits \/ WriteFails
    BY <2>3, WriteCommitsStep, WriteFailsStep
  <2>4. CASE Quit \/ Crash \/ Restart
    BY <2>4, EndSteps, RestartStep
  <2>5. CASE UNCHANGED vars
    BY <2>5 DEF vars, dbVars, boundVars, ScannerInv, TypeInv, WaitInv, FlowInv, PersistInv,
                CompleteInv, BeginInv, CountInv, Live
  <2> QED BY <2>1, <2>2, <2>3, <2>4, <2>5 DEF Next
<1> QED BY <1>1, InitStep, PTL DEF Spec

\* Every member before the offset of the checkpoint is in the dataset, also when two
\* calls scan for the same job: a resumed scan skips nobody.
THEOREM CheckpointIsPersistedCorrect == Spec => []CheckpointIsPersisted
<1>1. ScannerInv => CheckpointIsPersisted
  BY DEF ScannerInv, PersistInv, Persisted, CheckpointIsPersisted
<1> QED BY <1>1, ScannerInvCorrect, PTL

\* A scan that calls itself COMPLETED has collected the whole group.
THEOREM CompletedIsCompleteCorrect == Spec => []CompletedIsComplete
<1>1. ScannerInv => CompletedIsComplete
  BY DEF ScannerInv, CompleteInv, CompletedIsComplete
<1> QED BY <1>1, ScannerInvCorrect, PTL

-----------------------------------------------------------------------------
(* The shapes of the steps, with what the counter and the offset need.     *)

\* The consumer may still come to a good end.
Working == {"get", "ingest", "check", "done"}

\* Call s, that was o, becomes c without an answer, and the queue q of writes becomes r.
Stepped(s, o, c, q, r) ==
  /\ c.offset = o.offset /\ c.accepted = o.accepted
  /\ c.batchOffset \in Nat /\ o.batchOffset <= c.batchOffset
  /\ \/ /\ o.pc = "run" /\ c.pc = "run" /\ (c.cons \in Working => o.cons \in Working)
        /\ r = q
     \/ /\ o.pc = "run" /\ c.pc = "run" /\ c.cons = "cancelled"
        /\ r \in Seq(Write) /\ Len(r) = Len(q)
        /\ \A i \in 1..Len(q) : Same(r[i], q[i])
     \/ /\ o.pc = "run" /\ c.pc = "run" /\ o.cons = "get"
        /\ \E v \in Write : v.by = s /\ v.kind = "ingest" /\ v.state = "none" /\ r = Append(q, v)
     \/ /\ o.pc = "queued" /\ c.pc = "starting"
        /\ \E v \in Write : /\ v.by = s /\ v.kind = "state" /\ v.state = "RUNNING"
                            /\ v.offset = o.offset /\ r = Append(q, v)
     \/ /\ o.pc = "run" /\ o.cons \in Ended /\ c.pc \in {"final", "failing"}
        /\ \E v \in Write : /\ v.by = s /\ v.kind = "state" /\ v.offset = o.offset
                            /\ v.accepted = o.accepted /\ r = Append(q, v)
                            /\ v.state = "COMPLETED" => c.pc = "final" /\ o.cons = "done"

LEMMA SteppedStep ==
  ASSUME ScannerInv, NEW s \in Scans, ScanStep(s)
  PROVE  /\ UNCHANGED <<row, dataset, prepared, app, restarts, doubled>>
         /\ \E c \in Call : scan' = [scan EXCEPT ![s] = c] /\ Stepped(s, scan[s], c, wq, wq')
<1>1. UNCHANGED <<row, dataset, prepared, app, restarts, doubled>>
  BY DEF ScanStep, Begin, AcquireSlot, Fetch, FetchFails, PutPage, PutSentinel, Get, Abort, Join,
         ScanUnchanged, dbVars
<1>2. scan \in [Scans -> Call] /\ scan[s] \in Call /\ Staged(scan[s])
  BY DEF ScannerInv, TypeInv, WaitInv
<1>3. scan[s].batchOffset \in Nat
  BY <1>2, TotalType DEF Call
<1> SUFFICES \E c \in Call : scan' = [scan EXCEPT ![s] = c] /\ Stepped(s, scan[s], c, wq, wq')
  BY <1>1
\* The producer and the cancellation of the producer.
<1>4. ASSUME NEW p \in Ended \cup {"off", "slot", "fetch", "put", "sentinel"},
             NEW q \in Seq(Page), NEW n \in 0..Total, NEW g \in Page, NEW e \in BOOLEAN,
             scan[s].pc = "run", wq' = wq,
             scan' = [scan EXCEPT ![s] = [scan[s] EXCEPT !.prod = p, !.queue = q,
                                                         !.current = n, !.page = g,
                                                         !.error = e]]
      PROVE  \E c \in Call : scan' = [scan EXCEPT ![s] = c] /\ Stepped(s, scan[s], c, wq, wq')
  <2> DEFINE c == [scan[s] EXCEPT !.prod = p, !.queue = q, !.current = n, !.page = g,
                                  !.error = e]
  <2>1. /\ c \in Call /\ c.pc = scan[s].pc /\ c.cons = scan[s].cons
        /\ c.offset = scan[s].offset /\ c.accepted = scan[s].accepted
        /\ c.batchOffset = scan[s].batchOffset
    BY <1>2 DEF Call
  <2>2. scan' = [scan EXCEPT ![s] = c]
    BY <1>4
  <2> HIDE DEF c
  <2>3. Stepped(s, scan[s], c, wq, wq')
    BY <1>3, <1>4, <2>1, <2>2 DEF Stepped
  <2> QED BY <2>1, <2>2, <2>3
<1> DEFINE o == scan[s]
<1>5. /\ o.queue \in Seq(Page) /\ o.current \in 0..Total /\ o.page \in Page
      /\ o.error \in BOOLEAN /\ o.offset \in 0..Total
      /\ o.prod \in Ended \cup {"off", "slot", "fetch", "put", "sentinel"}
      /\ o.page.next \in 0..Total
  BY <1>2 DEF Call, Page
<1>6. CASE AcquireSlot(s)
  <2>1. o.pc = "run" /\ wq' = wq
    BY <1>6, Running DEF AcquireSlot, Ended
  <2>2. scan' = [scan EXCEPT ![s] = [o EXCEPT !.prod = "fetch", !.queue = o.queue,
                                       !.current = o.offset, !.page = o.page, !.error = o.error]]
    BY <1>2, <1>6 DEF AcquireSlot, Call
  <2> QED BY <1>4, <1>5, <2>1, <2>2
<1>7. CASE Fetch(s)
  <2>1. o.pc = "run" /\ wq' = wq
    BY <1>7, Running DEF Fetch, Ended
  <2>2. PageAt(o.current) \in Page
    BY <1>5, PageFacts
  <2>3. PICK p \in {"sentinel", "put"} :
          scan' = [scan EXCEPT ![s].prod = p, ![s].page = PageAt(o.current)]
    BY <1>7 DEF Fetch
  <2>4. scan' = [scan EXCEPT ![s] = [o EXCEPT !.prod = p, !.queue = o.queue,
                               !.current = o.current, !.page = PageAt(o.current),
                               !.error = o.error]]
    BY <1>2, <2>3 DEF Call
  <2> QED BY <1>4, <1>5, <2>1, <2>2, <2>4
<1>8. CASE FetchFails(s)
  <2>1. o.pc = "run" /\ wq' = wq
    BY <1>8, Running DEF FetchFails, Ended
  <2>2. scan' = [scan EXCEPT ![s] = [o EXCEPT !.prod = "sentinel", !.queue = o.queue,
                                       !.current = o.current, !.page = o.page, !.error = TRUE]]
    BY <1>2, <1>8 DEF FetchFails, Call
  <2> QED BY <1>4, <1>5, <2>1, <2>2
<1>9. CASE PutPage(s)
  <2>1. o.pc = "run" /\ wq' = wq
    BY <1>9, Running DEF PutPage, Ended
  <2>2. PICK p \in {"sentinel", "fetch"} :
          scan' = [scan EXCEPT ![s].queue = Append(@, o.page), ![s].current = o.page.next,
                               ![s].prod = p]
    BY <1>9 DEF PutPage
  <2>3. scan' = [scan EXCEPT ![s] = [o EXCEPT !.prod = p, !.queue = Append(o.queue, o.page),
                               !.current = o.page.next, !.page = o.page, !.error = o.error]]
    BY <1>2, <2>2 DEF Call
  <2>4. Append(o.queue, o.page) \in Seq(Page)
    BY <1>5
  <2> QED BY <1>4, <1>5, <2>1, <2>3, <2>4
<1>10. CASE PutSentinel(s)
  <2>1. o.pc = "run" /\ wq' = wq
    BY <1>10, Running DEF PutSentinel, Ended
  <2>2. PICK p \in {"failed", "done"} :
          scan' = [scan EXCEPT ![s].queue = Append(@, Sentinel), ![s].prod = p]
    BY <1>10 DEF PutSentinel
  <2>3. scan' = [scan EXCEPT ![s] = [o EXCEPT !.prod = p, !.queue = Append(o.queue, Sentinel),
                               !.current = o.current, !.page = o.page, !.error = o.error]]
    BY <1>2, <2>2 DEF Call
  <2>4. Sentinel \in Page
    BY TotalType DEF Sentinel, Page
  <2>5. Append(o.queue, Sentinel) \in Seq(Page)
    BY <1>5, <2>4
  <2> QED BY <1>4, <1>5, <2>1, <2>3, <2>5 DEF Ended
<1>11. CASE Get(s)
  <2>1. PICK k \in {"get", "ingest", "done"}, c \in Call :
          /\ Took(c, scan[s], k) /\ scan' = [scan EXCEPT ![s] = c]
          /\ k = "get" => ~c.last
          /\ k = "done" => c.last /\ c.batch = {}
          /\ k = "ingest" => wq' = Append(wq, IngestWrite(s, c.batch))
          /\ k # "ingest" => wq' = wq
    BY <1>11, GetShape
  <2>2. o.cons = "get" /\ o.queue # <<>>
    BY <1>11 DEF Get
  <2>3. o.pc = "run" /\ o.prod # "off" /\ Flows(o) /\ Collected(o, dataset)
    BY <2>2, Running DEF Ended, Staged
  <2>4. /\ c.pc = "run" /\ c.cons = k /\ c.offset = o.offset /\ c.accepted = o.accepted
        /\ c.batchOffset \in Nat /\ o.batchOffset \in Nat /\ c.batchOffset >= o.batchOffset
    BY <1>2, <2>1, <2>2, <2>3, TookFacts
  <2>6. k = "ingest" =>
          \E v \in Write : /\ v.by = s /\ v.kind = "ingest" /\ v.state = "none"
                          /\ wq' = Append(wq, v)
    <3> DEFINE v == IngestWrite(s, c.batch)
    <3>1. v \in Write /\ v.by = s /\ v.kind = "ingest" /\ v.state = "none"
      BY TotalType DEF IngestWrite, Write, Call
    <3> HIDE DEF v
    <3> QED BY <2>1, <3>1 DEF v
  <2>5. Stepped(s, scan[s], c, wq, wq')
    BY <2>1, <2>2, <2>3, <2>4, <2>6 DEF Stepped, Working
  <2> QED BY <2>1, <2>5
<1>12. CASE Abort(s)
  <2>1. CASE o.pc = "run" /\ scan' = [scan EXCEPT ![s].cons = "cancelled"] /\ wq' = Abandoned(s)
    <3> DEFINE c == [o EXCEPT !.cons = "cancelled"]
    <3>1. scan' = [scan EXCEPT ![s] = c]
      BY <1>2, <2>1
    <3>2. /\ c \in Call /\ c.pc = "run" /\ c.cons = "cancelled" /\ c.offset = o.offset
          /\ c.accepted = o.accepted /\ c.batchOffset = o.batchOffset
      BY <1>2, <2>1 DEF Call, Ended
    <3> HIDE DEF c
    <3>3. Stepped(s, scan[s], c, wq, wq')
      BY <1>3, <2>1, <3>2, AbandonedType DEF Stepped, ScannerInv
    <3> QED BY <3>1, <3>2, <3>3
  <2>2. CASE o.pc = "run" /\ scan' = [scan EXCEPT ![s].prod = "cancelled"] /\ wq' = wq
    <3>1. scan' = [scan EXCEPT ![s] = [o EXCEPT !.prod = "cancelled", !.queue = o.queue,
                                !.current = o.current, !.page = o.page, !.error = o.error]]
      BY <1>2, <2>2 DEF Call
    <3>2. "cancelled" \in Ended \cup {"off", "slot", "fetch", "put", "sentinel"}
      BY DEF Ended
    <3>3. o.pc = "run" /\ wq' = wq
      BY <2>2
    <3> QED BY <1>4, <1>5, <3>1, <3>2, <3>3
  <2> QED BY <1>12, <2>1, <2>2 DEF Abort
<1>15. ASSUME NEW st \in Terminal \cup {"RUNNING"}
       PROVE  \E v \in Write : /\ v = StateWrite(s, st) /\ v.by = s /\ v.kind = "state"
                               /\ v.state = st /\ v.offset = o.offset
                               /\ v.accepted = o.accepted
  <2> DEFINE v == StateWrite(s, st)
  <2>1. o.offset \in 0..Total /\ o.accepted \in Nat
    BY <1>2 DEF Call
  <2>2. /\ v \in Write /\ v.by = s /\ v.kind = "state" /\ v.state = st /\ v.offset = o.offset
        /\ v.accepted = o.accepted
    BY <2>1 DEF StateWrite, Write
  <2> HIDE DEF v
  <2> QED BY <2>2 DEF v
<1>13. CASE Begin(s)
  <2> DEFINE c == [o EXCEPT !.pc = "starting"]
  <2>1. scan' = [scan EXCEPT ![s] = c] /\ o.pc = "queued"
        /\ wq' = Append(wq, StateWrite(s, "RUNNING"))
    BY <1>2, <1>13 DEF Begin
  <2>2. /\ c \in Call /\ c.pc = "starting" /\ c.offset = o.offset
        /\ c.accepted = o.accepted /\ c.batchOffset = o.batchOffset
    BY <1>2 DEF Call
  <2> HIDE DEF c
  <2>4. PICK v \in Write : /\ v.by = s /\ v.kind = "state" /\ v.state = "RUNNING"
                            /\ v.offset = o.offset /\ wq' = Append(wq, v)
    BY <1>15, <2>1
  <2>3. Stepped(s, scan[s], c, wq, wq')
    BY <1>3, <2>1, <2>2, <2>4 DEF Stepped
  <2> QED BY <2>1, <2>2, <2>3
<1>14. CASE Join(s)
  <2>1. o.pc = "run" /\ o.cons \in Ended
    BY <1>14 DEF Join
  <2>2. PICK k \in {"final", "failing"}, st \in Terminal :
          /\ scan' = [scan EXCEPT ![s].pc = k] /\ wq' = Append(wq, StateWrite(s, st))
          /\ st = "COMPLETED" => k = "final" /\ o.cons = "done"
    BY <1>14 DEF Join, Terminal
  <2> DEFINE c == [o EXCEPT !.pc = k]
  <2>3. scan' = [scan EXCEPT ![s] = c]
    BY <1>2, <2>2
  <2>4. /\ c \in Call /\ c.pc = k /\ c.offset = o.offset
        /\ c.accepted = o.accepted /\ c.batchOffset = o.batchOffset
    BY <1>2 DEF Call
  <2> HIDE DEF c
  <2>6. PICK v \in Write : /\ v.by = s /\ v.kind = "state" /\ v.state = st
                            /\ v.offset = o.offset /\ v.accepted = o.accepted
                            /\ wq' = Append(wq, v)
    BY <1>15, <2>2
  <2>5. Stepped(s, scan[s], c, wq, wq')
    BY <1>3, <2>1, <2>2, <2>4, <2>6 DEF Stepped
  <2> QED BY <2>3, <2>4, <2>5
<1> QED BY <1>6, <1>7, <1>8, <1>9, <1>10, <1>11, <1>12, <1>13, <1>14 DEF ScanStep

\* The writes that carry the progress of a call into the row.
Recorded(w) == w.kind \in {"state", "checkpoint"}

\* Call s, that was o, gets the answer to write w, the first in queue q, while the dataset
\* is d: it becomes c, and what is left of the queue becomes r.
Answers(s, w, o, c, d, q, r) ==
  \/ /\ w.kind = "ingest" /\ o.pc = "run" /\ o.cons = "ingest" /\ c.pc = "run" /\ c.cons = "check"
     /\ c.offset = o.batchOffset /\ c.batchOffset = o.batchOffset
     /\ c.accepted = o.accepted + Cardinality(w.ids \ d)
     /\ \E v \in Write : v.by = s /\ v.kind = "checkpoint" /\ v.state = "none"
                         /\ v.offset = c.offset /\ r = Append(Tail(q), v)
  \/ /\ w.kind = "checkpoint" /\ o.pc = "run" /\ o.cons = "check" /\ c.pc = "run"
     /\ c.offset = o.offset /\ c.batchOffset = o.batchOffset /\ c.accepted = o.accepted
     /\ r = Tail(q)
  \/ /\ w.kind = "state" /\ c.offset = o.offset /\ c.accepted = o.accepted
     /\ <<o.pc, c.pc>> \in {<<"starting", "started">>, <<"final", "finalEvent">>,
                            <<"failing", "failedEvent">>}
     /\ \E v \in Write : v.by = s /\ v.kind = "event" /\ v.state = "none"
                         /\ r = Append(Tail(q), v)
  \/ /\ w.kind = "event" /\ o.pc = "started" /\ c.pc = "run" /\ c.cons = "get"
     /\ c.offset = o.offset /\ c.batchOffset = o.offset /\ c.accepted = o.accepted
     /\ r = Tail(q)
  \/ w.kind = "event" /\ c = Idle /\ r = Tail(q)

\* ... or the exception.
Refuses(s, o, c, q, r) ==
  \/ c = Idle /\ r = Tail(q)
  \/ /\ o.pc = "run" /\ c.pc = "run" /\ c.cons = "failed"
     /\ c.offset = o.offset /\ c.batchOffset = o.batchOffset
     /\ r = Tail(q)
  \/ /\ o.pc \in {"final", "finalEvent"} /\ c.pc = "failing" /\ c.offset = o.offset
     /\ \E v \in Write : v.by = s /\ v.kind = "state" /\ v.state = "FAILED"
                         /\ v.offset = o.offset /\ r = Append(Tail(q), v)

\* The row and the dataset after write w.
LEMMA CommitShape ==
  ASSUME TypeInv, NEW w \in Write, Commit(w)
  PROVE  /\ dataset' = IF w.kind = "ingest" THEN dataset \cup w.ids ELSE dataset
         /\ w.kind = "state" => row'.state = w.state
         /\ w.kind # "state" => row'.state = row.state
         /\ Recorded(w) => row'.offset = w.offset /\ row'.accepted = w.accepted
         /\ ~Recorded(w) => row' = row
<1>1. row \in RowType
  BY DEF TypeInv, RowType
<1>2. CASE w.kind = "state"
  <2>1. row' = [state |-> w.state, offset |-> w.offset, accepted |-> w.accepted]
        /\ dataset' = dataset
    BY <1>2 DEF Commit
  <2> QED BY <1>2, <2>1 DEF Recorded
<1>3. CASE w.kind = "checkpoint"
  <2>1. row' = [row EXCEPT !.offset = w.offset, !.accepted = w.accepted] /\ dataset' = dataset
    BY <1>3 DEF Commit
  <2> QED BY <1>1, <1>3, <2>1 DEF Recorded, RowType
<1>4. CASE w.kind = "ingest"
  BY <1>4 DEF Commit, Recorded
<1>5. CASE w.kind = "event"
  BY <1>5 DEF Commit, Recorded, dbVars
<1> QED BY <1>2, <1>3, <1>4, <1>5 DEF Write

LEMMA AnswersStep ==
  ASSUME ScannerInv, wq # <<>>, NEW s \in Scans, Head(wq).by = s, WriteCommits
  PROVE  \E c \in Call : /\ scan' = [scan EXCEPT ![s] = c]
                         /\ Answers(s, Head(wq), scan[s], c, dataset, wq, wq')
<1> DEFINE o == scan[s]
           w == Head(wq)
<1>1. /\ w \in Write /\ w.by = s /\ s # NoScan /\ Awaits(o, w) /\ o \in Call /\ Staged(o)
      /\ scan \in [Scans -> Call] /\ Answered(s, w)
  BY HeadFacts, ScannerAssumption DEF ScannerInv, TypeInv, WaitInv, WriteCommits
<1> HIDE DEF w
<1>2. CASE w.kind = "ingest"
  <2> DEFINE a == o.accepted + Cardinality(w.ids \ dataset)
             c == [o EXCEPT !.accepted = a, !.offset = o.batchOffset, !.cons = "check"]
             v == CheckpointWrite(s, o.batchOffset, a)
  <2>1. o.pc = "run" /\ o.cons = "ingest" /\ w.ids \subseteq Members /\ dataset \subseteq Members
    BY <1>1, <1>2 DEF Awaits, Write, ScannerInv, TypeInv
  <2>2. o.batchOffset \in 0..Total /\ o.accepted \in Nat
    BY <1>1 DEF Call
  <2>9. Cardinality(w.ids \ dataset) \in Nat
    BY <2>1, NewMembers
  <2>3. a \in Nat
    BY <2>2, <2>9
  <2>4. scan' = [scan EXCEPT ![s] = c] /\ wq' = Append(Tail(wq), v)
    <3> DEFINE d == [o EXCEPT !.accepted = a, !.offset = o.batchOffset]
    <3>1. scan' = [scan EXCEPT ![s] = [d EXCEPT !.cons = "check"]]
          /\ wq' = Append(Tail(wq), CheckpointWrite(s, d.offset, d.accepted))
      BY <1>1, <1>2 DEF Answered, AfterIngest
    <3>2. d.offset = o.batchOffset /\ d.accepted = a
      BY <1>1 DEF Call
    <3>3. [d EXCEPT !.cons = "check"] = c
      BY <1>1 DEF Call
    <3> QED BY <3>1, <3>2, <3>3
  <2>5. a = o.accepted + Cardinality(w.ids \ dataset)
    OBVIOUS
  <2> HIDE DEF a
  <2>6. /\ c \in Call /\ c.pc = "run" /\ c.cons = "check" /\ c.offset = o.batchOffset
        /\ c.accepted = a /\ c.batchOffset = o.batchOffset
    BY <1>1, <2>1, <2>2, <2>3 DEF Call
  <2>7. /\ v \in Write /\ v.by = s /\ v.kind = "checkpoint" /\ v.state = "none"
        /\ v.offset = o.batchOffset
    BY <2>2, <2>3 DEF CheckpointWrite, Write
  <2> HIDE DEF c, v
  <2>8. Answers(s, w, o, c, dataset, wq, wq')
    BY <1>2, <2>1, <2>4, <2>5, <2>6, <2>7 DEF Answers
  <2> QED BY <2>4, <2>6, <2>8 DEF w
<1>3. CASE w.kind = "checkpoint"
  <2> DEFINE k == IF o.last THEN "done" ELSE "get"
             c == [o EXCEPT !.batch = {}, !.cons = k]
  <2>1. scan' = [scan EXCEPT ![s] = c] /\ wq' = Tail(wq)
    BY <1>1, <1>3 DEF Answered
  <2>2. o.pc = "run" /\ o.cons = "check"
    BY <1>1, <1>3 DEF Awaits
  <2>3. k \in {"done", "get"}
    OBVIOUS
  <2> HIDE DEF k
  <2>4. /\ c \in Call /\ c.pc = "run" /\ c.offset = o.offset /\ c.accepted = o.accepted
        /\ c.batchOffset = o.batchOffset
    BY <1>1, <2>2, <2>3 DEF Call, Ended
  <2> HIDE DEF c
  <2>5. Answers(s, w, o, c, dataset, wq, wq')
    BY <1>3, <2>1, <2>2, <2>4 DEF Answers
  <2> QED BY <2>1, <2>4, <2>5 DEF w
<1>4. CASE w.kind = "state"
  <2> DEFINE k == CASE o.pc = "starting" -> "started"
                    [] o.pc = "final"    -> "finalEvent"
                    [] OTHER             -> "failedEvent"
             c == [o EXCEPT !.pc = k]
  <2>1. scan' = [scan EXCEPT ![s] = c] /\ wq' = Append(Tail(wq), EventWrite(s))
    BY <1>1, <1>4 DEF Answered
  <2>2. o.pc \in {"starting", "final", "failing"}
    BY <1>1, <1>4 DEF Awaits
  <2>3. <<o.pc, k>> \in {<<"starting", "started">>, <<"final", "finalEvent">>,
                         <<"failing", "failedEvent">>}
        /\ k \in {"started", "finalEvent", "failedEvent"}
    BY <2>2
  <2> HIDE DEF k
  <2>4. c \in Call /\ c.pc = k /\ c.offset = o.offset /\ c.accepted = o.accepted
    BY <1>1, <2>3 DEF Call
  <2> HIDE DEF c
  <2>5. /\ EventWrite(s) \in Write /\ EventWrite(s).by = s /\ EventWrite(s).kind = "event"
        /\ EventWrite(s).state = "none"
    BY EventWriteFacts
  <2>6. Answers(s, w, o, c, dataset, wq, wq')
    BY <1>4, <2>1, <2>3, <2>4, <2>5 DEF Answers
  <2> QED BY <2>1, <2>4, <2>6 DEF w
<1>5. CASE w.kind = "event" /\ o.pc = "started"
  <2> DEFINE c == [o EXCEPT !.pc = "run", !.prod = "slot", !.cons = "get",
                            !.batchOffset = o.offset]
  <2>1. scan' = [scan EXCEPT ![s] = c] /\ wq' = Tail(wq)
    BY <1>1, <1>5 DEF Answered
  <2>2. /\ c \in Call /\ c.pc = "run" /\ c.cons = "get"
        /\ c.offset = o.offset /\ c.accepted = o.accepted /\ c.batchOffset = o.offset
    BY <1>1 DEF Call
  <2> HIDE DEF c
  <2>3. Answers(s, w, o, c, dataset, wq, wq')
    BY <1>5, <2>1, <2>2 DEF Answers
  <2> QED BY <2>1, <2>2, <2>3 DEF w
<1>6. CASE w.kind = "event" /\ o.pc # "started"
  <2>1. scan' = [scan EXCEPT ![s] = Idle] /\ wq' = Tail(wq)
    BY <1>1, <1>6 DEF Answered
  <2>2. Answers(s, w, o, Idle, dataset, wq, wq')
    BY <1>6, <2>1 DEF Answers
  <2> QED BY <2>1, <2>2, IdleType DEF w
<1> QED BY <1>1, <1>2, <1>3, <1>4, <1>5, <1>6 DEF Write

LEMMA RefusesStep ==
  ASSUME ScannerInv, wq # <<>>, NEW s \in Scans, Head(wq).by = s, WriteFails
  PROVE  \E c \in Call : /\ scan' = [scan EXCEPT ![s] = c]
                         /\ Refuses(s, scan[s], c, wq, wq')
<1> DEFINE o == scan[s]
<1>1. o \in Call /\ scan \in [Scans -> Call] /\ Raised(s)
  BY ScannerAssumption DEF ScannerInv, TypeInv, WriteFails
<1>2. CASE scan' = [scan EXCEPT ![s] = Idle] /\ wq' = Tail(wq)
  <2>1. Refuses(s, o, Idle, wq, wq')
    BY <1>2 DEF Refuses
  <2> QED BY <1>2, <2>1, IdleType
<1>3. CASE o.pc = "run" /\ scan' = [scan EXCEPT ![s].cons = "failed"] /\ wq' = Tail(wq)
  <2> DEFINE c == [o EXCEPT !.cons = "failed"]
  <2>1. scan' = [scan EXCEPT ![s] = c]
    BY <1>1, <1>3
  <2>2. /\ c \in Call /\ c.pc = "run" /\ c.cons = "failed" /\ c.offset = o.offset
        /\ c.batchOffset = o.batchOffset
    BY <1>1, <1>3 DEF Call, Ended
  <2> HIDE DEF c
  <2>3. Refuses(s, o, c, wq, wq')
    BY <1>3, <2>2 DEF Refuses
  <2> QED BY <2>1, <2>2, <2>3
<1>4. CASE /\ o.pc \in {"final", "finalEvent"} /\ scan' = [scan EXCEPT ![s].pc = "failing"]
           /\ wq' = Append(Tail(wq), StateWrite(s, "FAILED"))
  <2> DEFINE c == [o EXCEPT !.pc = "failing"]
             v == StateWrite(s, "FAILED")
  <2>1. scan' = [scan EXCEPT ![s] = c] /\ wq' = Append(Tail(wq), v)
    BY <1>1, <1>4
  <2>2. c \in Call /\ c.pc = "failing" /\ c.offset = o.offset
    BY <1>1 DEF Call
  <2>3. o.offset \in 0..Total /\ o.accepted \in Nat
    BY <1>1 DEF Call
  <2>4. /\ v \in Write /\ v.by = s /\ v.kind = "state" /\ v.state = "FAILED"
        /\ v.offset = o.offset
    BY <2>3 DEF StateWrite, Write, Terminal
  <2> HIDE DEF c, v
  <2>5. Refuses(s, o, c, wq, wq')
    BY <1>4, <2>1, <2>2, <2>4 DEF Refuses
  <2> QED BY <2>1, <2>2, <2>5
<1> QED BY <1>1, <1>2, <1>3, <1>4 DEF Raised

-----------------------------------------------------------------------------
(* The progress of a job for which one call works at a time.               *)

\* The writes in queue q that carry an offset carry growing ones, from b to top.
Ascending(b, q, top) ==
  \A i \in 1..Len(q) :
    Recorded(q[i]) =>
      /\ b <= q[i].offset /\ q[i].offset <= top
      /\ \A j \in 1..Len(q) : i < j /\ Recorded(q[j]) => q[i].offset <= q[j].offset

\* A call's own write is the last one, and neither the row nor a write that a call has left
\* behind is ahead of the call at work.
AloneInv ==
  ~doubled =>
    /\ \A s, t \in Scans : Live(s) /\ Live(t) => s = t
    /\ app = "up" /\ (\A s \in Scans : ~Live(s)) => wq = <<>>
    /\ \A i \in 1..Len(wq) : wq[i].by # NoScan => i = Len(wq)
    /\ Ascending(row.offset, wq, Total)
    /\ \A s \in Scans :
         Live(s) => /\ row.offset <= scan[s].offset
                    /\ Ascending(row.offset, wq, scan[s].offset)
                    /\ scan[s].pc = "run" => scan[s].offset <= scan[s].batchOffset

LEMMA AscendingAppend ==
  ASSUME NEW q \in Seq(Write), NEW v \in Write, NEW b \in Nat, NEW top \in Nat, b <= top,
         Ascending(b, q, top), Recorded(v) => v.offset = top
  PROVE  Ascending(b, Append(q, v), top)
<1> DEFINE r == Append(q, v)
<1>1. /\ Len(q) \in Nat /\ Len(r) = Len(q) + 1 /\ r[Len(q) + 1] = v
      /\ \A i \in 1..Len(q) : r[i] = q[i]
  BY AppendAt
<1> HIDE DEF r
<1>2. ASSUME NEW i \in 1..Len(r), Recorded(r[i]) PROVE b <= r[i].offset /\ r[i].offset <= top
  <2>1. CASE i \in 1..Len(q)
    BY <1>1, <1>2, <2>1 DEF Ascending
  <2>2. CASE i = Len(q) + 1
    BY <1>1, <1>2, <2>2
  <2> QED BY <1>1, <2>1, <2>2
<1>3. ASSUME NEW i \in 1..Len(r), Recorded(r[i]), NEW j \in 1..Len(r), i < j, Recorded(r[j])
      PROVE  r[i].offset <= r[j].offset
  <2>1. i \in 1..Len(q)
    BY <1>1, <1>3
  <2>2. CASE j \in 1..Len(q)
    BY <1>1, <1>3, <2>1, <2>2 DEF Ascending
  <2>3. CASE j = Len(q) + 1
    BY <1>1, <1>2, <1>3, <2>3
  <2> QED BY <1>1, <2>2, <2>3
<1> QED BY <1>2, <1>3 DEF Ascending, r

LEMMA AscendingTail ==
  ASSUME NEW q \in Seq(Write), q # <<>>, NEW b \in Nat, NEW top, Ascending(b, q, top)
  PROVE  /\ Recorded(Head(q)) => /\ b <= Head(q).offset /\ Head(q).offset <= top
                                 /\ Ascending(Head(q).offset, Tail(q), top)
         /\ Ascending(b, Tail(q), top)
<1> DEFINE r == Tail(q)
<1>1. /\ r \in Seq(Write) /\ Len(r) = Len(q) - 1 /\ Len(q) \in Nat \ {0} /\ Head(q) = q[1]
      /\ \A i \in 1..Len(r) : i + 1 \in 1..Len(q) /\ r[i] = q[i + 1]
  BY TailAt
<1> HIDE DEF r
<1>2. ASSUME NEW i \in 1..Len(r), Recorded(r[i])
      PROVE  /\ b <= r[i].offset /\ r[i].offset <= top
             /\ Recorded(Head(q)) => Head(q).offset <= r[i].offset
             /\ \A j \in 1..Len(r) : i < j /\ Recorded(r[j]) => r[i].offset <= r[j].offset
  <2>1. 1 \in 1..Len(q) /\ 1 < i + 1 /\ i + 1 \in 1..Len(q) /\ r[i] = q[i + 1]
    BY <1>1
  <2>2. b <= r[i].offset /\ r[i].offset <= top
    BY <1>2, <2>1 DEF Ascending
  <2>3. Recorded(Head(q)) => Head(q).offset <= r[i].offset
    BY <1>1, <1>2, <2>1 DEF Ascending
  <2>4. ASSUME NEW j \in 1..Len(r), i < j, Recorded(r[j]) PROVE r[i].offset <= r[j].offset
    <3>1. i + 1 < j + 1 /\ j + 1 \in 1..Len(q) /\ r[j] = q[j + 1]
      BY <1>1, <2>4
    <3> QED BY <1>2, <2>1, <2>4, <3>1 DEF Ascending
  <2> QED BY <2>2, <2>3, <2>4
<1>3. Recorded(Head(q)) => b <= Head(q).offset /\ Head(q).offset <= top
  <2>1. 1 \in 1..Len(q)
    BY <1>1
  <2> QED BY <1>1, <2>1 DEF Ascending
<1> QED BY <1>2, <1>3 DEF Ascending, r

LEMMA AscendingSame ==
  ASSUME NEW q, NEW r, Len(r) = Len(q), NEW b, NEW top, Ascending(b, q, top),
         \A i \in 1..Len(q) : Same(r[i], q[i])
  PROVE  Ascending(b, r, top)
  BY DEF Ascending, Same, Recorded

LEMMA AscendingTop ==
  ASSUME NEW q \in Seq(Write), NEW b \in Nat, NEW top \in Nat, NEW upper \in Nat, top <= upper,
         Ascending(b, q, top)
  PROVE  Ascending(b, q, upper)
<1>1. ASSUME NEW i \in 1..Len(q), Recorded(q[i]) PROVE q[i].offset <= upper
  <2>1. q[i] \in Write /\ q[i].offset <= top
    BY <1>1 DEF Ascending
  <2>2. q[i].offset \in Nat
    BY <2>1, TotalType DEF Write
  <2> QED BY <2>1, <2>2
<1> QED BY <1>1 DEF Ascending

\* A write that somebody awaits is the write of a call at work.
LEMMA OwnerIsLive ==
  ASSUME ScannerInv, NEW i \in 1..Len(wq), wq[i].by # NoScan
  PROVE  wq[i].by \in Scans /\ Live(wq[i].by) /\ Awaits(scan[wq[i].by], wq[i])
<1>1. wq[i] \in Write /\ Awaits(scan[wq[i].by], wq[i])
  BY DEF ScannerInv, TypeInv, WaitInv
<1> QED BY <1>1 DEF Write, Awaits, Live

\* The only call that works moves, or begins.
LEMMA AloneMoves ==
  ASSUME ScannerInv, NEW s \in Scans, NEW c \in Call, scan' = [scan EXCEPT ![s] = c],
         \A t \in Scans \ {s} : ~Live(t), row'.offset \in Nat, wq' \in Seq(Write),
         \A i \in 1..Len(wq') : wq'[i].by # NoScan => i = Len(wq'),
         c.pc = "none" => wq' = <<>>,
         c.pc # "none" => row'.offset <= c.offset /\ Ascending(row'.offset, wq', c.offset),
         c.pc = "run" => c.offset <= c.batchOffset
  PROVE  AloneInv'
<1>1. scan \in [Scans -> Call]
  BY DEF ScannerInv, TypeInv
<1>2. scan'[s] = c /\ \A t \in Scans \ {s} : scan'[t] = scan[t]
  BY <1>1
<1>3. \A t \in Scans : Live(t)' => t = s
  BY <1>2 DEF Live
<1>4. Live(s)' <=> c.pc # "none"
  BY <1>2 DEF Live
<1>5. Ascending(row'.offset, wq', Total)
  <2>1. CASE c.pc = "none"
    BY <2>1 DEF Ascending
  <2>2. CASE c.pc # "none"
    <3>1. c.offset \in Nat /\ c.offset <= Total /\ Total \in Nat
      BY TotalType DEF Call
    <3> QED BY <2>2, <3>1, AscendingTop
  <2> QED BY <2>1, <2>2
<1>6. (\A t \in Scans : ~Live(t)') => wq' = <<>>
  BY <1>4
<1>7. ASSUME NEW t \in Scans, Live(t)'
      PROVE  /\ row'.offset <= scan'[t].offset
             /\ Ascending(row'.offset, wq', scan'[t].offset)
             /\ scan'[t].pc = "run" => scan'[t].offset <= scan'[t].batchOffset
  BY <1>2, <1>3, <1>4, <1>7
<1> QED BY <1>3, <1>5, <1>6, <1>7 DEF AloneInv

LEMMA AloneFacts ==
  ASSUME ScannerInv, AloneInv, ~doubled, NEW s \in Scans, Live(s)
  PROVE  /\ \A t \in Scans \ {s} : ~Live(t)
         /\ wq \in Seq(Write) /\ row.offset \in Nat /\ scan[s] \in Call
         /\ scan[s].offset \in Nat /\ scan[s].batchOffset \in Nat
         /\ row.offset <= scan[s].offset /\ Ascending(row.offset, wq, scan[s].offset)
         /\ scan[s].pc = "run" => scan[s].offset <= scan[s].batchOffset
         /\ (\A w \in Write : ~Awaits(scan[s], w)) => \A i \in 1..Len(wq) : wq[i].by = NoScan
<1>1. wq \in Seq(Write) /\ row.offset \in Nat /\ scan[s] \in Call
  BY TotalType DEF ScannerInv, TypeInv
<1>2. scan[s].offset \in Nat /\ scan[s].batchOffset \in Nat
  BY <1>1, TotalType DEF Call
<1>3. \A t \in Scans \ {s} : ~Live(t)
  BY DEF AloneInv
<1>4. ASSUME \A w \in Write : ~Awaits(scan[s], w), NEW i \in 1..Len(wq)
      PROVE  wq[i].by = NoScan
  <2>1. wq[i] \in Write
    BY <1>1
  <2> QED BY <1>3, <1>4, <2>1, OwnerIsLive
<1> QED BY <1>1, <1>2, <1>3, <1>4 DEF AloneInv

LEMMA AloneStepped ==
  ASSUME ScannerInv, AloneInv, ~doubled, NEW s \in Scans, ScanStep(s)
  PROVE  AloneInv'
<1>1. UNCHANGED <<row, dataset, prepared, app, restarts, doubled>>
  BY SteppedStep
<1>2. PICK c \in Call : scan' = [scan EXCEPT ![s] = c] /\ Stepped(s, scan[s], c, wq, wq')
  BY SteppedStep
<1> DEFINE o == scan[s]
<1>3. Live(s) /\ c.pc # "none"
  BY <1>2 DEF Stepped, Live
<1>4. /\ \A t \in Scans \ {s} : ~Live(t)
      /\ wq \in Seq(Write) /\ row.offset \in Nat /\ o \in Call
      /\ o.offset \in Nat /\ o.batchOffset \in Nat
      /\ row.offset <= o.offset /\ Ascending(row.offset, wq, o.offset)
      /\ o.pc = "run" => o.offset <= o.batchOffset
      /\ (\A w \in Write : ~Awaits(o, w)) => \A i \in 1..Len(wq) : wq[i].by = NoScan
      /\ \A i \in 1..Len(wq) : wq[i].by # NoScan => i = Len(wq)
  BY <1>3, AloneFacts DEF AloneInv
<1>5. c.offset = o.offset /\ c.batchOffset \in Nat /\ o.batchOffset <= c.batchOffset
  BY <1>2 DEF Stepped
<1>6. c.pc = "run" => c.offset <= c.batchOffset
  <2>1. c.pc = "run" => o.pc = "run"
    BY <1>2 DEF Stepped
  <2> QED BY <1>4, <1>5, <2>1
<1>7. /\ wq' \in Seq(Write) /\ Ascending(row.offset, wq', o.offset)
      /\ \A i \in 1..Len(wq') : wq'[i].by # NoScan => i = Len(wq')
  <2>1. CASE wq' = wq
    BY <1>4, <2>1
  <2>2. CASE wq' \in Seq(Write) /\ Len(wq') = Len(wq) /\ \A i \in 1..Len(wq) : Same(wq'[i], wq[i])
    <3>1. Ascending(row.offset, wq', o.offset)
      BY <1>4, <2>2, AscendingSame
    <3> QED BY <1>4, <2>2, <3>1 DEF Same
  <2>3. ASSUME NEW v \in Write, wq' = Append(wq, v), Recorded(v) => v.offset = o.offset,
               \A w \in Write : ~Awaits(o, w)
        PROVE  /\ wq' \in Seq(Write) /\ Ascending(row.offset, wq', o.offset)
               /\ \A i \in 1..Len(wq') : wq'[i].by # NoScan => i = Len(wq')
    <3>1. Ascending(row.offset, wq', o.offset)
      BY <1>4, <2>3, AscendingAppend
    <3>2. /\ wq' \in Seq(Write) /\ Len(wq') = Len(wq) + 1 /\ Len(wq) \in Nat
          /\ \A i \in 1..Len(wq) : wq'[i] = wq[i]
      BY <1>4, <2>3, AppendAt
    <3>3. ASSUME NEW i \in 1..Len(wq'), wq'[i].by # NoScan PROVE i = Len(wq')
      <4>1. i \notin 1..Len(wq)
        BY <1>4, <2>3, <3>2, <3>3
      <4> QED BY <3>2, <4>1
    <3> QED BY <3>1, <3>2, <3>3
  <2>4. CASE o.pc = "run" /\ o.cons = "get"
             /\ \E v \in Write : v.by = s /\ v.kind = "ingest" /\ v.state = "none"
                                 /\ wq' = Append(wq, v)
    <3>1. PICK v \in Write : v.kind = "ingest" /\ wq' = Append(wq, v)
      BY <2>4
    <3>2. \A w \in Write : ~Awaits(o, w)
      BY <2>4 DEF Awaits, Write
    <3> QED BY <2>3, <3>1, <3>2 DEF Recorded
  <2>5. CASE (o.pc = "queued" \/ (o.pc = "run" /\ o.cons \in Ended))
             /\ \E v \in Write : v.offset = o.offset /\ wq' = Append(wq, v)
    <3>1. PICK v \in Write : v.offset = o.offset /\ wq' = Append(wq, v)
      BY <2>5
    <3>2. \A w \in Write : ~Awaits(o, w)
      BY <2>5 DEF Awaits, Write, Ended
    <3> QED BY <2>3, <3>1, <3>2
  <2> QED BY <1>2, <2>1, <2>2, <2>4, <2>5 DEF Stepped
<1>8. /\ row'.offset \in Nat /\ row'.offset <= c.offset
      /\ Ascending(row'.offset, wq', c.offset)
  BY <1>1, <1>4, <1>5, <1>7
<1> QED BY <1>2, <1>3, <1>4, <1>6, <1>7, <1>8, AloneMoves

\* The oldest write is done, and nobody waits for it.
LEMMA AloneDrops ==
  ASSUME ScannerInv, AloneInv, ~doubled, ~doubled', wq # <<>>, scan' = scan,
         wq' = Tail(wq), app' = app,
         row'.offset = row.offset
           \/ (Recorded(Head(wq)) /\ row'.offset = Head(wq).offset)
  PROVE  AloneInv'
<1>1. wq \in Seq(Write) /\ row.offset \in Nat
  BY TotalType DEF ScannerInv, TypeInv
<1>2. /\ wq' \in Seq(Write) /\ Len(wq') = Len(wq) - 1
      /\ \A i \in 1..Len(wq') : i + 1 \in 1..Len(wq) /\ wq'[i] = wq[i + 1]
  BY <1>1, TailAt
<1>3. \A t \in Scans : Live(t)' = Live(t)
  BY DEF Live
<1>4. ASSUME NEW i \in 1..Len(wq'), wq'[i].by # NoScan PROVE i = Len(wq')
  <2>1. i + 1 = Len(wq)
    BY <1>2, <1>4 DEF AloneInv
  <2>2. Len(wq) \in Nat /\ Len(wq') = Len(wq) - 1
    BY <1>1, <1>2
  <2> QED BY <2>1, <2>2
<1>5. ASSUME NEW top, Ascending(row.offset, wq, top)
      PROVE  Ascending(row'.offset, wq', top)
  BY <1>1, <1>5, AscendingTail
<1>6. ASSUME NEW t \in Scans, Live(t)
      PROVE  /\ row'.offset <= scan[t].offset /\ Ascending(row'.offset, wq', scan[t].offset)
             /\ scan[t].pc = "run" => scan[t].offset <= scan[t].batchOffset
  <2>1. /\ row.offset <= scan[t].offset /\ Ascending(row.offset, wq, scan[t].offset)
        /\ scan[t].pc = "run" => scan[t].offset <= scan[t].batchOffset
    BY <1>6 DEF AloneInv
  <2> QED BY <1>1, <1>5, <2>1, AscendingTail
<1>7. Ascending(row'.offset, wq', Total)
  BY <1>5 DEF AloneInv
<1>8. app' = "up" => \E t \in Scans : Live(t)'
  BY <1>3 DEF AloneInv
<1>9. \A t, u \in Scans : Live(t)' /\ Live(u)' => t = u
  BY <1>3 DEF AloneInv
<1> QED BY <1>3, <1>4, <1>6, <1>7, <1>8, <1>9 DEF AloneInv

\* A call's own write is the last one: when it is also the first, there is no other.
LEMMA AloneHead ==
  ASSUME ScannerInv, AloneInv, ~doubled, wq # <<>>, Head(wq).by # NoScan
  PROVE  Tail(wq) = <<>>
<1>1. wq \in Seq(Write)
  BY DEF ScannerInv, TypeInv
<1>2. Len(wq) \in Nat \ {0} /\ Head(wq) = wq[1] /\ Tail(wq) \in Seq(Write)
      /\ Len(Tail(wq)) = Len(wq) - 1
  BY <1>1, TailAt
<1>3. Len(wq) = 1
  <2>1. 1 \in 1..Len(wq) /\ wq[1].by # NoScan
    BY <1>2
  <2> QED BY <2>1 DEF AloneInv
<1>4. Len(Tail(wq)) = 0
  BY <1>2, <1>3
<1> QED BY <1>2, <1>4, EmptySeq

LEMMA AloneAnswers ==
  ASSUME ScannerInv, AloneInv, ~doubled, wq # <<>>, NEW s \in Scans, Head(wq).by = s,
         WriteCommits \/ WriteFails
  PROVE  AloneInv'
<1> DEFINE o == scan[s]
           w == Head(wq)
<1>1. s # NoScan /\ Live(s) /\ w \in Write /\ Tail(wq) = <<>>
  BY HeadFacts, AloneHead, ScannerAssumption
<1>2. /\ \A t \in Scans \ {s} : ~Live(t)
      /\ wq \in Seq(Write) /\ row.offset \in Nat /\ o \in Call
      /\ o.offset \in Nat /\ o.batchOffset \in Nat
      /\ row.offset <= o.offset /\ Ascending(row.offset, wq, o.offset)
      /\ o.pc = "run" => o.offset <= o.batchOffset
  BY <1>1, AloneFacts
<1>3. Recorded(w) => w.offset <= o.offset /\ w.offset \in Nat
  <2>1. w.offset \in Nat
    BY <1>1, TotalType DEF Write
  <2>2. Recorded(w) => w.offset <= o.offset
    BY <1>2, AscendingTail
  <2> QED BY <2>1, <2>2
\* One write at most is left, and it carries the offset of the call if it carries one.
<1>4. ASSUME NEW c \in Call, scan' = [scan EXCEPT ![s] = c],
             row'.offset \in Nat,
             \/ wq' = <<>>
             \/ /\ c.pc # "none"
                /\ \E v \in Write : wq' = Append(<<>>, v) /\ (Recorded(v) => v.offset = c.offset),
             c.pc # "none" => row'.offset <= c.offset,
             c.pc = "run" => c.offset <= c.batchOffset
      PROVE  AloneInv'
  <2>1. <<>> \in Seq(Write) /\ Ascending(row'.offset, <<>>, c.offset) /\ c.offset \in Nat
    BY TotalType DEF Ascending, Call
  <2>2. CASE wq' = <<>>
    <3>1. /\ wq' \in Seq(Write) /\ Ascending(row'.offset, wq', c.offset)
          /\ \A i \in 1..Len(wq') : wq'[i].by # NoScan => i = Len(wq')
      BY <2>1, <2>2
    <3> QED BY <1>2, <1>4, <2>2, <3>1, AloneMoves
  <2>3. CASE c.pc # "none" /\ wq' # <<>>
    <3>1. PICK v \in Write : wq' = Append(<<>>, v) /\ (Recorded(v) => v.offset = c.offset)
      BY <1>4, <2>3
    <3>2. wq' \in Seq(Write) /\ Len(wq') = 1
      BY <2>1, <3>1
    <3>3. Ascending(row'.offset, wq', c.offset)
      BY <1>4, <2>1, <2>3, <3>1, AscendingAppend
    <3>4. \A i \in 1..Len(wq') : i = Len(wq')
      BY <3>2
    <3> QED BY <1>2, <1>4, <2>3, <3>2, <3>3, <3>4, AloneMoves
  <2> QED BY <1>4, <2>2, <2>3
<1>5. CASE WriteCommits
  <2>1. PICK c \in Call : /\ scan' = [scan EXCEPT ![s] = c]
                          /\ Answers(s, w, o, c, dataset, wq, wq')
    BY <1>5, AnswersStep
  <2>2. Commit(w)
    BY <1>5 DEF WriteCommits
  <2> HIDE DEF w
  <2>3. row'.offset \in Nat /\ row'.offset <= o.offset
        /\ (~Recorded(w) => row'.offset = row.offset)
    BY <1>1, <1>2, <1>3, <2>2, CommitShape DEF ScannerInv
  <2>4. CASE w.kind = "ingest"
    <3>1. /\ c.pc = "run" /\ c.offset = o.batchOffset /\ c.batchOffset = o.batchOffset
          /\ o.pc = "run"
          /\ \E v \in Write : v.offset = c.offset /\ wq' = Append(Tail(wq), v)
      BY <2>1, <2>4 DEF Answers
    <3>2. row'.offset <= c.offset /\ c.offset <= c.batchOffset
      BY <1>2, <2>3, <3>1
    <3> QED BY <1>1, <1>4, <2>1, <2>3, <3>1, <3>2
  <2>5. CASE w.kind = "checkpoint"
    <3>1. /\ c.pc = "run" /\ c.offset = o.offset /\ c.batchOffset = o.batchOffset /\ o.pc = "run"
          /\ wq' = Tail(wq)
      BY <2>1, <2>5 DEF Answers
    <3> QED BY <1>1, <1>2, <1>4, <2>1, <2>3, <3>1
  <2>6. CASE w.kind = "state"
    <3>1. /\ c.pc \in {"started", "finalEvent", "failedEvent"} /\ c.offset = o.offset
          /\ \E v \in Write : v.kind = "event" /\ wq' = Append(Tail(wq), v)
      BY <2>1, <2>6 DEF Answers
    <3>2. PICK v \in Write : v.kind = "event" /\ wq' = Append(Tail(wq), v)
      BY <3>1
    <3>3. ~Recorded(v)
      BY <3>2 DEF Recorded
    <3> QED BY <1>1, <1>4, <2>1, <2>3, <3>1, <3>2, <3>3
  <2>7. CASE w.kind = "event"
    <3>1. CASE c = Idle /\ wq' = Tail(wq)
      BY <1>1, <1>4, <2>1, <2>3, <3>1, IdleType
    <3>2. CASE c.pc = "run" /\ c.offset = o.offset /\ c.batchOffset = o.offset /\ wq' = Tail(wq)
      <4>1. row'.offset <= c.offset /\ c.offset <= c.batchOffset
        BY <1>2, <2>3, <3>2
      <4> QED BY <1>1, <1>4, <2>1, <2>3, <3>2, <4>1
    <3> QED BY <2>1, <2>7, <3>1, <3>2 DEF Answers
  <2> QED BY <1>1, <2>4, <2>5, <2>6, <2>7 DEF Write
<1>6. CASE WriteFails
  <2>1. PICK c \in Call : scan' = [scan EXCEPT ![s] = c] /\ Refuses(s, o, c, wq, wq')
    BY <1>6, RefusesStep
  <2>2. row' = row
    BY <1>6 DEF WriteFails, dbVars
  <2>3. CASE c = Idle /\ wq' = Tail(wq)
    BY <1>1, <1>2, <1>4, <2>1, <2>2, <2>3, IdleType
  <2>4. CASE /\ o.pc = "run" /\ c.pc = "run" /\ c.offset = o.offset
             /\ c.batchOffset = o.batchOffset /\ wq' = Tail(wq)
    BY <1>1, <1>2, <1>4, <2>1, <2>2, <2>4
  <2>5. CASE /\ c.pc = "failing" /\ c.offset = o.offset
             /\ \E v \in Write : v.offset = o.offset /\ wq' = Append(Tail(wq), v)
    BY <1>1, <1>2, <1>4, <2>1, <2>2, <2>5
  <2> QED BY <2>1, <2>3, <2>4, <2>5 DEF Refuses
<1> QED BY <1>5, <1>6

\* The first call starts from nothing, a resumed one from the row, and both find no write
\* under way.
LEMMA AloneStarts ==
  ASSUME ScannerInv, AloneInv, ~doubled', NEW s \in Scans, StartScan(s) \/ ResumeScan(s)
  PROVE  AloneInv'
<1>1. /\ app = "up" /\ UNCHANGED <<row, wq>> /\ Meets
  BY DEF StartScan, ResumeScan, Dispatch, dbVars
<1>2. ~doubled /\ (\A t \in Scans : ~Live(t)) /\ wq = <<>>
  BY <1>1 DEF Meets, AloneInv
<1>3. row.offset \in 0..Total /\ row.accepted \in Nat
  BY DEF ScannerInv, TypeInv
<1>4. ASSUME NEW c \in Call, c.pc = "queued", c.offset = row.offset,
             scan' = [scan EXCEPT ![s] = c]
      PROVE  AloneInv'
  <2>1. /\ row'.offset \in Nat /\ row'.offset <= c.offset /\ wq' = <<>>
        /\ Ascending(row'.offset, wq', c.offset) /\ wq' \in Seq(Write)
        /\ \A i \in 1..Len(wq') : wq'[i].by # NoScan => i = Len(wq')
    BY <1>1, <1>2, <1>3, <1>4, TotalType DEF Ascending
  <2> QED BY <1>2, <1>4, <2>1, AloneMoves
<1>5. CASE StartScan(s)
  <2> DEFINE c == [Idle EXCEPT !.pc = "queued"]
  <2>1. scan' = [scan EXCEPT ![s] = c] /\ row.offset = 0
    BY <1>5 DEF StartScan, ScannerInv, BeginInv
  <2>2. c \in Call /\ c.pc = "queued" /\ c.offset = 0
    BY IdleType DEF Call
  <2> HIDE DEF c
  <2> QED BY <1>4, <2>1, <2>2
<1>6. CASE ResumeScan(s)
  <2> DEFINE c == [Idle EXCEPT !.pc = "queued", !.offset = row.offset,
                               !.accepted = row.accepted]
  <2>1. scan' = [scan EXCEPT ![s] = c]
    BY <1>6 DEF ResumeScan
  <2>2. c \in Call /\ c.pc = "queued" /\ c.offset = row.offset
    BY <1>3, IdleType DEF Call
  <2> HIDE DEF c
  <2> QED BY <1>4, <2>1, <2>2
<1> QED BY <1>5, <1>6

LEMMA AloneWrites ==
  ASSUME ScannerInv, AloneInv, WriteCommits \/ WriteFails
  PROVE  /\ AloneInv'
         /\ ~doubled => row'.offset >= row.offset
<1>1. wq # <<>> /\ doubled' = doubled /\ app' = app
  BY DEF WriteCommits, WriteFails, boundVars
<1>2. CASE doubled
  BY <1>1, <1>2 DEF AloneInv
<1>3. CASE ~doubled
  <2> DEFINE w == Head(wq)
  <2>1. wq \in Seq(Write) /\ w \in Write /\ row.offset \in Nat /\ TypeInv
    BY <1>1, HeadFacts, TotalType DEF ScannerInv, TypeInv
  <2>2. w.offset \in Nat /\ (Recorded(w) => row.offset <= w.offset)
    <3>1. w.offset \in Nat
      BY <2>1, TotalType DEF Write
    <3>2. Ascending(row.offset, wq, Total)
      BY <1>3 DEF AloneInv
    <3> QED BY <1>1, <2>1, <3>1, <3>2, AscendingTail
  <2>3. row' = row \/ Commit(w)
    BY DEF WriteCommits, WriteFails, dbVars
  <2> HIDE DEF w
  <2>4. row'.offset = row.offset \/ (Recorded(w) /\ row'.offset = w.offset)
    BY <2>1, <2>3, CommitShape
  <2>5. row'.offset >= row.offset
    BY <2>1, <2>2, <2>4
  <2>6. CASE w.by = NoScan
    <3>1. wq' = Tail(wq) /\ scan' = scan
      BY <2>6 DEF WriteCommits, WriteFails, w
    <3>2. AloneInv'
      BY <1>1, <1>3, <2>4, <3>1, AloneDrops DEF w
    <3> QED BY <2>5, <3>2
  <2>7. CASE w.by # NoScan
    <3>1. w.by \in Scans
      BY <1>1, <2>7, HeadFacts DEF w
    <3>2. AloneInv'
      BY <1>1, <1>3, <3>1, AloneAnswers DEF w
    <3> QED BY <2>5, <3>2
  <2> QED BY <2>6, <2>7
<1> QED BY <1>2, <1>3

\* The user and the process: no step of theirs moves the offset of the row.
LEMMA AloneOthers ==
  ASSUME ScannerInv, AloneInv,
         CancelScan \/ ScanSource \/ Quit \/ Crash \/ Restart \/ UNCHANGED vars
  PROVE  AloneInv' /\ row'.offset = row.offset
<1>1. row \in RowType /\ wq \in Seq(Write) /\ scan \in [Scans -> Call] /\ row.offset \in Nat
  BY TotalType DEF ScannerInv, TypeInv, RowType
<1>2. doubled' = doubled
  BY DEF CancelScan, ScanSource, Quit, Crash, Restart, vars, boundVars
<1>3. row'.offset = row.offset
  BY <1>1 DEF CancelScan, ScanSource, Quit, Crash, Restart, vars, dbVars, RowType
<1> SUFFICES ASSUME ~doubled PROVE AloneInv'
  BY <1>2, <1>3 DEF AloneInv
<1>4. CASE CancelScan
  <2> DEFINE s == registered
             c == [scan[s] EXCEPT !.cancel = TRUE]
  <2>1. s \in Scans /\ Live(s) /\ wq' = wq /\ scan' = [scan EXCEPT ![s] = c]
    BY <1>1, <1>4 DEF CancelScan, Cancel, ScannerInv, TypeInv
  <2>4. scan[s] \in Call
    BY <1>1, <2>1
  <2> HIDE DEF s
  <2>2. /\ c \in Call /\ c.pc = scan[s].pc /\ c.offset = scan[s].offset
        /\ c.batchOffset = scan[s].batchOffset
    BY <2>4 DEF Call
  <2> HIDE DEF c
  <2>3. /\ \A t \in Scans \ {s} : ~Live(t)
        /\ row.offset <= scan[s].offset /\ Ascending(row.offset, wq, scan[s].offset)
        /\ scan[s].pc = "run" => scan[s].offset <= scan[s].batchOffset
        /\ \A i \in 1..Len(wq) : wq[i].by # NoScan => i = Len(wq)
        /\ scan[s].pc # "none"
    BY <2>1, AloneFacts DEF AloneInv, Live
  <2> QED BY <1>1, <1>3, <2>1, <2>2, <2>3, AloneMoves
<1>5. CASE ScanSource
  <2>1. UNCHANGED <<scan, wq, app>>
    BY <1>5 DEF ScanSource
  <2> QED BY <1>2, <1>3, <2>1 DEF AloneInv, Live
<1>6. CASE Crash \/ Restart
  <2>1. /\ wq' = <<>> /\ \A s \in Scans : ~Live(s)'
    <3>1. CASE Crash
      BY <3>1, IdleType DEF Crash, Vanish, Live
    <3>2. CASE Restart
      BY <3>2 DEF Restart, ScannerInv, WaitInv, Live
    <3> QED BY <1>6, <3>1, <3>2
  <2> QED BY <2>1 DEF AloneInv, Ascending
<1>7. CASE Quit
  <2>1. app' = "down" /\ \A s \in Scans : ~Live(s)'
    BY <1>7, IdleType DEF Quit, Vanish, Live
  <2>2. /\ Len(wq') = Len(wq)
        /\ \A i \in 1..Len(wq) : Same(wq'[i], wq[i]) /\ wq'[i].by = NoScan
    BY <1>1, <1>7, QuitQueue
  <2>3. Ascending(row.offset, wq', Total)
    BY <2>2, AscendingSame DEF AloneInv
  <2> QED BY <1>3, <2>1, <2>2, <2>3 DEF AloneInv
<1>8. CASE UNCHANGED vars
  BY <1>8 DEF vars, dbVars, boundVars, AloneInv, Live
<1> QED BY <1>4, <1>5, <1>6, <1>7, <1>8

LEMMA AloneStep ==
  ASSUME ScannerInv, AloneInv, [Next]_vars
  PROVE  /\ AloneInv'
         /\ ~doubled => row'.offset >= row.offset
<1>1. row.offset \in Nat
  BY TotalType DEF ScannerInv, TypeInv
<1>2. ASSUME NEW s \in Scans, ScanStep(s)
      PROVE  AloneInv' /\ row'.offset = row.offset
  <2>1. doubled' = doubled /\ row' = row
    BY <1>2, SteppedStep
  <2>2. CASE doubled
    BY <2>1, <2>2 DEF AloneInv
  <2>3. CASE ~doubled
    BY <1>2, <2>1, <2>3, AloneStepped
  <2> QED BY <2>2, <2>3
<1>3. ASSUME NEW s \in Scans, StartScan(s) \/ ResumeScan(s)
      PROVE  AloneInv' /\ row'.offset = row.offset
  <2>1. row' = row
    BY <1>3 DEF StartScan, ResumeScan, dbVars
  <2>2. CASE doubled'
    BY <2>1, <2>2 DEF AloneInv
  <2>3. CASE ~doubled'
    BY <1>3, <2>1, <2>3, AloneStarts
  <2> QED BY <2>2, <2>3
<1>4. CASE WriteCommits \/ WriteFails
  BY <1>4, AloneWrites
<1>5. CASE CancelScan \/ ScanSource \/ Quit \/ Crash \/ Restart \/ UNCHANGED vars
  BY <1>1, <1>5, AloneOthers
<1> QED BY <1>1, <1>2, <1>3, <1>4, <1>5 DEF Next

\* AloneInv is inductive together with ScannerInv.
THEOREM AloneInvCorrect == Spec => []AloneInv
<1>1. Init => AloneInv
  <2> SUFFICES ASSUME Init PROVE AloneInv
    OBVIOUS
  <2>1. wq = <<>> /\ scan = [s \in Scans |-> Idle]
    BY DEF Init
  <2>2. \A s \in Scans : ~Live(s)
    BY <2>1, IdleType DEF Live
  <2> QED BY <2>1, <2>2 DEF AloneInv, Ascending
<1>2. ScannerInv /\ AloneInv /\ [Next]_vars => AloneInv'
  BY AloneStep
<1> QED BY <1>1, <1>2, ScannerInvCorrect, PTL DEF Spec

\* While one call at a time works for the job, its progress never shrinks: whatever write
\* of whatever call reaches the row, the offset it carries is not behind the row's.
THEOREM ProgressIsKeptCorrect == Spec => ProgressIsKept
<1>1. ScannerInv /\ AloneInv /\ [Next]_vars => [doubled \/ row'.offset >= row.offset]_vars
  BY AloneStep
<1> QED BY <1>1, ScannerInvCorrect, AloneInvCorrect, PTL DEF Spec, ProgressIsKept

-----------------------------------------------------------------------------
(* The counter of a scan that no restart has interrupted.                  *)

Batch(w) == w.kind \in {"ingest", "checkpoint"}
NoBatch(q) == \A i \in 1..Len(q) : ~Batch(q[i])

\* A call c that may still complete has counted the dataset d exactly, and nobody else has
\* left a batch in queue q.
Exact(c, d, q) ==
  /\ c.pc \in {"queued", "starting", "started"} => d = {} /\ NoBatch(q) /\ c.accepted = 0
  /\ c.pc = "run" /\ c.cons \in Working =>
       /\ c.accepted = Cardinality(d)
       /\ \A i \in 1..Len(q) : Batch(q[i]) => q[i].by # NoScan

\* Without a restart there is one call at most, and nothing that changes the dataset or the
\* counter comes after its final write.
FirstInv ==
  restarts = 0 =>
    /\ row.state # "PAUSED"
    /\ \A s, t \in Scans : Live(s) /\ Live(t) => s = t
    /\ \A s \in Scans : Live(s) => Exact(scan[s], dataset, wq)
    /\ row.state = "COMPLETED" =>
         /\ row.accepted = Cardinality(dataset) /\ NoBatch(wq)
         /\ \A s \in Scans : scan[s].pc \in {"none", "finalEvent", "failing", "failedEvent"}
    /\ \A i \in 1..Len(wq) :
         wq[i].state = "COMPLETED" =>
           /\ wq[i].accepted = Cardinality(dataset) /\ NoBatch(wq)
           /\ \A s \in Scans : Live(s) => scan[s].pc = "final" /\ wq[i].by = s

\* The only call moves, or begins.
LEMMA FirstMoves ==
  ASSUME ScannerInv, NEW s \in Scans, NEW c \in Call, scan' = [scan EXCEPT ![s] = c],
         \A t \in Scans \ {s} : ~Live(t), row'.state # "PAUSED",
         c.pc # "none" => Exact(c, dataset', wq'),
         row'.state = "COMPLETED" =>
           /\ row'.accepted = Cardinality(dataset') /\ NoBatch(wq')
           /\ c.pc \in {"none", "finalEvent", "failing", "failedEvent"},
         \A i \in 1..Len(wq') :
           wq'[i].state = "COMPLETED" =>
             /\ wq'[i].accepted = Cardinality(dataset') /\ NoBatch(wq')
             /\ c.pc # "none" => c.pc = "final" /\ wq'[i].by = s
  PROVE  FirstInv'
<1>1. scan \in [Scans -> Call]
  BY DEF ScannerInv, TypeInv
<1>2. scan'[s] = c /\ \A t \in Scans \ {s} : scan'[t] = scan[t] /\ scan'[t].pc = "none"
  BY <1>1 DEF Live
<1>3. \A t \in Scans : Live(t)' => t = s /\ c.pc # "none"
  BY <1>2 DEF Live
<1>4. \A t \in Scans : Live(t)' => Exact(scan'[t], dataset', wq')
  BY <1>2, <1>3
<1>5. row'.state = "COMPLETED" =>
        \A t \in Scans : scan'[t].pc \in {"none", "finalEvent", "failing", "failedEvent"}
  BY <1>2
<1>6. ASSUME NEW i \in 1..Len(wq'), wq'[i].state = "COMPLETED", NEW t \in Scans, Live(t)'
      PROVE  scan'[t].pc = "final" /\ wq'[i].by = t
  BY <1>2, <1>3, <1>6
<1>7. ASSUME NEW i \in 1..Len(wq'), wq'[i].state = "COMPLETED"
      PROVE  wq'[i].accepted = Cardinality(dataset') /\ NoBatch(wq')
  BY <1>7
<1> HIDE DEF Exact, NoBatch
<1> QED BY <1>3, <1>4, <1>5, <1>6, <1>7 DEF FirstInv

\* Before its final write, a call is the reason that nothing is COMPLETED yet.
LEMMA FirstFacts ==
  ASSUME ScannerInv, FirstInv, restarts = 0, NEW s \in Scans, Live(s)
  PROVE  /\ wq \in Seq(Write) /\ scan[s] \in Call /\ row.state # "PAUSED"
         /\ \A t \in Scans \ {s} : ~Live(t)
         /\ Exact(scan[s], dataset, wq)
         /\ scan[s].pc \in {"queued", "starting", "started", "run"} =>
              /\ row.state # "COMPLETED"
              /\ \A i \in 1..Len(wq) : wq[i].state # "COMPLETED"
<1>1. wq \in Seq(Write) /\ scan[s] \in Call
  BY DEF ScannerInv, TypeInv
<1> QED BY <1>1 DEF FirstInv

LEMMA FirstStepped ==
  ASSUME ScannerInv, FirstInv, restarts = 0, NEW s \in Scans, ScanStep(s)
  PROVE  FirstInv'
<1>1. UNCHANGED <<row, dataset, prepared, app, restarts, doubled>>
  BY SteppedStep
<1>2. PICK c \in Call : scan' = [scan EXCEPT ![s] = c] /\ Stepped(s, scan[s], c, wq, wq')
  BY SteppedStep
<1> DEFINE o == scan[s]
<1>3. Live(s) /\ c.pc # "none" /\ o.pc \in {"queued", "run"}
  BY <1>2 DEF Stepped, Live
<1>4. /\ wq \in Seq(Write) /\ o \in Call /\ row.state # "PAUSED"
      /\ \A t \in Scans \ {s} : ~Live(t)
      /\ Exact(o, dataset, wq)
      /\ row.state # "COMPLETED"
      /\ \A i \in 1..Len(wq) : wq[i].state # "COMPLETED"
  BY <1>3, FirstFacts
<1>5. c.accepted = o.accepted
  BY <1>2 DEF Stepped
\* A step that does not complete the scan.
<1>6. ASSUME Exact(c, dataset, wq'), \A i \in 1..Len(wq') : wq'[i].state # "COMPLETED"
      PROVE  FirstInv'
  BY <1>1, <1>2, <1>4, <1>6, FirstMoves
\* A step that hands over a write v.
<1>7. ASSUME NEW v \in Write, wq' = Append(wq, v)
      PROVE  /\ Len(wq') = Len(wq) + 1 /\ Len(wq) \in Nat /\ wq'[Len(wq) + 1] = v
             /\ \A i \in 1..Len(wq) : wq'[i] = wq[i]
             /\ \A i \in 1..Len(wq') : i \in 1..Len(wq) \/ i = Len(wq) + 1
  <2>1. /\ Len(wq') = Len(wq) + 1 /\ Len(wq) \in Nat /\ wq'[Len(wq) + 1] = v
        /\ \A i \in 1..Len(wq) : wq'[i] = wq[i]
    BY <1>4, <1>7, AppendAt
  <2> QED BY <2>1
<1>8. CASE o.pc = "run" /\ c.pc = "run" /\ (c.cons \in Working => o.cons \in Working) /\ wq' = wq
  <2>1. Exact(c, dataset, wq')
    BY <1>4, <1>5, <1>8 DEF Exact
  <2> QED BY <1>4, <1>6, <1>8, <2>1
<1>9. CASE /\ o.pc = "run" /\ c.pc = "run" /\ c.cons = "cancelled" /\ Len(wq') = Len(wq)
           /\ \A i \in 1..Len(wq) : Same(wq'[i], wq[i])
  <2>1. Exact(c, dataset, wq')
    BY <1>9 DEF Exact, Working
  <2>2. \A i \in 1..Len(wq') : wq'[i].state # "COMPLETED"
    BY <1>4, <1>9 DEF Same
  <2> QED BY <1>6, <2>1, <2>2
<1>10. CASE /\ o.pc = "run" /\ c.pc = "run" /\ o.cons = "get"
            /\ \E v \in Write : v.by = s /\ v.kind = "ingest" /\ v.state = "none"
                                /\ wq' = Append(wq, v)
  <2>1. PICK v \in Write : v.by = s /\ v.state = "none" /\ wq' = Append(wq, v)
    BY <1>10
  <2>2. s # NoScan
    BY ScannerAssumption
  <2>3. \A i \in 1..Len(wq') : wq'[i].state # "COMPLETED"
    BY <1>4, <1>7, <2>1
  <2>4. c.accepted = Cardinality(dataset)
        /\ \A i \in 1..Len(wq) : Batch(wq[i]) => wq[i].by # NoScan
    BY <1>4, <1>5, <1>10 DEF Exact, Working
  <2>5. \A i \in 1..Len(wq') : Batch(wq'[i]) => wq'[i].by # NoScan
    BY <1>7, <2>1, <2>2, <2>4
  <2>6. Exact(c, dataset, wq')
    BY <1>10, <2>4, <2>5 DEF Exact
  <2> QED BY <1>6, <2>3, <2>6
<1>11. CASE /\ o.pc = "queued" /\ c.pc = "starting"
            /\ \E v \in Write : /\ v.by = s /\ v.kind = "state" /\ v.state = "RUNNING"
                                /\ v.offset = o.offset /\ wq' = Append(wq, v)
  <2>1. PICK v \in Write : v.kind = "state" /\ v.state = "RUNNING" /\ wq' = Append(wq, v)
    BY <1>11
  <2>2. \A i \in 1..Len(wq') : wq'[i].state # "COMPLETED"
    BY <1>4, <1>7, <2>1
  <2>3. dataset = {} /\ c.accepted = 0 /\ \A i \in 1..Len(wq) : ~Batch(wq[i])
    BY <1>4, <1>5, <1>11 DEF Exact, NoBatch
  <2>4. NoBatch(wq')
    BY <1>7, <2>1, <2>3 DEF NoBatch, Batch
  <2>5. Exact(c, dataset, wq')
    BY <1>11, <2>3, <2>4 DEF Exact
  <2> QED BY <1>6, <2>2, <2>5
<1>12. CASE /\ o.pc = "run" /\ o.cons \in Ended /\ c.pc \in {"final", "failing"}
            /\ \E v \in Write : /\ v.by = s /\ v.kind = "state" /\ v.offset = o.offset
                                /\ v.accepted = o.accepted /\ wq' = Append(wq, v)
                                /\ v.state = "COMPLETED" => c.pc = "final" /\ o.cons = "done"
  <2>1. PICK v \in Write : /\ v.by = s /\ v.kind = "state" /\ v.accepted = o.accepted
                           /\ wq' = Append(wq, v)
                           /\ v.state = "COMPLETED" => c.pc = "final" /\ o.cons = "done"
    BY <1>12
  <2>2. Exact(c, dataset, wq')
    BY <1>12 DEF Exact
  <2>3. CASE v.state # "COMPLETED"
    <3>1. \A i \in 1..Len(wq') : wq'[i].state # "COMPLETED"
      BY <1>4, <1>7, <2>1, <2>3
    <3> QED BY <1>6, <2>2, <3>1
  <2>4. CASE v.state = "COMPLETED"
    <3>1. o.accepted = Cardinality(dataset)
          /\ \A i \in 1..Len(wq) : Batch(wq[i]) => wq[i].by # NoScan
      BY <1>4, <1>12, <2>1, <2>4 DEF Exact, Working
    <3>2. ASSUME NEW i \in 1..Len(wq) PROVE ~Batch(wq[i])
      <4> SUFFICES ASSUME Batch(wq[i]) PROVE FALSE
        OBVIOUS
      <4>1. wq[i].by # NoScan
        BY <3>1
      <4>2. wq[i].by = s /\ Awaits(o, wq[i])
        BY <1>4, <4>1, OwnerIsLive
      <4> QED BY <1>12, <2>1, <2>4, <4>2 DEF Awaits, Batch
    <3>3. NoBatch(wq')
      BY <1>7, <2>1, <3>2 DEF NoBatch, Batch
    <3>4. ASSUME NEW i \in 1..Len(wq'), wq'[i].state = "COMPLETED"
          PROVE  /\ wq'[i].accepted = Cardinality(dataset) /\ wq'[i].by = s
      <4>1. i = Len(wq) + 1
        BY <1>4, <1>7, <2>1, <3>4
      <4>2. wq'[i] = v
        BY <1>7, <2>1, <4>1
      <4> QED BY <2>1, <3>1, <4>2
    <3>5. row'.state # "PAUSED" /\ row'.state # "COMPLETED" /\ dataset' = dataset
      BY <1>1, <1>4
    <3> HIDE DEF NoBatch, Exact
    <3> QED BY <1>2, <1>4, <2>1, <2>2, <2>4, <3>3, <3>4, <3>5, FirstMoves
  <2> QED BY <2>3, <2>4
<1> QED BY <1>2, <1>8, <1>9, <1>10, <1>11, <1>12 DEF Stepped

LEMMA FirstAnswers ==
  ASSUME ScannerInv, FirstInv, restarts = 0, wq # <<>>, NEW s \in Scans, Head(wq).by = s,
         WriteCommits \/ WriteFails
  PROVE  FirstInv'
<1> DEFINE o == scan[s]
           w == Head(wq)
           T == Tail(wq)
<1>1. s # NoScan /\ Live(s) /\ w \in Write /\ w.by = s /\ Awaits(o, w)
  BY HeadFacts, ScannerAssumption
<1>2. /\ wq \in Seq(Write) /\ o \in Call /\ row.state # "PAUSED"
      /\ \A t \in Scans \ {s} : ~Live(t)
      /\ Exact(o, dataset, wq)
      /\ o.pc \in {"queued", "starting", "started", "run"} =>
           /\ row.state # "COMPLETED"
           /\ \A i \in 1..Len(wq) : wq[i].state # "COMPLETED"
  BY <1>1, FirstFacts
<1>3. /\ T \in Seq(Write) /\ Len(T) \in Nat /\ w = wq[1] /\ 1 \in 1..Len(wq)
      /\ \A i \in 1..Len(T) : i + 1 \in 1..Len(wq) /\ T[i] = wq[i + 1]
  BY <1>2, TailAt
<1> HIDE DEF w, T
<1>4. \A i \in 1..Len(T) : T[i].state # "COMPLETED"
  <2> SUFFICES ASSUME NEW i \in 1..Len(T), T[i].state = "COMPLETED" PROVE FALSE
    OBVIOUS
  <2>1. i + 1 \in 1..Len(wq) /\ wq[i + 1].state = "COMPLETED"
    BY <1>3
  <2>2. wq[i + 1].by = s
    BY <1>1, <2>1 DEF FirstInv
  <2>3. i + 1 = 1
    BY <1>1, <1>3, <2>1, <2>2 DEF ScannerInv, WaitInv
  <2> QED BY <1>3, <2>3
<1>5. NoBatch(wq) => NoBatch(T)
  BY <1>3 DEF NoBatch
<1>6. row.state = "COMPLETED" => /\ row.accepted = Cardinality(dataset) /\ NoBatch(wq)
                                 /\ o.pc \in {"none", "finalEvent", "failing", "failedEvent"}
  BY DEF FirstInv
<1>7. w.state = "COMPLETED" => /\ w.accepted = Cardinality(dataset) /\ NoBatch(wq)
                               /\ o.pc = "final"
  BY <1>1, <1>3 DEF FirstInv
\* The rest of the queue, with one more write or not.
<1>8. ASSUME NEW v \in Write, wq' = Append(T, v)
      PROVE  /\ v.state # "COMPLETED" => \A i \in 1..Len(wq') : wq'[i].state # "COMPLETED"
             /\ NoBatch(wq) /\ ~Batch(v) => NoBatch(wq')
             /\ (\A i \in 1..Len(wq) : Batch(wq[i]) => wq[i].by # NoScan) /\ v.by = s =>
                  \A i \in 1..Len(wq') : Batch(wq'[i]) => wq'[i].by # NoScan
  <2>1. /\ Len(wq') = Len(T) + 1 /\ wq'[Len(T) + 1] = v
        /\ \A i \in 1..Len(T) : wq'[i] = T[i]
    BY <1>3, <1>8, AppendAt
  <2>2. \A i \in 1..Len(wq') : i \in 1..Len(T) \/ i = Len(T) + 1
    BY <1>3, <2>1
  <2>3. v.state # "COMPLETED" => \A i \in 1..Len(wq') : wq'[i].state # "COMPLETED"
    BY <1>4, <2>1, <2>2
  <2>4. NoBatch(wq) /\ ~Batch(v) => NoBatch(wq')
    BY <1>5, <2>1, <2>2 DEF NoBatch
  <2>5. (\A i \in 1..Len(wq) : Batch(wq[i]) => wq[i].by # NoScan) /\ v.by = s =>
          \A i \in 1..Len(wq') : Batch(wq'[i]) => wq'[i].by # NoScan
    BY <1>1, <1>3, <2>1, <2>2
  <2> QED BY <2>3, <2>4, <2>5
<1>9. ASSUME NEW c \in Call, scan' = [scan EXCEPT ![s] = c], row'.state # "PAUSED",
             \A i \in 1..Len(wq') : wq'[i].state # "COMPLETED",
             c.pc # "none" => Exact(c, dataset', wq'),
             row'.state = "COMPLETED" =>
               /\ row'.accepted = Cardinality(dataset') /\ NoBatch(wq')
               /\ c.pc \in {"none", "finalEvent", "failing", "failedEvent"}
      PROVE  FirstInv'
  BY <1>2, <1>9, FirstMoves
<1>10. CASE WriteCommits
  <2>1. PICK c \in Call : /\ scan' = [scan EXCEPT ![s] = c]
                          /\ Answers(s, w, o, c, dataset, wq, wq')
    BY <1>1, <1>10, AnswersStep DEF w
  <2>2. /\ dataset' = IF w.kind = "ingest" THEN dataset \cup w.ids ELSE dataset
        /\ w.kind = "state" => row'.state = w.state
        /\ w.kind # "state" => row'.state = row.state
        /\ Recorded(w) => row'.offset = w.offset /\ row'.accepted = w.accepted
        /\ ~Recorded(w) => row' = row
    BY <1>1, <1>10, CommitShape DEF WriteCommits, ScannerInv, w
  <2>3. CASE w.kind = "ingest"
    <3>1. /\ o.pc = "run" /\ o.cons = "ingest" /\ c.pc = "run" /\ c.cons = "check"
          /\ c.accepted = o.accepted + Cardinality(w.ids \ dataset)
          /\ \E v \in Write : v.by = s /\ v.kind = "checkpoint" /\ v.state = "none"
                              /\ wq' = Append(T, v)
      BY <2>1, <2>3 DEF Answers, T
    <3>2. PICK v \in Write : v.by = s /\ v.state = "none" /\ wq' = Append(T, v)
      BY <3>1
    <3>3. /\ o.accepted = Cardinality(dataset)
          /\ \A i \in 1..Len(wq) : Batch(wq[i]) => wq[i].by # NoScan
      BY <1>2, <3>1 DEF Exact, Working
    <3>4. dataset' = dataset \cup w.ids
      BY <2>2, <2>3
    <3>5. dataset \in SUBSET Members /\ w.ids \in SUBSET Members
      BY <1>1 DEF ScannerInv, TypeInv, Write
    <3>6. c.accepted = Cardinality(dataset')
      BY <3>1, <3>3, <3>4, <3>5, NewMembers
    <3>7. /\ \A i \in 1..Len(wq') : wq'[i].state # "COMPLETED"
          /\ \A i \in 1..Len(wq') : Batch(wq'[i]) => wq'[i].by # NoScan
      BY <1>8, <3>2, <3>3
    <3>8. Exact(c, dataset', wq')
      BY <3>1, <3>6, <3>7 DEF Exact
    <3>9. row'.state = row.state /\ row.state # "COMPLETED"
      BY <1>2, <2>2, <2>3, <3>1
    <3> QED BY <1>2, <1>9, <2>1, <3>7, <3>8, <3>9
  <2>4. CASE w.kind = "checkpoint"
    <3>1. /\ o.pc = "run" /\ o.cons = "check" /\ c.pc = "run" /\ c.accepted = o.accepted
          /\ wq' = T /\ dataset' = dataset
      BY <2>1, <2>2, <2>4 DEF Answers, T
    <3>2. /\ o.accepted = Cardinality(dataset)
          /\ \A i \in 1..Len(wq) : Batch(wq[i]) => wq[i].by # NoScan
      BY <1>2, <3>1 DEF Exact, Working
    <3>3. Exact(c, dataset', wq')
      BY <1>3, <3>1, <3>2 DEF Exact
    <3>4. row'.state = row.state /\ row.state # "COMPLETED"
      BY <1>2, <2>2, <2>4, <3>1
    <3> QED BY <1>2, <1>4, <1>9, <2>1, <3>1, <3>3, <3>4
  <2>5. CASE w.kind = "state"
    <3>1. /\ <<o.pc, c.pc>> \in {<<"starting", "started">>, <<"final", "finalEvent">>,
                                 <<"failing", "failedEvent">>}
          /\ c.accepted = o.accepted /\ dataset' = dataset
          /\ \E v \in Write : v.by = s /\ v.kind = "event" /\ v.state = "none"
                              /\ wq' = Append(T, v)
      BY <2>1, <2>2, <2>5 DEF Answers, T
    <3>2. PICK v \in Write : v.kind = "event" /\ v.state = "none" /\ wq' = Append(T, v)
      BY <3>1
    <3>3. \A i \in 1..Len(wq') : wq'[i].state # "COMPLETED"
      BY <1>8, <3>2
    <3>4. NoBatch(wq) => NoBatch(wq')
      BY <1>8, <3>2 DEF Batch
    <3>5. row'.state = w.state /\ w.state # "PAUSED" /\ row'.accepted = w.accepted
      BY <1>1, <2>2, <2>5 DEF Recorded, Write, Terminal
    <3>6. row'.state = "COMPLETED" =>
            /\ row'.accepted = Cardinality(dataset') /\ NoBatch(wq')
            /\ c.pc \in {"none", "finalEvent", "failing", "failedEvent"}
      BY <1>7, <3>1, <3>4, <3>5
    <3>7. Exact(c, dataset', wq')
      <4>1. o.pc = "starting" => dataset = {} /\ NoBatch(wq) /\ o.accepted = 0
        BY <1>2 DEF Exact
      <4> HIDE DEF NoBatch
      <4> QED BY <3>1, <3>4, <4>1 DEF Exact
    <3> QED BY <1>9, <2>1, <3>3, <3>5, <3>6, <3>7
  <2>6. CASE w.kind = "event"
    <3>1. row' = row /\ dataset' = dataset
      BY <2>2, <2>6 DEF Recorded
    <3>2. CASE o.pc = "started" /\ c.pc = "run" /\ c.accepted = o.accepted /\ wq' = T
      <4>1. dataset = {} /\ NoBatch(wq) /\ o.accepted = 0
        BY <1>2, <3>2 DEF Exact
      <4>2. NoBatch(T) /\ Cardinality(dataset) = 0
        BY <1>5, <4>1, FS_EmptySet
      <4>3. Exact(c, dataset', wq')
        BY <3>1, <3>2, <4>1, <4>2 DEF Exact, NoBatch
      <4>4. row.state # "COMPLETED"
        BY <1>2, <3>2
      <4> QED BY <1>2, <1>4, <1>9, <2>1, <3>1, <3>2, <4>3, <4>4
    <3>3. CASE c = Idle /\ wq' = T
      BY <1>2, <1>4, <1>5, <1>6, <1>9, <2>1, <3>1, <3>3, IdleType
    <3> QED BY <2>1, <2>6, <3>2, <3>3 DEF Answers, T
  <2> QED BY <1>1, <2>3, <2>4, <2>5, <2>6 DEF Write
<1>11. CASE WriteFails
  <2>1. PICK c \in Call : scan' = [scan EXCEPT ![s] = c] /\ Refuses(s, o, c, wq, wq')
    BY <1>1, <1>11, RefusesStep DEF w
  <2>2. row' = row /\ dataset' = dataset
    BY <1>11 DEF WriteFails, dbVars
  <2>3. CASE c = Idle /\ wq' = T
    BY <1>2, <1>4, <1>5, <1>6, <1>9, <2>1, <2>2, <2>3, IdleType
  <2>4. CASE o.pc = "run" /\ c.pc = "run" /\ c.cons = "failed" /\ wq' = T
    <3>1. Exact(c, dataset', wq')
      BY <2>4 DEF Exact, Working
    <3> QED BY <1>2, <1>4, <1>9, <2>1, <2>2, <2>4, <3>1
  <2>5. CASE /\ c.pc = "failing"
             /\ \E v \in Write : v.kind = "state" /\ v.state = "FAILED" /\ wq' = Append(T, v)
    <3>1. PICK v \in Write : v.kind = "state" /\ v.state = "FAILED" /\ wq' = Append(T, v)
      BY <2>5
    <3>2. \A i \in 1..Len(wq') : wq'[i].state # "COMPLETED"
      BY <1>8, <3>1
    <3>3. NoBatch(wq) => NoBatch(wq')
      BY <1>8, <3>1 DEF Batch
    <3>4. Exact(c, dataset', wq')
      BY <2>5 DEF Exact
    <3> QED BY <1>2, <1>6, <1>9, <2>1, <2>2, <2>5, <3>2, <3>3, <3>4
  <2> QED BY <2>1, <2>3, <2>4, <2>5 DEF Refuses, T
<1> QED BY <1>10, <1>11

\* A write that nobody waits for is no batch as long as a counter is exact.
LEMMA FirstDrops ==
  ASSUME ScannerInv, FirstInv, restarts = 0, wq # <<>>, Head(wq).by = NoScan, scan' = scan,
         wq' = Tail(wq), UNCHANGED <<row, dataset>> \/ Commit(Head(wq))
  PROVE  FirstInv'
<1> DEFINE w == Head(wq)
<1>1. wq \in Seq(Write) /\ w \in Write /\ w.by = NoScan /\ TypeInv
  BY HeadFacts DEF ScannerInv, TypeInv
<1>2. /\ w = wq[1] /\ 1 \in 1..Len(wq)
      /\ \A i \in 1..Len(wq') : i + 1 \in 1..Len(wq) /\ wq'[i] = wq[i + 1]
  BY <1>1, TailAt
<1>3. UNCHANGED <<row, dataset>> \/ Commit(w)
  OBVIOUS
<1> HIDE DEF w
<1>4. /\ dataset' = dataset \/ (w.kind = "ingest" /\ dataset' = dataset \cup w.ids)
      /\ row'.state = row.state \/ (w.kind = "state" /\ row'.state = w.state)
      /\ \/ row'.accepted = row.accepted
         \/ Recorded(w) /\ row'.accepted = w.accepted
      /\ w.kind = "state" => row' = row \/ (row'.state = w.state /\ row'.accepted = w.accepted)
  BY <1>1, <1>3, CommitShape
<1>5. \A t \in Scans : Live(t)' = Live(t)
  BY DEF Live
<1>6. NoBatch(wq) => NoBatch(wq') /\ ~Batch(w)
  BY <1>2 DEF NoBatch
<1>7. ~Batch(w) => dataset' = dataset
  BY <1>4 DEF Batch
<1>8. ASSUME NEW t \in Scans, Live(t) PROVE Exact(scan[t], dataset', wq')
  <2>1. Exact(scan[t], dataset, wq)
    BY <1>8 DEF FirstInv
  <2>2. scan[t].pc \in {"queued", "starting", "started"} =>
          dataset' = {} /\ NoBatch(wq') /\ scan[t].accepted = 0
    BY <1>6, <1>7, <2>1 DEF Exact
  <2>3. ASSUME scan[t].pc = "run" /\ scan[t].cons \in Working
        PROVE  /\ scan[t].accepted = Cardinality(dataset')
               /\ \A i \in 1..Len(wq') : Batch(wq'[i]) => wq'[i].by # NoScan
    <3>1. /\ scan[t].accepted = Cardinality(dataset)
          /\ \A i \in 1..Len(wq) : Batch(wq[i]) => wq[i].by # NoScan
      BY <2>1, <2>3 DEF Exact
    <3>2. ~Batch(w)
      BY <1>1, <1>2, <3>1
    <3> QED BY <1>2, <1>7, <3>1, <3>2
  <2> QED BY <2>2, <2>3 DEF Exact
<1>9. w.state = "COMPLETED" => /\ w.accepted = Cardinality(dataset) /\ NoBatch(wq)
                               /\ \A t \in Scans : ~Live(t)
  <2>1. \A t \in Scans : t # NoScan
    BY ScannerAssumption
  <2> QED BY <1>1, <1>2, <2>1 DEF FirstInv
<1>10. row.state = "COMPLETED" =>
         /\ row.accepted = Cardinality(dataset) /\ NoBatch(wq)
         /\ \A t \in Scans : scan[t].pc \in {"none", "finalEvent", "failing", "failedEvent"}
  BY DEF FirstInv
<1>11. ASSUME row'.state = "COMPLETED"
       PROVE  /\ row'.accepted = Cardinality(dataset') /\ NoBatch(wq')
              /\ \A t \in Scans : scan'[t].pc \in {"none", "finalEvent", "failing", "failedEvent"}
  <2>1. CASE w.kind = "state" /\ row'.state = w.state /\ row'.accepted = w.accepted
    BY <1>6, <1>7, <1>9, <1>11, <2>1 DEF Live
  <2>2. CASE row.state = "COMPLETED" /\ row'.accepted = row.accepted
    BY <1>6, <1>7, <1>10, <2>2
  <2>3. CASE row.state = "COMPLETED" /\ w.kind # "state"
    <3>1. ~Recorded(w)
      BY <1>1, <1>6, <1>10, <2>3 DEF Recorded, Batch
    <3> QED BY <1>4, <2>2, <2>3, <3>1
  <2> QED BY <1>4, <1>11, <2>1, <2>2, <2>3
<1>12. ASSUME NEW i \in 1..Len(wq'), wq'[i].state = "COMPLETED"
       PROVE  /\ wq'[i].accepted = Cardinality(dataset') /\ NoBatch(wq')
              /\ \A t \in Scans : Live(t) => scan[t].pc = "final" /\ wq'[i].by = t
  <2>1. i + 1 \in 1..Len(wq) /\ wq'[i] = wq[i + 1]
    BY <1>2
  <2>2. /\ wq[i + 1].accepted = Cardinality(dataset) /\ NoBatch(wq)
        /\ \A t \in Scans : Live(t) => scan[t].pc = "final" /\ wq[i + 1].by = t
    BY <1>12, <2>1 DEF FirstInv
  <2> QED BY <1>6, <1>7, <2>1, <2>2
<1>13. row'.state # "PAUSED"
  BY <1>1, <1>4 DEF FirstInv, Write, Terminal
<1>14. \A t, u \in Scans : Live(t)' /\ Live(u)' => t = u
  BY <1>5 DEF FirstInv
<1>15. \A t \in Scans : Live(t)' => Exact(scan'[t], dataset', wq')
  BY <1>5, <1>8
<1> QED BY <1>5, <1>11, <1>12, <1>13, <1>14, <1>15 DEF FirstInv

LEMMA FirstStarts ==
  ASSUME ScannerInv, FirstInv, restarts = 0, NEW s \in Scans, StartScan(s) \/ ResumeScan(s)
  PROVE  FirstInv'
<1>1. CASE StartScan(s)
  <2> DEFINE c == [Idle EXCEPT !.pc = "queued"]
  <2>1. scan' = [scan EXCEPT ![s] = c] /\ UNCHANGED <<row, dataset, wq>> /\ prepared
    BY <1>1 DEF StartScan, dbVars
  <2>2. /\ wq = <<>> /\ dataset = {} /\ row.state = "READY" /\ \A t \in Scans : ~Live(t)
    BY <2>1 DEF ScannerInv, BeginInv
  <2>3. c \in Call /\ c.pc = "queued" /\ c.accepted = 0
    BY IdleType DEF Call
  <2> HIDE DEF c
  <2>4. Exact(c, dataset', wq') /\ row'.state = "READY" /\ wq' = <<>>
    BY <2>1, <2>2, <2>3 DEF Exact, NoBatch
  <2>5. row'.state # "PAUSED" /\ row'.state # "COMPLETED" /\ \A i \in 1..Len(wq') : FALSE
    BY <2>4
  <2> QED BY <2>1, <2>2, <2>3, <2>4, <2>5, FirstMoves
<1>2. CASE ResumeScan(s)
  BY <1>2 DEF ResumeScan, FirstInv
<1> QED BY <1>1, <1>2

LEMMA FirstOthers ==
  ASSUME ScannerInv, FirstInv, restarts = 0,
         CancelScan \/ ScanSource \/ Quit \/ Crash \/ UNCHANGED vars
  PROVE  FirstInv'
<1>1. row \in RowType /\ wq \in Seq(Write) /\ scan \in [Scans -> Call]
  BY DEF ScannerInv, TypeInv, RowType
<1>2. CASE CancelScan
  <2> DEFINE s == registered
             c == [scan[s] EXCEPT !.cancel = TRUE]
  <2>1. /\ s \in Scans /\ Live(s) /\ UNCHANGED <<row, dataset, wq>>
        /\ scan' = [scan EXCEPT ![s] = c]
    BY <1>1, <1>2 DEF CancelScan, Cancel, ScannerInv, TypeInv, dbVars
  <2>2. scan[s] \in Call
    BY <1>1, <2>1
  <2> HIDE DEF s
  <2>3. /\ c \in Call /\ c.pc = scan[s].pc /\ c.cons = scan[s].cons
        /\ c.accepted = scan[s].accepted
    BY <2>2 DEF Call
  <2> HIDE DEF c
  <2>4. (\A t \in Scans \ {s} : ~Live(t)) /\ Exact(scan[s], dataset, wq) /\ row.state # "PAUSED"
    BY <2>1, FirstFacts
  <2>5. Exact(c, dataset', wq')
    BY <2>1, <2>3, <2>4 DEF Exact
  <2>6. row.state = "COMPLETED" => /\ row.accepted = Cardinality(dataset) /\ NoBatch(wq)
                                   /\ c.pc \in {"none", "finalEvent", "failing", "failedEvent"}
    BY <2>1, <2>3 DEF FirstInv
  <2>7. \A i \in 1..Len(wq) :
          wq[i].state = "COMPLETED" =>
            /\ wq[i].accepted = Cardinality(dataset) /\ NoBatch(wq)
            /\ c.pc = "final" /\ wq[i].by = s
    BY <2>1, <2>3 DEF FirstInv
  <2> HIDE DEF NoBatch, Exact
  <2> QED BY <2>1, <2>3, <2>4, <2>5, <2>6, <2>7, FirstMoves
<1>3. CASE ScanSource
  <2>1. UNCHANGED <<scan, wq, dataset>> /\ row' = [row EXCEPT !.state = "READY"]
    BY <1>3 DEF ScanSource
  <2>2. row'.state = "READY"
    BY <1>1, <2>1 DEF RowType
  <2> QED BY <2>1, <2>2 DEF FirstInv, Live
<1>4. CASE Quit \/ Crash
  <2>1. UNCHANGED <<row, dataset>> /\ \A s \in Scans : scan'[s].pc = "none" /\ ~Live(s)'
    BY <1>4, IdleType DEF Quit, Crash, Vanish, Live, dbVars
  <2>2. Len(wq') \in 0..Len(wq) /\ \A i \in 1..Len(wq') : i \in 1..Len(wq) /\ Same(wq'[i], wq[i])
    <3>1. CASE Quit
      BY <1>1, <3>1, QuitQueue
    <3>2. CASE Crash
      <4>1. wq' = <<>> /\ Len(wq) \in Nat
        BY <1>1, <3>2 DEF Crash
      <4> QED BY <4>1
    <3> QED BY <1>4, <3>1, <3>2
  <2>3. NoBatch(wq) => NoBatch(wq')
    BY <2>2 DEF NoBatch, Batch, Same
  <2>4. \A i \in 1..Len(wq') :
          wq'[i].state = "COMPLETED" => wq'[i].accepted = Cardinality(dataset) /\ NoBatch(wq')
    BY <2>2, <2>3 DEF Same, FirstInv
  <2>5. row.state = "COMPLETED" => row.accepted = Cardinality(dataset) /\ NoBatch(wq')
    BY <2>3 DEF FirstInv
  <2>6. row.state # "PAUSED"
    BY DEF FirstInv
  <2> QED BY <2>1, <2>4, <2>5, <2>6 DEF FirstInv
<1>5. CASE UNCHANGED vars
  BY <1>5 DEF vars, dbVars, boundVars, FirstInv, Live
<1> QED BY <1>2, <1>3, <1>4, <1>5

LEMMA FirstStep ==
  ASSUME ScannerInv, FirstInv, [Next]_vars
  PROVE  FirstInv'
<1>1. CASE Restart
  <2>1. restarts' = restarts + 1 /\ restarts \in Nat
    BY <1>1 DEF Restart, ScannerInv, TypeInv
  <2> QED BY <2>1 DEF FirstInv
<1>2. CASE ~Restart
  <2>1. restarts' = restarts
    BY <1>2, SteppedStep
       DEF Next, ScanSource, CancelScan, StartScan, ResumeScan, WriteCommits, WriteFails, Quit,
           Crash, vars, boundVars
  <2> SUFFICES ASSUME restarts = 0 PROVE FirstInv'
    BY <2>1 DEF FirstInv
  <2>2. ASSUME NEW s \in Scans, StartScan(s) \/ ResumeScan(s) \/ ScanStep(s) PROVE FirstInv'
    BY <2>2, FirstStarts, FirstStepped
  <2>3. CASE WriteCommits \/ WriteFails
    <3>1. wq # <<>> /\ (UNCHANGED <<row, dataset>> \/ Commit(Head(wq)))
      BY <2>3 DEF WriteCommits, WriteFails, dbVars
    <3>2. CASE Head(wq).by = NoScan
      <4>1. wq' = Tail(wq) /\ scan' = scan
        BY <2>3, <3>2 DEF WriteCommits, WriteFails
      <4> QED BY <3>1, <3>2, <4>1, FirstDrops
    <3>3. CASE Head(wq).by # NoScan
      <4>1. Head(wq).by \in Scans
        BY <3>1, <3>3, HeadFacts
      <4> QED BY <2>3, <3>1, <4>1, FirstAnswers
    <3> QED BY <3>2, <3>3
  <2>4. CASE CancelScan \/ ScanSource \/ Quit \/ Crash \/ UNCHANGED vars
    BY <2>4, FirstOthers
  <2> QED BY <1>2, <2>2, <2>3, <2>4 DEF Next
<1> QED BY <1>1, <1>2

\* FirstInv is inductive together with ScannerInv.
THEOREM FirstInvCorrect == Spec => []FirstInv
<1>1. Init => FirstInv
  <2> SUFFICES ASSUME Init PROVE FirstInv
    OBVIOUS
  <2>1. wq = <<>> /\ scan = [s \in Scans |-> Idle] /\ row.state = "none"
    BY DEF Init
  <2>2. \A s \in Scans : ~Live(s)
    BY <2>1, IdleType DEF Live
  <2> QED BY <2>1, <2>2 DEF FirstInv
<1>2. ScannerInv /\ FirstInv /\ [Next]_vars => FirstInv'
  BY FirstStep
<1> QED BY <1>1, <1>2, ScannerInvCorrect, PTL DEF Spec

\* The counter of a scan never exceeds its dataset, and without a restart the counter of a
\* finished scan is exact.
THEOREM AcceptedIsExactCorrect == Spec => []AcceptedIsExact
<1>1. ScannerInv /\ FirstInv => AcceptedIsExact
  BY DEF ScannerInv, CountInv, AtMost, FirstInv, AcceptedIsExact
<1> QED BY <1>1, ScannerInvCorrect, FirstInvCorrect, PTL
=============================================================================
