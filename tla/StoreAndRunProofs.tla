--------------------------- MODULE StoreAndRunProofs --------------------------
(***************************************************************************)
(* Theorems about MemberStore and about the two objects that one run of a  *)
(* migration job owns, InviteScheduler and CandidateBuffer; the modules    *)
(* share no name.                                                          *)
(*                                                                         *)
(* MemberStore: for all sets of ids, names and batches, any number of rows *)
(* and datasets and every page size.  Tables are related by Follows, which *)
(* every transaction satisfies and which is transitive: whoever a dataset  *)
(* covers stays covered, and a row leaves a dataset only by being deleted  *)
(* for good (AUTOINCREMENT).  The batch of an ingest is a recursive        *)
(* function over its records; that its loop is defined and what it keeps   *)
(* is shown by counting up (UpTo).                                         *)
(*                                                                         *)
(* CandidateBuffer: its steps are steps of PendingItems, for all sets of   *)
(* items, chunk sizes and watermarks.                                      *)
(*                                                                         *)
(* Both modules read tables by ORDER BY and LIMIT; the first section is    *)
(* about that.                                                             *)
(***************************************************************************)
EXTENDS MemberStore, InviteScheduler, CandidateBuffer,
        FiniteSetTheorems, SequenceTheorems, WellFoundedInduction, TLAPS

\* Counting up.
LEMMA UpTo ==
  ASSUME NEW N \in Nat, NEW S, 0 \in S, \A n \in 0..N : n < N /\ n \in S => n + 1 \in S
  PROVE  0..N \subseteq S
<1> DEFINE Missing == 0..N \ S
<1>1. SUFFICES ASSUME Missing # {} PROVE FALSE
  OBVIOUS
<1>2. Missing \subseteq Nat
  OBVIOUS
<1>3. PICK m \in Missing : \A l \in Missing : ~(<<l, m>> \in OpToRel(<, Nat))
  <2> HIDE DEF Missing
  <2> QED BY <1>1, <1>2, NatLessThanWellFounded, WFMin, Zenon
<1>4. m \in 0..N /\ m \notin S /\ m # 0
  OBVIOUS
<1> DEFINE n == m - 1
<1>5. n \in Nat /\ m \in Nat /\ n < m /\ n \in 0..N /\ n < N /\ n + 1 = m
  BY <1>4
<1> HIDE DEF n
<1>6. <<n, m>> \in OpToRel(<, Nat)
  BY <1>5 DEF OpToRel
<1>7. n \in S
  BY <1>3, <1>5, <1>6
<1> QED BY <1>4, <1>5, <1>7

-----------------------------------------------------------------------------
(* The first rows of a set of rows.                                        *)

Rank(R, i)  == Cardinality({j \in R : j < i})
First(R, k) == {i \in R : Rank(R, i) < k}

\* Sets of row ids or ordinals: what a query returns.
RowSets == {R \in SUBSET Nat : IsFiniteSet(R)}

\* Ranks are natural numbers.
LEMMA RankType ==
  ASSUME NEW R \in RowSets, NEW i
  PROVE  /\ IsFiniteSet(R) /\ IsFiniteSet({j \in R : j < i}) /\ Rank(R, i) \in Nat
         /\ \A k : IsFiniteSet(First(R, k)) /\ Cardinality(First(R, k)) \in Nat
<1>1. IsFiniteSet(R)
  BY DEF RowSets
<1>2. IsFiniteSet({j \in R : j < i}) /\ \A k : IsFiniteSet(First(R, k))
  BY <1>1, FS_Subset DEF First
<1> QED BY <1>1, <1>2, FS_CardinalityType DEF Rank

\* More rows before it, a higher rank.
LEMMA RankGrows ==
  ASSUME NEW R \in RowSets, NEW S \in RowSets, NEW i, NEW j,
         {l \in R : l < i} \subseteq {l \in S : l < j}
  PROVE  Rank(R, i) <= Rank(S, j)
<1>1. IsFiniteSet({l \in S : l < j})
  BY RankType
<1> QED BY <1>1, FS_Subset DEF Rank

\* Every set of rows has a first one.
LEMMA LeastId ==
  ASSUME NEW R \in RowSets, R # {}
  PROVE  \E i \in R : \A j \in R : i <= j
<1>1. PICK i \in R : \A j \in R : ~(<<j, i>> \in OpToRel(<, Nat))
  <2>1. R \subseteq Nat
    BY DEF RowSets
  <2> QED BY <2>1, NatLessThanWellFounded, WFMin, Zenon
<1>2. \A j \in R : j \in Nat /\ i \in Nat
  BY DEF RowSets
<1>3. \A j \in R : ~(j < i)
  BY <1>1, <1>2 DEF OpToRel
<1> QED BY <1>2, <1>3

\* Counting from 0, there are no first rows.
LEMMA FirstNone == \A R \in RowSets : First(R, 0) = {}
<1> SUFFICES ASSUME NEW R \in RowSets PROVE First(R, 0) = {}
  OBVIOUS
<1>1. \A i \in R : Rank(R, i) \in Nat
  BY RankType
<1> QED BY <1>1 DEF First

\* When the first k rows are k, and not all, the next one has rank k.
LEMMA FirstNext ==
  ASSUME NEW R \in RowSets, NEW k \in Nat, First(R, k) # R, Cardinality(First(R, k)) = k
  PROVE  /\ \E i \in R : Rank(R, i) = k
         /\ Cardinality(First(R, k + 1)) = k + 1
<1> DEFINE F == First(R, k)
<1>0. F \subseteq R /\ R \ F \in RowSets /\ R \ F # {}
  BY FS_Subset DEF First, RowSets
<1>1. PICK i \in R \ F : \A j \in R \ F : i <= j
  BY <1>0, LeastId
<1>2. /\ \A j \in R : j \in Nat /\ Rank(R, j) \in Nat
      /\ \A j \in R : j \in F <=> Rank(R, j) < k
  BY RankType DEF RowSets, First
<1> HIDE DEF F
<1>3. {j \in R : j < i} = F
  <2>1. ASSUME NEW j \in R, j < i PROVE j \in F
    BY <1>1, <1>2, <2>1
  <2>2. ASSUME NEW j \in F PROVE j \in R /\ j < i
    <3>1. j \in R /\ j # i /\ Rank(R, j) < k /\ ~(Rank(R, i) < k)
      BY <1>0, <1>1, <1>2
    <3>2. CASE i < j
      <4>1. {l \in R : l < i} \subseteq {l \in R : l < j}
        BY <1>1, <1>2, <3>1, <3>2
      <4>2. Rank(R, i) <= Rank(R, j)
        BY <4>1, RankGrows
      <4> QED BY <1>1, <1>2, <3>1, <4>2
    <3> QED BY <1>1, <1>2, <3>1, <3>2
  <2> QED BY <2>1, <2>2
<1>4. Rank(R, i) = k
  BY <1>3 DEF Rank, F
<1>5. First(R, k + 1) = F \cup {i}
  <2>1. ASSUME NEW j \in R, Rank(R, j) < k + 1 PROVE j \in F \cup {i}
    <3>1. SUFFICES ASSUME j \notin F, j # i PROVE FALSE
      OBVIOUS
    <3>2. i < j
      BY <1>1, <1>2, <3>1
    <3>3. {l \in R : l < i} \cup {i} \subseteq {l \in R : l < j}
      BY <1>1, <1>2, <3>2
    <3>4. IsFiniteSet({l \in R : l < j}) /\ IsFiniteSet({l \in R : l < i})
      BY RankType
    <3>5. i \notin {l \in R : l < i}
      BY <1>1, <1>2
    <3>6. Cardinality({l \in R : l < i} \cup {i}) = k + 1
      BY <1>4, <3>4, <3>5, FS_AddElement DEF Rank
    <3>7. k + 1 <= Rank(R, j)
      BY <3>3, <3>4, <3>6, FS_Subset DEF Rank
    <3> QED BY <1>2, <2>1, <3>7
  <2>2. \A j \in F : j \in R /\ Rank(R, j) < k + 1
    BY <1>0, <1>2
  <2> QED BY <1>1, <1>4, <2>1, <2>2 DEF First
<1>6. IsFiniteSet(F) /\ i \notin F
  BY <1>1, RankType DEF F
<1> QED BY <1>1, <1>4, <1>5, <1>6, FS_AddElement DEF F

\* There are k first rows, unless all are.
LEMMA FirstCount ==
  ASSUME NEW R \in RowSets, NEW k \in Nat
  PROVE  /\ Cardinality(First(R, k)) <= k
         /\ First(R, k) # R => Cardinality(First(R, k)) = k /\ \E i \in R : Rank(R, i) = k
<1> DEFINE P(m) == Cardinality(First(R, m)) <= m /\
                     (First(R, m) # R => Cardinality(First(R, m)) = m)
           S == {m \in 0..k : P(m)}
<1>0. \A m : Cardinality(First(R, m)) \in Nat
  BY RankType
<1>1. P(0)
  BY FirstNone, FS_EmptySet
<1>2. ASSUME NEW m \in Nat, P(m) PROVE P(m + 1)
  <2>1. CASE First(R, m) = R
    <3>1. First(R, m + 1) = R
      <4>1. \A i \in R : Rank(R, i) \in Nat /\ Rank(R, i) < m
        BY <2>1, RankType DEF First
      <4>2. \A i \in R : Rank(R, i) < m + 1
        BY <4>1
      <4> QED BY <4>2 DEF First
    <3> QED BY <1>0, <1>2, <2>1, <3>1
  <2>2. CASE First(R, m) # R
    BY <1>2, <2>2, FirstNext
  <2> QED BY <2>1, <2>2
<1> HIDE DEF P
<1>3. 0 \in S /\ \A m \in 0..k : m < k /\ m \in S => m + 1 \in S
  BY <1>1, <1>2
<1> HIDE DEF S
<1>4. 0..k \subseteq S
  BY <1>3, UpTo
<1>5. P(k)
  BY <1>4 DEF S
<1> QED BY <1>5, FirstNext DEF P

-----------------------------------------------------------------------------
(* The member store: tables, and writing one row of them or merging two.   *)

\* A row that was given away and deleted: its id will not come again.
Gone(t, i) == i < t.next /\ t.row[i] = NoRow

\* Row i is the member that is asked for by k.
Known(t, i, k) ==
  \/ k \in Uids /\ t.row[i].uid = k
  \/ k \in Names /\ (t.row[i] = [uid |-> NoUid, name |-> k] \/ <<k, t.row[i].uid>> \in t.became)

\* p is a dataset and an id or a name: the dataset has that member.
Covers(t, p) == \E i \in Ids : <<p[1], i>> \in t.in /\ Known(t, i, p[2])

\* What every transaction leaves behind: unused ids have no row, memberships
\* refer to rows, ids and name-only rows are unique, plans refer to rows with an id.
Consistent(t) ==
  /\ t \in Tables /\ t.next \in Nat \ {0}
  /\ \A i \in Ids : i >= t.next => t.row[i] = NoRow
  /\ \A p \in t.in : t.row[p[2]] # NoRow
  /\ \A i, j \in Ids : t.row[i].uid # NoUid /\ t.row[i].uid = t.row[j].uid => i = j
  /\ \A i, j \in Ids : t.row[i] # NoRow /\ t.row[i] = t.row[j] => i = j
  /\ \A i \in t.item : t.row[i].uid # NoUid

\* What tables s keep of tables t.
Follows(t, s) ==
  /\ t.next <= s.next
  /\ \A p \in Datasets \X (Uids \cup Names) : Covers(t, p) => Covers(s, p)
  /\ \A p \in t.in : p \in s.in \/ Gone(s, p[2])
  /\ \A i \in Ids : Gone(t, i) => Gone(s, i)

\* The ids are 1..n for some n.
LEMMA IdNumbers ==
  /\ Cardinality(Ids) \in Nat /\ Ids = 1..Cardinality(Ids) /\ Ids \subseteq Nat \ {0}
  /\ IsFiniteSet(Ids)
<1>1. Cardinality(Ids) \in Nat /\ Ids = 1..Cardinality(Ids) /\ IsFiniteSet(Ids)
  BY StoreAssumption, FS_CardinalityType
<1> QED BY <1>1

\* Sets of ids are such sets.
LEMMA IdSets == \A R \in SUBSET Ids : R \in RowSets
BY IdNumbers, FS_Subset DEF RowSets

RowSet   == [uid : Uids \cup {NoUid}, name : Names \cup {NoName}]
Readable == [uid : Uids \cup {NoUid}, name : Names \cup {NoName}, hash : BOOLEAN]

\* A row that says nothing is nobody's.
LEMMA NoRowUnknown ==
  ASSUME NEW t \in Tables, NEW i \in Ids, NEW k, t.row[i] = NoRow
  PROVE  ~Known(t, i, k)
<1>1. t.row[i].uid = NoUid /\ NoUid \notin Uids /\ NoName \notin Names
  BY StoreAssumption DEF NoRow
<1>2. t.became \subseteq Names \X Uids
  BY DEF Tables
<1>3. \A n \in Names : t.row[i] # [uid |-> NoUid, name |-> n]
  <2>1. \A n : NoRow = [uid |-> NoUid, name |-> n] => n = NoName
    <3> TAKE n
    <3>1. [uid |-> NoUid, name |-> n].name = n /\ NoRow.name = NoName
      BY DEF NoRow
    <3> QED BY <3>1
  <2> QED BY <1>1, <2>1
<1> QED BY <1>1, <1>2, <1>3 DEF Known

\* Tables that keep the rows they have covered follow.
LEMMA CoversKept ==
  ASSUME NEW t, NEW s, t.in \subseteq s.in,
         \A i \in Ids : \A k : Known(t, i, k) => Known(s, i, k)
  PROVE  \A p : Covers(t, p) => Covers(s, p)
BY DEF Covers

\* One row written: a new one, a new name, or a name-only row that gets its id.
LEMMA WriteRow ==
  ASSUME NEW t, Consistent(t), NEW s \in Tables, NEW i \in Ids, NEW e \in RowSet, e # NoRow,
         s.row = [t.row EXCEPT ![i] = e], s.in = t.in, s.item = t.item,
         s.next \in {t.next, t.next + 1}, i < s.next, t.became \subseteq s.became,
         t.row[i].uid # NoUid => e.uid = t.row[i].uid,
         \A j \in Ids : e.uid # NoUid /\ t.row[j].uid = e.uid => j = i,
         \A j \in Ids : t.row[j] = e => j = i,
         t.row[i] = NoRow => i >= t.next,
         \A n \in Names : t.row[i] = [uid |-> NoUid, name |-> n] => <<n, e.uid>> \in s.became
  PROVE  Consistent(s) /\ Follows(t, s)
<1>1. /\ t \in Tables /\ t.next \in Nat \ {0}
      /\ \A j \in Ids : j >= t.next => t.row[j] = NoRow
      /\ \A p \in t.in : t.row[p[2]] # NoRow
      /\ \A j, l \in Ids : t.row[j].uid # NoUid /\ t.row[j].uid = t.row[l].uid => j = l
      /\ \A j, l \in Ids : t.row[j] # NoRow /\ t.row[j] = t.row[l] => j = l
      /\ \A j \in t.item : t.row[j].uid # NoUid
  BY DEF Consistent
<1>2. /\ t.row \in [Ids -> RowSet] /\ t.in \subseteq Datasets \X Ids /\ t.item \subseteq Ids
      /\ t.became \subseteq Names \X Uids
  BY <1>1 DEF Tables, RowSet
<1>3. /\ s.row[i] = e /\ \A j \in Ids : j # i => s.row[j] = t.row[j]
  BY <1>2
<1>4. s.next \in Nat \ {0} /\ t.next <= s.next /\ Ids \subseteq Nat
  BY <1>1, IdNumbers
<1>5. \A j \in Ids : j >= s.next => s.row[j] = NoRow
  BY <1>1, <1>3, <1>4
<1>6. \A p \in s.in : p[2] \in Ids /\ s.row[p[2]] # NoRow
  <2>1. \A p \in t.in : p[2] \in Ids
    BY <1>2
  <2> QED BY <1>1, <1>3, <2>1
<1>7. \A j, l \in Ids : s.row[j].uid # NoUid /\ s.row[j].uid = s.row[l].uid => j = l
  <2> SUFFICES ASSUME NEW j \in Ids, NEW l \in Ids, s.row[j].uid # NoUid,
                      s.row[j].uid = s.row[l].uid
               PROVE  j = l
    OBVIOUS
  <2>1. CASE j # i /\ l # i
    BY <1>1, <1>3, <2>1
  <2>2. CASE j = i \/ l = i
    BY <1>3, <2>2
  <2> QED BY <2>1, <2>2
<1>8. \A j, l \in Ids : s.row[j] # NoRow /\ s.row[j] = s.row[l] => j = l
  <2> SUFFICES ASSUME NEW j \in Ids, NEW l \in Ids, s.row[j] # NoRow, s.row[j] = s.row[l]
               PROVE  j = l
    OBVIOUS
  <2>1. CASE j # i /\ l # i
    BY <1>1, <1>3, <2>1
  <2>2. CASE j = i \/ l = i
    BY <1>3, <2>2
  <2> QED BY <2>1, <2>2
<1>9. \A j \in s.item : s.row[j].uid # NoUid
  BY <1>1, <1>2, <1>3
<1>10. Consistent(s)
  BY <1>4, <1>5, <1>6, <1>7, <1>8, <1>9 DEF Consistent
<1>11. ASSUME NEW j \in Ids, NEW k, Known(t, j, k) PROVE Known(s, j, k)
  <2>1. CASE j # i
    BY <1>3, <1>11, <2>1 DEF Known
  <2>2. CASE j = i /\ t.row[i].uid # NoUid
    <3>1. ~(k \in Names /\ t.row[i] = [uid |-> NoUid, name |-> k])
      BY <2>2
    <3> QED BY <1>3, <1>11, <2>2, <3>1 DEF Known
  <2>3. CASE j = i /\ t.row[i].uid = NoUid
    <3>1. NoUid \notin Uids
      BY StoreAssumption
    <3>2. k \in Names /\ t.row[i] = [uid |-> NoUid, name |-> k]
      BY <1>2, <1>11, <2>3, <3>1 DEF Known
    <3> QED BY <1>3, <2>3, <3>2 DEF Known
  <2> QED BY <2>1, <2>2, <2>3
<1>12. \A p : Covers(t, p) => Covers(s, p)
  BY <1>11, CoversKept
<1>13. \A j \in Ids : Gone(t, j) => Gone(s, j)
  <2> SUFFICES ASSUME NEW j \in Ids, Gone(t, j) PROVE Gone(s, j)
    OBVIOUS
  <2>1. j < t.next /\ t.row[j] = NoRow /\ j \in Nat
    BY <1>4 DEF Gone
  <2>2. j # i
    BY <1>1, <2>1
  <2> QED BY <1>1, <1>3, <1>4, <2>1, <2>2 DEF Gone
<1> QED BY <1>4, <1>10, <1>12, <1>13 DEF Follows

\* The name-only row f joins the row i of its id.
LEMMA MergeRows ==
  ASSUME NEW t, Consistent(t), NEW f \in Ids, NEW i \in Ids, NEW n \in Names,
         t.row[f] = [uid |-> NoUid, name |-> n], t.row[i].uid # NoUid
  PROVE  LET s == Merge(t, f, i) IN
         /\ Consistent(s) /\ Follows(t, s) /\ s.item = t.item /\ s.next = t.next
         /\ s.row[i] = t.row[i]
<1> DEFINE s == Merge(t, f, i)
<1>1. /\ t \in Tables /\ t.next \in Nat \ {0}
      /\ \A j \in Ids : j >= t.next => t.row[j] = NoRow
      /\ \A p \in t.in : t.row[p[2]] # NoRow
      /\ \A j, l \in Ids : t.row[j].uid # NoUid /\ t.row[j].uid = t.row[l].uid => j = l
      /\ \A j, l \in Ids : t.row[j] # NoRow /\ t.row[j] = t.row[l] => j = l
      /\ \A j \in t.item : t.row[j].uid # NoUid
  BY DEF Consistent
<1>2. /\ t.row \in [Ids -> RowSet] /\ t.in \subseteq Datasets \X Ids /\ t.item \subseteq Ids
      /\ t.prov \subseteq Datasets \X Ids /\ t.became \subseteq Names \X Uids
      /\ t.made \subseteq Datasets /\ t.peer \subseteq Uids /\ t.next \in Nat
  BY <1>1 DEF Tables, RowSet
<1>3. /\ s.row = [t.row EXCEPT ![f] = NoRow] /\ s.in = Moved(t.in, f, i)
      /\ s.prov = Moved(t.prov, f, i) /\ s.made = t.made /\ s.item = t.item
      /\ s.peer = t.peer /\ s.next = t.next
      /\ s.became = t.became \cup {<<t.row[f].name, t.row[i].uid>>}
  BY <1>1 DEF Merge, Tables
<1>4. t.row[f].name = n /\ t.row[f].uid = NoUid /\ t.row[i].uid \in Uids /\ f # i
  BY <1>2 DEF RowSet
<1>5. NoRow \in RowSet /\ NoRow.uid = NoUid /\ t.row[i] # NoRow
  BY <1>4 DEF NoRow, RowSet
<1>6. \A P : P \subseteq Datasets \X Ids => Moved(P, f, i) \subseteq Datasets \X Ids
  BY DEF Moved
<1>7. s \in Tables
  <2>1. s.row \in [Ids -> RowSet] /\ s.became \subseteq Names \X Uids
    BY <1>2, <1>3, <1>4, <1>5
  <2>2. s.in \subseteq Datasets \X Ids /\ s.prov \subseteq Datasets \X Ids
    BY <1>2, <1>3, <1>6
  <2>3. /\ [t.row EXCEPT ![f] = NoRow] \in [Ids -> RowSet]
        /\ t.became \cup {<<t.row[f].name, t.row[i].uid>>} \subseteq Names \X Uids
        /\ Moved(t.in, f, i) \subseteq Datasets \X Ids
        /\ Moved(t.prov, f, i) \subseteq Datasets \X Ids
    BY <1>3, <2>1, <2>2
  <2> QED BY <1>1, <2>3 DEF Merge, Tables, RowSet
<1>8. s.row[f] = NoRow /\ \A j \in Ids : j # f => s.row[j] = t.row[j]
  BY <1>2, <1>3
<1>9. \A p \in s.in : p[2] \in Ids /\ p[2] # f /\ s.row[p[2]] # NoRow
  <2> SUFFICES ASSUME NEW p \in s.in PROVE p[2] \in Ids /\ p[2] # f /\ s.row[p[2]] # NoRow
    OBVIOUS
  <2>1. CASE p \in t.in /\ p[2] # f
    BY <1>1, <1>2, <1>8, <2>1
  <2>2. CASE p[2] = i
    BY <1>4, <1>5, <1>8, <2>2
  <2> QED BY <1>3, <2>1, <2>2 DEF Moved
<1> HIDE DEF s
<1>10. f \notin t.item /\ f < t.next
  <2>1. t.row[f] # NoRow
    <3>1. [uid |-> NoUid, name |-> n].name = n /\ NoRow.name = NoName /\ NoName \notin Names
      BY StoreAssumption DEF NoRow
    <3> QED BY <3>1
  <2> QED BY <1>1, <1>4, <2>1, IdNumbers
<1>11. \A j, l \in Ids : s.row[j].uid # NoUid /\ s.row[j].uid = s.row[l].uid => j = l
  BY <1>1, <1>5, <1>8
<1>12. \A j, l \in Ids : s.row[j] # NoRow /\ s.row[j] = s.row[l] => j = l
  BY <1>1, <1>8
<1>13. \A j \in s.item : s.row[j].uid # NoUid
  BY <1>1, <1>2, <1>3, <1>8, <1>10
<1>14. \A j \in Ids : j >= s.next => s.row[j] = NoRow
  BY <1>1, <1>3, <1>8
<1>15. Consistent(s)
  BY <1>1, <1>3, <1>7, <1>9, <1>11, <1>12, <1>13, <1>14 DEF Consistent
<1>16. ASSUME NEW p, Covers(t, p) PROVE Covers(s, p)
  <2>1. PICK j \in Ids : <<p[1], j>> \in t.in /\ Known(t, j, p[2])
    BY <1>16 DEF Covers
  <2>2. CASE j # f
    <3>1. Known(s, j, p[2])
      BY <1>3, <1>8, <2>1, <2>2 DEF Known
    <3>2. <<p[1], j>> \in s.in
      BY <1>3, <2>1, <2>2 DEF Moved
    <3> QED BY <3>1, <3>2 DEF Covers
  <2>3. CASE j = f
    <3>1. NoUid \notin Uids
      BY StoreAssumption
    <3>2. p[2] \in Names /\ t.row[f] = [uid |-> NoUid, name |-> p[2]]
      BY <1>2, <1>4, <2>1, <2>3, <3>1 DEF Known
    <3>3. p[2] = n
      <4>1. [uid |-> NoUid, name |-> p[2]].name = p[2]
        OBVIOUS
      <4> QED BY <1>4, <3>2, <4>1
    <3>4. <<n, t.row[i].uid>> \in s.became /\ s.row[i] = t.row[i]
      BY <1>3, <1>4, <1>8
    <3>5. Known(s, i, p[2])
      BY <3>3, <3>4 DEF Known
    <3>6. <<p[1], i>> \in s.in
      BY <1>3, <2>1, <2>3 DEF Moved
    <3> QED BY <3>5, <3>6 DEF Covers
  <2> QED BY <2>2, <2>3
<1>17. \A p \in t.in : p \in s.in \/ Gone(s, p[2])
  BY <1>3, <1>8, <1>10 DEF Moved, Gone
<1>18. \A j \in Ids : Gone(t, j) => Gone(s, j)
  BY <1>3, <1>8 DEF Gone
<1>19. Follows(t, s)
  <2>1. t.next <= s.next
    BY <1>1, <1>3
  <2> QED BY <1>16, <1>17, <1>18, <2>1 DEF Follows
<1> QED BY <1>3, <1>4, <1>8, <1>15, <1>19 DEF s

-----------------------------------------------------------------------------
(* MemberRepository._upsert_one.                                           *)

\* What a step with one member did to the tables.
Grown(t, s) ==
  Consistent(s) /\ Follows(t, s) /\ s.item = t.item /\ s.next \in {t.next, t.next + 1}

\* What an upsert returns for a cleaned member m.
Result(t, m, r) ==
  /\ Grown(t, r.tab) /\ r.id \in Ids /\ r.tab.row[r.id] # NoRow
  /\ IF m.uid # NoUid THEN r.tab.row[r.id].uid = m.uid
     ELSE r.tab.row[r.id] = [uid |-> NoUid, name |-> m.name]

\* The types of the columns.
LEMMA ConsistentFacts ==
  ASSUME NEW t, Consistent(t)
  PROVE  /\ t \in Tables /\ t.next \in Nat \ {0}
         /\ t.row \in [Ids -> RowSet] /\ t.in \subseteq Datasets \X Ids /\ t.item \subseteq Ids
         /\ t.became \subseteq Names \X Uids
BY DEF Consistent, Tables, RowSet

\* Doing nothing keeps everything.
LEMMA FollowsSelf ==
  ASSUME NEW t, Consistent(t)
  PROVE  Follows(t, t) /\ Grown(t, t)
BY ConsistentFacts DEF Follows, Grown

\* Two steps keep what each of them keeps.
LEMMA FollowsChain ==
  ASSUME NEW t, NEW s, NEW v, Consistent(t), Consistent(s), Consistent(v), Follows(t, s), Follows(s, v)
  PROVE  Follows(t, v)
<1>1. t.next <= v.next
  <2>1. t.next \in Nat /\ s.next \in Nat /\ v.next \in Nat
    BY ConsistentFacts
  <2>2. t.next <= s.next /\ s.next <= v.next
    BY DEF Follows
  <2> QED BY <2>1, <2>2
<1>2. \A p \in Datasets \X (Uids \cup Names) : Covers(t, p) => Covers(v, p)
  BY DEF Follows
<1>3. \A i \in Ids : Gone(t, i) => Gone(v, i)
  BY DEF Follows
<1>4. \A p \in t.in : p \in v.in \/ Gone(v, p[2])
  <2>1. \A p \in t.in : p[2] \in Ids
    BY ConsistentFacts
  <2> QED BY <2>1 DEF Follows
<1> QED BY <1>1, <1>2, <1>3, <1>4 DEF Follows

\* INSERT of a member with a new id or a new name.
LEMMA InsertedResult ==
  ASSUME NEW t, Consistent(t), NEW m \in Readable, t.next \in Ids,
         m.uid # NoUid => ById(t, m.uid) = {},
         m.uid = NoUid => m.name # NoName /\ Fallback(t, m.name) = {}
  PROVE  Result(t, m, Inserted(t, m))
<1> DEFINE e == [uid |-> m.uid, name |-> m.name]
           s == [Put(t, t.next, m.uid, m.name) EXCEPT !.next = @ + 1]
<1>1. /\ Inserted(t, m).tab = s /\ Inserted(t, m).id = t.next
  BY DEF Inserted, NewId
<1>2. /\ e \in RowSet /\ e.uid = m.uid /\ e.name = m.name
      /\ m.uid \in Uids \cup {NoUid} /\ m.name \in Names \cup {NoName}
  BY DEF Readable, RowSet
<1>3. t.row[t.next] = NoRow /\ NoRow.uid = NoUid /\ NoRow.name = NoName /\ t.next \in Nat
  BY ConsistentFacts DEF Consistent, NoRow
<1>4. /\ s \in Tables /\ s.row = [t.row EXCEPT ![t.next] = e] /\ s.in = t.in
      /\ s.item = t.item /\ s.became = t.became /\ s.next = t.next + 1
  <2>1. t \in Tables /\ t.next + 1 \in Nat
    BY ConsistentFacts
  <2>2. [t.row EXCEPT ![t.next] = e] \in [Ids -> RowSet]
    BY <1>2, ConsistentFacts
  <2> QED BY <2>1, <2>2 DEF Put, Tables, RowSet
<1>5. e # NoRow
  BY <1>2, <1>3
<1>6. \A j \in Ids : e.uid # NoUid /\ t.row[j].uid = e.uid => j = t.next
  BY <1>2 DEF ById
<1>7. \A j \in Ids : t.row[j] = e => j = t.next
  <2> SUFFICES ASSUME NEW j \in Ids, t.row[j] = e PROVE FALSE
    OBVIOUS
  <2>1. CASE m.uid # NoUid
    BY <1>2, <2>1 DEF ById
  <2>2. CASE m.uid = NoUid
    BY <1>2, <2>2 DEF Fallback
  <2> QED BY <2>1, <2>2
<1>8. \A n \in Names : t.row[t.next] # [uid |-> NoUid, name |-> n]
  <2>1. \A n : [uid |-> NoUid, name |-> n].name = n
    OBVIOUS
  <2> QED BY <1>3, <2>1, StoreAssumption
<1>9. s.row[t.next] = e
  BY <1>4, ConsistentFacts
<1> HIDE DEF s, e
<1>10. Consistent(s) /\ Follows(t, s)
  BY <1>2, <1>3, <1>4, <1>5, <1>6, <1>7, <1>8, WriteRow
<1> QED BY <1>1, <1>2, <1>4, <1>5, <1>9, <1>10 DEF Result, Grown, e

\* One chooses a member.
LEMMA OneOf ==
  ASSUME NEW S, S # {}
  PROVE  One(S) \in S
BY DEF One

\* INSERT ... ON CONFLICT DO UPDATE: a new row, or the row of the id under its name.
LEMMA StoredResult ==
  ASSUME NEW t, Consistent(t), NEW m \in Readable, m.uid # NoUid, t.next \in Ids
  PROVE  /\ Result(t, m, Stored(t, m))
         /\ ById(t, m.uid) # {} =>
              /\ Stored(t, m).id \in ById(t, m.uid)
              /\ Stored(t, m).tab.next = t.next
              /\ \A j \in Ids : j # Stored(t, m).id => Stored(t, m).tab.row[j] = t.row[j]
<1>1. CASE ById(t, m.uid) = {}
  <2>1. Stored(t, m) = Inserted(t, m)
    BY <1>1 DEF Stored
  <2> QED BY <1>1, <2>1, InsertedResult
<1>2. CASE ById(t, m.uid) # {}
  <2> DEFINE i == One(ById(t, m.uid))
             e == [uid |-> m.uid, name |-> m.name]
             s == Put(t, i, m.uid, m.name)
  <2>1. Stored(t, m).tab = s /\ Stored(t, m).id = i
    BY <1>2 DEF Stored
  <2>2. i \in ById(t, m.uid) /\ i \in Ids /\ t.row[i].uid = m.uid
    BY <1>2, OneOf DEF ById
  <2>3. /\ e \in RowSet /\ e.uid = m.uid /\ e.name = m.name
        /\ m.uid \in Uids \cup {NoUid} /\ m.name \in Names \cup {NoName}
    BY DEF Readable, RowSet
  <2>4. NoRow.uid = NoUid /\ e # NoRow /\ t.row[i] # NoRow
    BY <2>2, <2>3 DEF NoRow
  <2>5. /\ s \in Tables /\ s.row = [t.row EXCEPT ![i] = e] /\ s.in = t.in
        /\ s.item = t.item /\ s.became = t.became /\ s.next = t.next
    <3> HIDE DEF i
    <3>1. [t.row EXCEPT ![i] = e] \in [Ids -> RowSet] /\ t \in Tables
      BY <2>3, ConsistentFacts
    <3> QED BY <3>1 DEF Put, Tables, RowSet
  <2>6. s.row[i] = e /\ \A j \in Ids : j # i => s.row[j] = t.row[j]
    BY <2>2, <2>5, ConsistentFacts
  <2>7. i < t.next
    <3>1. i \in Nat /\ t.next \in Nat /\ ~(i >= t.next)
      BY <2>2, <2>4, ConsistentFacts, IdNumbers DEF Consistent
    <3> QED BY <3>1
  <2>8. \A j \in Ids : e.uid # NoUid /\ t.row[j].uid = e.uid => j = i
    BY <2>2, <2>3 DEF Consistent
  <2>9. \A j \in Ids : t.row[j] = e => j = i
    BY <2>3, <2>8
  <2>10. \A n \in Names : t.row[i] # [uid |-> NoUid, name |-> n]
    <3>1. \A n : [uid |-> NoUid, name |-> n].uid = NoUid
      OBVIOUS
    <3> QED BY <2>2, <3>1
  <2> HIDE DEF s, e, i
  <2>11. Consistent(s) /\ Follows(t, s)
    BY <2>2, <2>3, <2>4, <2>5, <2>7, <2>8, <2>9, <2>10, WriteRow
  <2>12. Result(t, m, Stored(t, m))
    BY <2>1, <2>2, <2>3, <2>4, <2>5, <2>6, <2>11 DEF Result, Grown
  <2> QED BY <2>1, <2>2, <2>5, <2>6, <2>12
<1> QED BY <1>1, <1>2

\* The name-only row gets the id nobody had.
LEMMA PromotedResult ==
  ASSUME NEW t, Consistent(t), NEW m \in Readable, m.uid # NoUid, ById(t, m.uid) = {},
         NEW f \in Fallback(t, m.name)
  PROVE  Result(t, m, Promoted(t, m, f))
<1> DEFINE e == [uid |-> m.uid, name |-> m.name]
           s == [Put(t, f, m.uid, m.name) EXCEPT !.became = @ \cup {<<m.name, m.uid>>}]
<1>1. Promoted(t, m, f).tab = s /\ Promoted(t, m, f).id = f
  BY DEF Promoted
<1>2. f \in Ids /\ m.name # NoName /\ t.row[f] = [uid |-> NoUid, name |-> m.name]
  BY DEF Fallback
<1>3. /\ e \in RowSet /\ e.uid = m.uid /\ e.name = m.name
      /\ m.uid \in Uids /\ m.name \in Names
  BY <1>2 DEF Readable, RowSet
<1>4. /\ NoRow.uid = NoUid /\ NoRow.name = NoName /\ t.row[f].uid = NoUid
      /\ t.row[f].name = m.name
  BY <1>2 DEF NoRow
<1>5. /\ s \in Tables /\ s.row = [t.row EXCEPT ![f] = e] /\ s.in = t.in
      /\ s.item = t.item /\ s.became = t.became \cup {<<m.name, m.uid>>} /\ s.next = t.next
  <2>1. [t.row EXCEPT ![f] = e] \in [Ids -> RowSet] /\ t \in Tables
    BY <1>2, <1>3, ConsistentFacts
  <2>2. t.became \cup {<<m.name, m.uid>>} \subseteq Names \X Uids
    BY <1>3, ConsistentFacts
  <2> QED BY <2>1, <2>2 DEF Put, Tables, RowSet
<1>6. s.row[f] = e
  BY <1>2, <1>5, ConsistentFacts
<1>7. e # NoRow /\ t.row[f] # NoRow
  BY <1>2, <1>3, <1>4
<1>8. f < t.next
  <2>1. f \in Nat /\ t.next \in Nat /\ ~(f >= t.next)
    BY <1>2, <1>7, ConsistentFacts, IdNumbers DEF Consistent
  <2> QED BY <2>1
<1>9. \A j \in Ids : t.row[j].uid # e.uid
  BY <1>3 DEF ById
<1>10. \A j \in Ids : t.row[j] # e
  BY <1>9
<1>11. \A n \in Names : t.row[f] = [uid |-> NoUid, name |-> n] => <<n, e.uid>> \in s.became
  <2>1. \A n : [uid |-> NoUid, name |-> n].name = n
    OBVIOUS
  <2>2. <<m.name, e.uid>> \in s.became
    BY <1>3, <1>5
  <2> QED BY <1>4, <2>1, <2>2
<1> HIDE DEF s, e
<1>12. Consistent(s) /\ Follows(t, s)
  BY <1>2, <1>3, <1>4, <1>5, <1>7, <1>8, <1>9, <1>10, <1>11, WriteRow
<1> QED BY <1>1, <1>2, <1>3, <1>5, <1>6, <1>7, <1>12 DEF Result, Grown

\* The name-only row joins the row of the id.
LEMMA MergedResult ==
  ASSUME NEW t, Consistent(t), NEW m \in Readable, m.uid # NoUid, t.next \in Ids,
         ById(t, m.uid) # {}, NEW f \in Fallback(t, m.name)
  PROVE  LET r == Stored(t, m) IN Result(t, m, [r EXCEPT !.tab = Merge(@, f, r.id)])
<1> DEFINE r == Stored(t, m)
           v == Merge(r.tab, f, r.id)
<1>1. /\ f \in Ids /\ m.name \in Names /\ t.row[f] = [uid |-> NoUid, name |-> m.name]
      /\ t.row[f].uid = NoUid
  BY DEF Fallback, Readable
<1>2. /\ Grown(t, r.tab) /\ r.id \in Ids /\ r.tab.row[r.id].uid = m.uid
      /\ t.row[r.id].uid = m.uid /\ r.tab.next = t.next
      /\ \A j \in Ids : j # r.id => r.tab.row[j] = t.row[j]
  BY StoredResult DEF Result, ById
<1>3. r.tab.row[f] = [uid |-> NoUid, name |-> m.name]
  BY <1>1, <1>2
<1>4. [r EXCEPT !.tab = Merge(@, f, r.id)].tab = v /\ [r EXCEPT !.tab = Merge(@, f, r.id)].id = r.id
  <2>1. r = [tab |-> r.tab, id |-> r.id]
    BY DEF Stored, Inserted
  <2> QED BY <2>1
<1> HIDE DEF r
<1>5. Consistent(r.tab) /\ Follows(t, r.tab) /\ r.tab.item = t.item
  BY <1>2 DEF Grown
<1>6. /\ Consistent(v) /\ Follows(r.tab, v) /\ v.item = r.tab.item /\ v.next = r.tab.next
      /\ v.row[r.id] = r.tab.row[r.id]
  BY <1>1, <1>2, <1>3, <1>5, MergeRows
<1> HIDE DEF v
<1>7. Grown(t, v)
  BY <1>2, <1>5, <1>6, FollowsChain DEF Grown
<1>8. v.row[r.id] # NoRow
  BY <1>2, <1>6 DEF NoRow
<1>9. Result(t, m, [r EXCEPT !.tab = Merge(@, f, r.id)])
  BY <1>2, <1>4, <1>6, <1>7, <1>8 DEF Result
<1> QED BY <1>9 DEF r

\* A member without an id is found or made by name.
LEMMA ByNameResult ==
  ASSUME NEW t, Consistent(t), NEW m \in Readable, m.uid = NoUid, m.name # NoName, t.next \in Ids
  PROVE  Result(t, m, StoredByName(t, m))
<1>1. CASE Fallback(t, m.name) = {}
  <2>1. StoredByName(t, m) = Inserted(t, m)
    BY <1>1 DEF StoredByName
  <2> QED BY <1>1, <2>1, InsertedResult
<1>2. CASE Fallback(t, m.name) # {}
  <2> DEFINE f == One(Fallback(t, m.name))
  <2>1. StoredByName(t, m).tab = t /\ StoredByName(t, m).id = f
    BY <1>2 DEF StoredByName
  <2>2. f \in Fallback(t, m.name)
    BY <1>2, OneOf
  <2>3. f \in Ids /\ t.row[f] = [uid |-> NoUid, name |-> m.name]
    BY <2>2 DEF Fallback
  <2>4. t.row[f] # NoRow
    <3>1. t.row[f].name = m.name /\ NoRow.name = NoName
      BY <2>3 DEF NoRow
    <3> QED BY <3>1
  <2>5. Grown(t, t)
    BY FollowsSelf
  <2> HIDE DEF f
  <2> QED BY <2>1, <2>3, <2>4, <2>5 DEF Result
<1> QED BY <1>1, <1>2

\* _clean_username keeps the id and the hash.
LEMMA Cleaning ==
  ASSUME NEW m \in Members
  PROVE  /\ CleanUsername(m) \in Readable /\ CleanUsername(m).uid = m.uid
         /\ CleanUsername(m).hash = m.hash
BY StoreAssumption DEF Members, CleanUsername, Readable

\* _upsert_one: no row for a member with neither id nor name, else its row.
LEMMA UpsertResult ==
  ASSUME NEW t, Consistent(t), t.next \in Ids, NEW d \in Members
  PROVE  LET m == CleanUsername(d) IN
         IF m.uid = NoUid /\ m.name = NoName THEN Upsert(t, d) = [tab |-> t, id |-> 0]
         ELSE Result(t, m, Upsert(t, d))
<1> DEFINE m == CleanUsername(d)
           fb == Fallback(t, m.name)
           r == Stored(t, m)
<1>1. m \in Readable
  BY Cleaning
<1>2. Upsert(t, d) =
        CASE m.uid # NoUid /\ fb = {} -> r
          [] m.uid # NoUid /\ fb # {} ->
               IF ById(t, m.uid) = {} THEN Promoted(t, m, One(fb))
               ELSE [r EXCEPT !.tab = Merge(@, One(fb), r.id)]
          [] m.uid = NoUid /\ m.name # NoName -> StoredByName(t, m)
          [] OTHER -> [tab |-> t, id |-> 0]
  BY DEF Upsert
<1> HIDE DEF m
<1>3. CASE m.uid # NoUid /\ fb = {}
  <2>1. Upsert(t, d) = r
    BY <1>2, <1>3
  <2>2. Result(t, m, r)
    BY <1>1, <1>3, StoredResult
  <2> QED BY <1>3, <2>1, <2>2 DEF m
<1>4. CASE m.uid # NoUid /\ fb # {} /\ ById(t, m.uid) = {}
  <2>1. Upsert(t, d) = Promoted(t, m, One(fb))
    BY <1>2, <1>4
  <2>2. Result(t, m, Promoted(t, m, One(fb)))
    <3>1. One(fb) \in fb
      BY <1>4, OneOf
    <3> QED BY <1>1, <1>4, <3>1, PromotedResult
  <2> QED BY <1>4, <2>1, <2>2 DEF m
<1>5. CASE m.uid # NoUid /\ fb # {} /\ ById(t, m.uid) # {}
  <2>1. Upsert(t, d) = [r EXCEPT !.tab = Merge(@, One(fb), r.id)]
    BY <1>2, <1>5
  <2>2. Result(t, m, [r EXCEPT !.tab = Merge(@, One(fb), r.id)])
    <3>1. One(fb) \in fb
      BY <1>5, OneOf
    <3> QED BY <1>1, <1>5, <3>1, MergedResult
  <2> QED BY <1>5, <2>1, <2>2 DEF m
<1>6. CASE m.uid = NoUid /\ m.name # NoName
  <2>1. Upsert(t, d) = StoredByName(t, m)
    BY <1>2, <1>6
  <2>2. Result(t, m, StoredByName(t, m))
    BY <1>1, <1>6, ByNameResult
  <2> QED BY <1>6, <2>1, <2>2 DEF m
<1>7. CASE m.uid = NoUid /\ m.name = NoName
  <2>1. Upsert(t, d) = [tab |-> t, id |-> 0]
    BY <1>2, <1>7
  <2> QED BY <1>7, <2>1 DEF m
<1> QED BY <1>3, <1>4, <1>5, <1>6, <1>7

\* One member of a batch: it is in the dataset then.
LEMMA WithMemberGrows ==
  ASSUME NEW t, Consistent(t), t.next \in Ids, NEW d \in Datasets, NEW m \in Members
  PROVE  LET s == WithMember(t, d, m)
             k == Key(CleanUsername(m)) IN
         Grown(t, s) /\ (k # NoName => Covers(s, <<d, k>>))
<1> DEFINE c == CleanUsername(m)
           r == Upsert(t, m)
           s == WithMember(t, d, m)
           k == Key(c)
           w == IF m.uid # NoUid /\ m.hash THEN r.tab.peer \cup {m.uid} ELSE r.tab.peer
<1>1. c \in Readable /\ c.uid = m.uid
  BY Cleaning
<1> HIDE DEF c
<1>2. CASE c.uid = NoUid /\ c.name = NoName
  <2>1. r.id = 0
    BY <1>2, UpsertResult DEF c
  <2>2. s = t /\ k = NoName
    BY <1>2, <2>1 DEF WithMember, Key
  <2> QED BY <2>2, FollowsSelf DEF c
<1>3. CASE ~(c.uid = NoUid /\ c.name = NoName)
  <2>1. Result(t, c, r)
    BY <1>3, UpsertResult DEF c
  <2> HIDE DEF r
  <2>2. /\ Grown(t, r.tab) /\ Consistent(r.tab) /\ r.id \in Ids /\ r.id # 0
        /\ r.tab.row[r.id] # NoRow /\ r.tab \in Tables
    BY <2>1, ConsistentFacts, IdNumbers DEF Result, Grown
  <2>3. s = [r.tab EXCEPT !.in = @ \cup {<<d, r.id>>}, !.prov = @ \cup {<<d, r.id>>}, !.peer = w]
    BY <2>2 DEF WithMember, r
  <2>4. /\ s \in Tables /\ s.row = r.tab.row /\ s.in = r.tab.in \cup {<<d, r.id>>}
        /\ s.item = r.tab.item /\ s.next = r.tab.next /\ s.became = r.tab.became
    <3>1. m.uid # NoUid => m.uid \in Uids
      BY DEF Members
    <3>2. /\ r.tab.in \cup {<<d, r.id>>} \subseteq Datasets \X Ids
          /\ r.tab.prov \cup {<<d, r.id>>} \subseteq Datasets \X Ids
          /\ w \subseteq Uids
      BY <2>2, <3>1 DEF Tables
    <3> HIDE DEF s, w
    <3> QED BY <2>2, <2>3, <3>2 DEF Tables
  <2> HIDE DEF s, w
  <2>5. Consistent(s)
    BY <2>2, <2>4 DEF Consistent
  <2>6. \A i \in Ids : \A q : Known(r.tab, i, q) <=> Known(s, i, q)
    BY <2>4 DEF Known
  <2>7. Follows(r.tab, s)
    <3>1. \A p : Covers(r.tab, p) => Covers(s, p)
      BY <2>4, <2>6, CoversKept
    <3>2. \A i \in Ids : Gone(r.tab, i) => Gone(s, i)
      BY <2>4 DEF Gone
    <3>3. r.tab.next <= s.next
      BY <2>2, <2>4, ConsistentFacts
    <3> QED BY <2>4, <3>1, <3>2, <3>3 DEF Follows
  <2>8. Grown(t, s)
    BY <2>2, <2>4, <2>5, <2>7, FollowsChain DEF Grown
  <2>9. Covers(s, <<d, k>>)
    <3>1. <<d, r.id>> \in s.in
      BY <2>4
    <3>2. Known(r.tab, r.id, k)
      <4>1. CASE c.uid # NoUid
        <5>1. k = c.uid /\ c.uid \in Uids /\ r.tab.row[r.id].uid = c.uid
          BY <1>1, <2>1, <4>1 DEF Key, Readable, Result
        <5> QED BY <5>1 DEF Known
      <4>2. CASE c.uid = NoUid
        <5>1. /\ k = c.name /\ c.name \in Names
              /\ r.tab.row[r.id] = [uid |-> NoUid, name |-> c.name]
          BY <1>1, <1>3, <2>1, <4>2 DEF Key, Readable, Result
        <5> QED BY <5>1 DEF Known
      <4> QED BY <4>1, <4>2
    <3> HIDE DEF k
    <3> QED BY <2>2, <2>6, <3>1, <3>2 DEF Covers
  <2> QED BY <2>8, <2>9 DEF c, s
<1> QED BY <1>2, <1>3

-----------------------------------------------------------------------------
(* The loop of submit_ingest_batch.                                        *)

\* f[k] is what the first k of N records make of t.
Loop(f, t, d, b, N) ==
  f = [k \in 0..N |-> IF k = 0 THEN t ELSE WithMember(f[k - 1], d, b[k])]

\* The loop has a result.
LEMMA LoopExists ==
  ASSUME NEW t, NEW d, NEW b, NEW N \in Nat
  PROVE  \E f : Loop(f, t, d, b, N)
<1> DEFINE S == {n \in 0..N : \E f : Loop(f, t, d, b, n)}
<1>1. 0 \in S
  <2>1. Loop([k \in 0..0 |-> t], t, d, b, 0)
    BY DEF Loop
  <2> QED BY <2>1
<1>2. ASSUME NEW n \in 0..N, n < N, n \in S PROVE n + 1 \in S
  <2>1. PICK f : Loop(f, t, d, b, n)
    BY <1>2
  <2> DEFINE g == [k \in 0..(n + 1) |-> IF k = n + 1 THEN WithMember(f[n], d, b[n + 1]) ELSE f[k]]
  <2>2. n \in Nat /\ n + 1 \in 0..N /\ n + 1 # 0 /\ (n + 1) - 1 = n /\ n + 1 \in 0..(n + 1)
    BY <1>2
  <2>3. \A k \in 0..n : f[k] = IF k = 0 THEN t ELSE WithMember(f[k - 1], d, b[k])
    BY <2>1 DEF Loop
  <2>4. \A k \in 0..n : k # n + 1 /\ k \in 0..(n + 1) /\ g[k] = f[k]
    BY <2>2
  <2>5. g[n + 1] = WithMember(f[n], d, b[n + 1])
    BY <2>2
  <2>6. \A k \in 0..(n + 1) : k # n + 1 => k \in 0..n
    BY <2>2
  <2>7. \A k \in 0..(n + 1) : k # n + 1 /\ k # 0 => k - 1 \in 0..n
    BY <2>2
  <2>8. g = [k \in 0..(n + 1) |-> g[k]]
    OBVIOUS
  <2> HIDE DEF g
  <2>9. \A k \in 0..(n + 1) : g[k] = IF k = 0 THEN t ELSE WithMember(g[k - 1], d, b[k])
    <3>1. n \in 0..n
      BY <2>2
    <3> SUFFICES ASSUME NEW k \in 0..(n + 1)
                 PROVE  g[k] = IF k = 0 THEN t ELSE WithMember(g[k - 1], d, b[k])
      OBVIOUS
    <3>2. CASE k = n + 1
      <4>1. k - 1 = n /\ k # 0
        BY <2>2, <3>2
      <4>2. g[n] = f[n]
        BY <2>4, <3>1
      <4> QED BY <2>5, <3>2, <4>1, <4>2
    <3>3. CASE k # n + 1
      <4>1. k \in 0..n /\ (k # 0 => k - 1 \in 0..n)
        BY <2>6, <2>7, <3>3
      <4> QED BY <2>3, <2>4, <4>1
    <3> QED BY <3>2, <3>3
  <2>10. Loop(g, t, d, b, n + 1)
    BY <2>8, <2>9 DEF Loop
  <2> QED BY <2>2, <2>10
<1> HIDE DEF S
<1>3. 0..N \subseteq S
  BY <1>1, <1>2, UpTo
<1>4. N \in S
  BY <1>3
<1> QED BY <1>4 DEF S

\* Ingested, record by record.
LEMMA IngestedIs ==
  ASSUME NEW t, NEW d, NEW b \in Seq(Members)
  PROVE  \E f : /\ Ingested(t, d, b) = f[Len(b)] /\ f[0] = t
                /\ \A n \in 0..Len(b) : n < Len(b) =>
                     f[n + 1] = WithMember(f[n], d, b[n + 1])
<1> DEFINE f == CHOOSE g : Loop(g, t, d, b, Len(b))
<1>1. Len(b) \in Nat
  OBVIOUS
<1>2. Loop(f, t, d, b, Len(b))
  BY <1>1, LoopExists
<1>3. Ingested(t, d, b) = f[Len(b)]
  BY DEF Ingested, Loop
<1> HIDE DEF f
<1>4. \A k \in 0..Len(b) : f[k] = IF k = 0 THEN t ELSE WithMember(f[k - 1], d, b[k])
  BY <1>2 DEF Loop
<1>5. f[0] = t
  BY <1>1, <1>4
<1>6. ASSUME NEW n \in 0..Len(b), n < Len(b)
      PROVE  f[n + 1] = WithMember(f[n], d, b[n + 1])
  <2>1. n + 1 \in 0..Len(b) /\ n + 1 # 0 /\ (n + 1) - 1 = n
    BY <1>1, <1>6
  <2> QED BY <1>4, <2>1
<1> QED BY <1>3, <1>5, <1>6

\* A batch that fits has a free row for each of its records.
LEMMA Room ==
  ASSUME NEW t, Consistent(t), NEW n \in Nat, n <= Cardinality(Free(t)), NEW k \in Nat, k < n,
         NEW i \in Nat, t.next <= i, i <= t.next + k
  PROVE  i \in Ids
<1> DEFINE N == Cardinality(Ids)
<1>1. N \in Nat /\ Ids = 1..N /\ t.next \in Nat \ {0}
  BY IdNumbers, ConsistentFacts
<1> HIDE DEF N
<1>2. Free(t) = t.next..N
  BY <1>1 DEF Free
<1>3. Cardinality(Free(t)) = IF t.next > N THEN 0 ELSE N - t.next + 1
  <2>1. t.next \in Int /\ N \in Int
    BY <1>1
  <2>2. Cardinality(t.next..N) = IF t.next > N THEN 0 ELSE N - t.next + 1
    BY <2>1, FS_Interval, Zenon
  <2> QED BY <1>2, <2>2
<1> QED BY <1>1, <1>3

\* A whole batch.
LEMMA IngestedGrows ==
  ASSUME NEW t, Consistent(t), NEW d \in Datasets, NEW b \in Seq(Members),
         Len(b) <= Cardinality(Free(t))
  PROVE  LET s == Ingested(t, d, b) IN
         /\ Consistent(s) /\ Follows(t, s) /\ s.item = t.item
         /\ \A k \in Delivered(b) : k \in Uids \cup Names /\ Covers(s, <<d, k>>)
<1>1. PICK f : /\ Ingested(t, d, b) = f[Len(b)] /\ f[0] = t
               /\ \A n \in 0..Len(b) : n < Len(b) =>
                    f[n + 1] = WithMember(f[n], d, b[n + 1])
  BY IngestedIs
<1> DEFINE Asked(k) == Key(CleanUsername(b[k]))
           S == {n \in 0..Len(b) :
                   /\ Consistent(f[n]) /\ Follows(t, f[n]) /\ f[n].item = t.item
                   /\ f[n].next <= t.next + n
                   /\ \A k \in 1..n : Asked(k) # NoName => Covers(f[n], <<d, Asked(k)>>)}
<1>2. Len(b) \in Nat /\ t.next \in Nat
  BY ConsistentFacts
<1>3. \A k \in 1..Len(b) : b[k] \in Members /\ (Asked(k) # NoName => Asked(k) \in Uids \cup Names)
  <2> SUFFICES ASSUME NEW k \in 1..Len(b)
               PROVE  b[k] \in Members /\ (Asked(k) # NoName => Asked(k) \in Uids \cup Names)
    OBVIOUS
  <2>1. b[k] \in Members
    OBVIOUS
  <2>2. CleanUsername(b[k]) \in Readable
    BY <2>1, Cleaning
  <2> QED BY <2>1, <2>2 DEF Readable, Key
<1>4. 0 \in S
  BY <1>1, <1>2, FollowsSelf
<1>5. ASSUME NEW n \in 0..Len(b), n < Len(b), n \in S PROVE n + 1 \in S
  <2>1. /\ Consistent(f[n]) /\ Follows(t, f[n]) /\ f[n].item = t.item /\ f[n].next <= t.next + n
        /\ \A k \in 1..n : Asked(k) # NoName => Covers(f[n], <<d, Asked(k)>>)
    BY <1>5
  <2> DEFINE u == f[n]
             s == WithMember(u, d, b[n + 1])
  <2>2. n \in Nat /\ n + 1 \in 1..Len(b) /\ n + 1 \in 0..Len(b) /\ f[n + 1] = s
    BY <1>1, <1>2, <1>5
  <2>3. u.next \in Nat /\ t.next <= u.next
    BY <2>1, ConsistentFacts DEF Follows
  <2>4. u.next \in Ids
    BY <1>2, <1>5, <2>1, <2>2, <2>3, Room
  <2>5. b[n + 1] \in Members
    BY <1>3, <2>2
  <2>6. Grown(u, s) /\ (Asked(n + 1) # NoName => Covers(s, <<d, Asked(n + 1)>>))
    BY <2>1, <2>4, <2>5, WithMemberGrows
  <2> HIDE DEF Asked, s
  <2>7. Consistent(s) /\ Follows(u, s) /\ s.item = t.item /\ s.next \in {u.next, u.next + 1}
    BY <2>1, <2>6 DEF Grown
  <2>8. Follows(t, s)
    BY <2>1, <2>7, FollowsChain
  <2>9. s.next <= t.next + (n + 1)
    BY <1>2, <2>1, <2>2, <2>3, <2>7
  <2>10. \A k \in 1..(n + 1) : Asked(k) # NoName => Covers(s, <<d, Asked(k)>>)
    <3> SUFFICES ASSUME NEW k \in 1..(n + 1), Asked(k) # NoName
                 PROVE  Covers(s, <<d, Asked(k)>>)
      OBVIOUS
    <3>1. CASE k = n + 1
      BY <2>6, <3>1
    <3>2. CASE k # n + 1
      <4>1. k \in 1..n /\ k \in 1..Len(b)
        BY <1>2, <2>2, <3>2
      <4>2. <<d, Asked(k)>> \in Datasets \X (Uids \cup Names)
        BY <1>3, <4>1
      <4>3. Covers(u, <<d, Asked(k)>>)
        BY <2>1, <4>1
      <4> QED BY <2>7, <4>2, <4>3 DEF Follows
    <3> QED BY <3>1, <3>2
  <2> QED BY <2>2, <2>7, <2>8, <2>9, <2>10
<1> HIDE DEF S
<1>6. 0..Len(b) \subseteq S
  BY <1>2, <1>4, <1>5, UpTo
<1>7. Len(b) \in S
  BY <1>2, <1>6
<1>8. \A k \in Delivered(b) : \E j \in 1..Len(b) : k = Asked(j) /\ k # NoName
  BY DEF Delivered
<1> QED BY <1>1, <1>3, <1>7, <1>8 DEF S

-----------------------------------------------------------------------------
(* The pages of an export.                                                 *)

\* The types of an export.
Exports ==
  [of : Datasets \cup {0}, offset : Nat, out : SUBSET Ids, start : SUBSET Ids, cut : BOOLEAN]

\* Whoever was there when export x began is there or gone for good, and those it
\* has passed are written, unless a passed row went.
ExportOk(t, x) ==
  /\ x \in Exports
  /\ \A i \in x.start : <<x.of, i>> \in t.in \/ Gone(t, i)
  /\ ~x.cut => x.start \cap First(Rows(t, x.of), x.offset) \subseteq x.out

\* Everything delivered is covered.
TakenOk(t, k) ==
  k \subseteq Datasets \X (Uids \cup Names) /\ \A p \in k : Covers(t, p)

\* The inductive invariant.
StoreInv == Consistent(db) /\ ExportOk(db, export) /\ TakenOk(db, taken)

\* The rows an export has passed are the first of its dataset.
LEMMA PassedIs == \A t : Passed(t) = First(Rows(t, export.of), export.offset)
BY DEF Passed, First, Rank

\* The rows of a dataset are rows.
LEMMA RowsAre == \A t, d : Rows(t, d) \in SUBSET Ids /\ Rows(t, d) \in RowSets
BY IdSets DEF Rows

\* The first rows stay the first while none of them goes.
LEMMA FirstStays ==
  ASSUME NEW R \in RowSets, NEW S \in RowSets, NEW k \in Nat, First(R, k) \subseteq S,
         NEW i \in R, i \in First(S, k)
  PROVE  i \in First(R, k)
<1>1. SUFFICES ASSUME ~(Rank(R, i) < k) PROVE FALSE
  BY DEF First
<1> DEFINE F == First(R, k)
<1>2. /\ F # R /\ Cardinality(F) = k
  <2>1. i \notin F
    BY <1>1 DEF First
  <2> QED BY <2>1, FirstCount
<1>3. i \in S /\ Rank(S, i) < k /\ Rank(S, i) \in Nat /\ Rank(R, i) \in Nat /\ i \in Nat
  BY RankType DEF RowSets, First
<1>4. ASSUME NEW j \in F PROVE j \in S /\ j < i
  <2>1. j \in R /\ Rank(R, j) < k /\ Rank(R, j) \in Nat /\ j \in S /\ j \in Nat
    BY RankType DEF RowSets, First
  <2>2. CASE i <= j
    <3>1. {l \in R : l < i} \subseteq {l \in R : l < j}
      <4>1. ASSUME NEW l \in R, l < i PROVE l < j
        <5>1. l \in Nat
          BY DEF RowSets
        <5> QED BY <1>3, <2>1, <2>2, <4>1, <5>1
      <4> QED BY <4>1
    <3>2. Rank(R, i) <= Rank(R, j)
      BY <3>1, RankGrows
    <3> QED BY <1>1, <1>3, <2>1, <3>2
  <2> QED BY <1>3, <2>1, <2>2
<1>5. F \subseteq {j \in S : j < i} /\ IsFiniteSet({j \in S : j < i})
  BY <1>4, RankType
<1>6. Cardinality(F) <= Rank(S, i)
  BY <1>5, FS_Subset DEF Rank
<1> QED BY <1>2, <1>3, <1>6

\* A transaction between two pages.
LEMMA ExportWrite ==
  ASSUME NEW t, NEW s, Consistent(t), Consistent(s), Follows(t, s), NEW x, ExportOk(t, x), NEW y,
         y = [x EXCEPT !.cut = @ \/ ~(First(Rows(t, x.of), x.offset) \subseteq Rows(s, x.of))]
  PROVE  ExportOk(s, y)
<1> DEFINE R == Rows(t, x.of)
           S == Rows(s, x.of)
<1>1. /\ x \in Exports /\ y \in Exports /\ y.of = x.of /\ y.offset = x.offset /\ y.out = x.out
      /\ y.start = x.start /\ (~y.cut => ~x.cut /\ First(R, x.offset) \subseteq S)
  BY DEF ExportOk, Exports
<1>2. /\ x.start \subseteq Ids /\ x.offset \in Nat
      /\ \A i \in x.start : <<x.of, i>> \in t.in \/ Gone(t, i)
      /\ ~x.cut => x.start \cap First(R, x.offset) \subseteq x.out
  BY DEF ExportOk, Exports
<1>3. \A i \in x.start : <<x.of, i>> \in s.in \/ Gone(s, i)
  <2> SUFFICES ASSUME NEW i \in x.start PROVE <<x.of, i>> \in s.in \/ Gone(s, i)
    OBVIOUS
  <2>1. CASE <<x.of, i>> \in t.in
    <3>1. <<x.of, i>>[2] = i
      OBVIOUS
    <3> QED BY <2>1, <3>1 DEF Follows
  <2>2. CASE Gone(t, i)
    BY <1>2, <2>2 DEF Follows
  <2> QED BY <1>2, <2>1, <2>2
<1>4. ASSUME ~y.cut, NEW i \in x.start, i \in First(S, x.offset) PROVE i \in x.out
  <2>1. i \in Ids /\ <<x.of, i>> \in s.in
    BY <1>4 DEF First, Rows
  <2>2. s.row[i] # NoRow
    <3>1. <<x.of, i>>[2] = i
      OBVIOUS
    <3> QED BY <2>1, <3>1 DEF Consistent
  <2>3. ~Gone(t, i)
    BY <2>1, <2>2 DEF Follows, Gone
  <2>4. i \in R
    BY <1>2, <2>1, <2>3 DEF Rows
  <2>5. i \in First(R, x.offset)
    <3>1. R \in RowSets /\ S \in RowSets /\ First(R, x.offset) \subseteq S
      BY <1>1, <1>4, RowsAre
    <3> HIDE DEF R, S
    <3> QED BY <1>2, <1>4, <2>4, <3>1, FirstStays
  <2> QED BY <1>1, <1>2, <1>4, <2>5
<1> QED BY <1>1, <1>3, <1>4 DEF ExportOk

\* One page: at most PageSize rows, and none between the offset and the next is left out.
LEMMA PageRows ==
  ASSUME NEW t, NEW d, NEW k \in Nat, Page(t, d, k) # {}
  PROVE  /\ Cardinality(Page(t, d, k)) \in Nat /\ Cardinality(Page(t, d, k)) <= PageSize
         /\ Page(t, d, k) \subseteq Ids
<1> DEFINE R == Rows(t, d)
           P == Page(t, d, k)
           F == First(R, k)
           G == First(R, k + PageSize)
<1>1. PageSize \in Nat \ {0} /\ R \in SUBSET Ids /\ R \in RowSets
  BY StoreAssumption, RowsAre
<1>2. P = {i \in R : k <= Rank(R, i) /\ Rank(R, i) < k + PageSize}
  BY DEF Page, Rank
<1> HIDE DEF R, P
<1>3. \A i \in R : Rank(R, i) \in Nat
  BY <1>1, RankType
<1>4. P \cap F = {} /\ P \cup F = G
  BY <1>1, <1>2, <1>3 DEF First
<1>5. F # R
  BY <1>2, <1>4 DEF P
<1>6. Cardinality(F) = k /\ IsFiniteSet(F) /\ IsFiniteSet(G) /\ Cardinality(G) <= k + PageSize
  <2>1. k + PageSize \in Nat
    BY <1>1
  <2> QED BY <1>1, <1>5, <2>1, FirstCount, RankType
<1> HIDE DEF F, G
<1>7. IsFiniteSet(P) /\ Cardinality(P) \in Nat /\ Cardinality(F) \in Nat /\ Cardinality(G) \in Nat
  BY <1>4, <1>6, FS_Subset, FS_CardinalityType
<1>8. Cardinality(G) = Cardinality(P) + Cardinality(F)
  <2>1. Cardinality(P \cup F) = Cardinality(P) + Cardinality(F) - Cardinality(P \cap F)
    BY <1>6, <1>7, FS_Union
  <2>2. Cardinality(P \cap F) = 0
    BY <1>4, FS_EmptySet
  <2>3. Cardinality(P \cup F) = Cardinality(G)
    BY <1>4
  <2> QED BY <1>7, <2>1, <2>2, <2>3
<1>9. Cardinality(P) <= PageSize
  BY <1>1, <1>6, <1>7, <1>8
<1> QED BY <1>1, <1>2, <1>7, <1>9 DEF P

\* An empty page comes only after the last row.
LEMMA EmptyPage ==
  ASSUME NEW t, NEW d, NEW k \in Nat, Page(t, d, k) = {}
  PROVE  First(Rows(t, d), k) = Rows(t, d)
<1> DEFINE R == Rows(t, d)
<1>1. R \in RowSets /\ PageSize \in Nat \ {0}
  BY StoreAssumption, RowsAre
<1>2. \A i \in R : ~(k <= Rank(R, i) /\ Rank(R, i) < k + PageSize)
  BY DEF Page, Rank
<1> HIDE DEF R
<1>3. SUFFICES ASSUME First(R, k) # R PROVE FALSE
  BY DEF R
<1>4. \E i \in R : Rank(R, i) = k
  BY <1>1, <1>3, FirstCount
<1> QED BY <1>1, <1>2, <1>4

\* A page is written.
LEMMA ExportPageStep ==
  ASSUME ExportOk(db, export), ExportPage
  PROVE  ExportOk(db, export')
<1> DEFINE R == Rows(db, export.of)
           P == Page(db, export.of, export.offset)
           n == Cardinality(P)
<1>1. /\ P # {} /\ export' = [export EXCEPT !.offset = export.offset + n, !.out = @ \cup P]
  BY DEF ExportPage, NextOffset
<1>2. /\ export \in Exports /\ export.offset \in Nat /\ PageSize \in Nat
      /\ export.start \subseteq Ids
      /\ \A i \in export.start : <<export.of, i>> \in db.in \/ Gone(db, i)
      /\ ~export.cut => export.start \cap First(R, export.offset) \subseteq export.out
  BY StoreAssumption DEF ExportOk, Exports
<1>3. n \in Nat /\ n <= PageSize /\ P \subseteq Ids
  BY <1>1, <1>2, PageRows
<1>4. P = {i \in R : export.offset <= Rank(R, i) /\ Rank(R, i) < export.offset + PageSize}
  BY DEF Page, Rank
<1>5. \A i \in R : Rank(R, i) \in Nat
  BY RankType, RowsAre
<1> HIDE DEF R, P, n
<1>6. \A i \in First(R, export.offset + n) : i \in First(R, export.offset) \/ i \in P
  BY <1>2, <1>3, <1>4, <1>5 DEF First
<1>7. /\ export' \in Exports /\ export'.of = export.of /\ export'.offset = export.offset + n
      /\ export'.out = export.out \cup P /\ export'.start = export.start
      /\ export'.cut = export.cut
  <2> DEFINE o == export.offset + n
             w == export.out \cup P
  <2>1. o \in Nat /\ w \in SUBSET Ids
    BY <1>2, <1>3 DEF Exports
  <2>2. export' = [export EXCEPT !.offset = o, !.out = w]
    BY <1>1, <1>2 DEF Exports
  <2> HIDE DEF o, w
  <2>3. /\ export' \in Exports /\ export'.of = export.of /\ export'.offset = o
        /\ export'.out = w /\ export'.start = export.start /\ export'.cut = export.cut
    BY <1>2, <2>1, <2>2 DEF Exports
  <2> QED BY <2>3 DEF o, w
<1>8. ~export.cut => export.start \cap First(R, export.offset + n) \subseteq export.out \cup P
  BY <1>2, <1>6
<1>9. ExportOk(db, export') <=>
        /\ export' \in Exports
        /\ \A i \in export'.start : <<export'.of, i>> \in db.in \/ Gone(db, i)
        /\ ~export'.cut =>
             export'.start \cap First(Rows(db, export'.of), export'.offset) \subseteq export'.out
  BY DEF ExportOk
<1> QED BY <1>2, <1>7, <1>8, <1>9 DEF R

-----------------------------------------------------------------------------
(* The actions.                                                            *)

\* Tables that only got more, in the same rows.
LEMMA MoreTables ==
  ASSUME NEW t, Consistent(t), NEW s \in Tables, s.row = t.row, s.next = t.next,
         s.became = t.became, t.in \subseteq s.in,
         \A p \in s.in : p \in t.in \/ s.row[p[2]] # NoRow,
         \A i \in s.item : i \in t.item \/ s.row[i].uid # NoUid
  PROVE  Consistent(s) /\ Follows(t, s)
<1>1. Consistent(s)
  BY DEF Consistent
<1>2. \A i \in Ids : \A k : Known(t, i, k) <=> Known(s, i, k)
  BY DEF Known
<1>3. \A p : Covers(t, p) => Covers(s, p)
  BY <1>2, CoversKept
<1>4. \A i \in Ids : Gone(t, i) => Gone(s, i)
  BY DEF Gone
<1>5. t.next <= s.next
  BY ConsistentFacts
<1> QED BY <1>1, <1>3, <1>4, <1>5 DEF Follows

\* One transaction, with what it delivers.
LEMMA WriteStep ==
  ASSUME StoreInv, NEW s, Consistent(s), Follows(db, s), Write(s),
         taken' \subseteq Datasets \X (Uids \cup Names),
         \A p \in taken' : p \in taken \/ Covers(s, p)
  PROVE  StoreInv'
<1>1. /\ db' = s
      /\ export' = [export EXCEPT !.cut =
           @ \/ ~(First(Rows(db, export.of), export.offset) \subseteq Rows(s, export.of))]
  BY PassedIs DEF Write
<1>2. ExportOk(s, export')
  BY <1>1, ExportWrite DEF StoreInv
<1>3. TakenOk(s, taken')
  BY DEF StoreInv, TakenOk, Follows
<1> QED BY <1>1, <1>2, <1>3 DEF StoreInv

\* A new dataset is empty.
LEMMA CreateDatasetStep ==
  ASSUME StoreInv, NEW d \in Datasets, CreateDataset(d)
  PROVE  StoreInv'
<1> DEFINE s == [db EXCEPT !.made = @ \cup {d}]
<1>1. Write(s) /\ taken' = taken
  BY DEF CreateDataset
<1>2. Consistent(db) /\ db \in Tables
  BY ConsistentFacts DEF StoreInv
<1>3. /\ s \in Tables /\ s.row = db.row /\ s.next = db.next /\ s.became = db.became
      /\ s.in = db.in /\ s.item = db.item
  BY <1>2 DEF Tables
<1> HIDE DEF s
<1>4. Consistent(s) /\ Follows(db, s)
  BY <1>2, <1>3, MoreTables
<1> QED BY <1>1, <1>4, WriteStep DEF StoreInv, TakenOk

\* Only rows with an id are planned for.
LEMMA PlanStep ==
  ASSUME StoreInv, NEW d \in Datasets, Plan(d)
  PROVE  StoreInv'
<1>1. PICK S \in SUBSET {i \in Rows(db, d) : Valid(i)} : Write([db EXCEPT !.item = @ \cup S])
  BY DEF Plan
<1> DEFINE s == [db EXCEPT !.item = @ \cup S]
<1>2. Consistent(db) /\ db \in Tables
  BY ConsistentFacts DEF StoreInv
<1>3. \A i \in S : i \in Ids /\ db.row[i].uid # NoUid
  BY <1>2, StoreAssumption DEF Rows, Valid, Tables
<1>4. /\ s \in Tables /\ s.row = db.row /\ s.next = db.next /\ s.became = db.became
      /\ s.in = db.in /\ s.item = db.item \cup S
  BY <1>2, <1>3 DEF Tables
<1>5. Write(s) /\ taken' = taken
  BY <1>1 DEF Plan
<1> HIDE DEF s
<1>6. Consistent(s) /\ Follows(db, s)
  BY <1>2, <1>3, <1>4, MoreTables
<1> QED BY <1>5, <1>6, WriteStep DEF StoreInv, TakenOk

\* A row in a dataset is known by its key.
LEMMA KeyKnown ==
  ASSUME Consistent(db), NEW i \in Ids, db.row[i] # NoRow
  PROVE  KeyOf(i) \in Uids \cup Names /\ Known(db, i, KeyOf(i))
<1>1. db.row[i] \in RowSet
  BY ConsistentFacts
<1>2. CASE db.row[i].uid # NoUid
  BY <1>1, <1>2 DEF KeyOf, Known, RowSet
<1>3. CASE db.row[i].uid = NoUid
  <2>1. db.row[i] = [uid |-> NoUid, name |-> db.row[i].name]
    BY <1>1, <1>3 DEF RowSet
  <2>2. db.row[i].name \in Names
    BY <1>1, <2>1 DEF RowSet, NoRow
  <2> QED BY <1>3, <2>1, <2>2 DEF KeyOf, Known
<1> QED BY <1>2, <1>3

\* A combined dataset covers whom it was made of.
LEMMA CombineStep ==
  ASSUME StoreInv, NEW d \in Datasets, NEW a \in Datasets, NEW b \in Datasets,
         NEW op \in {"UNION", "INTERSECTION", "DIFFERENCE"}, Combine(op, a, b, d)
  PROVE  StoreInv'
<1> DEFINE C == Combined(op, a, b)
           B == Rows(db, a) \cup Rows(db, b)
           s == WithCombined(op, a, b, d)
<1>1. Write(s) /\ taken' = taken \cup {<<d, KeyOf(i)>> : i \in C}
  BY DEF Combine
<1>2. Consistent(db) /\ db \in Tables
  BY ConsistentFacts DEF StoreInv
<1>3. C \subseteq B /\ B \subseteq Ids
  BY DEF Combined, Rows
<1>4. s = [db EXCEPT !.made = @ \cup {d}, !.in = @ \cup ({d} \X C), !.prov = @ \cup ({d} \X B)]
  BY DEF WithCombined
<1>5. \A i \in B : db.row[i] # NoRow
  <2> SUFFICES ASSUME NEW i \in B PROVE db.row[i] # NoRow
    OBVIOUS
  <2>1. PICK e : <<e, i>> \in db.in
    BY DEF Rows
  <2>2. <<e, i>>[2] = i
    OBVIOUS
  <2> QED BY <1>2, <2>1, <2>2 DEF Consistent
<1> HIDE DEF C, B
<1>6. /\ s \in Tables /\ s.row = db.row /\ s.next = db.next /\ s.became = db.became
      /\ s.in = db.in \cup ({d} \X C) /\ s.item = db.item
  <2>1. /\ db.in \cup ({d} \X C) \subseteq Datasets \X Ids
        /\ db.prov \cup ({d} \X B) \subseteq Datasets \X Ids
        /\ db.made \cup {d} \subseteq Datasets
    BY <1>2, <1>3 DEF Tables
  <2> HIDE DEF s
  <2> QED BY <1>2, <1>4, <2>1 DEF Tables
<1> HIDE DEF s
<1>7. Consistent(s) /\ Follows(db, s)
  <2>1. \A p \in s.in : p \in db.in \/ s.row[p[2]] # NoRow
    BY <1>3, <1>5, <1>6
  <2> QED BY <1>2, <1>6, <2>1, MoreTables
<1>8. \A i \in C : <<d, KeyOf(i)>> \in Datasets \X (Uids \cup Names) /\ Covers(s, <<d, KeyOf(i)>>)
  <2> SUFFICES ASSUME NEW i \in C
               PROVE  /\ <<d, KeyOf(i)>> \in Datasets \X (Uids \cup Names)
                      /\ Covers(s, <<d, KeyOf(i)>>)
    OBVIOUS
  <2>1. i \in Ids /\ KeyOf(i) \in Uids \cup Names /\ Known(db, i, KeyOf(i))
    BY <1>2, <1>3, <1>5, KeyKnown
  <2>2. Known(s, i, KeyOf(i)) /\ <<d, i>> \in s.in
    BY <1>6, <2>1 DEF Known
  <2> QED BY <2>1, <2>2 DEF Covers
<1>9. taken' \subseteq Datasets \X (Uids \cup Names)
  BY <1>1, <1>8 DEF StoreInv, TakenOk
<1>10. \A p \in taken' : p \in taken \/ Covers(s, p)
  BY <1>1, <1>8
<1> QED BY <1>1, <1>7, <1>9, <1>10, WriteStep

\* The batch of an ingest, and what it makes of the tables.
LEMMA IngestResult ==
  ASSUME Consistent(db), NEW d \in Datasets, NEW b \in Batches, Len(b) <= Cardinality(Free(db))
  PROVE  LET s == Ingested(db, d, b) IN
         /\ Consistent(s) /\ Follows(db, s) /\ s.item = db.item
         /\ \A k \in Delivered(b) : k \in Uids \cup Names /\ Covers(s, <<d, k>>)
BY StoreAssumption, IngestedGrows

\* An ingest, committed or rolled back.
LEMMA IngestStep ==
  ASSUME StoreInv, NEW d \in Datasets, NEW b \in Batches, Ingest(d, b)
  PROVE  StoreInv'
<1> DEFINE s == Ingested(db, d, b)
<1>1. CASE Blocked(db, s)
  <2>1. UNCHANGED <<db, export, taken>>
    BY <1>1 DEF Ingest
  <2> QED BY <2>1 DEF StoreInv
<1>2. CASE ~Blocked(db, s)
  <2>1. Write(s) /\ taken' = taken \cup ({d} \X Delivered(b))
    BY <1>2 DEF Ingest
  <2>2. /\ Consistent(s) /\ Follows(db, s)
        /\ \A k \in Delivered(b) : k \in Uids \cup Names /\ Covers(s, <<d, k>>)
    BY IngestResult DEF Ingest, StoreInv
  <2> HIDE DEF s
  <2>3. taken' \subseteq Datasets \X (Uids \cup Names)
    BY <2>1, <2>2 DEF StoreInv, TakenOk
  <2>4. \A p \in taken' : p \in taken \/ Covers(s, p)
    BY <2>1, <2>2
  <2> QED BY <2>1, <2>2, <2>3, <2>4, WriteStep
<1> QED BY <1>1, <1>2

\* An export has passed nobody when it begins.
LEMMA StartExportStep ==
  ASSUME StoreInv, NEW d \in Datasets, StartExport(d)
  PROVE  StoreInv'
<1>1. /\ export' = [of |-> d, offset |-> 0, out |-> {}, start |-> Rows(db, d), cut |-> FALSE]
      /\ db' = db /\ taken' = taken
  BY DEF StartExport, Idle
<1>2. First(Rows(db, d), 0) = {} /\ Rows(db, d) \in SUBSET Ids
  BY FirstNone, RowsAre
<1>3. ExportOk(db, export')
  BY <1>1, <1>2 DEF ExportOk, Exports, Rows
<1> QED BY <1>1, <1>3 DEF StoreInv

\* No export, nothing to keep.
LEMMA IdleOk == \A t : ExportOk(t, Idle)
<1> TAKE t
<1>1. Idle \in Exports
  BY DEF Idle, Exports
<1> QED BY <1>1 DEF ExportOk, Idle

-----------------------------------------------------------------------------
(* The theorems about MemberStore.                                         *)

\* The empty database.
LEMMA StoreInit == Init => StoreInv
<1> SUFFICES ASSUME Init PROVE StoreInv
  OBVIOUS
<1>1. /\ db = [row |-> [i \in Ids |-> NoRow], in |-> {}, prov |-> {}, made |-> {},
               item |-> {}, peer |-> {}, next |-> 1, became |-> {}]
      /\ export = Idle /\ taken = {}
  BY DEF Init
<1>2. NoRow \in RowSet /\ NoRow.uid = NoUid
  BY DEF NoRow, RowSet
<1>3. db \in Tables /\ db.row = [i \in Ids |-> NoRow] /\ db.in = {} /\ db.item = {} /\ db.next = 1
  BY <1>1, <1>2 DEF Tables, RowSet
<1>4. \A i \in Ids : db.row[i] = NoRow
  BY <1>3
<1>5. Consistent(db)
  BY <1>2, <1>3, <1>4 DEF Consistent
<1> QED BY <1>1, <1>5, IdleOk DEF StoreInv, TakenOk

\* One step per action.
LEMMA StoreNext ==
  ASSUME StoreInv, [Next]_vars
  PROVE  StoreInv'
<1>1. ASSUME NEW d \in Datasets, CreateDataset(d) PROVE StoreInv'
  BY <1>1, CreateDatasetStep
<1>2. ASSUME NEW d \in Datasets, Plan(d) PROVE StoreInv'
  BY <1>2, PlanStep
<1>3. ASSUME NEW d \in Datasets, StartExport(d) PROVE StoreInv'
  BY <1>3, StartExportStep
<1>4. ASSUME NEW d \in Datasets, NEW b \in Batches, Ingest(d, b) PROVE StoreInv'
  BY <1>4, IngestStep
<1>5. ASSUME NEW op \in {"UNION", "INTERSECTION", "DIFFERENCE"}, NEW a \in Datasets,
             NEW b \in Datasets, CombineOffered(op, a, b)
      PROVE  StoreInv'
  <2>1. PICK d \in Datasets : Combine(op, a, b, d)
    BY <1>5 DEF CombineOffered
  <2> QED BY <2>1, CombineStep
<1>6. CASE ExportPage
  <2>1. db' = db /\ taken' = taken
    BY <1>6 DEF ExportPage
  <2>2. ExportOk(db, export')
    BY <1>6, ExportPageStep DEF StoreInv
  <2> QED BY <2>1, <2>2 DEF StoreInv
<1>7. CASE EndExport
  <2>1. db' = db /\ taken' = taken /\ export' = Idle
    BY <1>7 DEF EndExport
  <2> QED BY <2>1, IdleOk DEF StoreInv
<1>8. CASE UNCHANGED vars
  BY <1>8 DEF vars, StoreInv
<1> QED BY <1>1, <1>2, <1>3, <1>4, <1>5, <1>6, <1>7, <1>8 DEF Next

\* Every transaction and every page keeps the invariant, whatever is delivered.
THEOREM StoreInvCorrect == Spec => []StoreInv
BY StoreInit, StoreNext, PTL DEF Spec

\* The tables have their columns and the unique indexes hold.
THEOREM StoreTypeCorrect == Spec => []TypeOK
<1>1. StoreInv => TypeOK
  BY DEF StoreInv, Consistent, TypeOK
<1> QED BY <1>1, StoreInvCorrect, PTL

\* Nobody who was delivered for a dataset is lost from it, although later batches,
\* of any dataset, promote and merge rows (_merge_fallback_row).
THEOREM NobodyIsLostCorrect == Spec => []NobodyIsLost
<1>1. StoreInv => NobodyIsLost
  BY DEF StoreInv, TakenOk, NobodyIsLost, Covers, Known, Rows
<1> QED BY <1>1, StoreInvCorrect, PTL

\* No plan refers to a row that a merge may delete.
THEOREM MergeIsNeverBlockedCorrect == Spec => []MergeIsNeverBlocked
<1>1. StoreInv => MergeIsNeverBlocked
  BY DEF StoreInv, Consistent, MergeIsNeverBlocked
<1> QED BY <1>1, StoreInvCorrect, PTL

\* The foreign key of migration_items never fails the transaction of
\* submit_ingest_batch: every ingest delivers what it was given.
THEOREM IngestIsNeverRolledBack ==
  Spec => [][\A d \in Datasets, b \in Batches :
               Ingest(d, b) => taken' = taken \cup ({d} \X Delivered(b))]_vars
<1> DEFINE Done == \A d \in Datasets, b \in Batches :
                     Ingest(d, b) => taken' = taken \cup ({d} \X Delivered(b))
<1>1. StoreInv => Done
  <2> SUFFICES ASSUME StoreInv, NEW d \in Datasets, NEW b \in Batches, Ingest(d, b)
               PROVE  taken' = taken \cup ({d} \X Delivered(b))
    OBVIOUS
  <2> DEFINE s == Ingested(db, d, b)
  <2>1. Consistent(s) /\ s.item = db.item
    BY IngestResult DEF Ingest, StoreInv
  <2>2. ~Blocked(db, s)
    <3> HIDE DEF s
    <3> QED BY <2>1 DEF Blocked, Consistent, NoRow
  <2> QED BY <2>2 DEF Ingest
<1> HIDE DEF Done
<1>2. StoreInv /\ [Next]_vars => [Done]_vars
  BY <1>1
<1>3. Spec => [][Done]_vars
  BY <1>2, StoreInvCorrect, PTL DEF Spec
<1> QED BY <1>3 DEF Done

\* An export by OFFSET next to writers: it writes everybody who stays, unless a
\* row it had passed was merged away meanwhile.
THEOREM StayersAreExportedCorrect == Spec => []StayersAreExported
<1>1. StoreInv => StayersAreExported
  <2> SUFFICES ASSUME StoreInv, ExportDone, ~export.cut
               PROVE  export.start \cap Rows(db, export.of) \subseteq export.out
    BY DEF StayersAreExported
  <2>1. /\ export.offset \in Nat /\ Page(db, export.of, export.offset) = {}
        /\ export.start \cap First(Rows(db, export.of), export.offset) \subseteq export.out
    BY DEF StoreInv, ExportOk, Exports, ExportDone
  <2>2. First(Rows(db, export.of), export.offset) = Rows(db, export.of)
    BY <2>1, EmptyPage
  <2> QED BY <2>1, <2>2
<1> QED BY <1>1, StoreInvCorrect, PTL

-----------------------------------------------------------------------------
(* The cadence of an executor, InviteScheduler.                            *)

\* pop(0) on the recovery profile leaves its last two steps.
LEMMA TailOfThree ==
  ASSUME NEW S, NEW a \in S, NEW b \in S, NEW c \in S
  PROVE  Tail(<<a, b, c>>) = <<b, c>>
<1>1. <<a, b, c>> \in Seq(S) /\ <<b, c>> \in Seq(S)
  OBVIOUS
<1>2. Tail(<<a, b, c>>) \in Seq(S) /\ Len(Tail(<<a, b, c>>)) = 2
  BY <1>1
<1>3. \A i \in 1..2 : Tail(<<a, b, c>>)[i] = <<b, c>>[i]
  BY <1>1
<1> QED BY <1>1, <1>2, <1>3, SeqEqual

\* The second pop(0) leaves the target.
LEMMA TailOfTwo ==
  ASSUME NEW S, NEW a \in S, NEW b \in S
  PROVE  Tail(<<a, b>>) = <<b>>
<1>1. <<a, b>> \in Seq(S) /\ <<b>> \in Seq(S)
  OBVIOUS
<1>2. Tail(<<a, b>>) \in Seq(S) /\ Len(Tail(<<a, b>>)) = 1
  BY <1>1
<1>3. \A i \in 1..1 : Tail(<<a, b>>)[i] = <<b>>[i]
  BY <1>1
<1> QED BY <1>1, <1>2, <1>3, SeqEqual

\* Where the recovery stands: the steps that are left and the interval in force
\* follow from the number of stable candidates since the last server wait.
RecoveryInv ==
  /\ stable = 0 => recoverySteps = <<SlowStep, MiddleStep, target>>
  /\ stable = 1 => /\ recoverySteps = <<MiddleStep, target>>
                   /\ interval = SlowStep
  /\ stable = 2 => recoverySteps = <<target>> /\ interval = MiddleStep
  /\ stable = 3 => recoverySteps = <<>> /\ interval = target

\* A request is on the wire only after the server wait, so that the guard of
\* mark_stable_candidate never skips a step.
GateInv == phase = "rpc" => serverWaitUntil <= now

SchedulerInv == CadenceTypeOK /\ RecoveryInv /\ GateInv

\* Inductive for every range, target and wait and every order of answers.
THEOREM SchedulerInvCorrect == CadenceSpec => []SchedulerInv
<1> USE SchedulerAssumption DEF StableCap, Never
<1>1. CadenceInit => SchedulerInv
  <2> SUFFICES ASSUME CadenceInit PROVE SchedulerInv
    OBVIOUS
  <2>1. target \in MinInterval..MaxInterval /\ target \in Nat
    BY DEF CadenceInit
  <2>2. /\ serverWaitUntil \in Nat
        /\ recoverySteps \in Seq(MinInterval..MaxInterval)
        /\ stable \in 0..StableCap
        /\ RecoveryInv
    <3>1. CASE serverWaitUntil = 0 /\ recoverySteps = <<>> /\ stable = StableCap
      BY <3>1 DEF CadenceInit, RecoveryInv
    <3>2. CASE /\ serverWaitUntil \in Waits
               /\ recoverySteps = <<SlowStep, MiddleStep, target>>
               /\ stable = 0
      <4>1. recoverySteps \in Seq(MinInterval..MaxInterval)
        BY <2>1, <3>2
      <4> QED BY <3>2, <4>1 DEF RecoveryInv
    <3> QED BY <3>1, <3>2 DEF CadenceInit
  <2> QED BY <2>1, <2>2 DEF CadenceInit, SchedulerInv, CadenceTypeOK, GateInv
<1>2. SchedulerInv /\ [CadenceNext]_cadenceVars => SchedulerInv'
  <2> SUFFICES ASSUME SchedulerInv, [CadenceNext]_cadenceVars PROVE SchedulerInv'
    OBVIOUS
  <2> USE DEF SchedulerInv
  <2>1. CASE Tick
    BY <2>1 DEF Tick, CadenceTypeOK, RecoveryInv, GateInv
  <2>2. CASE MarkAttempt
    <3>1. serverWaitUntil <= now
      BY <2>2
         DEF MarkAttempt, NextAttemptAt, Later,
             CadenceTypeOK
    <3> QED BY <2>2, <3>1
       DEF MarkAttempt, CadenceTypeOK, RecoveryInv, GateInv
  <2>3. CASE MarkStable
    <3>1. ~(serverWaitUntil > now)
      BY <2>3 DEF MarkStable, GateInv, CadenceTypeOK
    <3>0. /\ UNCHANGED <<now, target, lastAttempt, serverWaitUntil>>
          /\ phase' = "sleep"
      BY <2>3 DEF MarkStable
    <3>2. CASE stable = 0
      <4>0. /\ recoverySteps = <<SlowStep, MiddleStep, target>>
            /\ Tail(<<SlowStep, MiddleStep, target>>) = <<MiddleStep, target>>
        BY <3>2, TailOfThree DEF CadenceTypeOK, RecoveryInv
      <4>1. /\ interval' = SlowStep /\ recoverySteps' = <<MiddleStep, target>>
            /\ stable' = 1
        BY <2>3, <3>1, <3>2, <4>0 DEF MarkStable
      <4>2. <<MiddleStep, target>> \in Seq(MinInterval..MaxInterval)
        BY DEF CadenceTypeOK
      <4> QED BY <3>0, <4>1, <4>2 DEF CadenceTypeOK, RecoveryInv, GateInv
    <3>3. CASE stable = 1
      <4>0. /\ recoverySteps = <<MiddleStep, target>>
            /\ Tail(<<MiddleStep, target>>) = <<target>>
        BY <3>3, TailOfTwo DEF CadenceTypeOK, RecoveryInv
      <4>1. /\ interval' = MiddleStep /\ recoverySteps' = <<target>>
            /\ stable' = 2
        BY <2>3, <3>1, <3>3, <4>0 DEF MarkStable
      <4>2. <<target>> \in Seq(MinInterval..MaxInterval)
        BY DEF CadenceTypeOK
      <4> QED BY <3>0, <4>1, <4>2 DEF CadenceTypeOK, RecoveryInv, GateInv
    <3>4. CASE stable = 2
      <4>0. recoverySteps = <<target>> /\ Head(<<target>>) = target /\ Tail(<<target>>) = <<>>
        BY <3>4 DEF RecoveryInv
      <4>1. interval' = target /\ recoverySteps' = <<>> /\ stable' = 3
        BY <2>3, <3>1, <3>4, <4>0 DEF MarkStable
      <4> QED BY <3>0, <4>1 DEF CadenceTypeOK, RecoveryInv, GateInv
    <3>5. CASE stable = 3
      BY <2>3, <3>5 DEF MarkStable, CadenceTypeOK, RecoveryInv, GateInv
    <3> QED BY <3>2, <3>3, <3>4, <3>5 DEF CadenceTypeOK
  <2>4. CASE Transient
    BY <2>4 DEF Transient, CadenceTypeOK, RecoveryInv, GateInv
  <2>5. ASSUME NEW s \in Waits, ApplyServerWait(s) PROVE SchedulerInv'
    <3>1. now + s \in Nat
      BY DEF CadenceTypeOK
    <3>2. Later(serverWaitUntil, now + s) \in Nat
      BY <3>1 DEF Later, CadenceTypeOK
    <3>3. <<SlowStep, MiddleStep, target>> \in Seq(MinInterval..MaxInterval)
      BY DEF CadenceTypeOK
    <3> QED BY <2>5, <3>2, <3>3
            DEF ApplyServerWait, CadenceTypeOK, RecoveryInv, GateInv
  <2>6. CASE UNCHANGED cadenceVars
    BY <2>6 DEF cadenceVars, CadenceTypeOK, RecoveryInv, GateInv
  <2> QED BY <2>1, <2>2, <2>3, <2>4, <2>5, <2>6 DEF CadenceNext
<1> QED BY <1>1, <1>2, PTL DEF CadenceSpec

\* Type correctness: interval and target stay in the allowed range.
THEOREM CadenceTypeCorrect == CadenceSpec => []CadenceTypeOK
<1>0. CadenceSpec => []SchedulerInv
  BY SchedulerInvCorrect
<1>1. SchedulerInv => CadenceTypeOK
  BY DEF SchedulerInv
<1> QED BY <1>0, <1>1, PTL

\* remaining_delay() honours the server wait and the shortest interval for every
\* sequence of answers.
THEOREM NeverTooEarlyCorrect == CadenceSpec => NeverTooEarly
<1>0. CadenceSpec => []SchedulerInv
  BY SchedulerInvCorrect
<1> USE SchedulerAssumption DEF Never
<1> DEFINE Good ==
      /\ lastAttempt' # lastAttempt => lastAttempt' >= serverWaitUntil
      /\ NextRequest => lastAttempt' - lastAttempt >= MinInterval
<1>1. SchedulerInv /\ [CadenceNext]_cadenceVars => [Good]_cadenceVars
  <2> SUFFICES ASSUME SchedulerInv, CadenceNext PROVE Good
    OBVIOUS
  <2>1. CASE MarkAttempt
    <3>1. lastAttempt' = now /\ now >= serverWaitUntil
      BY <2>1
         DEF MarkAttempt, NextAttemptAt, Later,
             SchedulerInv, CadenceTypeOK
    <3>2. lastAttempt # Never => now - lastAttempt >= MinInterval
      BY <2>1
         DEF MarkAttempt, NextAttemptAt, Later,
             SchedulerInv, CadenceTypeOK
    <3> QED BY <3>1, <3>2 DEF NextRequest
  <2>2. CASE ~MarkAttempt
    BY <2>2
       DEF CadenceNext, Tick, MarkStable, Transient,
           ApplyServerWait, NextRequest
  <2> QED BY <2>1, <2>2
<1>2. NeverTooEarly <=> [][Good]_cadenceVars
  BY DEF NeverTooEarly
<1> HIDE DEF Good
<1> QED BY <1>0, <1>1, <1>2, PTL DEF CadenceSpec

\* A user who chooses at most the middle step (the migration page offers 3, 5
\* and 8) is never overtaken by the recovery.
THEOREM NeverFasterCorrect ==
  ASSUME \A t \in Targets : t <= MiddleStep /\ t <= SlowStep
  PROVE  CadenceSpec => []NeverFasterThanTarget
<1>0. CadenceSpec => []SchedulerInv
  BY SchedulerInvCorrect
<1> DEFINE Inv == target \in Targets /\ NeverFasterThanTarget
<1>1. CadenceInit => Inv
  BY SchedulerAssumption DEF CadenceInit, NeverFasterThanTarget
<1>2. SchedulerInv /\ Inv /\ [CadenceNext]_cadenceVars => Inv'
  <2> SUFFICES ASSUME SchedulerInv, Inv, [CadenceNext]_cadenceVars PROVE Inv'
    OBVIOUS
  <2>1. CASE MarkStable
    <3>1. interval' \in {interval, SlowStep, MiddleStep, target}
      BY <2>1
         DEF MarkStable, SchedulerInv, CadenceTypeOK, RecoveryInv,
             StableCap
    <3>2. target' = target
      BY <2>1 DEF MarkStable
    <3> QED BY <3>1, <3>2, SchedulerAssumption
               DEF NeverFasterThanTarget,
                   SchedulerInv, CadenceTypeOK
  <2>2. CASE ~MarkStable
    BY <2>2
       DEF CadenceNext, Tick, MarkAttempt, Transient,
           ApplyServerWait, cadenceVars,
                NeverFasterThanTarget
  <2> QED BY <2>1, <2>2
<1>3. Inv => NeverFasterThanTarget
  OBVIOUS
<1> QED BY <1>0, <1>1, <1>2, <1>3, PTL DEF CadenceSpec

\* The recovery 10 -> 8 -> target is kept for every such target, for every
\* mixture of stable candidates, transient errors and renewed server waits.
THEOREM RecoveryProfileCorrect ==
  ASSUME \A t \in Targets : t <= MiddleStep /\ t <= SlowStep
  PROVE  CadenceSpec => RecoveryProfile
<1>0. CadenceSpec => []SchedulerInv
  BY SchedulerInvCorrect
<1>3. CadenceSpec => []NeverFasterThanTarget
  BY NeverFasterCorrect
<1> DEFINE Good ==
      NextRequest =>
        LET gap == lastAttempt' - lastAttempt
        IN CASE stable = 1 -> gap >= SlowStep
             [] stable = 2 -> gap >= MiddleStep
             [] OTHER      -> gap >= target
<1>1. SchedulerInv /\ NeverFasterThanTarget /\ [CadenceNext]_cadenceVars => [Good]_cadenceVars
  <2> SUFFICES ASSUME SchedulerInv, NeverFasterThanTarget, CadenceNext PROVE Good
    OBVIOUS
  <2>1. CASE MarkAttempt
    <3>1. lastAttempt # Never => now - lastAttempt >= interval
      BY <2>1, SchedulerAssumption
         DEF MarkAttempt,
             NextAttemptAt, Later, SchedulerInv, CadenceTypeOK,
             Never
    <3>2. /\ stable = 1 => interval = SlowStep
          /\ stable = 2 => interval = MiddleStep
          /\ interval >= target
      BY DEF SchedulerInv, RecoveryInv, NeverFasterThanTarget
    <3>3. lastAttempt' = now
      BY <2>1 DEF MarkAttempt
    <3>4. now \in Int /\ target \in Int /\ interval \in Int
      BY SchedulerAssumption DEF SchedulerInv, CadenceTypeOK
    <3> QED
      <4> SUFFICES ASSUME NextRequest
                   PROVE  /\ stable = 1 => now - lastAttempt >= SlowStep
                          /\ stable = 2 => now - lastAttempt >= MiddleStep
                          /\ now - lastAttempt >= target
        BY <3>3
      <4>1. lastAttempt # Never /\ lastAttempt \in Int
        BY DEF NextRequest, SchedulerInv, CadenceTypeOK, Never
      <4> QED BY <3>1, <3>2, <3>4, <4>1
  <2>2. CASE ~MarkAttempt
    BY <2>2
       DEF CadenceNext, Tick, MarkStable, Transient,
           ApplyServerWait, NextRequest
  <2> QED BY <2>1, <2>2
<1>2. RecoveryProfile <=> [][Good]_cadenceVars
  BY DEF RecoveryProfile
<1> HIDE DEF Good
<1> QED BY <1>0, <1>1, <1>2, <1>3, PTL DEF CadenceSpec

-----------------------------------------------------------------------------
(* The window of candidates, CandidateBuffer: the order of a query.        *)

Ascends(s) == \A i, j \in 1..Len(s) : i < j => s[i] < s[j]

\* A later row has a higher rank.
LEMMA RankOrder ==
  ASSUME NEW R \in RowSets, NEW i \in R, NEW j \in R
  PROVE  /\ i < j <=> Rank(R, i) < Rank(R, j)
         /\ Rank(R, i) = Rank(R, j) => i = j
         /\ Rank(R, i) < Cardinality(R)
<1>1. ASSUME NEW a \in R, NEW b \in R, a < b PROVE Rank(R, a) < Rank(R, b)
  <2>0. a \in Nat /\ b \in Nat /\ \A l \in R : l \in Nat
    BY DEF RowSets
  <2>1. \A l \in R : l < a => l < b
    BY <1>1, <2>0
  <2>2. {l \in R : l < a} \subseteq {l \in R : l < b} /\ a \in {l \in R : l < b}
    BY <1>1, <2>1
  <2>3. a \notin {l \in R : l < a}
    BY <2>0
  <2>4. IsFiniteSet({l \in R : l < b})
    BY RankType
  <2> QED BY <2>2, <2>3, <2>4, FS_Subset, FS_CardinalityType, RankType DEF Rank
<1>2. i \in Nat /\ j \in Nat /\ Rank(R, i) \in Nat /\ Rank(R, j) \in Nat
  BY RankType DEF RowSets
<1>3. Rank(R, i) < Cardinality(R)
  <2>1. {l \in R : l < i} \subseteq R /\ i \notin {l \in R : l < i}
    BY <1>2
  <2>2. IsFiniteSet(R)
    BY DEF RowSets
  <2> QED BY <2>1, <2>2, FS_Subset, FS_CardinalityType DEF Rank
<1> QED BY <1>1, <1>2, <1>3

\* ORDER BY returns every row once, in ascending order.
LEMMA InOrderIs ==
  ASSUME NEW R \in RowSets
  PROVE  /\ InOrder(R) \in Seq(R) /\ Len(InOrder(R)) = Cardinality(R)
         /\ Ascends(InOrder(R))
         /\ \A o \in R : \E i \in 1..Len(InOrder(R)) : InOrder(R)[i] = o
<1> DEFINE n == Cardinality(R)
           At(i) == CHOOSE o \in R : Cardinality({p \in R : p < o}) = i - 1
<1>1. n \in Nat /\ IsFiniteSet(R)
  BY FS_CardinalityType DEF RowSets
<1>2. \A i \in 1..n : At(i) \in R /\ Rank(R, At(i)) = i - 1
  <2> SUFFICES ASSUME NEW i \in 1..n PROVE At(i) \in R /\ Rank(R, At(i)) = i - 1
    OBVIOUS
  <2>1. i - 1 \in Nat /\ i - 1 < n
    BY <1>1
  <2>2. \E o \in R : Rank(R, o) = i - 1
    BY <1>1, <2>1, FirstCount
  <2> QED BY <2>2 DEF Rank
<1>3. InOrder(R) = [i \in 1..n |-> At(i)]
  BY DEF InOrder
<1> HIDE DEF At, n
<1>4. InOrder(R) \in Seq(R) /\ Len(InOrder(R)) = n /\ \A i \in 1..n : InOrder(R)[i] = At(i)
  BY <1>1, <1>2, <1>3
<1>5. \A i, j \in 1..n : i < j => At(i) < At(j)
  BY <1>1, <1>2, RankOrder
<1>6. ASSUME NEW o \in R PROVE \E i \in 1..n : At(i) = o
  <2> DEFINE i == Rank(R, o) + 1
  <2>0. Rank(R, o) \in Nat /\ Rank(R, o) < n
    BY RankOrder, RankType DEF n
  <2>1. i \in 1..n /\ i - 1 = Rank(R, o)
    BY <1>1, <2>0
  <2> HIDE DEF i
  <2> QED BY <1>2, <2>1, RankOrder
<1> QED BY <1>4, <1>5, <1>6 DEF Ascends, n

-----------------------------------------------------------------------------
(* What the window holds and what a read returns.                          *)

Open(it, o) == it[o] \in {"READY", "RETRY"}
Ordinals0   == Ordinals \cup {0}

\* q is the pending items after c, up to l.
Holds(it, q, c, l) ==
  /\ q \in Seq(Ordinals) /\ Ascends(q)
  /\ c \in Ordinals0 /\ l \in Ordinals0 /\ c <= l
  /\ \A i \in 1..Len(q) : Open(it, q[i]) /\ c < q[i] /\ q[i] <= l
  /\ \A o \in Ordinals : Open(it, o) /\ c < o /\ o <= l => \E i \in 1..Len(q) : q[i] = o

\* Nothing is pending after l.
NoneAfter(it, l) == \A o \in Ordinals : Open(it, o) => o <= l

\* rs are the next pending items after l, as far as they go; none, if there is none.
Continues(it, rs, l) ==
  /\ rs \in Seq(Ordinals) /\ Ascends(rs)
  /\ \A i \in 1..Len(rs) : Open(it, rs[i]) /\ l < rs[i]
  /\ rs = <<>> => NoneAfter(it, l)
  /\ rs # <<>> => \A o \in Ordinals : Open(it, o) /\ l < o /\ o <= rs[Len(rs)]
                    => \E i \in 1..Len(rs) : rs[i] = o

\* A fill under way reads, or has read, what comes after the last ordinal loaded.
FillOk(it, load, l) ==
  \/ load \in {NoFill, Raised, Submitted(l)}
  \/ \E rs \in Seq(Ordinals) : load = ReadRows(rs) /\ Continues(it, rs, l)

\* The run uses its window.
Using == {"prime", "ready", "fill", "take", "attempt"}

WindowOk(it, q, c, l, load, exh) ==
  /\ Holds(it, q, c, l)
  /\ FillOk(it, load, l)
  /\ exh => NoneAfter(it, l)

BufferInv ==
  /\ item \in [Ordinals -> {"READY", "RETRY", "DONE"}]
  /\ pc \in Using \cup {"idle", "ended", "failed", "broken"}
  /\ cand \in Ordinals0
  /\ results \subseteq {o \in Ordinals : o <= cand}
  /\ pc = "idle" => results = {}
  /\ pc \in Using => WindowOk(item, queue, cand, lastLoaded, loading, exhausted)
  /\ pc = "prime" => cand = 0
  /\ pc = "attempt" => cand # 0
  /\ pc = "fill" => queue = <<>> /\ (loading = NoFill => exhausted)
  /\ pc = "take" /\ queue = <<>> => exhausted

LEMMA OrdinalNumbers ==
  /\ Ordinals \in RowSets /\ \A o \in Ordinals : o \in Nat /\ o > 0
  /\ \A o \in Ordinals0 : o \in Nat
BY BufferAssumption DEF RowSets, Ordinals0

\* The states of a future are told apart.
LEMMA FillStates ==
  /\ \A n, rs : /\ NoFill # Raised /\ NoFill # Submitted(n) /\ NoFill # ReadRows(rs)
                /\ NoFill.st = "none" /\ Raised.st = "raised"
                /\ Submitted(n).st = "submitted" /\ Submitted(n).after = n
                /\ ReadRows(rs).st = "read" /\ ReadRows(rs).rows = rs
BY DEF NoFill, Raised, Submitted, ReadRows

\* pending_chunk returns the next pending items, for every chunk size.
LEMMA ChunkContinues ==
  ASSUME NEW n \in Ordinals0
  PROVE  Continues(item, PendingChunk(n), n)
<1> DEFINE all == {o \in Ordinals : o > n /\ Pending(o)}
           F   == First(all, ChunkSize)
           rs  == InOrder(F)
<1>1. all \in RowSets /\ F \in RowSets
  <2>1. all \in SUBSET Nat /\ IsFiniteSet(all)
    BY OrdinalNumbers, FS_Subset DEF RowSets
  <2>2. F \subseteq all
    BY DEF First
  <2> HIDE DEF all, F
  <2> QED BY <2>1, <2>2, FS_Subset DEF RowSets
<1>2. PendingChunk(n) = rs
  BY DEF PendingChunk, First, Rank
<1>3. \A o \in F : o \in Ordinals /\ n < o /\ Open(item, o)
  BY OrdinalNumbers DEF First, Pending, Open, Ordinals0
<1>4. /\ \A o \in Ordinals : Open(item, o) /\ n < o => o \in all
      /\ \A o \in all : o \in Nat
  BY OrdinalNumbers DEF Pending, Open, Ordinals0
<1>5. ASSUME NEW p \in all, NEW o \in F, p <= o PROVE p \in F
  <2>1. o \in all /\ Rank(all, o) < ChunkSize
    BY DEF First
  <2> HIDE DEF all, F
  <2>2. Rank(all, p) \in Nat /\ Rank(all, o) \in Nat /\ ChunkSize \in Nat
    BY <1>1, RankType, BufferAssumption
  <2>3. p < o \/ p = o
    BY <1>4, <1>5, <2>1
  <2>4. Rank(all, p) < ChunkSize
    BY <1>1, <2>1, <2>2, <2>3, RankOrder
  <2> QED BY <2>4 DEF F, First
<1>6. ASSUME F = {} PROVE all = {}
  <2>1. SUFFICES ASSUME all # {} PROVE FALSE
    OBVIOUS
  <2>2. Cardinality(F) = ChunkSize
    <3> HIDE DEF all
    <3> QED BY <1>1, <1>6, <2>1, FirstCount, BufferAssumption
  <2> QED BY <1>6, <2>2, FS_EmptySet, BufferAssumption
<1> HIDE DEF all, F
<1>7. /\ rs \in Seq(F) /\ Ascends(rs) /\ Len(rs) = Cardinality(F)
      /\ \A o \in F : \E i \in 1..Len(rs) : rs[i] = o
  BY <1>1, InOrderIs
<1> HIDE DEF rs
<1>8. rs \in Seq(Ordinals) /\ Len(rs) \in Nat /\ \A i \in 1..Len(rs) : rs[i] \in F
  BY <1>3, <1>7
<1>9. rs = <<>> => NoneAfter(item, n)
  <2>1. rs = <<>> => F = {}
    BY <1>7
  <2> QED BY <1>4, <1>6, <2>1, OrdinalNumbers DEF NoneAfter
<1>10. ASSUME rs # <<>>, NEW o \in Ordinals, Open(item, o), n < o, o <= rs[Len(rs)]
       PROVE  \E i \in 1..Len(rs) : rs[i] = o
  <2>1. Len(rs) \in 1..Len(rs)
    BY <1>8, <1>10
  <2> QED BY <1>4, <1>5, <1>7, <1>8, <1>10, <2>1
<1> QED BY <1>2, <1>3, <1>7, <1>8, <1>9, <1>10 DEF Continues

\* Results and retries concern what was offered: the rest of the window stays.
LEMMA WindowKept ==
  ASSUME NEW it, NEW jt, NEW q, NEW c, NEW l, NEW load, NEW exh,
         WindowOk(it, q, c, l, load, exh),
         \A o \in Ordinals : c < o => jt[o] = it[o]
  PROVE  WindowOk(jt, q, c, l, load, exh)
<1>1. /\ c \in Nat /\ l \in Nat /\ c <= l /\ \A o \in Ordinals : o \in Nat
      /\ c \in Ordinals0 /\ l \in Ordinals0
  BY OrdinalNumbers DEF WindowOk, Holds
<1>2. \A o \in Ordinals : c < o => (Open(it, o) <=> Open(jt, o))
  BY DEF Open
<1>3. Holds(jt, q, c, l)
  <2>1. \A i \in 1..Len(q) : q[i] \in Ordinals /\ Open(jt, q[i]) /\ c < q[i] /\ q[i] <= l
    BY <1>2 DEF WindowOk, Holds
  <2>2. \A o \in Ordinals : Open(jt, o) /\ c < o /\ o <= l => \E i \in 1..Len(q) : q[i] = o
    BY <1>2 DEF WindowOk, Holds
  <2> QED BY <2>1, <2>2 DEF WindowOk, Holds
<1>4. ASSUME NoneAfter(it, l) PROVE NoneAfter(jt, l)
  <2> SUFFICES ASSUME NEW o \in Ordinals, Open(jt, o), ~(o <= l) PROVE FALSE
    BY DEF NoneAfter
  <2>1. c < o
    BY <1>1
  <2> QED BY <1>2, <1>4, <2>1 DEF NoneAfter
<1>5. FillOk(jt, load, l)
  <2>1. ASSUME NEW rs \in Seq(Ordinals), Continues(it, rs, l) PROVE Continues(jt, rs, l)
    <3>1. \A o \in Ordinals : l < o => (Open(it, o) <=> Open(jt, o))
      BY <1>1, <1>2
    <3>2. \A i \in 1..Len(rs) : rs[i] \in Ordinals
      OBVIOUS
    <3>3. \A i \in 1..Len(rs) : Open(jt, rs[i]) /\ l < rs[i]
      BY <2>1, <3>1, <3>2 DEF Continues
    <3>4. rs # <<>> => \A o \in Ordinals : Open(jt, o) /\ l < o /\ o <= rs[Len(rs)]
                         => \E i \in 1..Len(rs) : rs[i] = o
      BY <2>1, <3>1 DEF Continues
    <3> QED BY <1>4, <2>1, <3>3, <3>4 DEF Continues
  <2> QED BY <2>1 DEF FillOk, WindowOk
<1> QED BY <1>3, <1>4, <1>5 DEF WindowOk

\* _finish_fill appends the rows of the read behind the window.
LEMMA WindowFilled ==
  ASSUME NEW it, NEW q, NEW c, NEW l, NEW exh, NEW rs,
         WindowOk(it, q, c, l, ReadRows(rs), exh)
  PROVE  /\ WindowOk(it, q \o rs, c, IF rs = <<>> THEN l ELSE rs[Len(rs)],
                     NoFill, exh \/ rs = <<>>)
         /\ rs \in Seq(Ordinals)
<1>1. Continues(it, rs, l) /\ rs \in Seq(Ordinals)
  BY FillStates DEF WindowOk, FillOk, Raised, Submitted, ReadRows
<1>2. /\ q \in Seq(Ordinals) /\ c \in Nat /\ l \in Nat /\ \A o \in Ordinals : o \in Nat
      /\ c \in Ordinals0 /\ l \in Ordinals0 /\ c <= l
  BY OrdinalNumbers DEF WindowOk, Holds
<1>3. CASE rs = <<>>
  <2>1. q \o rs = q
    BY <1>2, <1>3
  <2>2. NoneAfter(it, l)
    BY <1>1, <1>3 DEF Continues
  <2> QED BY <1>1, <1>3, <2>1, <2>2 DEF WindowOk, FillOk
<1>4. CASE rs # <<>>
  <2> DEFINE s == q \o rs
             m == rs[Len(rs)]
  <2>0. Len(rs) \in Nat /\ Len(q) \in Nat /\ Len(rs) \in 1..Len(rs) /\ m \in Ordinals
    BY <1>1, <1>2, <1>4
  <2>1. s \in Seq(Ordinals) /\ Len(s) = Len(q) + Len(rs)
    BY <1>1, <1>2
  <2>2. \A i \in 1..Len(s) : \/ i \in 1..Len(q) /\ s[i] = q[i]
                             \/ i - Len(q) \in 1..Len(rs) /\ s[i] = rs[i - Len(q)]
    BY <1>1, <1>2, <2>0, <2>1
  <2>3. /\ \A i \in 1..Len(q) : i \in 1..Len(s) /\ s[i] = q[i]
        /\ \A i \in 1..Len(rs) : i + Len(q) \in 1..Len(s) /\ s[i + Len(q)] = rs[i]
    BY <1>1, <1>2, <2>0, <2>1
  <2>4. /\ \A i \in 1..Len(q) : Open(it, q[i]) /\ c < q[i] /\ q[i] <= l /\ q[i] \in Nat
        /\ \A i \in 1..Len(rs) : Open(it, rs[i]) /\ l < rs[i] /\ rs[i] \in Nat
    BY <1>1, <1>2 DEF WindowOk, Holds, Continues
  <2>5. /\ \A i, j \in 1..Len(q) : i < j => q[i] < q[j]
        /\ \A i, j \in 1..Len(rs) : i < j => rs[i] < rs[j]
    BY <1>1 DEF WindowOk, Holds, Continues, Ascends
  <2> HIDE DEF s, m
  <2>6. \A i \in 1..Len(rs) : rs[i] <= m
    BY <2>0, <2>4, <2>5 DEF m
  <2>7. l < m /\ m \in Nat /\ m \in Ordinals0
    BY <1>2, <2>0, <2>4 DEF m, Ordinals0
  <2>8. Ascends(s)
    <3> SUFFICES ASSUME NEW i \in 1..Len(s), NEW j \in 1..Len(s), i < j PROVE s[i] < s[j]
      BY DEF Ascends
    <3>1. CASE j \in 1..Len(q) /\ s[j] = q[j]
      BY <2>0, <2>2, <2>5, <3>1
    <3>2. CASE /\ i \in 1..Len(q) /\ s[i] = q[i]
               /\ j - Len(q) \in 1..Len(rs) /\ s[j] = rs[j - Len(q)]
      BY <1>2, <2>4, <3>2
    <3>3. CASE /\ i - Len(q) \in 1..Len(rs) /\ s[i] = rs[i - Len(q)]
               /\ j - Len(q) \in 1..Len(rs) /\ s[j] = rs[j - Len(q)]
      <4>1. i - Len(q) < j - Len(q)
        BY <2>0, <2>1
      <4> QED BY <2>5, <3>3, <4>1
    <3> QED BY <2>2, <3>1, <3>2, <3>3
  <2>9. \A i \in 1..Len(s) : Open(it, s[i]) /\ c < s[i] /\ s[i] <= m
    <3>1. ASSUME NEW i \in 1..Len(q) PROVE Open(it, q[i]) /\ c < q[i] /\ q[i] <= m
      BY <1>2, <2>4, <2>7
    <3>2. ASSUME NEW i \in 1..Len(rs) PROVE Open(it, rs[i]) /\ c < rs[i] /\ rs[i] <= m
      BY <1>2, <2>4, <2>6
    <3> QED BY <2>2, <3>1, <3>2
  <2>10. ASSUME NEW o \in Ordinals, Open(it, o), c < o, o <= m
         PROVE  \E i \in 1..Len(s) : s[i] = o
    <3>1. CASE o <= l
      BY <2>3, <2>10, <3>1 DEF WindowOk, Holds
    <3>2. CASE l < o
      <4>1. \E i \in 1..Len(rs) : rs[i] = o
        BY <1>1, <1>4, <2>10, <3>2 DEF Continues, m
      <4> QED BY <2>3, <4>1
    <3> QED BY <1>2, <3>1, <3>2
  <2>11. Holds(it, s, c, m)
    BY <1>2, <2>1, <2>7, <2>8, <2>9, <2>10 DEF Holds
  <2>12. exh => NoneAfter(it, m)
    BY <1>2, <2>7 DEF WindowOk, NoneAfter
  <2> QED BY <1>1, <1>4, <2>11, <2>12 DEF WindowOk, FillOk, s, m
<1> QED BY <1>3, <1>4

\* pop hands out the head.
LEMMA WindowTaken ==
  ASSUME NEW it, NEW q, NEW c, NEW l, q # <<>>, Holds(it, q, c, l)
  PROVE  /\ Holds(it, Tail(q), Head(q), l)
         /\ Head(q) \in Ordinals /\ Open(it, Head(q)) /\ c < Head(q)
         /\ \A o \in Ordinals : Open(it, o) /\ c < o => Head(q) <= o
<1>1. /\ q \in Seq(Ordinals) /\ c \in Nat /\ l \in Nat /\ \A o \in Ordinals : o \in Nat
      /\ l \in Ordinals0
  BY OrdinalNumbers DEF Holds
<1> DEFINE n == Len(q)
           h == Head(q)
           s == Tail(q)
<1>2. n \in Nat /\ n > 0 /\ h = q[1] /\ h \in Ordinals /\ 1 \in 1..n
  BY <1>1
<1>3. s \in Seq(Ordinals) /\ Len(s) = n - 1 /\ \A i \in 1..Len(s) : s[i] = q[i + 1] /\ i + 1 \in 1..n
  BY <1>1, <1>2
<1>4. /\ \A i, j \in 1..n : i < j => q[i] < q[j]
      /\ \A i \in 1..n : Open(it, q[i]) /\ c < q[i] /\ q[i] <= l /\ q[i] \in Nat
      /\ \A o \in Ordinals : Open(it, o) /\ c < o /\ o <= l => \E i \in 1..n : q[i] = o
  BY <1>1 DEF Holds, Ascends
<1> HIDE DEF n, h, s
<1>5. Ascends(s)
  <2> SUFFICES ASSUME NEW i \in 1..Len(s), NEW j \in 1..Len(s), i < j PROVE s[i] < s[j]
    BY DEF Ascends
  <2>1. i + 1 < j + 1 /\ i + 1 \in 1..n /\ j + 1 \in 1..n
    BY <1>2, <1>3
  <2> QED BY <1>3, <1>4, <2>1
<1>6. \A i \in 1..Len(s) : Open(it, s[i]) /\ h < s[i] /\ s[i] <= l
  <2> SUFFICES ASSUME NEW i \in 1..Len(s) PROVE Open(it, s[i]) /\ h < s[i] /\ s[i] <= l
    OBVIOUS
  <2>1. i + 1 \in 1..n /\ 1 < i + 1 /\ s[i] = q[i + 1]
    BY <1>2, <1>3
  <2> QED BY <1>2, <1>4, <2>1
<1>7. ASSUME NEW o \in Ordinals, Open(it, o), h < o, o <= l
      PROVE  \E i \in 1..Len(s) : s[i] = o
  <2>1. c < o
    BY <1>1, <1>2, <1>4, <1>7
  <2>2. PICK i \in 1..n : q[i] = o
    BY <1>4, <1>7, <2>1
  <2>3. i # 1
    BY <1>1, <1>2, <1>7, <2>2
  <2>4. i - 1 \in 1..Len(s) /\ (i - 1) + 1 = i
    BY <1>2, <1>3, <2>3
  <2> QED BY <1>3, <2>2, <2>4
<1>8. ASSUME NEW o \in Ordinals, Open(it, o), c < o PROVE h <= o
  <2>1. CASE o <= l
    <3>1. PICK i \in 1..n : q[i] = o
      BY <1>4, <1>8, <2>1
    <3>2. i = 1 \/ 1 < i
      BY <1>2
    <3> QED BY <1>1, <1>2, <1>4, <3>1, <3>2
  <2> QED BY <1>1, <1>2, <1>4, <2>1
<1>9. h <= l /\ h \in Ordinals0 /\ c < h /\ Open(it, h)
  BY <1>2, <1>4 DEF Ordinals0
<1> QED BY <1>1, <1>2, <1>3, <1>5, <1>6, <1>7, <1>8, <1>9 DEF Holds, h, s

-----------------------------------------------------------------------------
(* Every action keeps the window and is a step of PendingItems, or none.   *)

\* What a step has to show.
Implemented == BufferInv' /\ (Promise!Next \/ UNCHANGED Promise!vars)

LEMMA NoneAtFirst == BufferInit => BufferInv
BY DEF BufferInit, BufferInv, Using, Ordinals0

\* What SubmitFill leaves is a fill in order; none only when all is read.
LEMMA SubmitIsOk ==
  ASSUME NEW it, NEW load, NEW l, NEW exh, FillOk(it, load, l)
  PROVE  /\ FillOk(it, SubmitFill(load, l, exh), l)
         /\ SubmitFill(load, l, exh) = NoFill => exh
BY FillStates DEF FillOk, SubmitFill

LEMMA BeginRunStep ==
  ASSUME BufferInv, BeginRun
  PROVE  Implemented
<1>1. loading' = Submitted(0)
  BY DEF BeginRun, SubmitFill
<1>2. WindowOk(item, <<>>, 0, 0, Submitted(0), FALSE)
  <2>1. Holds(item, <<>>, 0, 0)
    BY OrdinalNumbers DEF Holds, Ascends, Ordinals0
  <2> QED BY <2>1 DEF WindowOk, FillOk
<1>3. BufferInv'
  BY <1>1, <1>2 DEF BeginRun, BufferInv, Using, Ordinals0
<1>4. Promise!Begin
  BY DEF BeginRun, Promise!Begin, Status
<1> QED BY <1>3, <1>4 DEF Implemented, Promise!Next

LEMMA WorkerReadsStep ==
  ASSUME BufferInv, WorkerReads
  PROVE  Implemented
<1>1. UNCHANGED Promise!vars
  BY DEF WorkerReads, Promise!vars, Status
<1>2. loading # NoFill /\ loading' # NoFill
  BY FillStates DEF WorkerReads
<1>3. ASSUME pc \in Using
      PROVE  WindowOk(item, queue, cand, lastLoaded, loading', exhausted)
  <2>1. loading = Submitted(lastLoaded)
    BY <1>3, FillStates DEF BufferInv, WindowOk, FillOk, WorkerReads
  <2>2. loading.after = lastLoaded /\ lastLoaded \in Ordinals0
    BY <1>3, <2>1, FillStates DEF BufferInv, WindowOk, Holds
  <2>3. Continues(item, PendingChunk(lastLoaded), lastLoaded)
    BY <2>2, ChunkContinues
  <2>4. loading' \in {Raised, ReadRows(PendingChunk(lastLoaded))}
    BY <2>2 DEF WorkerReads
  <2>5. FillOk(item, loading', lastLoaded)
    BY <2>3, <2>4 DEF FillOk, Continues
  <2> QED BY <1>3, <2>5 DEF BufferInv, WindowOk
<1>4. BufferInv'
  BY <1>2, <1>3 DEF BufferInv, WorkerReads
<1> QED BY <1>1, <1>4 DEF Implemented

\* After _finish_fill: the window holds what was read, and an empty one means that
\* all is read.
LEMMA FinishFillResult ==
  ASSUME BufferInv, FinishFill, pc \in Using
  PROVE  /\ WindowOk(item, queue', cand, lastLoaded', loading', exhausted')
         /\ queue' = <<>> => exhausted'
<1>1. PICK rs \in Seq(Ordinals) : loading = ReadRows(rs)
  BY FillStates DEF BufferInv, WindowOk, FillOk, FinishFill
<1>2. /\ queue' = queue \o rs /\ loading' = NoFill
      /\ lastLoaded' = IF rs = <<>> THEN lastLoaded ELSE rs[Len(rs)]
      /\ exhausted' = (exhausted \/ rs = <<>>)
  BY <1>1, FillStates DEF FinishFill
<1>3. WindowOk(item, queue, cand, lastLoaded, ReadRows(rs), exhausted)
  BY <1>1 DEF BufferInv
<1>4. WindowOk(item, queue', cand, lastLoaded', loading', exhausted')
  BY <1>2, <1>3, WindowFilled
<1>5. ASSUME queue' = <<>>, rs # <<>> PROVE FALSE
  <2>1. queue \in Seq(Ordinals)
    BY <1>3 DEF WindowOk, Holds
  <2>2. Len(queue \o rs) = Len(queue) + Len(rs) /\ Len(rs) > 0 /\ Len(queue) >= 0
    BY <1>1, <1>5, <2>1
  <2> QED BY <1>2, <1>5, <2>1, <2>2
<1> QED BY <1>2, <1>4, <1>5

LEMMA PrimeStep ==
  ASSUME BufferInv, PrimeReturns
  PROVE  Implemented
<1>1. pc = "prime" /\ pc' = "ready" /\ cand = 0 /\ UNCHANGED <<item, cand, results>>
  BY DEF BufferInv, PrimeReturns
<1>2. WindowOk(item, queue', cand, lastLoaded', loading', exhausted')
  BY <1>1, FinishFillResult DEF PrimeReturns, Using
<1>3. BufferInv'
  BY <1>1, <1>2 DEF BufferInv, Using
<1>4. UNCHANGED Promise!vars
  BY <1>1 DEF Promise!vars, Status
<1> QED BY <1>3, <1>4 DEF Implemented

LEMMA PopStep ==
  ASSUME BufferInv, Pop
  PROVE  Implemented
<1>1. /\ pc = "ready" /\ UNCHANGED <<item, queue, lastLoaded, exhausted, cand, results>>
      /\ pc' = IF queue = <<>> THEN "fill" ELSE "take"
  BY DEF Pop
<1>2. WindowOk(item, queue, cand, lastLoaded, loading, exhausted)
  BY <1>1 DEF BufferInv, Using
<1>3. /\ WindowOk(item, queue, cand, lastLoaded, loading', exhausted)
      /\ queue = <<>> /\ loading' = NoFill => exhausted
  <2>1. CASE queue = <<>>
    <3>1. loading' = SubmitFill(loading, lastLoaded, exhausted)
      BY <2>1 DEF Pop
    <3> QED BY <1>2, <3>1, SubmitIsOk DEF WindowOk
  <2>2. CASE queue # <<>>
    BY <1>2, <2>2 DEF Pop
  <2> QED BY <2>1, <2>2
<1>4. BufferInv'
  BY <1>1, <1>3 DEF BufferInv, Using
<1>5. Promise!Ask
  BY <1>1 DEF Promise!Ask, Status
<1> QED BY <1>4, <1>5 DEF Implemented, Promise!Next

LEMMA PopFilledStep ==
  ASSUME BufferInv, PopFilled
  PROVE  Implemented
<1>1. pc = "fill" /\ pc' = "take" /\ UNCHANGED <<item, cand, results>>
  BY DEF PopFilled
<1>2. /\ WindowOk(item, queue', cand, lastLoaded', loading', exhausted')
      /\ queue' = <<>> => exhausted'
  <2>1. CASE FinishFill
    BY <1>1, <2>1, FinishFillResult DEF Using
  <2>2. CASE loading = NoFill /\ UNCHANGED windowVars
    BY <1>1, <2>2 DEF windowVars, BufferInv, Using
  <2> QED BY <2>1, <2>2 DEF PopFilled
<1>3. BufferInv'
  BY <1>1, <1>2 DEF BufferInv, Using
<1>4. UNCHANGED Promise!vars
  BY <1>1 DEF Promise!vars, Status
<1> QED BY <1>3, <1>4 DEF Implemented

\* The head of the window is the first pending item after the last one offered.
LEMMA TakeStep ==
  ASSUME BufferInv, Take
  PROVE  Implemented
<1>1. /\ pc = "take" /\ pc' = "attempt" /\ queue # <<>>
      /\ cand' = Head(queue) /\ queue' = Tail(queue)
      /\ UNCHANGED <<item, lastLoaded, exhausted, results>>
  BY DEF Take
<1>2. WindowOk(item, queue, cand, lastLoaded, loading, exhausted)
  BY <1>1 DEF BufferInv, Using
<1>3. /\ Holds(item, queue', cand', lastLoaded)
      /\ cand' \in Ordinals /\ Open(item, cand') /\ cand < cand'
      /\ \A o \in Ordinals : Open(item, o) /\ cand < o => cand' <= o
  BY <1>1, <1>2, WindowTaken DEF WindowOk
<1>4. FillOk(item, loading', lastLoaded)
  <2>1. loading' \in {loading, SubmitFill(loading, lastLoaded, exhausted)}
    BY DEF Take
  <2> QED BY <1>2, <2>1, SubmitIsOk DEF WindowOk
<1>5. WindowOk(item, queue', cand', lastLoaded, loading', exhausted)
  BY <1>2, <1>3, <1>4 DEF WindowOk
<1>6. cand' # 0 /\ cand \in Nat /\ cand' \in Nat /\ \A o \in Ordinals : o \in Nat
  BY <1>3, OrdinalNumbers DEF BufferInv
<1>7. results \subseteq {o \in Ordinals : o <= cand'}
  BY <1>3, <1>6 DEF BufferInv
<1>8. BufferInv'
  BY <1>1, <1>3, <1>5, <1>6, <1>7 DEF BufferInv, Using, Ordinals0
<1>9. Promise!Offer(cand')
  <2>1. Status = "asked" /\ Status' = "given"
    BY <1>1 DEF Status
  <2>2. \A o \in Ordinals : Open(item, o) /\ o > cand => cand' <= o
    BY <1>3, <1>6
  <2>3. cand' > cand
    BY <1>3, <1>6
  <2> QED BY <1>1, <1>3, <2>1, <2>2, <2>3 DEF Promise!Offer, Promise!Pending, Open
<1> QED BY <1>3, <1>8, <1>9 DEF Implemented, Promise!Next, Promise!Answer

LEMMA TakeNoneStep ==
  ASSUME BufferInv, TakeNone
  PROVE  Implemented
<1>1. /\ pc = "take" /\ pc' = "ended" /\ queue = <<>>
      /\ UNCHANGED <<item, cand, results>>
  BY DEF TakeNone
<1>2. WindowOk(item, queue, cand, lastLoaded, loading, exhausted) /\ exhausted
  BY <1>1 DEF BufferInv, Using
<1>3. BufferInv'
  BY <1>1 DEF BufferInv, Using
<1>4. \A p \in Ordinals : Open(item, p) => p <= cand
  <2> SUFFICES ASSUME NEW p \in Ordinals, Open(item, p), ~(p <= cand) PROVE FALSE
    OBVIOUS
  <2>1. cand < p
    BY OrdinalNumbers DEF BufferInv
  <2>2. p <= lastLoaded
    BY <1>2 DEF WindowOk, NoneAfter
  <2>3. \E i \in 1..Len(queue) : queue[i] = p
    BY <1>2, <2>1, <2>2 DEF WindowOk, Holds
  <2> QED BY <1>1, <2>3
<1>5. Promise!End
  BY <1>1, <1>4 DEF Promise!End, Promise!Pending, Open, Status
<1> QED BY <1>3, <1>5 DEF Implemented, Promise!Next, Promise!Answer

LEMMA FillRaisesStep ==
  ASSUME BufferInv, FillRaises
  PROVE  Implemented
<1>1. /\ pc \in {"prime", "fill"} /\ pc' \in {"broken", "failed"}
      /\ pc = "prime" => cand = 0
      /\ UNCHANGED <<item, cand, results>>
  BY DEF FillRaises, BufferInv
<1>2. BufferInv'
  BY <1>1 DEF BufferInv, Using
<1>3. Promise!Fail
  BY <1>1 DEF Promise!Fail, Status
<1> QED BY <1>2, <1>3 DEF Implemented, Promise!Next, Promise!Answer

LEMMA SettleStep ==
  ASSUME BufferInv, Settle
  PROVE  Implemented
<1>1. /\ pc = "attempt" /\ pc' = "ready" /\ cand # 0 /\ results' = results \cup {cand}
      /\ UNCHANGED <<item, queue, lastLoaded, loading, exhausted, cand>>
  BY DEF Settle, windowVars, BufferInv
<1>2. results' \subseteq {o \in Ordinals : o <= cand}
  BY <1>1, OrdinalNumbers DEF BufferInv, Ordinals0
<1>3. BufferInv'
  BY <1>1, <1>2 DEF BufferInv, Using
<1>4. UNCHANGED Promise!vars
  BY <1>1 DEF Promise!vars, Status
<1> QED BY <1>3, <1>4 DEF Implemented

\* Results that are written, and a retry, concern ordinals up to the last one offered.
LEMMA RecordStep ==
  ASSUME BufferInv, pc # "idle", results' = {},
         item' \in [Ordinals -> {"READY", "RETRY", "DONE"}],
         \A o \in Ordinals : item'[o] # item[o] => o <= cand,
         UNCHANGED <<windowVars, pc, cand>>
  PROVE  Implemented
<1>1. UNCHANGED <<queue, lastLoaded, loading, exhausted>>
  BY DEF windowVars
<1>2. \A o \in Ordinals : cand < o => item'[o] = item[o]
  BY OrdinalNumbers DEF BufferInv
<1>3. ASSUME pc \in Using PROVE WindowOk(item', queue, cand, lastLoaded, loading, exhausted)
  BY <1>2, <1>3, WindowKept DEF BufferInv
<1>4. BufferInv'
  BY <1>1, <1>3 DEF BufferInv
<1>5. Promise!Record(item')
  BY DEF Promise!Record, Status, BufferInv, Using
<1> QED BY <1>4, <1>5 DEF Implemented, Promise!Next

LEMMA RecordedIs ==
  ASSUME BufferInv
  PROVE  /\ Recorded \in [Ordinals -> {"READY", "RETRY", "DONE"}]
         /\ \A o \in Ordinals : Recorded[o] # item[o] => o <= cand
BY DEF Recorded, BufferInv

LEMMA FlushStep ==
  ASSUME BufferInv, Flush
  PROVE  Implemented
BY RecordedIs, RecordStep DEF Flush

LEMMA MarkRetryStep ==
  ASSUME BufferInv, MarkRetry
  PROVE  Implemented
<1>1. /\ item' \in [Ordinals -> {"READY", "RETRY", "DONE"}]
      /\ \A o \in Ordinals : item'[o] # item[o] => o <= cand
  <2>1. cand \in Nat
    BY OrdinalNumbers DEF BufferInv
  <2>2. item' = [Recorded EXCEPT ![cand] = "RETRY"]
    BY DEF MarkRetry
  <2>3. \A o \in Ordinals : o # cand => item'[o] = Recorded[o]
    BY <2>2, RecordedIs
  <2>4. item' \in [Ordinals -> {"READY", "RETRY", "DONE"}]
    BY <2>2, RecordedIs
  <2>5. \A o \in Ordinals : item'[o] # item[o] => o <= cand
    BY <2>1, <2>3, RecordedIs
  <2> QED BY <2>4, <2>5
<1> QED BY <1>1, RecordStep DEF MarkRetry

\* The run is left: by an interruption or with the process.
LEMMA LeaveStep ==
  ASSUME BufferInv, Interrupt \/ Crash
  PROVE  Implemented
<1>1. pc # "idle" /\ pc' = "idle" /\ results' = {} /\ UNCHANGED <<item, cand>>
  BY DEF Interrupt, Crash
<1>2. BufferInv'
  BY <1>1 DEF BufferInv, Using
<1>3. Promise!Leave
  BY <1>1 DEF Promise!Leave, Status, BufferInv, Using
<1> QED BY <1>2, <1>3 DEF Implemented, Promise!Next

\* A run is offered exactly the next pending item and hears the end only when none
\* is left, for all sets of items, chunk sizes and watermarks: the steps of the
\* buffer are steps of the plain list.  (That it is always answered is fairness.)
THEOREM BufferImplementsPromise ==
  BufferSpec => Promise!Init /\ [][Promise!Next]_(Promise!vars)
<1>1. BufferInit => BufferInv /\ Promise!Init
  BY NoneAtFirst DEF BufferInit, Promise!Init, Status
<1>2. BufferInv /\ [BufferNext]_bufferVars => BufferInv' /\ [Promise!Next]_(Promise!vars)
  <2> SUFFICES ASSUME BufferInv, [BufferNext]_bufferVars PROVE Implemented
    BY DEF Implemented
  <2>1. CASE BufferNext
    <3>1. CASE Await
      BY <3>1, PrimeStep, PopFilledStep, FillRaisesStep DEF Await
    <3>2. CASE BufferNext /\ ~Await
      BY <3>2, BeginRunStep, WorkerReadsStep, PopStep, TakeStep, TakeNoneStep, SettleStep,
         FlushStep, MarkRetryStep, LeaveStep DEF BufferNext
    <3> QED BY <2>1, <3>1, <3>2
  <2>2. CASE UNCHANGED bufferVars
    BY <2>2 DEF bufferVars, windowVars, BufferInv, Implemented, Promise!vars, Status
  <2> QED BY <2>1, <2>2
<1> QED BY <1>1, <1>2, PTL DEF BufferSpec
=============================================================================
