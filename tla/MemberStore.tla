----------------------------- MODULE MemberStore -----------------------------
(***************************************************************************)
(* Members, datasets and plans as rows: tms/members/repository.py,         *)
(* tms/datasets, the two writers that fill datasets (a scan and an import, *)
(* tms/import_export/service.py), the set operations on datasets, and the  *)
(* export that reads a dataset page by page while others write.            *)
(*                                                                         *)
(* A member is known by its Telegram id or, when a file gives only a name, *)
(* by a username in a fallback row; a later member with both turns that    *)
(* row into the id's row, or is merged with it.                            *)
(*                                                                         *)
(* Every write is one transaction of DBWriter, so it is one step.          *)
(* Abstractions: a cleaned username is a model value, since rows compare   *)
(* it without case; the other columns are left out; provenance keeps which *)
(* dataset and member it is about.                                         *)
(***************************************************************************)
EXTENDS Integers, Sequences, FiniteSets

CONSTANTS
  Uids, Names, NoName,
  Spellings,    \* usernames as they are delivered, with blanks and "@" or none
  Cleaned,      \* [Spellings -> Names and NoName], strip and lstrip("@")
  Batches,      \* what scans and files deliver: sequences of Members
  Ids,          \* bound: rows of members, natural numbers from 1
  MaxBatches,   \* bound: batches delivered
  Datasets,     \* bound: datasets, natural numbers from 1
  PageSize      \* chunk_size of iter_dataset_rows

NoUid == 0

\* A delivered member, after normalize_member or the reading of a file's row.
Members == [uid : Uids \cup {NoUid}, name : Spellings, hash : BOOLEAN]

ASSUME StoreAssumption ==
  /\ NoName \notin Names /\ NoUid \notin Uids
  /\ Cleaned \in [Spellings -> Names \cup {NoName}]
  /\ IsFiniteSet(Ids) /\ Ids = 1..Cardinality(Ids) /\ Datasets \subseteq Nat \ {0}
  /\ PageSize \in Nat \ {0} /\ MaxBatches \in Nat
  /\ Batches \subseteq Seq(Members)

VARIABLES
  db,       \* the tables, see Tables
  export,   \* the export of one dataset: offset, rows written, rows at its start
  taken,    \* history: <<dataset, id or name>> of everything ever delivered
  batches   \* how many batches were delivered, up to MaxBatches

vars == <<db, export, taken, batches>>

\* row:    members, NoRow where there is none       in:    dataset_members
\* prov:   dataset_provenance                       made:  datasets
\* item:   migration_items.member_id                peer:  peer_cache
\* next:   sqlite_sequence of members
\* became: history, <<name, uid>> when a fallback row got or joined an id
NoRow == [uid |-> NoUid, name |-> NoName]
Tables ==
  [row    : [Ids -> [uid : Uids \cup {NoUid}, name : Names \cup {NoName}]],
   in     : SUBSET (Datasets \X Ids), prov : SUBSET (Datasets \X Ids),
   made   : SUBSET Datasets, item : SUBSET Ids, peer : SUBSET Uids, next : Nat,
   became : SUBSET (Names \X Uids)]

Idle == [of |-> 0, offset |-> 0, out |-> {}, start |-> {}, cut |-> FALSE]

Rows(t, d) == {i \in Ids : <<d, i>> \in t.in}

\* AUTOINCREMENT: the id of a deleted row is never given again.
NewId(t) == t.next
Free(t)  == {i \in Ids : i >= t.next}

-----------------------------------------------------------------------------
(* MemberRepository._upsert_one on tables t: the new tables and the row.   *)

CleanUsername(m) == [m EXCEPT !.name = Cleaned[@]]

ById(t, u)     == {i \in Ids : u # NoUid /\ t.row[i].uid = u}
Fallback(t, n) == {i \in Ids : n # NoName /\ t.row[i] = [uid |-> NoUid, name |-> n]}

Put(t, i, u, n) == [t EXCEPT !.row[i] = [uid |-> u, name |-> n]]

\* _merge_fallback_row: copy the memberships, then delete the row, and with it
\* what refers to it by ON DELETE CASCADE.
Moved(pairs, f, i) ==
  {p \in pairs : p[2] # f} \cup {<<p[1], i>> : p \in {q \in pairs : q[2] = f}}

\* Slip: the merged row is deleted before its memberships are copied.
MergeLosesMembership(t, f, i) ==
  [t EXCEPT !.in = {p \in @ : p[2] # f}, !.prov = Moved(@, f, i), !.row[f] = NoRow,
            !.became = @ \cup {<<t.row[f].name, t.row[i].uid>>}]

Merge(t, f, i) ==
  [t EXCEPT !.in = Moved(@, f, i), !.prov = Moved(@, f, i), !.row[f] = NoRow,
            !.became = @ \cup {<<t.row[f].name, t.row[i].uid>>}]

One(S) == CHOOSE i \in S : TRUE

\* No row has the id, but a name-only row has the name: it gets the id.
Promoted(t, m, f) ==
  [tab |-> [Put(t, f, m.uid, m.name) EXCEPT !.became = @ \cup {<<m.name, m.uid>>}], id |-> f]

Inserted(t, m) ==
  [tab |-> [Put(t, NewId(t), m.uid, m.name) EXCEPT !.next = @ + 1], id |-> NewId(t)]

\* INSERT ... ON CONFLICT(telegram_user_id) DO UPDATE.
Stored(t, m) ==
  LET mine == ById(t, m.uid) IN
  IF mine = {} THEN Inserted(t, m)
  ELSE [tab |-> Put(t, One(mine), m.uid, m.name), id |-> One(mine)]

\* A member without an id: the name-only row, found or made.
StoredByName(t, m) ==
  LET fb == Fallback(t, m.name) IN
  IF fb # {} THEN [tab |-> t, id |-> One(fb)] ELSE Inserted(t, m)

Upsert(t, delivered) ==
  LET m  == CleanUsername(delivered)
      fb == Fallback(t, m.name)
      r  == Stored(t, m) IN
  CASE m.uid # NoUid /\ fb = {} -> r
    [] m.uid # NoUid /\ fb # {} ->
         IF ById(t, m.uid) = {} THEN Promoted(t, m, One(fb))
         ELSE [r EXCEPT !.tab = Merge(@, One(fb), r.id)]
    [] m.uid = NoUid /\ m.name # NoName -> StoredByName(t, m)
    [] OTHER -> [tab |-> t, id |-> 0]

\* Membership, provenance and peer hint of one member of a batch.
WithMember(t, d, m) ==
  LET r == Upsert(t, m) IN
  IF r.id = 0 THEN t
  ELSE [r.tab EXCEPT !.in = @ \cup {<<d, r.id>>}, !.prov = @ \cup {<<d, r.id>>},
                     !.peer = IF m.uid # NoUid /\ m.hash THEN @ \cup {m.uid} ELSE @]

\* The loop of submit_ingest_batch.
Ingested(t, d, batch) ==
  LET after[k \in 0..Len(batch)] ==
        IF k = 0 THEN t ELSE WithMember(after[k - 1], d, batch[k])
  IN after[Len(batch)]

\* The foreign key of migration_items has no ON DELETE: the transaction fails
\* and is rolled back when a row to be deleted is planned for.
Blocked(t, after) == \E i \in t.item : after.row[i] = NoRow

\* Whom a member is asked for by: its id, else its name.
Key(m) == IF m.uid # NoUid THEN m.uid ELSE m.name

Delivered(batch) == {Key(CleanUsername(batch[k])) : k \in 1..Len(batch)} \ {NoName}

-----------------------------------------------------------------------------
Init ==
  /\ db = [row |-> [i \in Ids |-> NoRow], in |-> {}, prov |-> {}, made |-> {},
           item |-> {}, peer |-> {}, next |-> 1, became |-> {}]
  /\ export = Idle
  /\ taken = {}
  /\ batches = 0

\* An export in progress notices that a row it has passed is gone.
Passed(t) == {i \in Rows(t, export.of) :
                Cardinality({j \in Rows(t, export.of) : j < i}) < export.offset}
Write(after) ==
  /\ db' = after
  /\ export' = [export EXCEPT !.cut = @ \/ ~(Passed(db) \subseteq Rows(after, export.of))]

\* The id of the next dataset.
NextDataset(d) == d \notin db.made /\ \A e \in Datasets \ db.made : d <= e

\* list_all, and what the boxes of the pages offer.
Listed     == db.made
Offered(d) == d \in Listed

\* scan_source, import_dataset: the dataset comes first, empty.
CreateDataset(d) ==
  /\ NextDataset(d)
  /\ Write([db EXCEPT !.made = @ \cup {d}])
  /\ UNCHANGED <<taken, batches>>

\* One batch of a scan, or all rows of a file.
Ingest(d, batch) ==
  LET after == Ingested(db, d, batch) IN
  /\ d \in db.made
  /\ Len(batch) <= Cardinality(Free(db)) /\ batches < MaxBatches
  /\ batches' = batches + 1
  /\ IF Blocked(db, after) THEN UNCHANGED <<db, export, taken>>
     ELSE Write(after) /\ taken' = taken \cup ({d} \X Delivered(batch))

\* DatasetService.combine.  COUNT(DISTINCT dataset_id) is 2 for nobody when a
\* dataset is intersected with itself.
Combined(op, a, b) ==
  CASE op = "UNION"        -> Rows(db, a) \cup Rows(db, b)
    [] op = "INTERSECTION" -> IF a = b THEN {} ELSE Rows(db, a) \cap Rows(db, b)
    [] op = "DIFFERENCE"   -> Rows(db, a) \ Rows(db, b)

KeyOf(i) == IF db.row[i].uid # NoUid THEN db.row[i].uid ELSE db.row[i].name

WithCombined(op, a, b, d) ==
  [db EXCEPT !.made = @ \cup {d},
             !.in = @ \cup ({d} \X Combined(op, a, b)),
             !.prov = @ \cup ({d} \X (Rows(db, a) \cup Rows(db, b)))]

\* dataset.combine.
Combine(op, a, b, d) ==
  /\ NextDataset(d)
  /\ Write(WithCombined(op, a, b, d))
  /\ taken' = taken \cup {<<d, KeyOf(i)>> : i \in Combined(op, a, b)}
  /\ UNCHANGED batches

\* The button of MembersPage, with one dataset chosen in each box.
CombineOffered(op, a, b) ==
  /\ Offered(a) /\ Offered(b)
  /\ \E d \in Datasets : Combine(op, a, b, d)

\* Slip: rows without an id are planned too.
PlanUnresolved(d) ==
  /\ Offered(d)
  /\ \E S \in SUBSET Rows(db, d) : Write([db EXCEPT !.item = @ \cup S])
  /\ UNCHANGED <<taken, batches>>

\* _valid, as far as it asks for an id and an access hash.
Valid(i) == db.row[i].uid \in db.peer

\* MigrationPlanner: items for valid rows, or for some of them, as the rest of
\* the filter and the target decide.
Plan(d) ==
  /\ Offered(d)
  /\ \E S \in SUBSET {i \in Rows(db, d) : Valid(i)} :
       Write([db EXCEPT !.item = @ \cup S])
  /\ UNCHANGED <<taken, batches>>

-----------------------------------------------------------------------------
(* export_dataset, over iter_dataset_rows and page.                        *)

StartExport(d) ==
  /\ export.of = 0 /\ Offered(d)
  /\ export' = [Idle EXCEPT !.of = d, !.start = Rows(db, d)]
  /\ UNCHANGED <<db, taken, batches>>

\* ORDER BY member_id LIMIT PageSize OFFSET offset.
Page(t, d, offset) ==
  {i \in Rows(t, d) : LET before == Cardinality({j \in Rows(t, d) : j < i})
                      IN offset <= before /\ before < offset + PageSize}

\* Slip: the offset is one too large.
NextOffsetSkips(n) == export.offset + n + 1
NextOffset(n) == export.offset + n

ExportPage ==
  LET rows == Page(db, export.of, export.offset) IN
  /\ export.of # 0 /\ rows # {}
  /\ export' = [export EXCEPT !.offset = NextOffset(Cardinality(rows)), !.out = @ \cup rows]
  /\ UNCHANGED <<db, taken, batches>>

ExportDone == export.of # 0 /\ Page(db, export.of, export.offset) = {}

EndExport == ExportDone /\ export' = Idle /\ UNCHANGED <<db, taken, batches>>

Next ==
  \/ \E d \in Datasets : CreateDataset(d) \/ Plan(d) \/ StartExport(d)
  \/ \E d \in Datasets, batch \in Batches : Ingest(d, batch)
  \/ \E op \in {"UNION", "INTERSECTION", "DIFFERENCE"}, a, b \in Datasets :
       CombineOffered(op, a, b)
  \/ ExportPage \/ EndExport

Spec == Init /\ [][Next]_vars

-----------------------------------------------------------------------------
\* Tables have their columns, and the unique indexes hold: one row for an id,
\* one fallback row for a name.
TypeOK ==
  /\ db \in Tables
  /\ \A i, j \in Ids : i # j /\ db.row[i] # NoRow =>
       (db.row[i].uid # NoUid => db.row[j].uid # db.row[i].uid)
       /\ (db.row[i].uid = NoUid => db.row[j] # db.row[i])

\* Whoever was ever delivered for a dataset, or was in it when it was combined,
\* is in it now: under the id, under the name, or, when a name-only row was
\* promoted or merged into an id's row meanwhile, under that id.  Merges caused
\* by one dataset take nobody out of another.
NobodyIsLost ==
  \A p \in taken : \E i \in Rows(db, p[1]) :
    \/ p[2] \in Uids /\ db.row[i].uid = p[2]
    \/ p[2] \in Names /\ (db.row[i] = [uid |-> NoUid, name |-> p[2]]
                           \/ <<p[2], db.row[i].uid>> \in db.became)

\* No plan refers to a row without a Telegram id.  Merging deletes such rows
\* and nothing else, so no scan or import is ever rolled back because some job,
\* finished or not, refers to the row it merges.
MergeIsNeverBlocked ==
  \A i \in db.item : db.row[i].uid # NoUid

\* An export writes everybody who was in the dataset when it began and still is,
\* although others are added between its pages; paging by OFFSET passes over
\* somebody only when a row before the offset was merged away meanwhile.
StayersAreExported ==
  ExportDone /\ ~export.cut => export.start \cap Rows(db, export.of) \subseteq export.out
=============================================================================
