------------------------ MODULE TargetPlanningProofs ------------------------
(***************************************************************************)
(* Proofs about TargetPlanning, for every set of accounts, groups, users   *)
(* and overlapping checks and for every number of failures and crashes:    *)
(* the pre-check never claims more than it read (CoverageIsHonest), a      *)
(* migration job pairs a target with an account that resolved it           *)
(* (PlanIsAddressable), the page shows only whole plans (ShownPlanIsWhole) *)
(* and a check that no other one overlaps plans from the read of its own   *)
(* target (UndisturbedPlanMatches).                                        *)
(***************************************************************************)
EXTENDS TargetPlanning, TLAPS

Task == [step : Steps, account : Accounts \cup {NoAccount}, group : Groups \cup {NoGroup},
         at : Nat \ {0}, pre : Results, action : {"none", "INVITE", "REMOVE"}]

Row == [state : {"none", "READY"}, account : Accounts \cup {NoAccount},
        group : Groups \cup {NoGroup}, action : {"none", "INVITE", "REMOVE"},
        known : BOOLEAN, items : SUBSET Users]

\* The types that the arguments below rest on.
TypeInv ==
  /\ store \in [target : Groups \cup {NoGroup}, account : Accounts \cup {NoAccount},
                precheck : Results]
  /\ page.account \in Accounts \cup {NoAccount}
  /\ chain \in [Checks -> Task]
  /\ plan \in [Checks -> Row]
  /\ peers \subseteq Accounts \X Groups

\* The accounts and groups that a task and the store name together were resolved
\* together; a task that has them as arguments has real ones.
Held == {"resolve", "upsert", "prepare", "start", "slot", "read"}
Paired == {"upsert", "plan", "items", "action"}
PeerInv ==
  /\ store.target # NoGroup => <<store.account, store.target>> \in peers
  /\ \A c \in Checks :
       /\ chain[c].step \in Held => chain[c].group \in Groups /\ chain[c].account \in Accounts
       /\ chain[c].step \in Paired => <<chain[c].account, chain[c].group>> \in peers

\* What a read has collected is exactly the pages it has passed.
ReadSoFar(t) ==
  /\ t.pre.of = t.group
  /\ t.pre.coverage = "reading"
  /\ t.at <= Len(Pages[t.group]) + 1
  /\ 1..(t.at - 1) \subseteq Asked(t.group)
  /\ t.pre.ids = UNION {Pages[t.group][i] : i \in 1..(t.at - 1)}
ReadInv ==
  \A c \in Checks :
    /\ chain[c].step = "read" => ReadSoFar(chain[c])
    /\ chain[c].step \in {"prepare", "start", "slot"} => chain[c].at = 1

PlanningInv == TypeInv /\ PeerInv /\ PlanIsAddressable /\ ReadInv /\ CoverageIsHonest

-----------------------------------------------------------------------------
LEMMA NothingIsHonest == HonestResult(NoResult)
  BY DEF HonestResult, NoResult

LEMMA ConstantTypes == NoTask \in Task /\ NoPlan \in Row /\ NoResult \in Results
  BY DEF NoTask, NoPlan, NoResult, Task, Row, Results, Steps

\* A page more.
LEMMA OnePageMore ==
  ASSUME NEW f, NEW n \in Nat \ {0}
  PROVE  UNION {f[i] : i \in 1..n} = (UNION {f[i] : i \in 1..(n - 1)}) \cup f[n]
<1>1. \A i : i \in 1..n <=> i \in 1..(n - 1) \/ i = n
  OBVIOUS
<1> QED BY <1>1, Zenon

\* Everybody in the group, listed or not.
Participants(g) == UNION {Pages[g][i] : i \in 1..Len(Pages[g])}

\* A group of which no page before the last is short is listed as a whole.
LEMMA LongPagesListAll ==
  ASSUME NEW g \in Groups, \A i \in 1..(Len(Pages[g]) - 1) : ~Final(g, i)
  PROVE  Listed(g) = Participants(g)
<1>1. Len(Pages[g]) \in Nat
  BY PlanningAssumption
<1>2. \A i : i \in Asked(g) \ {Len(Pages[g]) + 1} <=> i \in 1..Len(Pages[g])
  BY <1>1 DEF Asked
<1> QED BY <1>2, Zenon DEF Listed, Participants

\* The pages read are pages that are listed.
LEMMA PrefixIsRead ==
  ASSUME NEW g \in Groups, NEW n \in Nat \ {0}, n <= Len(Pages[g]) + 1,
         1..(n - 1) \subseteq Asked(g)
  PROVE  UNION {Pages[g][i] : i \in 1..(n - 1)} \subseteq Listed(g)
<1>1. Len(Pages[g]) \in Nat
  BY PlanningAssumption
<1>2. \A i : i \in 1..(n - 1) => i \in Asked(g) \ {Len(Pages[g]) + 1}
  BY <1>1
<1> QED BY <1>2, Zenon DEF Listed

-----------------------------------------------------------------------------
(* A step of one task: the other tasks are untouched, so that only the new *)
(* value of this one matters.                                              *)

Sound(t) ==
  /\ t \in Task
  /\ t.step \in Held => t.group \in Groups /\ t.account \in Accounts
  /\ t.step = "read" => ReadSoFar(t)
  /\ t.step \in {"prepare", "start", "slot"} => t.at = 1
  /\ HonestResult(t.pre)

LEMMA SoundTasks ==
  PlanningInv => \A c \in Checks : Sound(chain[c])
  BY DEF PlanningInv, TypeInv, PeerInv, ReadInv, CoverageIsHonest, Sound

\* The rows and the store stay addressable and honest while the peer cache grows.
Kept ==
  /\ peers \subseteq peers' /\ peers' \subseteq Accounts \X Groups
  /\ store' \in [target : Groups \cup {NoGroup}, account : Accounts \cup {NoAccount},
                 precheck : Results]
  /\ store'.target # NoGroup => <<store'.account, store'.target>> \in peers'
  /\ HonestResult(store'.precheck)
  /\ page'.account \in Accounts \cup {NoAccount}
  /\ plan' \in [Checks -> Row]
  /\ PlanIsAddressable'

LEMMA NothingStored ==
  ASSUME PlanningInv, UNCHANGED <<store, peers, plan>>,
         page' = page \/ page'.account \in Accounts \cup {NoAccount}
  PROVE  Kept
  BY DEF Kept, PlanningInv, TypeInv, PeerInv, CoverageIsHonest, PlanIsAddressable

LEMMA TaskMoves ==
  ASSUME PlanningInv, Kept, NEW c \in Checks, NEW t, Sound(t),
         chain' = [chain EXCEPT ![c] = t],
         t.step \in Paired => <<t.account, t.group>> \in peers'
  PROVE  PlanningInv'
<1> USE DEF PlanningInv
<1>1. TypeInv'
  BY DEF TypeInv, Sound, Kept
<1>2. PeerInv'
  BY DEF TypeInv, PeerInv, Sound, Kept
<1>3. PlanIsAddressable'
  BY DEF Kept
<1>4. ReadInv'
  BY DEF TypeInv, ReadInv, Sound
<1>5. CoverageIsHonest'
  BY DEF TypeInv, CoverageIsHonest, Sound, Kept
<1> QED BY <1>1, <1>2, <1>3, <1>4, <1>5

\* The same task at another step.
LEMMA SameTask ==
  ASSUME PlanningInv, Kept, NEW c \in Checks, NEW step \in Steps \ {"read"},
         step \in Held => chain[c].step \in Held,
         step \in {"prepare", "start", "slot"} => chain[c].step \in {"prepare", "start"},
         step \in Paired => chain[c].step \in Paired,
         chain' = [chain EXCEPT ![c].step = step]
  PROVE  PlanningInv'
<1> DEFINE t == [chain[c] EXCEPT !.step = step]
<1>1. Sound(chain[c])
  BY SoundTasks
<1>2. Sound(t)
  BY <1>1 DEF Sound, Task, Held
<1>3. t.step = step /\ t.account = chain[c].account /\ t.group = chain[c].group
  BY <1>1 DEF Sound, Task
<1>4. chain' = [chain EXCEPT ![c] = t]
  OBVIOUS
<1>5. t.step \in Paired => <<t.account, t.group>> \in peers'
  BY <1>3 DEF PlanningInv, PeerInv, Kept
<1> HIDE DEF t
<1> QED BY <1>2, <1>4, <1>5, TaskMoves

-----------------------------------------------------------------------------
LEMMA CheckStep ==
  ASSUME PlanningInv, NEW c \in Checks, NEW a \in Accounts, NEW g \in Groups, Check(c, a, g)
  PROVE  PlanningInv'
<1> DEFINE t == [NoTask EXCEPT !.step = "resolve", !.account = a, !.group = g]
<1>1. Sound(t)
  BY ConstantTypes, NothingIsHonest DEF Sound, NoTask, Task, Steps, Held
<1>2. t.step \notin Paired
  BY DEF NoTask, Paired
<1>3. Kept
  BY NothingStored DEF Check, dbVars
<1>4. chain' = [chain EXCEPT ![c] = t]
  BY DEF Check
<1> HIDE DEF t
<1> QED BY <1>1, <1>2, <1>3, <1>4, TaskMoves

LEMMA ResolveGroupStep ==
  ASSUME PlanningInv, NEW c \in Checks, ResolveGroup(c)
  PROVE  PlanningInv'
<1> DEFINE t == [chain[c] EXCEPT !.step = "upsert"]
<1>1. Sound(chain[c]) /\ chain[c].step = "resolve"
  BY SoundTasks DEF ResolveGroup, At
<1>2. chain[c].group \in Groups /\ chain[c].account \in Accounts
  BY <1>1 DEF Sound, Held
<1>3. Kept
  BY <1>2 DEF Kept, ResolveGroup, Put, uiVars, PlanningInv, TypeInv, PeerInv,
              CoverageIsHonest, PlanIsAddressable
<1>4. Sound(t)
  BY <1>1, <1>2 DEF Sound, Task, Steps
<1>5. <<t.account, t.group>> \in peers'
  BY <1>1 DEF Sound, Task, ResolveGroup, Put
<1>6. chain' = [chain EXCEPT ![c] = t]
  BY DEF ResolveGroup, Goto
<1> HIDE DEF t
<1> QED BY <1>3, <1>4, <1>5, <1>6, TaskMoves

LEMMA ResolvedStep ==
  ASSUME PlanningInv, NEW c \in Checks, Resolved(c)
  PROVE  PlanningInv'
<1>1. /\ chain[c].group \in Groups /\ chain[c].account \in Accounts
      /\ <<chain[c].account, chain[c].group>> \in peers
  BY DEF PlanningInv, PeerInv, Held, Paired, Resolved, At
<1>2. Kept
  BY <1>1, ConstantTypes, NothingIsHonest
     DEF Kept, Resolved, uiVars, dbVars, PlanningInv, TypeInv, PlanIsAddressable
<1>3. chain' = [chain EXCEPT ![c].step = "resolved"]
  BY DEF Resolved, Publish, Goto
<1> QED BY <1>2, <1>3, SameTask DEF Steps, Held, Paired

LEMMA OnResolvedStep ==
  ASSUME PlanningInv, NEW c \in Checks, OnResolved(c)
  PROVE  PlanningInv'
<1> DEFINE t == [NoTask EXCEPT !.step = "prepare", !.account = page.account,
                               !.group = store.target]
<1>1. Kept
  BY NothingStored DEF OnResolved, dbVars
<1>2. CASE chain' = [chain EXCEPT ![c].step = "done"]
  BY <1>1, <1>2, SameTask DEF Steps, Held, Paired
<1>3. CASE /\ store.target # NoGroup /\ store.account = page.account
           /\ chain' = [chain EXCEPT ![c] = t]
  <2>1. page.account \in Accounts \cup {NoAccount} /\ store.target \in Groups
    BY <1>3 DEF PlanningInv, TypeInv
  <2>2. page.account \in Accounts
    BY <1>3 DEF PlanningInv, PeerInv, TypeInv
  <2>3. Sound(t)
    BY <2>1, <2>2, ConstantTypes, NothingIsHonest DEF Sound, NoTask, Task, Steps, Held
  <2>4. t.step \notin Paired
    BY DEF NoTask, Paired
  <2> HIDE DEF t
  <2> QED BY <1>1, <1>3, <2>3, <2>4, TaskMoves
<1> QED BY <1>2, <1>3 DEF OnResolved, Refuse, Goto

\* The steps that only move the task on.
LEMMA PlainSteps ==
  ASSUME PlanningInv, NEW c \in Checks,
         \/ ResolveFails(c) \/ OnFailed(c) \/ Prepare(c) \/ Start(c) \/ Settle(c)
         \/ MarkFailed(c) \/ OnReady(c) \/ WriteFails(c) \/ DropEvent(c)
  PROVE  PlanningInv'
<1>1. Kept
  <2>1. UNCHANGED <<store, peers, plan>>
    BY DEF ResolveFails, OnFailed, Prepare, Start, Settle, MarkFailed, OnReady, WriteFails,
           DropEvent, dbVars
  <2>2. page'.account \in Accounts \cup {NoAccount}
    <3>1. CASE OnReady(c)
      <4>1. page' = [page EXCEPT !.checking = FALSE, !.job = c]
        BY <3>1 DEF OnReady
      <4>2. page'.account = page.account
        BY <4>1
      <4> QED BY <4>2 DEF PlanningInv, TypeInv
    <3>2. CASE page' = page
      BY <3>2 DEF PlanningInv, TypeInv
    <3> QED BY <3>1, <3>2
            DEF ResolveFails, OnFailed, Prepare, Start, Settle, MarkFailed, WriteFails,
                DropEvent, uiVars
  <2> QED BY <2>1, <2>2, NothingStored
<1>2. \/ chain' = [chain EXCEPT ![c].step = "failed"]
      \/ chain' = [chain EXCEPT ![c].step = "done"]
      \/ chain' = [chain EXCEPT ![c].step = "lost"]
      \/ chain' = [chain EXCEPT ![c].step = "log"]
      \/ chain' = [chain EXCEPT ![c].step = "failing"]
      \/ chain[c].step = "prepare" /\ chain' = [chain EXCEPT ![c].step = "start"]
      \/ chain[c].step = "start" /\ chain' = [chain EXCEPT ![c].step = "slot"]
  BY DEF ResolveFails, OnFailed, Prepare, Start, Settle, MarkFailed, OnReady, WriteFails,
         DropEvent, Publish, Goto, Refuse, At
<1> QED BY <1>1, <1>2, SameTask DEF Steps, Held, Paired

LEMMA AcquireSlotStep ==
  ASSUME PlanningInv, NEW c \in Checks, AcquireSlot(c)
  PROVE  PlanningInv'
<1> DEFINE r == [of |-> chain[c].group, ids |-> {}, coverage |-> "reading"]
           t == [chain[c] EXCEPT !.step = "read", !.pre = r]
<1>1. Kept
  BY NothingStored DEF AcquireSlot, uiVars, dbVars
<1>2. chain[c] \in Task /\ chain[c].group \in Groups /\ chain[c].account \in Accounts
      /\ chain[c].at = 1
  BY SoundTasks DEF Sound, AcquireSlot, At, Held
<1>3. Len(Pages[chain[c].group]) \in Nat
  BY <1>2, PlanningAssumption
<1>4. t \in Task
  BY <1>2 DEF Task, Results, Coverages, Steps
<1>5. UNION {Pages[chain[c].group][i] : i \in 1..(1 - 1)} = {}
  OBVIOUS
<1>6. ReadSoFar(t)
  BY <1>2, <1>3, <1>5 DEF ReadSoFar, Task
<1>7. Sound(t) /\ t.step \notin Paired
  BY <1>2, <1>4, <1>6 DEF Sound, Task, HonestResult, Paired
<1>8. chain' = [chain EXCEPT ![c] = t]
  BY <1>2 DEF AcquireSlot, Task
<1> HIDE DEF t
<1> QED BY <1>1, <1>7, <1>8, TaskMoves

LEMMA ReadPageStep ==
  ASSUME PlanningInv, NEW c \in Checks, ReadPage(c)
  PROVE  PlanningInv'
<1> DEFINE g == chain[c].group
           n == chain[c].at
           r == [chain[c].pre EXCEPT !.ids = @ \cup Pages[g][n]]
           t == [chain[c] EXCEPT !.pre = r, !.at = n + 1]
<1>1. Kept
  BY NothingStored DEF ReadPage, uiVars, dbVars
<1>2. chain[c] \in Task /\ g \in Groups /\ chain[c].account \in Accounts
      /\ ReadSoFar(chain[c]) /\ chain[c].step = "read" /\ n <= Len(Pages[g])
      /\ n \in Asked(g)
  BY SoundTasks DEF Sound, ReadPage, At, Held
<1>3. n \in Nat \ {0} /\ chain[c].pre \in Results /\ Len(Pages[g]) \in Nat
  BY <1>2, PlanningAssumption DEF Task
<1>4. Pages[g][n] \subseteq Users
  <2>1. Pages[g] \in Seq(SUBSET Users)
    BY <1>2, PlanningAssumption
  <2>2. n \in 1..Len(Pages[g])
    BY <1>2, <1>3
  <2>3. Pages[g][n] \in SUBSET Users
    BY <2>1, <2>2
  <2> QED BY <2>3
<1>5. /\ chain[c].pre \in [of : Groups, ids : SUBSET Users, coverage : Coverages]
      /\ chain[c].pre.coverage = "reading" /\ chain[c].pre.of = g
  BY <1>2, <1>3 DEF ReadSoFar, Results, NoResult
<1>6. /\ r \in Results /\ r.of = g /\ r.coverage = "reading"
      /\ r.ids = chain[c].pre.ids \cup Pages[g][n]
  BY <1>4, <1>5 DEF Results
<1>7. r.ids = UNION {Pages[g][i] : i \in 1..((n + 1) - 1)}
  <2>1. chain[c].pre.ids = UNION {Pages[g][i] : i \in 1..(n - 1)}
    BY <1>2 DEF ReadSoFar
  <2>2. (n + 1) - 1 = n
    BY <1>3
  <2> QED BY <1>3, <1>6, <2>1, <2>2, OnePageMore
<1> HIDE DEF r
<1>8. t \in Task /\ t.step = "read" /\ t.group = g /\ t.at = n + 1 /\ t.pre = r
      /\ t.account = chain[c].account
  <2> DEFINE m == n + 1
  <2>1. m \in Nat \ {0}
    BY <1>3
  <2> HIDE DEF m
  <2>2. /\ [chain[c] EXCEPT !.pre = r, !.at = m] \in Task
        /\ [chain[c] EXCEPT !.pre = r, !.at = m].step = chain[c].step
        /\ [chain[c] EXCEPT !.pre = r, !.at = m].group = g
        /\ [chain[c] EXCEPT !.pre = r, !.at = m].at = m
        /\ [chain[c] EXCEPT !.pre = r, !.at = m].pre = r
        /\ [chain[c] EXCEPT !.pre = r, !.at = m].account = chain[c].account
    BY <1>2, <1>6, <2>1 DEF Task
  <2> QED BY <1>2, <2>2 DEF m
<1>9. chain' = [chain EXCEPT ![c] = t]
  BY <1>2 DEF ReadPage, Task, r
<1> HIDE DEF t
<1>10. ReadSoFar(t)
  <2>1. 1..(n - 1) \subseteq Asked(g)
    BY <1>2 DEF ReadSoFar
  <2>2. 1..((n + 1) - 1) \subseteq Asked(g)
    BY <1>2, <1>3, <2>1
  <2> QED BY <1>2, <1>3, <1>6, <1>7, <1>8, <2>2 DEF ReadSoFar
<1>11. Sound(t) /\ t.step \notin Paired
  BY <1>2, <1>6, <1>8, <1>10 DEF Sound, HonestResult, Paired
<1> QED BY <1>1, <1>9, <1>11, TaskMoves

\* The end of a read, complete or not.
LEMMA ReadOver ==
  ASSUME PlanningInv, NEW c \in Checks, NEW cov \in Coverages \ {"reading"},
         chain[c].step = "read",
         cov = "COMPLETE" =>
           chain[c].at \notin Asked(chain[c].group) \ {Len(Pages[chain[c].group]) + 1},
         cov = "UNAVAILABLE" => chain[c].pre.ids = {},
         chain' = [chain EXCEPT ![c].step = "settle", ![c].pre.coverage = cov],
         Kept
  PROVE  PlanningInv'
<1> DEFINE g == chain[c].group
           n == chain[c].at
           r == [chain[c].pre EXCEPT !.coverage = cov]
           t == [chain[c] EXCEPT !.step = "settle", !.pre = r]
<1>1. chain[c] \in Task /\ g \in Groups /\ ReadSoFar(chain[c])
  BY SoundTasks DEF Sound, Held
<1>2. n \in Nat \ {0} /\ chain[c].pre \in Results /\ Len(Pages[g]) \in Nat
  BY <1>1, PlanningAssumption DEF Task
<1>3. /\ chain[c].pre \in [of : Groups, ids : SUBSET Users, coverage : Coverages]
      /\ chain[c].pre.of = g
  BY <1>1, <1>2 DEF ReadSoFar, Results, NoResult
<1>4. r \in Results /\ r.of = g /\ r.coverage = cov /\ r.ids = chain[c].pre.ids
  BY <1>3 DEF Results
<1>5. chain[c].pre.ids \subseteq Listed(g)
  BY <1>1, <1>2, PrefixIsRead DEF ReadSoFar
<1>6. ASSUME cov = "COMPLETE" PROVE chain[c].pre.ids = Listed(g)
  <2>1. n <= Len(Pages[g]) + 1 /\ 1..(n - 1) \subseteq Asked(g)
        /\ n \notin Asked(g) \ {Len(Pages[g]) + 1}
    BY <1>1, <1>6 DEF ReadSoFar
  <2>2. \A i : i \in Asked(g) \ {Len(Pages[g]) + 1} => i \in 1..(n - 1)
    <3> SUFFICES ASSUME NEW i \in Asked(g), i # Len(Pages[g]) + 1, i >= n PROVE FALSE
      BY <1>2 DEF Asked
    <3>1. i \in 1..Len(Pages[g]) /\ n \in 1..Len(Pages[g])
      BY <1>2 DEF Asked
    <3>2. n \in Asked(g)
      BY <1>2, <3>1 DEF Asked
    <3> QED BY <1>2, <2>1, <3>1, <3>2
  <2>3. \A i : i \in 1..(n - 1) => i \in Asked(g) \ {Len(Pages[g]) + 1}
    BY <1>2, <2>1
  <2>4. Listed(g) = UNION {Pages[g][i] : i \in 1..(n - 1)}
    BY <2>2, <2>3, Zenon DEF Listed
  <2> QED BY <1>1, <2>4 DEF ReadSoFar
<1>7. HonestResult(r)
  BY <1>4, <1>5, <1>6 DEF HonestResult
<1> HIDE DEF r
<1>8. t \in Task /\ t.step = "settle" /\ t.pre = r
  BY <1>1, <1>4 DEF Task, Steps
<1>9. chain' = [chain EXCEPT ![c] = t]
  BY <1>1 DEF Task, r
<1> HIDE DEF t
<1>10. Sound(t) /\ t.step \notin Paired
  BY <1>7, <1>8 DEF Sound, Held, Paired
<1> QED BY <1>9, <1>10, TaskMoves

LEMMA ReadEndSteps ==
  ASSUME PlanningInv, NEW c \in Checks, ReadEnds(c) \/ ReadFails(c)
  PROVE  PlanningInv'
<1>1. Kept
  BY NothingStored DEF ReadEnds, ReadFails, uiVars, dbVars
<1>2. CASE ReadEnds(c)
  <2>1. "COMPLETE" \in Coverages \ {"reading"}
    BY DEF Coverages
  <2>2. chain[c].step = "read"
        /\ chain[c].at \notin Asked(chain[c].group) \ {Len(Pages[chain[c].group]) + 1}
        /\ chain' = [chain EXCEPT ![c].step = "settle", ![c].pre.coverage = "COMPLETE"]
    BY <1>2 DEF ReadEnds, At
  <2> QED BY <1>1, <2>1, <2>2, ReadOver
<1>3. CASE ReadFails(c)
  <2> DEFINE cov == IF chain[c].pre.ids = {} THEN "UNAVAILABLE" ELSE "PARTIAL"
  <2>1. cov \in Coverages \ {"reading"} /\ cov # "COMPLETE"
        /\ (cov = "UNAVAILABLE" => chain[c].pre.ids = {})
    BY DEF Coverages
  <2>2. chain[c].step = "read"
        /\ chain' = [chain EXCEPT ![c].step = "settle", ![c].pre.coverage = cov]
    BY <1>3 DEF ReadFails, At
  <2> HIDE DEF cov
  <2> QED BY <1>1, <2>1, <2>2, ReadOver
<1> QED BY <1>2, <1>3

LEMMA CheckedStep ==
  ASSUME PlanningInv, NEW c \in Checks, Checked(c)
  PROVE  PlanningInv'
<1>1. chain[c].pre \in Results /\ HonestResult(chain[c].pre)
  BY SoundTasks DEF Sound, Task
<1>2. store' = [store EXCEPT !.precheck = chain[c].pre] /\ UNCHANGED <<page, peers, plan>>
  BY DEF Checked, uiVars, dbVars
<1>3. /\ store' \in [target : Groups \cup {NoGroup}, account : Accounts \cup {NoAccount},
                     precheck : Results]
      /\ store'.target = store.target /\ store'.account = store.account
      /\ store'.precheck = chain[c].pre
  BY <1>1, <1>2 DEF PlanningInv, TypeInv
<1>4. Kept
  BY <1>1, <1>2, <1>3 DEF Kept, PlanningInv, TypeInv, PeerInv, PlanIsAddressable
<1>5. chain' = [chain EXCEPT ![c].step = "checked"]
  BY DEF Checked, Publish, Goto
<1> QED BY <1>4, <1>5, SameTask DEF Steps, Held, Paired

LEMMA OnCheckedStep ==
  ASSUME PlanningInv, NEW c \in Checks, OnChecked(c)
  PROVE  PlanningInv'
<1>1. Kept
  BY NothingStored DEF OnChecked, dbVars
<1>2. CASE chain' = [chain EXCEPT ![c].step = "done"]
  BY <1>1, <1>2, SameTask DEF Steps, Held, Paired
<1>3. ASSUME NEW action \in {"INVITE", "REMOVE"},
             store.target # NoGroup, store.account = page.account,
             chain' = [chain EXCEPT ![c] = [NoTask EXCEPT !.step = "plan",
                         !.account = page.account, !.group = store.target,
                         !.pre = store.precheck, !.action = action]]
      PROVE  PlanningInv'
  <2> DEFINE t == [NoTask EXCEPT !.step = "plan", !.account = page.account,
                     !.group = store.target, !.pre = store.precheck, !.action = action]
  <2>1. store.precheck \in Results /\ HonestResult(store.precheck)
        /\ page.account \in Accounts \cup {NoAccount} /\ store.target \in Groups
    BY <1>3 DEF PlanningInv, TypeInv, CoverageIsHonest
  <2>2. t \in Task /\ t.step = "plan" /\ t.account = page.account
        /\ t.group = store.target /\ t.pre = store.precheck
    BY <1>3, <2>1, ConstantTypes DEF Task, Steps, NoTask
  <2>3. Sound(t)
    BY <2>1, <2>2 DEF Sound, Held
  <2>4. <<t.account, t.group>> \in peers'
    BY <1>1, <1>3, <2>2 DEF PlanningInv, PeerInv, Kept
  <2> HIDE DEF t
  <2> QED BY <1>1, <1>3, <2>3, <2>4, TaskMoves DEF t
<1>4. PICK action \in {"INVITE", "REMOVE"} :
        \/ chain' = [chain EXCEPT ![c].step = "done"]
        \/ /\ store.target # NoGroup /\ store.account = page.account
           /\ chain' = [chain EXCEPT ![c] = [NoTask EXCEPT !.step = "plan",
                         !.account = page.account, !.group = store.target,
                         !.pre = store.precheck, !.action = action]]
  BY DEF OnChecked, Refuse, Goto
<1> QED BY <1>2, <1>3, <1>4

\* The writes of the planner.
LEMMA PlanSteps ==
  ASSUME PlanningInv, NEW c \in Checks, CreateJob(c) \/ AddItems(c) \/ WriteAction(c)
  PROVE  PlanningInv'
<1>1. chain[c] \in Task /\ <<chain[c].account, chain[c].group>> \in peers
      /\ chain[c].step \in Paired
  BY DEF PlanningInv, TypeInv, PeerInv, Paired, CreateJob, AddItems, WriteAction, At
<1>2. chain[c].account \in Accounts /\ chain[c].group \in Groups
  BY <1>1 DEF PlanningInv, TypeInv
<1>3. UNCHANGED <<store, page, peers>>
  BY DEF CreateJob, AddItems, WriteAction, uiVars
<1>4. plan' \in [Checks -> Row] /\ PlanIsAddressable'
  <2>1. plan \in [Checks -> Row] /\ PlanIsAddressable /\ plan[c] \in Row
    BY DEF PlanningInv, TypeInv
  <2>2. ASSUME NEW p \in Row, plan' = [plan EXCEPT ![c] = p],
               p.state # "none" => <<p.account, p.group>> \in peers
        PROVE  plan' \in [Checks -> Row] /\ PlanIsAddressable'
    BY <1>3, <2>1, <2>2 DEF PlanIsAddressable
  <2>3. CASE CreateJob(c)
    <3> DEFINE p == [NoPlan EXCEPT !.state = "READY", !.account = chain[c].account,
                                   !.group = chain[c].group]
    <3>1. p \in Row /\ p.account = chain[c].account /\ p.group = chain[c].group
      BY <1>2, ConstantTypes DEF Row, NoPlan
    <3>2. plan' = plan \/ plan' = [plan EXCEPT ![c] = p]
      BY <2>3 DEF CreateJob
    <3> HIDE DEF p
    <3>3. CASE plan' = plan
      BY <1>3, <2>1, <3>3 DEF PlanIsAddressable
    <3> QED BY <1>1, <2>2, <3>1, <3>2, <3>3
  <2>4. CASE AddItems(c)
    <3> DEFINE k == chain[c].action = "REMOVE" \/ chain[c].pre.coverage = "COMPLETE"
               p == [plan[c] EXCEPT !.items = Items(chain[c]), !.known = k]
    <3>1. Items(chain[c]) \in SUBSET Users
      BY <1>2, PlanningAssumption DEF Items, ProcessedUserIds
    <3>2. k \in BOOLEAN
      OBVIOUS
    <3>3. plan' = [plan EXCEPT ![c] = p]
      BY <2>1, <2>4 DEF AddItems, Row
    <3> HIDE DEF k
    <3>4. p \in Row /\ p.account = plan[c].account /\ p.group = plan[c].group
          /\ p.state = plan[c].state
      BY <2>1, <3>1, <3>2 DEF Row
    <3> HIDE DEF p
    <3> QED BY <2>1, <2>2, <3>3, <3>4 DEF PlanIsAddressable
  <2>5. CASE WriteAction(c)
    <3> DEFINE p == [plan[c] EXCEPT !.action = chain[c].action]
    <3>1. plan' = [plan EXCEPT ![c] = p]
      BY <2>1, <2>5 DEF WriteAction, Row
    <3>2. p \in Row /\ p.account = plan[c].account /\ p.group = plan[c].group
          /\ p.state = plan[c].state
      BY <1>1, <2>1 DEF Row, Task
    <3> HIDE DEF p
    <3> QED BY <2>1, <2>2, <3>1, <3>2 DEF PlanIsAddressable
  <2> QED BY <2>3, <2>4, <2>5
<1>5. Kept
  BY <1>3, <1>4 DEF Kept, PlanningInv, TypeInv, PeerInv, CoverageIsHonest
<1>6. \/ chain' = [chain EXCEPT ![c].step = "failed"]
      \/ chain' = [chain EXCEPT ![c].step = "items"]
      \/ chain' = [chain EXCEPT ![c].step = "action"]
      \/ chain' = [chain EXCEPT ![c].step = "ready"]
  BY DEF CreateJob, AddItems, WriteAction, Publish, Goto
<1> QED BY <1>1, <1>5, <1>6, SameTask DEF Steps, Held, Paired

LEMMA CrashStep ==
  ASSUME PlanningInv, Crash
  PROVE  PlanningInv'
<1>1. /\ store' = NoStore /\ page' = NoPage /\ UNCHANGED <<peers, plan>>
      /\ chain' = [c \in Checks |->
           IF chain[c].step = "idle" THEN NoTask ELSE [NoTask EXCEPT !.step = "done"]]
  BY DEF Crash, dbVars
<1>2. \A c \in Checks : chain'[c] \in {NoTask, [NoTask EXCEPT !.step = "done"]}
  BY <1>1
<1>3. \A c \in Checks : /\ chain'[c] \in Task /\ chain'[c].step \in {"idle", "done"}
                        /\ chain'[c].pre = NoResult
  BY <1>2, ConstantTypes DEF Task, NoTask, Steps
<1>4. TypeInv'
  BY <1>1, <1>3, ConstantTypes DEF PlanningInv, TypeInv, NoStore, NoPage
<1>5. PeerInv' /\ ReadInv'
  BY <1>1, <1>3 DEF PeerInv, ReadInv, Held, Paired, NoStore
<1>6. CoverageIsHonest'
  BY <1>1, <1>3, NothingIsHonest DEF CoverageIsHonest, NoStore
<1>7. PlanIsAddressable'
  BY <1>1 DEF PlanningInv, PlanIsAddressable
<1> QED BY <1>4, <1>5, <1>6, <1>7 DEF PlanningInv

-----------------------------------------------------------------------------
\* PlanningInv is inductive: it holds when the application starts, and every
\* click, task, event, failure and crash keeps it.
THEOREM PlanningInvCorrect == Spec => []PlanningInv
<1>1. Init => PlanningInv
  <2> SUFFICES ASSUME Init PROVE PlanningInv
    OBVIOUS
  <2>1. TypeInv
    BY ConstantTypes DEF Init, TypeInv, NoStore, NoPage
  <2>2. PeerInv /\ ReadInv /\ PlanIsAddressable
    BY DEF Init, PeerInv, ReadInv, PlanIsAddressable, Held, Paired, NoStore, NoTask, NoPlan
  <2>3. CoverageIsHonest
    BY NothingIsHonest DEF Init, CoverageIsHonest, NoStore, NoTask
  <2> QED BY <2>1, <2>2, <2>3 DEF PlanningInv
<1>2. PlanningInv /\ [Next]_vars => PlanningInv'
  <2> SUFFICES ASSUME PlanningInv, [Next]_vars PROVE PlanningInv'
    OBVIOUS
  <2>1. ASSUME NEW c \in Checks, NEW a \in Accounts, NEW g \in Groups, Check(c, a, g)
        PROVE  PlanningInv'
    BY <2>1, CheckStep
  <2>2. ASSUME NEW c \in Checks, ChainStep(c) \/ ResolveFails(c) \/ ReadFails(c) \/ WriteFails(c)
                             \/ DropEvent(c)
        PROVE  PlanningInv'
    BY <2>2, ResolveGroupStep, ResolvedStep, OnResolvedStep, PlainSteps, AcquireSlotStep, ReadPageStep,
       ReadEndSteps, CheckedStep, OnCheckedStep, PlanSteps DEF ChainStep
  <2>3. CASE Crash
    BY <2>3, CrashStep
  <2>4. CASE CloseDialog \/ Restart \/ UNCHANGED vars
    <3>1. UNCHANGED <<store, page, chain, peers, plan>>
      BY <2>4 DEF CloseDialog, Restart, vars, uiVars, dbVars
    <3> QED BY <3>1 DEF PlanningInv, TypeInv, PeerInv, ReadInv, CoverageIsHonest,
                        PlanIsAddressable
  <2> QED BY <2>1, <2>2, <2>3, <2>4 DEF Next
<1> QED BY <1>1, <1>2, PTL DEF Spec

\* However many checks overlap, a migration job pairs a target with an account that
\* resolved it (plan_action compares the accounts in one snapshot of the store).
THEOREM PlanIsAddressableCorrect == Spec => []PlanIsAddressable
  BY PlanningInvCorrect, PTL DEF PlanningInv

\* TargetPrecheck.run never claims more than it read, whatever page the read fails
\* on, and the claim stays with the ids it is about in the store and in every task.
THEOREM CoverageIsHonestCorrect == Spec => []CoverageIsHonest
  BY PlanningInvCorrect, PTL DEF PlanningInv

-----------------------------------------------------------------------------
(* The plan on the page, and the plan of a check that no other one         *)
(* disturbs.                                                               *)

Planning == {"plan", "items", "action"}

\* A plan that the page may show.
Whole(p) ==
  /\ p.state = "READY" /\ p.action # "none"
  /\ p.items \subseteq Valid[p.account]
  /\ p.action = "INVITE" => p.group \notin BasicChats /\ p.items \cap Processed[p.group] = {}

\* How much of row p is written when its task t has come so far: the action that
\* the task carries is one that its target allows, the row names the account and the
\* group of the task, and the items come before the action.
Written(t, p) ==
  /\ t.step \in Planning =>
       t.action \in {"INVITE", "REMOVE"} /\ (t.action = "INVITE" => t.group \notin BasicChats)
  /\ t.step \in {"items", "action"} =>
       p.state = "READY" /\ p.account = t.account /\ p.group = t.group
  /\ t.step = "action" => p.items = Items(t)
  /\ t.step = "ready" => Whole(p)

PageType == [checking : BOOLEAN, account : Accounts \cup {NoAccount},
             job : Checks \cup {NoCheck}]

\* The page shows a plan only when its task has ended, so that nobody writes the
\* row any more.
ShownInv ==
  /\ page \in PageType
  /\ page.job # NoCheck => chain[page.job].step = "done" /\ Whole(plan[page.job])
  /\ \A c \in Checks : Written(chain[c], plan[c])

Open(t) == t.step \notin {"idle", "done", "lost"}

\* A result of a read that has ended, of group g.
ReadOf(r, g) == r.of = g /\ r.coverage \in {"COMPLETE", "PARTIAL", "UNAVAILABLE"}

Matches(p) ==
  /\ p.action = "INVITE" /\ p.known => p.items \cap Listed(p.group) = {}
  /\ p.action = "REMOVE" => p.items \subseteq Listed(p.group)

\* What task t, its row p and the store s agree on while no other check is under way.
Agreed(t, p, s) ==
  /\ t.step \in {"prepare", "start", "slot", "read", "settle", "log"} => t.group = s.target
  /\ t.step \in {"settle", "log"} \cup Planning => ReadOf(t.pre, t.group)
  /\ t.step = "checked" => ReadOf(s.precheck, s.target)
  /\ t.step \in {"items", "action"} => p.group = t.group /\ p.action = "none"
  /\ t.step = "action" =>
       /\ p.items = Items(t)
       /\ p.known = (t.action = "REMOVE" \/ t.pre.coverage = "COMPLETE")
  /\ Matches(p)

AloneInv ==
  ~overlapped =>
    /\ \A c, d \in Checks : Open(chain[c]) /\ Open(chain[d]) => c = d
    /\ \A c \in Checks : Agreed(chain[c], plan[c], store)

UndisturbedInv == PlanningInv /\ ShownInv /\ AloneInv

\* A task that moves to t, with its row at p.
LEMMA ShownMoves ==
  ASSUME PlanningInv, ShownInv, NEW c \in Checks, NEW t, NEW p, chain[c].step # "done",
         chain' = [chain EXCEPT ![c] = t], plan' = [plan EXCEPT ![c] = p], Written(t, p),
         \/ page' = page
         \/ page' \in PageType /\ page'.job = NoCheck
         \/ page' \in PageType /\ page'.job = c /\ t.step = "done" /\ Whole(p)
  PROVE  ShownInv'
<1>1. chain \in [Checks -> Task] /\ plan \in [Checks -> Row]
  BY DEF PlanningInv, TypeInv
<1>2. chain'[c] = t /\ plan'[c] = p
      /\ \A d \in Checks \ {c} : chain'[d] = chain[d] /\ plan'[d] = plan[d]
  BY <1>1
<1>3. page \in PageType /\ page' \in PageType
  BY DEF ShownInv, PageType
<1>4. \A d \in Checks : Written(chain'[d], plan'[d])
  <2> SUFFICES ASSUME NEW d \in Checks PROVE Written(chain'[d], plan'[d])
    OBVIOUS
  <2>1. CASE d = c
    BY <1>2, <2>1
  <2>2. CASE d # c
    BY <1>2, <2>2 DEF ShownInv
  <2> QED BY <2>1, <2>2
<1>5. page'.job # NoCheck => chain'[page'.job].step = "done" /\ Whole(plan'[page'.job])
  <2>1. CASE page' = page
    <3> SUFFICES ASSUME page.job # NoCheck
                 PROVE  chain'[page.job].step = "done" /\ Whole(plan'[page.job])
      BY <2>1
    <3>1. page.job \in Checks /\ chain[page.job].step = "done" /\ Whole(plan[page.job])
      BY <1>3 DEF ShownInv, PageType
    <3>2. page.job # c
      BY <3>1
    <3> QED BY <1>2, <3>1, <3>2
  <2>2. CASE page'.job = NoCheck
    BY <2>2
  <2>3. CASE page'.job = c /\ t.step = "done" /\ Whole(p)
    BY <1>2, <2>3
  <2> QED BY <2>1, <2>2, <2>3
<1> QED BY <1>3, <1>4, <1>5 DEF ShownInv, PageType

\* The other checks have nothing under way: whatever this one stores, they keep
\* what they have.
LEMMA AloneMoves ==
  ASSUME PlanningInv, AloneInv, NEW c \in Checks, NEW t, NEW p, Open(chain[c]),
         chain' = [chain EXCEPT ![c] = t], plan' = [plan EXCEPT ![c] = p],
         overlapped' = overlapped,
         ~overlapped => Agreed(t, p, store')
  PROVE  AloneInv'
<1>1. chain \in [Checks -> Task] /\ plan \in [Checks -> Row]
  BY DEF PlanningInv, TypeInv
<1>2. chain'[c] = t /\ plan'[c] = p
      /\ \A d \in Checks \ {c} : chain'[d] = chain[d] /\ plan'[d] = plan[d]
  BY <1>1
<1> SUFFICES ASSUME ~overlapped
             PROVE  /\ \A d, e \in Checks : Open(chain'[d]) /\ Open(chain'[e]) => d = e
                    /\ \A d \in Checks : Agreed(chain'[d], plan'[d], store')
  BY DEF AloneInv
<1>3. \A d \in Checks \ {c} : ~Open(chain'[d]) /\ Matches(plan[d])
  BY <1>2 DEF AloneInv, Agreed
<1>4. \A d \in Checks \ {c} : Agreed(chain'[d], plan'[d], store')
  BY <1>2, <1>3 DEF Agreed, Open, Planning
<1> QED BY <1>2, <1>3, <1>4

\* The same task at a step that promises nothing new.
LEMMA PlainMoves ==
  ASSUME UndisturbedInv, NEW c \in Checks, Open(chain[c]),
         NEW step \in {"upsert", "resolved", "start", "slot", "log", "failing", "failed", "done",
                       "lost"},
         step \in {"start", "slot"} => chain[c].step \in {"prepare", "start"},
         step = "log" => chain[c].step = "settle",
         chain' = [chain EXCEPT ![c].step = step],
         UNCHANGED <<page, plan, overlapped>>,
         store' = store \/ step = "resolved"
  PROVE  ShownInv' /\ AloneInv'
<1> DEFINE t == [chain[c] EXCEPT !.step = step]
<1> USE DEF UndisturbedInv
<1>1. chain \in [Checks -> Task] /\ plan \in [Checks -> Row] /\ chain[c] \in Task
  BY DEF PlanningInv, TypeInv
<1>2. t.step = step /\ t.group = chain[c].group /\ t.pre = chain[c].pre
  BY <1>1 DEF Task
<1>3. chain' = [chain EXCEPT ![c] = t] /\ plan' = [plan EXCEPT ![c] = plan[c]]
  BY <1>1
<1> HIDE DEF t
<1>4. Written(t, plan[c])
  BY <1>2 DEF Written, Planning
<1>5. ~overlapped => Agreed(t, plan[c], store')
  BY <1>2 DEF Agreed, AloneInv, Planning
<1>6. chain[c].step # "done"
  BY DEF Open
<1> QED BY <1>3, <1>4, <1>5, <1>6, ShownMoves, AloneMoves

LEMMA CheckAlone ==
  ASSUME UndisturbedInv, NEW c \in Checks, NEW a \in Accounts, NEW g \in Groups, Check(c, a, g)
  PROVE  ShownInv' /\ AloneInv'
<1> USE DEF UndisturbedInv
<1> DEFINE t == [NoTask EXCEPT !.step = "resolve", !.account = a, !.group = g]
<1>1. chain \in [Checks -> Task] /\ plan \in [Checks -> Row]
  BY DEF PlanningInv, TypeInv
<1>2. t.step = "resolve"
  BY DEF NoTask
<1>3. chain' = [chain EXCEPT ![c] = t] /\ plan' = [plan EXCEPT ![c] = plan[c]]
      /\ chain[c].step # "done" /\ store' = store
  BY <1>1 DEF Check, At, dbVars
<1> HIDE DEF t
<1>4. page' \in PageType /\ page'.job = NoCheck
  BY DEF Check, PageType
<1>5. ShownInv'
  BY <1>2, <1>3, <1>4, ShownMoves DEF Written, Planning
<1>6. AloneInv'
  <2> SUFFICES ASSUME ~overlapped'
               PROVE  /\ \A d, e \in Checks : Open(chain'[d]) /\ Open(chain'[e]) => d = e
                      /\ \A d \in Checks : Agreed(chain'[d], plan'[d], store')
    BY DEF AloneInv
  <2>1. ~overlapped /\ \A d \in Checks : ~Open(chain[d])
    BY DEF Check, UnderWay, Open
  <2>2. \A d \in Checks : plan'[d] = plan[d] /\ Matches(plan[d])
    BY <1>1, <1>3, <2>1 DEF AloneInv, Agreed
  <2>3. chain'[c] = t /\ \A d \in Checks \ {c} : chain'[d] = chain[d]
    BY <1>1, <1>3
  <2> QED BY <1>2, <2>1, <2>2, <2>3 DEF Agreed, Open, Planning
<1> QED BY <1>5, <1>6

LEMMA PlainAlone ==
  ASSUME UndisturbedInv, NEW c \in Checks,
         \/ ResolveGroup(c) \/ Resolved(c) \/ ResolveFails(c) \/ OnFailed(c) \/ Start(c)
         \/ Prepare(c) \/ Settle(c) \/ MarkFailed(c) \/ WriteFails(c) \/ DropEvent(c)
  PROVE  ShownInv' /\ AloneInv'
<1>1. UNCHANGED <<page, plan, overlapped>>
  BY DEF ResolveGroup, Resolved, ResolveFails, OnFailed, Start, Prepare, Settle, MarkFailed,
         WriteFails, DropEvent, Error, Failure, uiVars, dbVars, boundVars
<1>2. Open(chain[c])
  BY DEF ResolveGroup, Resolved, ResolveFails, OnFailed, Start, Prepare, Settle, MarkFailed,
         WriteFails, DropEvent, At, Open
<1>3. \/ chain' = [chain EXCEPT ![c].step = "upsert"] /\ store' = store
      \/ chain' = [chain EXCEPT ![c].step = "resolved"]
      \/ chain' = [chain EXCEPT ![c].step = "failed"] /\ store' = store
      \/ chain' = [chain EXCEPT ![c].step = "done"] /\ store' = store
      \/ chain' = [chain EXCEPT ![c].step = "lost"] /\ store' = store
      \/ chain' = [chain EXCEPT ![c].step = "failing"] /\ store' = store
      \/ chain' = [chain EXCEPT ![c].step = "log"] /\ store' = store /\ chain[c].step = "settle"
      \/ chain' = [chain EXCEPT ![c].step = "start"] /\ store' = store
         /\ chain[c].step = "prepare"
      \/ chain' = [chain EXCEPT ![c].step = "slot"] /\ store' = store /\ chain[c].step = "start"
  BY DEF ResolveGroup, Resolved, ResolveFails, OnFailed, Start, Prepare, Settle, MarkFailed,
         WriteFails, DropEvent, Publish, Goto, Refuse, At
<1> QED BY <1>1, <1>2, <1>3, PlainMoves

\* The page takes the target of the next task from the store.
LEMMA OnResolvedAlone ==
  ASSUME UndisturbedInv, NEW c \in Checks, OnResolved(c)
  PROVE  ShownInv' /\ AloneInv'
<1> USE DEF UndisturbedInv
<1> DEFINE t == [NoTask EXCEPT !.step = "prepare", !.account = page.account,
                               !.group = store.target]
<1>1. UNCHANGED <<store, page, plan, overlapped>> /\ Open(chain[c])
      /\ chain[c].step # "done"
  BY DEF OnResolved, dbVars, boundVars, At, Open
<1>2. CASE chain' = [chain EXCEPT ![c].step = "done"]
  BY <1>1, <1>2, PlainMoves
<1>3. CASE chain' = [chain EXCEPT ![c] = t]
  <2>1. t.step = "prepare" /\ t.group = store.target
    BY DEF NoTask
  <2>2. plan' = [plan EXCEPT ![c] = plan[c]]
    BY <1>1 DEF PlanningInv, TypeInv
  <2> HIDE DEF t
  <2>3. Written(t, plan[c])
    BY <2>1 DEF Written, Planning
  <2>4. ~overlapped => Agreed(t, plan[c], store')
    BY <1>1, <2>1 DEF Agreed, AloneInv, Planning
  <2> QED BY <1>1, <1>3, <2>2, <2>3, <2>4, ShownMoves, AloneMoves
<1> QED BY <1>2, <1>3 DEF OnResolved, Refuse, Goto

\* The read fills in the result of the group that the store names.
LEMMA ReadAlone ==
  ASSUME UndisturbedInv, NEW c \in Checks,
         AcquireSlot(c) \/ ReadPage(c) \/ ReadEnds(c) \/ ReadFails(c)
  PROVE  ShownInv' /\ AloneInv'
<1> USE DEF UndisturbedInv
<1>1. UNCHANGED <<store, page, plan, overlapped>> /\ Open(chain[c])
      /\ chain[c].step \in {"slot", "read"} /\ chain[c].step # "done"
  BY DEF AcquireSlot, ReadPage, ReadEnds, ReadFails, Error, uiVars, dbVars, boundVars, At, Open
<1>2. chain[c] \in Task /\ (chain[c].step = "read" => ReadSoFar(chain[c]))
  BY SoundTasks DEF Sound
<1>3. \E t : /\ chain' = [chain EXCEPT ![c] = t]
             /\ t.step \in {"read", "settle"} /\ t.group = chain[c].group
             /\ t.step = "settle" => ReadOf(t.pre, t.group)
  <2>1. CASE AcquireSlot(c)
    <3> DEFINE t == [chain[c] EXCEPT !.step = "read",
                       !.pre = [of |-> chain[c].group, ids |-> {}, coverage |-> "reading"]]
    <3>1. chain' = [chain EXCEPT ![c] = t]
      BY <1>2, <2>1 DEF AcquireSlot, Task
    <3>2. t.step = "read" /\ t.group = chain[c].group
      BY <1>2 DEF Task
    <3> HIDE DEF t
    <3> QED BY <3>1, <3>2
  <2>2. CASE ReadPage(c)
    <3> DEFINE r == [chain[c].pre EXCEPT !.ids = @ \cup Pages[chain[c].group][chain[c].at]]
               t == [chain[c] EXCEPT !.pre = r, !.at = @ + 1]
    <3>1. chain' = [chain EXCEPT ![c] = t]
      BY <1>2, <2>2 DEF ReadPage, Task
    <3>2. chain[c].step = "read"
      BY <2>2 DEF ReadPage, At
    <3>3. t.step = "read" /\ t.group = chain[c].group
      BY <1>2, <3>2 DEF Task
    <3> HIDE DEF t
    <3> QED BY <3>1, <3>3
  <2>3. CASE ReadEnds(c) \/ ReadFails(c)
    <3>1. PICK cov \in {"COMPLETE", "PARTIAL", "UNAVAILABLE"} :
            chain' = [chain EXCEPT ![c].step = "settle", ![c].pre.coverage = cov]
      BY <2>3 DEF ReadEnds, ReadFails
    <3>2. chain[c].step = "read"
      BY <2>3 DEF ReadEnds, ReadFails, At
    <3>3. chain[c].pre.of = chain[c].group /\ chain[c].pre \in Results
      BY <1>2, <3>2 DEF ReadSoFar, Task
    <3> DEFINE r == [chain[c].pre EXCEPT !.coverage = cov]
               t == [chain[c] EXCEPT !.step = "settle", !.pre = r]
    <3>4. chain' = [chain EXCEPT ![c] = t]
      BY <1>2, <3>1 DEF Task
    <3>5. r.of = chain[c].group /\ r.coverage = cov
      BY <3>3 DEF Results, NoResult
    <3> HIDE DEF r
    <3>6. t.step = "settle" /\ t.group = chain[c].group /\ t.pre = r
      BY <1>2 DEF Task
    <3> HIDE DEF t
    <3> QED BY <3>4, <3>5, <3>6 DEF ReadOf
  <2> QED BY <2>1, <2>2, <2>3
<1>4. PICK t : /\ chain' = [chain EXCEPT ![c] = t]
               /\ t.step \in {"read", "settle"} /\ t.group = chain[c].group
               /\ t.step = "settle" => ReadOf(t.pre, t.group)
  BY <1>3
<1>5. plan' = [plan EXCEPT ![c] = plan[c]]
  BY <1>1 DEF PlanningInv, TypeInv
<1>6. Written(t, plan[c])
  BY <1>4 DEF Written, Planning
<1>7. ~overlapped => Agreed(t, plan[c], store')
  BY <1>1, <1>4 DEF Agreed, AloneInv, Planning
<1> QED BY <1>1, <1>4, <1>5, <1>6, <1>7, ShownMoves, AloneMoves

\* The result goes to the store that names the group it is about.
LEMMA CheckedAlone ==
  ASSUME UndisturbedInv, NEW c \in Checks, Checked(c)
  PROVE  ShownInv' /\ AloneInv'
<1> USE DEF UndisturbedInv
<1> DEFINE t == [chain[c] EXCEPT !.step = "checked"]
<1>1. UNCHANGED <<page, plan, overlapped>> /\ Open(chain[c]) /\ chain[c].step = "log"
      /\ store' = [store EXCEPT !.precheck = chain[c].pre]
  BY DEF Checked, uiVars, dbVars, boundVars, At, Open
<1>2. chain \in [Checks -> Task] /\ chain[c] \in Task /\ plan \in [Checks -> Row]
  BY DEF PlanningInv, TypeInv
<1>3. store'.target = store.target /\ store'.precheck = chain[c].pre
  BY <1>1 DEF PlanningInv, TypeInv
<1>4. t.step = "checked"
  BY <1>2 DEF Task
<1>5. chain' = [chain EXCEPT ![c] = t] /\ plan' = [plan EXCEPT ![c] = plan[c]]
  BY <1>1, <1>2 DEF Checked, Publish, Goto
<1> HIDE DEF t
<1>6. Written(t, plan[c])
  BY <1>4 DEF Written, Planning
<1>7. ~overlapped => Agreed(t, plan[c], store')
  BY <1>1, <1>3, <1>4 DEF Agreed, AloneInv, Planning
<1> QED BY <1>1, <1>5, <1>6, <1>7, ShownMoves, AloneMoves

\* The planner gets target and pre-check in one snapshot of the store.
LEMMA OnCheckedAlone ==
  ASSUME UndisturbedInv, NEW c \in Checks, OnChecked(c)
  PROVE  ShownInv' /\ AloneInv'
<1> USE DEF UndisturbedInv
<1>1. UNCHANGED <<store, page, plan, overlapped>> /\ Open(chain[c])
      /\ chain[c].step = "checked"
  BY DEF OnChecked, dbVars, boundVars, At, Open
<1>2. CASE chain' = [chain EXCEPT ![c].step = "done"]
  BY <1>1, <1>2, PlainMoves
<1>3. ASSUME NEW action \in {"INVITE", "REMOVE"},
             ~(action = "INVITE" /\ store.target \in BasicChats),
             chain' = [chain EXCEPT ![c] = [NoTask EXCEPT !.step = "plan",
                         !.account = page.account, !.group = store.target,
                         !.pre = store.precheck, !.action = action]]
      PROVE  ShownInv' /\ AloneInv'
  <2> DEFINE t == [NoTask EXCEPT !.step = "plan", !.account = page.account,
                     !.group = store.target, !.pre = store.precheck, !.action = action]
  <2>1. /\ t.step = "plan" /\ t.group = store.target /\ t.pre = store.precheck
        /\ t.action = action
    BY DEF NoTask
  <2>2. plan' = [plan EXCEPT ![c] = plan[c]]
    BY <1>1 DEF PlanningInv, TypeInv
  <2>3. chain' = [chain EXCEPT ![c] = t]
    BY <1>3
  <2> HIDE DEF t
  <2>4. Written(t, plan[c])
    BY <1>3, <2>1 DEF Written
  <2>5. ~overlapped => Agreed(t, plan[c], store')
    BY <1>1, <2>1 DEF Agreed, AloneInv, Planning
  <2> QED BY <1>1, <2>2, <2>3, <2>4, <2>5, ShownMoves, AloneMoves
<1>4. PICK action \in {"INVITE", "REMOVE"} :
        \/ chain' = [chain EXCEPT ![c].step = "done"]
        \/ /\ ~(action = "INVITE" /\ store.target \in BasicChats)
           /\ chain' = [chain EXCEPT ![c] = [NoTask EXCEPT !.step = "plan",
                         !.account = page.account, !.group = store.target,
                         !.pre = store.precheck, !.action = action]]
  BY DEF OnChecked, Refuse, Goto
<1> QED BY <1>2, <1>3, <1>4

LEMMA CreateJobAlone ==
  ASSUME UndisturbedInv, NEW c \in Checks, CreateJob(c)
  PROVE  ShownInv' /\ AloneInv'
<1> USE DEF UndisturbedInv
<1> DEFINE t == [chain[c] EXCEPT !.step = "items"]
           p == [NoPlan EXCEPT !.state = "READY", !.account = chain[c].account,
                               !.group = chain[c].group]
<1>1. UNCHANGED <<store, page, overlapped>> /\ Open(chain[c]) /\ chain[c].step = "plan"
  BY DEF CreateJob, uiVars, boundVars, At, Open
<1>2. chain \in [Checks -> Task] /\ chain[c] \in Task
  BY DEF PlanningInv, TypeInv
<1>3. CASE chain' = [chain EXCEPT ![c].step = "failed"] /\ plan' = plan
  BY <1>1, <1>3, PlainMoves
<1>4. CASE chain' = [chain EXCEPT ![c].step = "items"] /\ plan' = [plan EXCEPT ![c] = p]
  <2>1. chain' = [chain EXCEPT ![c] = t]
    BY <1>2, <1>4
  <2>2. /\ t.step = "items" /\ t.account = chain[c].account /\ t.group = chain[c].group
        /\ t.pre = chain[c].pre /\ t.action = chain[c].action
    BY <1>2 DEF Task
  <2>3. /\ p.state = "READY" /\ p.account = chain[c].account /\ p.group = chain[c].group
        /\ p.action = "none"
    BY DEF NoPlan
  <2> HIDE DEF t, p
  <2>4. Written(t, p)
    BY <1>1, <2>2, <2>3 DEF Written, ShownInv, Planning
  <2>5. ~overlapped => Agreed(t, p, store')
    BY <1>1, <2>2, <2>3 DEF Agreed, AloneInv, Planning, Matches
  <2> QED BY <1>1, <1>4, <2>1, <2>4, <2>5, ShownMoves, AloneMoves
<1> QED BY <1>3, <1>4 DEF CreateJob, Publish, Goto

LEMMA AddItemsAlone ==
  ASSUME UndisturbedInv, NEW c \in Checks, AddItems(c)
  PROVE  ShownInv' /\ AloneInv'
<1> USE DEF UndisturbedInv
<1> DEFINE k == chain[c].action = "REMOVE" \/ chain[c].pre.coverage = "COMPLETE"
           t == [chain[c] EXCEPT !.step = "action"]
           p == [plan[c] EXCEPT !.items = Items(chain[c]), !.known = k]
<1>1. UNCHANGED <<store, page, overlapped>> /\ Open(chain[c]) /\ chain[c].step = "items"
  BY DEF AddItems, uiVars, boundVars, At, Open
<1>2. chain \in [Checks -> Task] /\ chain[c] \in Task /\ plan \in [Checks -> Row] /\ plan[c] \in Row
  BY DEF PlanningInv, TypeInv
<1>3. chain' = [chain EXCEPT ![c] = t] /\ plan' = [plan EXCEPT ![c] = p]
  BY <1>2 DEF AddItems, Goto, Row
<1>4. /\ t.step = "action" /\ t.account = chain[c].account /\ t.group = chain[c].group
      /\ t.pre = chain[c].pre /\ t.action = chain[c].action
  BY <1>2 DEF Task
<1>5. Items(t) = Items(chain[c])
  BY <1>4 DEF Items
<1> HIDE DEF k
<1>6. /\ p.state = plan[c].state /\ p.account = plan[c].account /\ p.group = plan[c].group
      /\ p.action = plan[c].action /\ p.items = Items(chain[c]) /\ p.known = k
  BY <1>2 DEF Row
<1> HIDE DEF t, p
<1>7. Written(t, p)
  BY <1>1, <1>4, <1>5, <1>6 DEF Written, ShownInv, Planning
<1>8. ~overlapped => Agreed(t, p, store')
  BY <1>1, <1>4, <1>5, <1>6 DEF Agreed, AloneInv, Planning, Matches, k
<1> QED BY <1>1, <1>3, <1>7, <1>8, ShownMoves, AloneMoves

\* The action is the last thing written: from here on the plan is whole, and its
\* items are those of the read of its own target.
LEMMA WriteActionAlone ==
  ASSUME UndisturbedInv, NEW c \in Checks, WriteAction(c)
  PROVE  ShownInv' /\ AloneInv'
<1> USE DEF UndisturbedInv
<1> DEFINE t == [chain[c] EXCEPT !.step = "ready"]
           p == [plan[c] EXCEPT !.action = chain[c].action]
<1>1. UNCHANGED <<store, page, overlapped>> /\ Open(chain[c]) /\ chain[c].step = "action"
  BY DEF WriteAction, uiVars, boundVars, At, Open
<1>2. chain \in [Checks -> Task] /\ chain[c] \in Task /\ plan \in [Checks -> Row] /\ plan[c] \in Row
      /\ HonestResult(chain[c].pre)
  BY DEF PlanningInv, TypeInv, CoverageIsHonest
<1>3. chain' = [chain EXCEPT ![c] = t] /\ plan' = [plan EXCEPT ![c] = p]
  BY <1>2 DEF WriteAction, Publish, Goto, Row
<1>4. t.step = "ready"
  BY <1>2 DEF Task
<1>5. /\ p.state = plan[c].state /\ p.account = plan[c].account /\ p.group = plan[c].group
      /\ p.action = chain[c].action /\ p.items = plan[c].items /\ p.known = plan[c].known
  BY <1>2 DEF Row
<1> HIDE DEF t, p
<1>6. /\ chain[c].action \in {"INVITE", "REMOVE"}
      /\ chain[c].action = "INVITE" => chain[c].group \notin BasicChats
      /\ plan[c].state = "READY" /\ plan[c].account = chain[c].account
      /\ plan[c].group = chain[c].group /\ plan[c].items = Items(chain[c])
  BY <1>1 DEF ShownInv, Written, Planning
<1>7. Written(t, p)
  BY <1>4, <1>5, <1>6 DEF Written, Whole, Planning, Items, ProcessedUserIds
<1>8. ASSUME ~overlapped PROVE Agreed(t, p, store')
  <2>1. /\ ReadOf(chain[c].pre, chain[c].group)
        /\ plan[c].known = (chain[c].action = "REMOVE" \/ chain[c].pre.coverage = "COMPLETE")
    BY <1>1, <1>8 DEF Agreed, AloneInv, Planning
  <2>2. /\ chain[c].pre.ids \subseteq Listed(chain[c].group)
        /\ chain[c].pre.coverage = "COMPLETE" =>
             chain[c].pre.ids = Listed(chain[c].group)
    BY <1>2, <2>1 DEF HonestResult, ReadOf
  <2>3. Matches(p)
    BY <1>5, <1>6, <2>1, <2>2 DEF Matches, Items
  <2> QED BY <1>4, <2>3 DEF Agreed, Planning
<1> QED BY <1>1, <1>3, <1>7, <1>8, ShownMoves, AloneMoves

LEMMA OnReadyAlone ==
  ASSUME UndisturbedInv, NEW c \in Checks, OnReady(c)
  PROVE  ShownInv' /\ AloneInv'
<1> USE DEF UndisturbedInv
<1> DEFINE t == [chain[c] EXCEPT !.step = "done"]
<1>1. UNCHANGED <<store, plan, overlapped>> /\ Open(chain[c]) /\ chain[c].step = "ready"
      /\ page' = [page EXCEPT !.checking = FALSE, !.job = c]
  BY DEF OnReady, dbVars, boundVars, At, Open
<1>2. chain \in [Checks -> Task] /\ chain[c] \in Task /\ plan \in [Checks -> Row]
  BY DEF PlanningInv, TypeInv
<1>3. page' \in PageType /\ page'.job = c
  BY <1>1 DEF ShownInv, PageType
<1>4. t.step = "done"
  BY <1>2 DEF Task
<1>5. chain' = [chain EXCEPT ![c] = t] /\ plan' = [plan EXCEPT ![c] = plan[c]]
  BY <1>1, <1>2 DEF OnReady, Goto
<1> HIDE DEF t
<1>6. Written(t, plan[c]) /\ Whole(plan[c])
  BY <1>1, <1>4 DEF Written, ShownInv, Planning
<1>7. ~overlapped => Agreed(t, plan[c], store')
  BY <1>1, <1>4 DEF Agreed, AloneInv, Planning
<1> QED BY <1>1, <1>3, <1>4, <1>5, <1>6, <1>7, ShownMoves, AloneMoves

LEMMA CrashAlone ==
  ASSUME UndisturbedInv, Crash
  PROVE  ShownInv' /\ AloneInv'
<1>1. /\ page' = NoPage /\ UNCHANGED <<plan, overlapped>>
      /\ chain' = [c \in Checks |->
           IF chain[c].step = "idle" THEN NoTask ELSE [NoTask EXCEPT !.step = "done"]]
  BY DEF Crash, dbVars
<1>2. \A c \in Checks : chain'[c].step \in {"idle", "done"}
  BY <1>1 DEF NoTask
<1>3. page' \in PageType /\ page'.job = NoCheck
  BY <1>1 DEF NoPage, PageType
<1>4. ShownInv'
  BY <1>2, <1>3 DEF ShownInv, PageType, Written, Planning
<1>5. AloneInv'
  BY <1>1, <1>2 DEF UndisturbedInv, AloneInv, Agreed, Open, Planning
<1> QED BY <1>4, <1>5

\* A plan is whole when the page shows it, and a check that nothing overlaps plans
\* from the read of its own target: inductive together with PlanningInv.
THEOREM UndisturbedInvCorrect == Spec => []UndisturbedInv
<1>1. Init => ShownInv /\ AloneInv
  <2> SUFFICES ASSUME Init PROVE ShownInv /\ AloneInv
    OBVIOUS
  <2>1. \A c \in Checks : chain[c] = NoTask /\ plan[c] = NoPlan
    BY DEF Init
  <2>2. ShownInv
    BY <2>1 DEF Init, ShownInv, PageType, NoPage, NoTask, Written, Planning
  <2>3. AloneInv
    BY <2>1 DEF AloneInv, Agreed, Open, NoTask, NoPlan, Planning, Matches
  <2> QED BY <2>2, <2>3
<1>2. UndisturbedInv /\ [Next]_vars => ShownInv' /\ AloneInv'
  <2> SUFFICES ASSUME UndisturbedInv, [Next]_vars PROVE ShownInv' /\ AloneInv'
    OBVIOUS
  <2>1. ASSUME NEW c \in Checks, NEW a \in Accounts, NEW g \in Groups, Check(c, a, g)
        PROVE  ShownInv' /\ AloneInv'
    BY <2>1, CheckAlone
  <2>2. ASSUME NEW c \in Checks, ChainStep(c) \/ ResolveFails(c) \/ ReadFails(c) \/ WriteFails(c)
                             \/ DropEvent(c)
        PROVE  ShownInv' /\ AloneInv'
    BY <2>2, PlainAlone, OnResolvedAlone, ReadAlone, CheckedAlone, OnCheckedAlone,
       CreateJobAlone, AddItemsAlone, WriteActionAlone, OnReadyAlone DEF ChainStep
  <2>3. CASE Crash
    BY <2>3, CrashAlone
  <2>4. CASE CloseDialog \/ Restart \/ UNCHANGED vars
    <3>1. UNCHANGED <<store, page, chain, plan, overlapped>>
      BY <2>4 DEF CloseDialog, Restart, vars, uiVars, dbVars, boundVars
    <3> QED BY <3>1 DEF UndisturbedInv, ShownInv, AloneInv
  <2> QED BY <2>1, <2>2, <2>3, <2>4 DEF Next
<1> QED BY <1>1, <1>2, PlanningInvCorrect, PTL DEF Spec, UndisturbedInv

\* The buttons of the page act on a job whose items and action are in the database,
\* whatever failed or crashed on the way (done of plan_action comes last).
THEOREM ShownPlanIsWholeCorrect == Spec => []ShownPlanIsWhole
<1>1. UndisturbedInv => ShownPlanIsWhole
  BY DEF UndisturbedInv, ShownInv, ShownPlanIsWhole, Whole
<1> QED BY <1>1, UndisturbedInvCorrect, PTL

\* Unless a check is started before the one before it has ended, a plan is made from
\* what was read of its own target.
THEOREM UndisturbedPlanMatchesCorrect == Spec => []UndisturbedPlanMatches
<1>1. UndisturbedInv => UndisturbedPlanMatches
  BY DEF UndisturbedInv, AloneInv, UndisturbedPlanMatches, PlanMatchesTarget, Agreed, Matches
<1> QED BY <1>1, UndisturbedInvCorrect, PTL
=============================================================================
