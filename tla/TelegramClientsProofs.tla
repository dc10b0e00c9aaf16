------------------------ MODULE TelegramClientsProofs ------------------------
(***************************************************************************)
(* Proofs about TelegramClients, for every number of accounts, commands in *)
(* progress, clients and faults.                                           *)
(***************************************************************************)
EXTENDS TelegramClients, TLAPS

-----------------------------------------------------------------------------
(* Types.                                                                  *)

Ops      == Dialogues \cup {"none", "sign", "use", "delete", "enable", "settings"}
Somebody == Accounts \cup {None}
Client   == Clients \cup {None}

Ends == {"READY", "AUTH_REQUIRED", "ERROR"}
Pcs  == {"none", "announce", "get", "dial", "redial", "check", "ask", "me", "sign", "request",
         "drop", "close", "erase", "on", "off", "list", "save"} \cup Ends

Task == [op : Ops, acc : Somebody, pc : Pcs, then : Pcs, cl : Client,
         rest : SUBSET Accounts, ver : Nat]

\* Only a reaper that sweeps holds a client.
Reapers == {r \in [pc : {"none", "asleep", "sweep"}, rest : SUBSET Accounts, cl : Client] :
              r.pc # "sweep" => r.cl = None}

TypeInv ==
  /\ status \in [Accounts -> Statuses \cup {"absent", "deleted"}]
  /\ enabled \subseteq Accounts /\ code \subseteq Accounts /\ idle \subseteq Accounts
  /\ slot \in [Accounts -> Client]
  /\ conn \in [Clients -> {"none", "dialing", "up", "lost"}]
  /\ creds \in Nat /\ saved \in Nat
  /\ task \in [Tasks -> Task]
  /\ reaper \in Reapers

\* The awaits that a command can have reached.
Reached(k) ==
  /\ k.op = "none" => k = NoTask
  /\ k.op \in Dialogues =>
       /\ k.pc \in {"announce", "get", "dial", "redial", "check", "ask", "me"} \cup Ends
       /\ k.then \in {"check", "me"}
  /\ k.op = "sign" =>
       /\ k.pc \in {"get", "dial", "redial", "sign", "me"} \cup Ends
       /\ k.then \in {"sign", "me"}
  /\ k.op = "use" => k.pc \in {"get", "dial", "redial", "request"} /\ k.then = "request"
  /\ k.op = "delete" => k.pc \in {"drop", "close", "erase"} /\ k.then = "erase"
  /\ k.op = "enable" => k.pc \in {"on", "off"}
  /\ k.op = "settings" => k.pc \in {"list", "close", "save"}

Placed(k) ==
  /\ Reached(k)
  /\ k.op \notin {"none", "settings"} => k.acc \in Accounts
  /\ k.pc \in {"dial", "redial"} => k.cl \in Clients
  /\ k.pc = "list" => k.cl = None

TaskInv == \A t \in Tasks : Placed(task[t])

-----------------------------------------------------------------------------
(* Who may refer to a client.                                              *)

Free(c) == \A a \in Accounts : slot[a] # c

\* The client that t connects is known to t alone, and t is the only one that
\* connects a client of its account.
Alone(t) ==
  LET c == task[t].cl  a == task[t].acc IN
  /\ conn[c] = "dialing" /\ c \notin outdated
  /\ Free(c) /\ reaper.cl # c /\ slot[a] = None
  /\ \A u \in Tasks : u # t => /\ task[u].cl # c
                               /\ task[u].pc \in {"dial", "redial"} => task[u].acc # a

SlotInv ==
  /\ \A a, b \in Accounts : slot[a] = slot[b] /\ slot[a] # None => a = b
  /\ \A a \in Accounts : slot[a] # None => slot[a] \notin outdated /\ conn[slot[a]] # "none"
  /\ \A c \in Clients : Closing(c) => Free(c)
  /\ \A c \in Clients : conn[c] = "up" /\ ~Closing(c) => ~Free(c)
  /\ \A t \in Tasks : task[t].pc = "dial" => Alone(t)
  /\ \A t \in Tasks : task[t].pc = "redial" => slot[task[t].acc] = task[t].cl

ClientInv ==
  /\ reaper.cl # None => Accounts # {}
  /\ disturbed = {} => SlotInv

ClientsInv == TypeInv /\ TaskInv /\ ClientInv /\ ConnectingIsLive

-----------------------------------------------------------------------------
(* Steps of one command.                                                   *)

\* Nothing is registered under the number that stands for no client.
LEMMA NoneIsNoClient == None \notin Clients
  BY ClientsAssumption DEF None

LEMMA NoTaskOk == NoTask \in Task /\ Placed(NoTask)
<1>1. NoTask \in Task
  BY DEF NoTask, Task, Ops, Pcs, Somebody, Client, None
<1>2. NoTask.op = "none" /\ NoTask.pc = "none"
  BY DEF NoTask
<1> QED BY <1>1, <1>2 DEF Placed, Reached, Dialogues

LEMMA OneTask ==
  ASSUME TypeInv, TaskInv, NEW t \in Tasks, NEW k \in Task, Placed(k),
         task' = [task EXCEPT ![t] = k]
  PROVE  /\ task' \in [Tasks -> Task] /\ TaskInv'
         /\ task'[t] = k /\ \A u \in Tasks : u # t => task'[u] = task[u]
<1>1. task \in [Tasks -> Task]
  BY DEF TypeInv
<1>2. task'[t] = k /\ \A u \in Tasks : u # t => task'[u] = task[u]
  BY <1>1
<1>3. TaskInv'
  <2> SUFFICES ASSUME NEW u \in Tasks PROVE Placed(task'[u])
    BY DEF TaskInv
  <2>1. CASE u = t
    BY <1>2, <2>1
  <2>2. CASE u # t
    BY <1>2, <2>2 DEF TaskInv
  <2> QED BY <2>1, <2>2
<1> QED BY <1>1, <1>2, <1>3

\* An exception ends the command, or lets its dialogue write ERROR.
LEMMA RaiseStep ==
  ASSUME TypeInv, TaskInv, NEW t \in Tasks, Raise(t)
  PROVE  \E k \in Task : /\ task' = [task EXCEPT ![t] = k] /\ Placed(k)
                         /\ k.cl = None /\ k.pc \in {"none", "ERROR"}
                         /\ task[t].op \in Dialogues =>
                              k.op = task[t].op /\ k.acc = task[t].acc /\ k.pc # "announce"
<1>0. task \in [Tasks -> Task] /\ task[t] \in Task /\ Placed(task[t])
  BY DEF TypeInv, TaskInv
<1>1. CASE task[t].op \in Dialogues
  <2> DEFINE k == [task[t] EXCEPT !.pc = "ERROR", !.cl = None]
  <2>1. task' = [task EXCEPT ![t] = k]
    BY <1>0, <1>1 DEF Raise, Task
  <2>2. k \in Task /\ k.cl = None /\ k.pc = "ERROR" /\ k.op = task[t].op
        /\ k.acc = task[t].acc /\ k.then = task[t].then
    BY <1>0 DEF Task, Client, Pcs, Ends
  <2>3. Placed(k)
    BY <1>0, <1>1, <2>2 DEF Placed, Reached, Dialogues, Ends
  <2> QED BY <2>1, <2>2, <2>3
<1>2. CASE task[t].op \notin Dialogues
  BY <1>2, NoTaskOk DEF Raise, NoTask
<1> QED BY <1>1, <1>2

\* A step of t that takes no client into t's hands and connects or closes none.
LEMMA QuietSlots ==
  ASSUME TypeInv, TaskInv, ClientInv, NEW t \in Tasks, NEW k \in Task, task' = [task EXCEPT ![t] = k],
         k.cl \in {None, task[t].cl}, k.pc \notin {"dial", "redial", "close"},
         task[t].pc # "close",
         UNCHANGED <<slot, conn, outdated>>, disturbed \subseteq disturbed',
         reaper'.cl = reaper.cl
  PROVE  ClientInv'
<1>0. task \in [Tasks -> Task] /\ None \notin Clients
  BY NoneIsNoClient DEF TypeInv
<1>1. task'[t] = k /\ \A u \in Tasks : u # t => task'[u] = task[u]
  BY <1>0
<1> SUFFICES ASSUME disturbed' = {} PROVE SlotInv'
  BY DEF ClientInv
<1>2. SlotInv
  BY DEF ClientInv
<1>3. ASSUME NEW c \in Clients PROVE Closing(c)' <=> Closing(c)
  BY <1>0, <1>1 DEF Closing
<1>4. ASSUME NEW c \in Clients PROVE Free(c)' <=> Free(c)
  BY DEF Free
<1>5. ASSUME NEW u \in Tasks, task'[u].pc = "dial" PROVE Alone(u)'
  <2>1. u # t /\ task'[u] = task[u] /\ Alone(u)
    BY <1>1, <1>2, <1>5 DEF SlotInv
  <2>2. task[u].cl # None
    BY <1>0, <1>5, <2>1 DEF TaskInv, Placed
  <2> QED BY <1>1, <2>1, <2>2 DEF Alone, Free
<1>6. ASSUME NEW u \in Tasks, task'[u].pc = "redial" PROVE slot'[task'[u].acc] = task'[u].cl
  BY <1>1, <1>2, <1>6 DEF SlotInv
<1> QED BY <1>2, <1>3, <1>4, <1>5, <1>6 DEF SlotInv

\* The dialogue that has announced CONNECTING goes on.
LEMMA LiveKept ==
  ASSUME TypeInv, ConnectingIsLive, NEW t \in Tasks, NEW k \in Task,
         task' = [task EXCEPT ![t] = k],
         task[t].op \in Dialogues =>
           k.op = task[t].op /\ k.acc = task[t].acc /\ k.pc # "announce",
         UNCHANGED <<status, interrupted>>
  PROVE  ConnectingIsLive'
<1>1. task \in [Tasks -> Task] /\ task'[t] = k /\ \A u \in Tasks : u # t => task'[u] = task[u]
  BY DEF TypeInv
<1> QED BY <1>1 DEF ConnectingIsLive

\* Both, for the steps that leave the account's row alone.
LEMMA QuietStep ==
  ASSUME ClientsInv, NEW t \in Tasks, NEW k \in Task, Placed(k), task' = [task EXCEPT ![t] = k],
         task[t].op \in Dialogues =>
           k.op = task[t].op /\ k.acc = task[t].acc /\ k.pc # "announce",
         k.cl \in {None, task[t].cl}, k.pc \notin {"dial", "redial", "close"},
         task[t].pc # "close",
         UNCHANGED <<status, slot, conn, outdated, interrupted>>,
         disturbed \subseteq disturbed', reaper'.cl = reaper.cl
  PROVE  task' \in [Tasks -> Task] /\ TaskInv' /\ ClientInv' /\ ConnectingIsLive'
  BY OneTask, QuietSlots, LiveKept DEF ClientsInv

-----------------------------------------------------------------------------
(* Commands.                                                               *)

LEMMA LaunchKeeps ==
  ASSUME ClientsInv, NEW t \in Tasks, NEW a \in Accounts, NEW op \in Ops \ {"none", "settings"},
         NEW pc \in {"announce", "get", "drop", "on", "off"}, NEW then \in Pcs,
         Launch(t, op, a, pc, then),
         op \in Dialogues => pc = "announce" /\ then = "check",
         op = "sign" => pc = "get" /\ then = "sign",
         op = "use" => pc = "get" /\ then = "request",
         op = "delete" => pc = "drop" /\ then = "erase",
         op = "enable" => pc \in {"on", "off"}
  PROVE  ClientsInv'
<1> DEFINE k == [NoTask EXCEPT !.op = op, !.acc = a, !.pc = pc, !.then = then]
<1>1. /\ task' = [task EXCEPT ![t] = k] /\ task[t] = NoTask
      /\ UNCHANGED <<accountVars, clientVars, credVars, reaper, disturbed, interrupted>>
  BY DEF Launch, FirstFree
<1>2. NoTask \in Task /\ NoTask.cl = None
  BY NoTaskOk DEF NoTask
<1>3. k \in Task
  <2>1. pc \in Pcs /\ a \in Somebody /\ op \in Ops
    BY DEF Pcs, Somebody
  <2> QED BY <1>2, <2>1 DEF Task
<1>4. k.op = op /\ k.acc = a /\ k.pc = pc /\ k.then = then /\ k.cl = None
  BY <1>2 DEF Task
<1>5. Placed(k)
  BY <1>4 DEF Placed, Reached, Dialogues, Ops
<1>6. task[t].op \notin Dialogues /\ task[t].pc # "close"
  BY <1>1 DEF NoTask, Dialogues
<1> HIDE DEF k
<1>7. task' \in [Tasks -> Task] /\ TaskInv' /\ ClientInv' /\ ConnectingIsLive'
  BY <1>1, <1>3, <1>4, <1>5, <1>6, QuietStep DEF accountVars, clientVars
<1> QED BY <1>1, <1>7 DEF ClientsInv, TypeInv, accountVars, clientVars, credVars

LEMMA StartKeeps ==
  ASSUME ClientsInv, NEW t \in Tasks, NEW a \in Accounts,
         \/ StartDialogue(t, a) \/ StartRequest(t, a) \/ StartDelete(t, a)
         \/ \E on \in BOOLEAN : StartEnable(t, a, on)
  PROVE  ClientsInv'
<1>1. CASE ConnectAccount(t, a)
  BY <1>1, LaunchKeeps DEF ConnectAccount, Ops, Pcs, Dialogues
<1>2. CASE SendCode(t, a)
  BY <1>2, LaunchKeeps DEF SendCode, Ops, Pcs, Dialogues
<1>3. CASE SignIn(t, a)
  BY <1>3, LaunchKeeps DEF SignIn, Ops, Pcs, Dialogues
<1>4. CASE StartRequest(t, a)
  BY <1>4, LaunchKeeps DEF StartRequest, Ops, Pcs, Dialogues
<1>5. CASE StartDelete(t, a)
  BY <1>5, LaunchKeeps DEF StartDelete, Ops, Pcs, Dialogues
<1>6. ASSUME NEW on \in BOOLEAN, StartEnable(t, a, on) PROVE ClientsInv'
  <2>1. PICK pc \in {"on", "off"} : Launch(t, "enable", a, pc, "none")
    BY <1>6 DEF StartEnable
  <2> QED BY <2>1, LaunchKeeps DEF Ops, Pcs, Dialogues
<1> QED BY <1>1, <1>2, <1>3, <1>4, <1>5, <1>6 DEF StartDialogue

\* An account gets a row, which is not CONNECTING.
LEMMA AddKeeps ==
  ASSUME ClientsInv, NEW a \in Accounts, AddAccount(a)
  PROVE  ClientsInv'
<1>1. /\ status' = [status EXCEPT ![a] = "DISCONNECTED"]
      /\ UNCHANGED <<enabled, code, clientVars, credVars, task, reaper, disturbed, interrupted>>
  BY DEF AddAccount, Add, Create
<1>2. TypeInv' /\ TaskInv'
  BY <1>1 DEF ClientsInv, TypeInv, TaskInv, Statuses, clientVars, credVars
<1>3. ClientInv'
  BY <1>1 DEF ClientsInv, ClientInv, SlotInv, Alone, Free, Closing, clientVars
<1>4. ConnectingIsLive'
  BY <1>1 DEF ClientsInv, TypeInv, ConnectingIsLive
<1> QED BY <1>2, <1>3, <1>4 DEF ClientsInv

\* The row of one account says something else than CONNECTING from now on.
LEMMA RowStep ==
  ASSUME ClientsInv, NEW t \in Tasks, task' = [task EXCEPT ![t] = NoTask],
         task[t].acc \in Accounts, task[t].pc # "close",
         NEW st \in (Statuses \cup {"deleted"}) \ {"CONNECTING"},
         \/ status' = [status EXCEPT ![task[t].acc] = st]
         \/ status' = status /\ (task[t].op \in Dialogues => ~Exists(task[t].acc)),
         enabled' \subseteq Accounts, code' \subseteq Accounts,
         UNCHANGED <<clientVars, credVars, reaper, disturbed, interrupted>>
  PROVE  ClientsInv'
<1>0. task \in [Tasks -> Task] /\ status \in [Accounts -> Statuses \cup {"absent", "deleted"}]
  BY DEF ClientsInv, TypeInv
<1>1. task'[t] = NoTask /\ \A u \in Tasks : u # t => task'[u] = task[u]
  BY <1>0
<1>2. task' \in [Tasks -> Task] /\ TaskInv'
  BY NoTaskOk, OneTask DEF ClientsInv
<1>3. ClientInv'
  <2>1. NoTask.cl = None /\ NoTask.pc = "none"
    BY DEF NoTask
  <2> QED BY <2>1, NoTaskOk, QuietSlots DEF ClientsInv, clientVars
<1>4. TypeInv'
  <2>1. status' \in [Accounts -> Statuses \cup {"absent", "deleted"}]
    BY <1>0
  <2> QED BY <1>2, <2>1 DEF ClientsInv, TypeInv, clientVars, credVars
<1>5. ConnectingIsLive'
  <2> SUFFICES ASSUME NEW a \in Accounts, status'[a] = "CONNECTING", a \notin interrupted
               PROVE  \E u \in Tasks : /\ task'[u].acc = a /\ task'[u].op \in Dialogues
                                     /\ task'[u].pc # "announce"
    BY DEF ConnectingIsLive
  <2>1. status[a] = "CONNECTING"
    BY <1>0
  <2>2. PICK u \in Tasks : /\ task[u].acc = a /\ task[u].op \in Dialogues
                              /\ task[u].pc # "announce"
    BY <2>1 DEF ClientsInv, ConnectingIsLive
  <2>3. u # t
    <3>1. SUFFICES ASSUME u = t PROVE FALSE
      OBVIOUS
    <3>2. Exists(a)
      BY <2>1 DEF Exists
    <3> QED BY <1>0, <2>1, <2>2, <3>1, <3>2
  <2> QED BY <1>1, <2>2, <2>3
<1> QED BY <1>2, <1>3, <1>4, <1>5 DEF ClientsInv

-----------------------------------------------------------------------------
(* ClientManager.get.                                                      *)

LEMMA TaskTypes ==
  ASSUME ClientsInv, NEW t \in Tasks
  PROVE  /\ task \in [Tasks -> Task] /\ task[t] \in Task /\ Placed(task[t])
         /\ task[t].pc \in {"get", "dial", "redial", "announce", "check", "ask", "me", "sign",
                            "drop", "erase", "on", "off"} \cup Ends
              => task[t].acc \in Accounts /\ task[t].op \notin {"none", "settings"}
<1>1. task \in [Tasks -> Task] /\ task[t] \in Task /\ Placed(task[t])
  BY DEF ClientsInv, TypeInv, TaskInv
<1>2. task[t].op = "none" => task[t].pc = "none"
  BY <1>1 DEF Placed, Reached, NoTask
<1> QED BY <1>1, <1>2 DEF Placed, Reached, Ends

\* What the first statement of get does to the reaper.
LEMMA EnsureStep ==
  ASSUME TypeInv, EnsureReaper
  PROVE  reaper' \in Reapers /\ reaper'.cl = reaper.cl
<1>1. [NoReaper EXCEPT !.pc = "asleep"] = [pc |-> "asleep", rest |-> {}, cl |-> None]
  BY DEF NoReaper
<1> QED BY <1>1 DEF EnsureReaper, TypeInv, Reapers, Client

\* The steps that end in an exception.
LEMMA RaiseKeeps ==
  ASSUME ClientsInv, NEW t \in Tasks, Raise(t), task[t].pc # "close",
         UNCHANGED <<accountVars, clientVars, credVars, disturbed, interrupted>>,
         reaper' = reaper \/ EnsureReaper
  PROVE  ClientsInv'
<1>1. PICK k \in Task :
        /\ task' = [task EXCEPT ![t] = k] /\ Placed(k)
        /\ k.cl = None /\ k.pc \in {"none", "ERROR"}
        /\ task[t].op \in Dialogues =>
             k.op = task[t].op /\ k.acc = task[t].acc /\ k.pc # "announce"
  BY RaiseStep DEF ClientsInv
<1>2. reaper'.cl = reaper.cl
      /\ reaper' \in Reapers
  BY EnsureStep DEF ClientsInv, TypeInv
<1>3. task' \in [Tasks -> Task] /\ TaskInv' /\ ClientInv' /\ ConnectingIsLive'
  BY <1>1, <1>2, QuietStep DEF accountVars, clientVars
<1> QED BY <1>2, <1>3 DEF ClientsInv, TypeInv, accountVars, clientVars, credVars

LEMMA HitKeeps ==
  ASSUME ClientsInv, NEW t \in Tasks, GetHit(t)
  PROVE  ClientsInv'
<1> DEFINE a == task[t].acc
           c == slot[a]
<1>0. /\ task[t] \in Task /\ Placed(task[t]) /\ task \in [Tasks -> Task]
      /\ task[t].pc = "get" /\ a \in Accounts /\ task[t].op # "none" /\ EnsureReaper
      /\ slot \in [Accounts -> Client] /\ c \in Client /\ c # None
  BY TaskTypes DEF GetHit, AtGet, ClientsInv, TypeInv
<1>1. PICK pc : /\ pc \in {task[t].then, "redial"}
                /\ task' = [task EXCEPT ![t] = [task[t] EXCEPT !.cl = c, !.pc = pc]]
  BY <1>0 DEF GetHit, Task
<1> DEFINE k == [task[t] EXCEPT !.cl = c, !.pc = pc]
<1>2. k.cl = c /\ k.pc = pc /\ k.op = task[t].op /\ k.acc = a /\ k.then = task[t].then
  BY <1>0 DEF Task
<1>3. k \in Task /\ pc \notin {"dial", "close", "list", "announce"}
  <2>1. task[t].then \in {"check", "me", "sign", "request"}
    BY <1>0 DEF Placed, Reached, Task, Ops
  <2>2. pc \in Pcs /\ pc \notin {"dial", "close", "list", "announce"}
    BY <1>1, <2>1 DEF Pcs
  <2> QED BY <1>0, <2>2 DEF Task
<1>4. Placed(k)
  <2>1. c \in Clients
    BY <1>0 DEF Client
  <2> QED BY <1>0, <1>1, <1>2, <1>3, <2>1 DEF Placed, Reached, Ends, Dialogues
<1>5. task' = [task EXCEPT ![t] = k]
  BY <1>1
<1> HIDE DEF k
<1>6. /\ task' \in [Tasks -> Task] /\ TaskInv'
      /\ task'[t] = k /\ \A u \in Tasks : u # t => task'[u] = task[u]
  BY <1>3, <1>4, <1>5, OneTask DEF ClientsInv
<1>7. ConnectingIsLive'
  BY <1>2, <1>3, <1>5, LiveKept DEF GetHit, accountVars, ClientsInv
<1>8. reaper' \in Reapers /\ reaper'.cl = reaper.cl
  BY <1>0, EnsureStep DEF ClientsInv
<1>9. TypeInv'
  BY <1>6, <1>8 DEF GetHit, ClientsInv, TypeInv, accountVars, credVars
<1>10. ClientInv'
  <2>0. UNCHANGED <<slot, conn, outdated, disturbed>>
    BY DEF GetHit
  <2>1. reaper'.cl # None => Accounts # {}
    BY <1>8 DEF ClientsInv, ClientInv
  <2> SUFFICES ASSUME disturbed' = {} PROVE SlotInv'
    BY <2>1 DEF ClientInv
  <2>2. SlotInv
    BY <2>0 DEF ClientsInv, ClientInv
  <2>3. ASSUME NEW d \in Clients PROVE (Closing(d)' <=> Closing(d)) /\ (Free(d)' <=> Free(d))
    BY <1>0, <1>2, <1>3, <1>6, <1>8, <2>0 DEF Closing, Free
  <2>4. ASSUME NEW u \in Tasks, task'[u].pc = "dial" PROVE Alone(u)'
    <3>1. u # t /\ task'[u] = task[u] /\ Alone(u)
      BY <1>2, <1>3, <1>6, <2>2, <2>4 DEF SlotInv
    <3>2. task[u].cl # c /\ task[u].acc # a
      BY <1>0, <3>1 DEF Alone, Free
    <3> QED BY <1>2, <1>6, <1>8, <2>0, <3>1, <3>2 DEF Alone, Free
  <2>5. ASSUME NEW u \in Tasks, task'[u].pc = "redial" PROVE slot'[task'[u].acc] = task'[u].cl
    BY <1>2, <1>6, <2>0, <2>2, <2>5 DEF SlotInv
  <2> QED BY <2>0, <2>2, <2>3, <2>4, <2>5 DEF SlotInv
<1> QED BY <1>6, <1>7, <1>9, <1>10 DEF ClientsInv

\* No client is registered: a new one is connected, which nobody refers to yet.
LEMMA MissKeeps ==
  ASSUME ClientsInv, NEW t \in Tasks, GetMiss(t)
  PROVE  ClientsInv'
<1> DEFINE a == task[t].acc
<1>0. /\ task[t] \in Task /\ Placed(task[t]) /\ task \in [Tasks -> Task]
      /\ task[t].pc = "get" /\ a \in Accounts /\ task[t].op # "none" /\ EnsureReaper /\ slot[a] = None
      /\ UNCHANGED <<accountVars, slot, idle, credVars, interrupted>>
  BY TaskTypes DEF GetMiss, AtGet
<1>1. CASE Raise(t) /\ UNCHANGED <<conn, outdated, disturbed>>
  BY <1>0, <1>1, RaiseKeeps DEF clientVars
<1>2. CASE ~(Raise(t) /\ UNCHANGED <<conn, outdated, disturbed>>)
  <2>1. PICK c \in Clients :
          /\ Unused(c) /\ conn' = [conn EXCEPT ![c] = "dialing"] /\ outdated' = outdated \ {c}
          /\ task' = [task EXCEPT ![t].cl = c, ![t].pc = "dial"]
    BY <1>2 DEF GetMiss
  <2>2. disturbed' = IF Dialing(a) THEN disturbed \cup {a} ELSE disturbed
    BY <1>2 DEF GetMiss
  <2> DEFINE k == [task[t] EXCEPT !.cl = c, !.pc = "dial"]
  <2>3. task' = [task EXCEPT ![t] = k]
    BY <1>0, <2>1 DEF Task
  <2>4. k \in Task /\ k.cl = c /\ k.pc = "dial" /\ k.op = task[t].op /\ k.acc = a
        /\ k.then = task[t].then
    BY <1>0 DEF Task, Pcs, Client
  <2>5. Placed(k)
    BY <1>0, <2>4 DEF Placed, Reached, Ends, Dialogues
  <2> HIDE DEF k
  <2>6. /\ task' \in [Tasks -> Task] /\ TaskInv'
        /\ task'[t] = k /\ \A u \in Tasks : u # t => task'[u] = task[u]
    BY <2>3, <2>4, <2>5, OneTask DEF ClientsInv
  <2>7. ConnectingIsLive'
    BY <1>0, <2>3, <2>4, LiveKept DEF accountVars, ClientsInv
  <2>8. reaper' \in Reapers /\ reaper'.cl = reaper.cl
    BY <1>0, EnsureStep DEF ClientsInv
  <2>9. TypeInv'
    BY <1>0, <2>1, <2>6, <2>8 DEF ClientsInv, TypeInv, accountVars, credVars
  <2>10. ClientInv'
    <3>1. reaper'.cl # None => Accounts # {}
      BY <2>8 DEF ClientsInv, ClientInv
    <3> SUFFICES ASSUME disturbed' = {} PROVE SlotInv'
      BY <3>1 DEF ClientInv
    <3>2. SlotInv /\ ~Dialing(a)
      BY <2>2 DEF ClientsInv, ClientInv
    <3>3. /\ conn[c] = "none" /\ reaper.cl # c /\ \A u \in Tasks : task[u].cl # c
          /\ \A b \in Accounts : slot[b] # c
      BY <2>1, <3>2, NoneIsNoClient DEF Unused, SlotInv
    <3>4. conn \in [Clients -> {"none", "dialing", "up", "lost"}]
      BY DEF ClientsInv, TypeInv
    <3>5. conn'[c] = "dialing" /\ \A d \in Clients : d # c => conn'[d] = conn[d]
      BY <2>1, <3>4
    <3>6. ASSUME NEW d \in Clients PROVE (Closing(d)' <=> Closing(d)) /\ (Free(d)' <=> Free(d))
      BY <1>0, <2>4, <2>6, <2>8 DEF Closing, Free
    <3>7. Alone(t)'
      BY <1>0, <2>1, <2>4, <2>6, <2>8, <3>2, <3>3, <3>5 DEF Alone, Free, Dialing
    <3>8. ASSUME NEW u \in Tasks, u # t, task'[u].pc = "dial" PROVE Alone(u)'
      <4>1. task'[u] = task[u] /\ Alone(u) /\ task[u].cl # c /\ task[u].cl \in Clients
        BY <2>6, <3>2, <3>3, <3>8 DEF SlotInv, ClientsInv, TaskInv, Placed
      <4>2. task[u].acc # a
        BY <2>6, <3>2, <3>8 DEF Dialing
      <4> QED BY <1>0, <2>1, <2>4, <2>6, <2>8, <3>5, <4>1, <4>2 DEF Alone, Free
    <3>9. ASSUME NEW u \in Tasks, task'[u].pc = "redial" PROVE slot'[task'[u].acc] = task'[u].cl
      BY <1>0, <2>4, <2>6, <3>2, <3>9 DEF SlotInv
    <3>10. ASSUME NEW b \in Accounts, slot'[b] # None
           PROVE  slot'[b] \notin outdated' /\ conn'[slot'[b]] # "none"
      <4>1. slot[b] \in Clients /\ slot[b] # c /\ slot' = slot
        BY <1>0, <3>3, <3>10 DEF ClientsInv, TypeInv, Client
      <4> QED BY <2>1, <3>2, <3>5, <3>10, <4>1 DEF SlotInv
    <3>11. ASSUME NEW d \in Clients, conn'[d] = "up" PROVE conn[d] = "up"
      BY <3>5, <3>11
    <3> QED BY <1>0, <3>2, <3>6, <3>7, <3>8, <3>9, <3>10, <3>11 DEF SlotInv
  <2> QED BY <2>6, <2>7, <2>9, <2>10 DEF ClientsInv
<1> QED BY <1>1, <1>2

\* The next await of the dialogue or the request, with the client in hand.
LEMMA GotoStep ==
  ASSUME ClientsInv, NEW t \in Tasks, task[t].pc \in {"dial", "redial"}, Goto(t, task[t].then)
  PROVE  \E k \in Task :
           /\ task' = [task EXCEPT ![t] = k] /\ Placed(k)
           /\ k.op = task[t].op /\ k.acc = task[t].acc /\ k.cl = task[t].cl
           /\ k.pc \notin {"dial", "redial", "close", "announce"}
<1> DEFINE k == [task[t] EXCEPT !.pc = task[t].then]
<1>0. /\ task[t] \in Task /\ Placed(task[t]) /\ task \in [Tasks -> Task]
      /\ task[t].op \notin {"none", "settings"}
  BY TaskTypes
<1>1. task' = [task EXCEPT ![t] = k]
  BY <1>0 DEF Goto, Task
<1>2. /\ k \in Task /\ k.op = task[t].op /\ k.acc = task[t].acc /\ k.cl = task[t].cl
      /\ k.pc = task[t].then /\ k.then = task[t].then
  BY <1>0 DEF Task
<1>3. task[t].then \in {"check", "me", "sign", "request"}
  BY <1>0 DEF Placed, Reached, Task, Ops, Ends
<1>4. Placed(k)
  BY <1>0, <1>2, <1>3 DEF Placed, Reached, Ends, Dialogues
<1> HIDE DEF k
<1> QED BY <1>1, <1>2, <1>3, <1>4

LEMMA RegisterKeeps ==
  ASSUME ClientsInv, NEW t \in Tasks, Register(t)
  PROVE  ClientsInv'
<1> DEFINE a == task[t].acc
           c == task[t].cl
<1>0. /\ task[t].pc = "dial" /\ Goto(t, task[t].then)
      /\ conn' = [conn EXCEPT ![c] = "up"] /\ slot' = [slot EXCEPT ![a] = c]
      /\ idle' = idle \ {a}
      /\ UNCHANGED <<accountVars, outdated, credVars, reaper, disturbed, interrupted>>
  BY DEF Register
<1>1. PICK k \in Task :
        /\ task' = [task EXCEPT ![t] = k] /\ Placed(k)
        /\ k.op = task[t].op /\ k.acc = a /\ k.cl = c
        /\ k.pc \notin {"dial", "redial", "close", "announce"}
  BY <1>0, GotoStep
<1>2. /\ task' \in [Tasks -> Task] /\ TaskInv'
      /\ task'[t] = k /\ \A u \in Tasks : u # t => task'[u] = task[u]
  BY <1>1, OneTask DEF ClientsInv
<1>3. ConnectingIsLive'
  BY <1>0, <1>1, LiveKept DEF accountVars, ClientsInv
<1>4. /\ a \in Accounts /\ c \in Clients /\ slot \in [Accounts -> Client]
      /\ conn \in [Clients -> {"none", "dialing", "up", "lost"}]
  BY <1>0, TaskTypes DEF Placed, ClientsInv, TypeInv
<1>5. TypeInv'
  BY <1>0, <1>2, <1>4 DEF ClientsInv, TypeInv, accountVars, credVars, Client
<1>6. ClientInv'
  <2> SUFFICES ASSUME disturbed = {} PROVE SlotInv'
    BY <1>0 DEF ClientsInv, ClientInv
  <2>1. SlotInv /\ Alone(t)
    BY <1>0 DEF ClientsInv, ClientInv, SlotInv
  <2>2. /\ conn'[c] = "up" /\ \A d \in Clients : d # c => conn'[d] = conn[d]
        /\ slot'[a] = c /\ \A b \in Accounts : b # a => slot'[b] = slot[b]
    BY <1>0, <1>4
  <2>3. /\ c \notin outdated /\ reaper.cl # c /\ slot[a] = None
        /\ \A b \in Accounts : slot[b] # c
        /\ \A u \in Tasks : u # t => /\ task[u].cl # c
                                     /\ task[u].pc \in {"dial", "redial"} => task[u].acc # a
    BY <2>1 DEF Alone, Free
  <2>4. c # None
    BY <1>4, NoneIsNoClient
  <2>5. ASSUME NEW d \in Clients PROVE (Closing(d)' <=> Closing(d)) /\ ~Closing(c)
    BY <1>0, <1>1, <1>2, <2>3 DEF Closing
  <2>6. ASSUME NEW d \in Clients, d # c PROVE Free(d)' <=> Free(d)
    <3>1. d # None
      BY NoneIsNoClient
    <3> QED BY <1>4, <2>2, <2>3, <2>6, <3>1 DEF Free
  <2>7. ASSUME NEW d \in Clients, d = c PROVE ~Free(d)'
    BY <1>4, <2>2, <2>7 DEF Free
  <2>8. \A b1, b2 \in Accounts : slot'[b1] = slot'[b2] /\ slot'[b1] # None => b1 = b2
    BY <2>1, <2>2, <2>3 DEF SlotInv
  <2>9. ASSUME NEW b \in Accounts, slot'[b] # None
        PROVE  slot'[b] \notin outdated' /\ conn'[slot'[b]] # "none"
    <3>1. CASE b = a
      BY <1>0, <2>2, <2>3, <3>1
    <3>2. CASE b # a
      <4>1. slot'[b] = slot[b] /\ slot[b] \in Clients /\ slot[b] # c
        BY <1>4, <2>2, <2>3, <2>9, <3>2 DEF Client
      <4> QED BY <1>0, <2>1, <2>2, <2>9, <4>1 DEF SlotInv
    <3> QED BY <3>1, <3>2
  <2>10. ASSUME NEW u \in Tasks, task'[u].pc = "dial" PROVE Alone(u)'
    <3>1. u # t /\ task'[u] = task[u] /\ Alone(u) /\ task[u].cl \in Clients
      BY <1>1, <1>2, <2>1, <2>10 DEF SlotInv, ClientsInv, TaskInv, Placed
    <3>2. task[u].cl # c /\ task[u].acc # a /\ task[u].acc \in Accounts
      BY <2>3, <2>10, <3>1, TaskTypes
    <3>3. Free(task[u].cl)'
      BY <2>6, <3>1, <3>2 DEF Alone, Free
    <3> QED BY <1>0, <1>1, <1>2, <2>2, <3>1, <3>2, <3>3 DEF Alone, Free
  <2>11. ASSUME NEW u \in Tasks, task'[u].pc = "redial" PROVE slot'[task'[u].acc] = task'[u].cl
    <3>1. u # t /\ task'[u] = task[u]
      BY <1>1, <1>2, <2>11
    <3>2. task[u].acc # a /\ task[u].acc \in Accounts
      BY <2>3, <2>11, <3>1, TaskTypes
    <3> QED BY <2>1, <2>2, <2>11, <3>1, <3>2 DEF SlotInv
  <2>12. ASSUME NEW d \in Clients PROVE Closing(d)' => Free(d)'
    BY <2>1, <2>5, <2>6 DEF SlotInv
  <2>13. ASSUME NEW d \in Clients PROVE conn'[d] = "up" /\ ~Closing(d)' => ~Free(d)'
    BY <2>1, <2>2, <2>5, <2>6, <2>7 DEF SlotInv
  <2> QED BY <2>8, <2>9, <2>10, <2>11, <2>12, <2>13 DEF SlotInv
<1> QED BY <1>2, <1>3, <1>5, <1>6 DEF ClientsInv

LEMMA ReconnectKeeps ==
  ASSUME ClientsInv, NEW t \in Tasks, Reconnect(t)
  PROVE  ClientsInv'
<1> DEFINE a == task[t].acc
           c == task[t].cl
<1>0. /\ task[t].pc = "redial" /\ Goto(t, task[t].then)
      /\ conn' = [conn EXCEPT ![c] = "up"]
      /\ UNCHANGED <<accountVars, slot, idle, outdated, credVars, reaper, disturbed, interrupted>>
  BY DEF Reconnect
<1>1. PICK k \in Task :
        /\ task' = [task EXCEPT ![t] = k] /\ Placed(k)
        /\ k.op = task[t].op /\ k.acc = a /\ k.cl = c
        /\ k.pc \notin {"dial", "redial", "close", "announce"}
  BY <1>0, GotoStep
<1>2. /\ task' \in [Tasks -> Task] /\ TaskInv'
      /\ task'[t] = k /\ \A u \in Tasks : u # t => task'[u] = task[u]
  BY <1>1, OneTask DEF ClientsInv
<1>3. ConnectingIsLive'
  BY <1>0, <1>1, LiveKept DEF accountVars, ClientsInv
<1>4. /\ a \in Accounts /\ c \in Clients /\ slot \in [Accounts -> Client]
      /\ conn \in [Clients -> {"none", "dialing", "up", "lost"}]
  BY <1>0, TaskTypes DEF Placed, ClientsInv, TypeInv
<1>5. TypeInv'
  BY <1>0, <1>2, <1>4 DEF ClientsInv, TypeInv, accountVars, credVars
<1>6. ClientInv'
  <2> SUFFICES ASSUME disturbed = {} PROVE SlotInv'
    BY <1>0 DEF ClientsInv, ClientInv
  <2>1. SlotInv /\ slot[a] = c
    BY <1>0 DEF ClientsInv, ClientInv, SlotInv
  <2>2. conn'[c] = "up" /\ \A d \in Clients : d # c => conn'[d] = conn[d]
    BY <1>0, <1>4
  <2>3. ASSUME NEW d \in Clients PROVE (Closing(d)' <=> Closing(d)) /\ (Free(d)' <=> Free(d))
    BY <1>0, <1>1, <1>2 DEF Closing, Free
  <2>4. ASSUME NEW b \in Accounts, slot'[b] # None
        PROVE  slot'[b] \notin outdated' /\ conn'[slot'[b]] # "none"
    <3>1. slot[b] \in Clients
      BY <1>0, <1>4, <2>4 DEF Client
    <3> QED BY <1>0, <2>1, <2>2, <2>4, <3>1 DEF SlotInv
  <2>5. ASSUME NEW u \in Tasks, task'[u].pc = "dial" PROVE Alone(u)'
    <3>1. u # t /\ task'[u] = task[u] /\ Alone(u) /\ task[u].cl \in Clients
      BY <1>1, <1>2, <2>1, <2>5 DEF SlotInv, ClientsInv, TaskInv, Placed
    <3>2. task[u].cl # c
      BY <1>4, <2>1, <3>1 DEF Alone, Free
    <3> QED BY <1>0, <1>1, <1>2, <2>2, <3>1, <3>2 DEF Alone, Free
  <2>6. ASSUME NEW u \in Tasks, task'[u].pc = "redial" PROVE slot'[task'[u].acc] = task'[u].cl
    BY <1>0, <1>1, <1>2, <2>1, <2>6 DEF SlotInv
  <2>7. ASSUME NEW d \in Clients PROVE conn'[d] = "up" /\ ~Closing(d)' => ~Free(d)'
    <3>1. CASE d = c
      BY <1>4, <2>1, <2>3, <3>1 DEF Free
    <3>2. CASE d # c
      BY <2>1, <2>2, <2>3, <3>2 DEF SlotInv
    <3> QED BY <3>1, <3>2
  <2> QED BY <1>0, <2>1, <2>3, <2>4, <2>5, <2>6, <2>7 DEF SlotInv
<1> QED BY <1>2, <1>3, <1>5, <1>6 DEF ClientsInv

LEMMA FailKeeps ==
  ASSUME ClientsInv, NEW t \in Tasks, ConnectFails(t)
  PROVE  ClientsInv'
<1> DEFINE c == task[t].cl
<1>0. /\ task[t].pc \in {"dial", "redial"} /\ Raise(t)
      /\ UNCHANGED <<accountVars, slot, idle, outdated, credVars, reaper, disturbed, interrupted>>
  BY DEF ConnectFails
<1>1. CASE task[t].pc = "redial"
  <2>1. conn' = conn
    BY <1>1 DEF ConnectFails
  <2> QED BY <1>0, <2>1, RaiseKeeps DEF clientVars
<1>2. CASE task[t].pc = "dial"
  <2>0. conn' = [conn EXCEPT ![c] = "none"]
    BY <1>2 DEF ConnectFails
  <2>1. PICK k \in Task :
          /\ task' = [task EXCEPT ![t] = k] /\ Placed(k)
          /\ k.cl = None /\ k.pc \in {"none", "ERROR"}
          /\ task[t].op \in Dialogues =>
               k.op = task[t].op /\ k.acc = task[t].acc /\ k.pc # "announce"
    BY <1>0, RaiseStep DEF ClientsInv
  <2>2. /\ task' \in [Tasks -> Task] /\ TaskInv'
        /\ task'[t] = k /\ \A u \in Tasks : u # t => task'[u] = task[u]
    BY <2>1, OneTask DEF ClientsInv
  <2>3. ConnectingIsLive'
    BY <1>0, <2>1, LiveKept DEF accountVars, ClientsInv
  <2>4. /\ c \in Clients /\ slot \in [Accounts -> Client]
        /\ conn \in [Clients -> {"none", "dialing", "up", "lost"}]
    BY <1>2, TaskTypes DEF Placed, ClientsInv, TypeInv
  <2>5. TypeInv'
    BY <1>0, <2>0, <2>2, <2>4 DEF ClientsInv, TypeInv, accountVars, credVars
  <2>6. ClientInv'
    <3> SUFFICES ASSUME disturbed = {} PROVE SlotInv'
      BY <1>0 DEF ClientsInv, ClientInv
    <3>1. SlotInv /\ Alone(t)
      BY <1>2 DEF ClientsInv, ClientInv, SlotInv
    <3>2. conn'[c] = "none" /\ \A d \in Clients : d # c => conn'[d] = conn[d]
      BY <2>0, <2>4
    <3>3. ASSUME NEW d \in Clients PROVE (Closing(d)' <=> Closing(d)) /\ (Free(d)' <=> Free(d))
      BY <1>0, <1>2, <2>1, <2>2 DEF Closing, Free
    <3>4. ASSUME NEW b \in Accounts, slot'[b] # None
          PROVE  slot'[b] \notin outdated' /\ conn'[slot'[b]] # "none"
      <4>1. slot[b] \in Clients /\ slot[b] # c
        BY <1>0, <2>4, <3>1, <3>4 DEF Client, Alone, Free
      <4> QED BY <1>0, <3>1, <3>2, <3>4, <4>1 DEF SlotInv
    <3>5. ASSUME NEW u \in Tasks, task'[u].pc = "dial" PROVE Alone(u)'
      <4>1. u # t /\ task'[u] = task[u] /\ Alone(u) /\ task[u].cl \in Clients
        BY <2>1, <2>2, <3>1, <3>5 DEF SlotInv, ClientsInv, TaskInv, Placed
      <4>2. task[u].cl # c
        BY <3>1, <4>1 DEF Alone
      <4> QED BY <1>0, <2>1, <2>2, <3>2, <4>1, <4>2, NoneIsNoClient DEF Alone, Free
    <3>6. ASSUME NEW u \in Tasks, task'[u].pc = "redial" PROVE slot'[task'[u].acc] = task'[u].cl
      BY <1>0, <2>1, <2>2, <3>1, <3>6 DEF SlotInv
    <3>7. ASSUME NEW d \in Clients, conn'[d] = "up" PROVE conn[d] = "up"
      BY <3>2, <3>7
    <3> QED BY <1>0, <3>1, <3>3, <3>4, <3>5, <3>6, <3>7 DEF SlotInv
  <2> QED BY <2>2, <2>3, <2>5, <2>6 DEF ClientsInv
<1> QED BY <1>0, <1>1, <1>2

-----------------------------------------------------------------------------
(* The dialogues and the workers.                                          *)

\* A step that leaves everything but the command itself alone.
LEMMA OwnStep ==
  ASSUME ClientsInv, NEW t \in Tasks, NEW k \in Task, Placed(k), task' = [task EXCEPT ![t] = k],
         task[t].op \in Dialogues =>
           k.op = task[t].op /\ k.acc = task[t].acc /\ k.pc # "announce",
         k.cl \in {None, task[t].cl}, k.pc \notin {"dial", "redial", "close"},
         task[t].pc # "close", saved' \in Nat,
         UNCHANGED <<accountVars, clientVars, creds, reaper, disturbed, interrupted>>
  PROVE  ClientsInv'
<1>1. task' \in [Tasks -> Task] /\ TaskInv' /\ ClientInv' /\ ConnectingIsLive'
  BY QuietStep DEF accountVars, clientVars
<1> QED BY <1>1 DEF ClientsInv, TypeInv, accountVars, clientVars

\* The dialogue has its result and will write it.
LEMMA WriteKeeps ==
  ASSUME ClientsInv, NEW t \in Tasks, NEW st \in Ends, Write(t, st),
         task[t].pc \in {"check", "ask", "sign", "me"},
         UNCHANGED <<accountVars, clientVars, credVars, reaper, disturbed, interrupted>>
  PROVE  ClientsInv'
<1> DEFINE k == [task[t] EXCEPT !.pc = st, !.cl = None]
<1>0. /\ task[t] \in Task /\ Placed(task[t]) /\ task \in [Tasks -> Task]
      /\ task[t].op \notin {"none", "settings"}
  BY TaskTypes
<1>1. task' = [task EXCEPT ![t] = k]
  BY <1>0 DEF Write, Task
<1>2. /\ k \in Task /\ k.op = task[t].op /\ k.acc = task[t].acc /\ k.cl = None
      /\ k.pc = st /\ k.then = task[t].then
  BY <1>0 DEF Task, Pcs, Client
<1>3. Placed(k) /\ st \notin {"dial", "redial", "close", "announce"}
  BY <1>0, <1>2 DEF Placed, Reached, Ends, Dialogues
<1> HIDE DEF k
<1> QED BY <1>1, <1>2, <1>3, OwnStep DEF credVars, ClientsInv, TypeInv

LEMMA RequestKeeps ==
  ASSUME ClientsInv, NEW t \in Tasks, Request(t)
  PROVE  ClientsInv'
<1>0. /\ task[t] \in Task /\ Placed(task[t]) /\ task \in [Tasks -> Task]
      /\ UNCHANGED <<accountVars, clientVars, credVars, reaper, disturbed, interrupted>>
      /\ task[t].pc \in {"check", "sign", "me", "ask", "request"} => task[t].op # "none"
      /\ saved \in Nat
  BY TaskTypes DEF Request, ClientsInv, TypeInv, Placed, Reached, NoTask
<1>1. CASE Raise(t) /\ task[t].pc \in {"check", "sign", "me", "ask", "request"}
  BY <1>0, <1>1, RaiseKeeps
<1>2. CASE /\ task[t].pc \in {"check", "sign"}
           /\ task' = [task EXCEPT ![t].pc = "get", ![t].then = "me", ![t].cl = None]
  <2> DEFINE k == [task[t] EXCEPT !.pc = "get", !.then = "me", !.cl = None]
  <2>1. task' = [task EXCEPT ![t] = k]
    BY <1>0, <1>2 DEF Task
  <2>2. /\ k \in Task /\ k.op = task[t].op /\ k.acc = task[t].acc /\ k.cl = None
        /\ k.pc = "get" /\ k.then = "me"
    BY <1>0 DEF Task, Pcs, Client
  <2>3. Placed(k)
    BY <1>0, <1>2, <2>2 DEF Placed, Reached, Ends, Dialogues
  <2> HIDE DEF k
  <2> QED BY <1>0, <1>2, <2>1, <2>2, <2>3, OwnStep DEF credVars
<1>3. CASE task[t].pc = "check" /\ task[t].op = "send" /\ Goto(t, "ask")
  <2> DEFINE k == [task[t] EXCEPT !.pc = "ask"]
  <2>1. task' = [task EXCEPT ![t] = k]
    BY <1>0, <1>3 DEF Task, Goto
  <2>2. /\ k \in Task /\ k.op = task[t].op /\ k.acc = task[t].acc /\ k.cl = task[t].cl
        /\ k.pc = "ask" /\ k.then = task[t].then
    BY <1>0 DEF Task, Pcs
  <2>3. Placed(k)
    BY <1>0, <1>3, <2>2 DEF Placed, Reached, Ends, Dialogues
  <2> HIDE DEF k
  <2> QED BY <1>0, <1>3, <2>1, <2>2, <2>3, OwnStep DEF credVars
<1>4. CASE /\ task[t].pc \in {"check", "ask", "sign", "me"}
           /\ \E st \in Ends : Write(t, st)
  BY <1>0, <1>4, WriteKeeps
<1>5. CASE task[t].pc = "request" /\ Finish(t)
  <2>1. task[t].op \notin Dialogues
    BY <1>0, <1>5 DEF Placed, Reached, Dialogues, Ends
  <2>2. NoTask.cl = None /\ NoTask.pc = "none"
    BY DEF NoTask
  <2> QED BY <1>0, <1>5, <2>1, <2>2, NoTaskOk, OwnStep DEF Finish, credVars
<1> QED BY <1>1, <1>2, <1>3, <1>4, <1>5
        DEF Request, RefreshIdentity, ConnectExisting, RequestCode, SignInFails, UseClient, Ends

LEMMA AnnounceKeeps ==
  ASSUME ClientsInv, NEW t \in Tasks, Announce(t)
  PROVE  ClientsInv'
<1> DEFINE a == task[t].acc
           k == [task[t] EXCEPT !.pc = "get"]
<1>0. /\ task[t] \in Task /\ Placed(task[t]) /\ task \in [Tasks -> Task]
      /\ a \in Accounts /\ task[t].pc = "announce" /\ task[t].op \notin {"none", "settings"}
      /\ UNCHANGED <<enabled, code, clientVars, credVars, reaper, disturbed>>
      /\ interrupted' = interrupted \ {a}
  BY TaskTypes DEF Announce
<1>1. task' = [task EXCEPT ![t] = k]
  BY <1>0 DEF Announce, Goto, Task
<1>2. /\ k \in Task /\ k.op = task[t].op /\ k.acc = a /\ k.cl = task[t].cl
      /\ k.pc = "get" /\ k.then = task[t].then
  BY <1>0 DEF Task, Pcs
<1>3. Placed(k) /\ task[t].op \in Dialogues
  BY <1>0, <1>2 DEF Placed, Reached, Ends, Dialogues, Task, Ops
<1> HIDE DEF k
<1>4. /\ task' \in [Tasks -> Task] /\ TaskInv'
      /\ task'[t] = k /\ \A u \in Tasks : u # t => task'[u] = task[u]
  BY <1>1, <1>2, <1>3, OneTask DEF ClientsInv
<1>5. ClientInv'
  BY <1>0, <1>1, <1>2, QuietSlots DEF ClientsInv, clientVars
<1>6. status' = status \/ status' = [status EXCEPT ![a] = "CONNECTING"]
  BY DEF Announce
<1>7. TypeInv'
  BY <1>0, <1>4, <1>6 DEF ClientsInv, TypeInv, clientVars, credVars, Statuses
<1>8. ConnectingIsLive'
  <2> SUFFICES ASSUME NEW b \in Accounts, status'[b] = "CONNECTING", b \notin interrupted \ {a}
               PROVE  \E u \in Tasks : /\ task'[u].acc = b /\ task'[u].op \in Dialogues
                                     /\ task'[u].pc # "announce"
    BY <1>0 DEF ConnectingIsLive
  <2>1. CASE b = a
    BY <1>2, <1>3, <1>4, <2>1
  <2>2. CASE b # a
    <3>1. status[b] = "CONNECTING"
      BY <1>6, <2>2 DEF ClientsInv, TypeInv
    <3>2. PICK u \in Tasks : /\ task[u].acc = b /\ task[u].op \in Dialogues
                              /\ task[u].pc # "announce"
      BY <2>2, <3>1 DEF ClientsInv, ConnectingIsLive
    <3> QED BY <1>4, <2>2, <3>2
  <2> QED BY <2>1, <2>2
<1> QED BY <1>4, <1>5, <1>7, <1>8 DEF ClientsInv

LEMMA ConcludeKeeps ==
  ASSUME ClientsInv, NEW t \in Tasks, Conclude(t)
  PROVE  ClientsInv'
<1>1. /\ task[t].pc \in Ends /\ task[t].acc \in Accounts /\ code \subseteq Accounts
      /\ enabled \subseteq Accounts
  BY TaskTypes DEF Conclude, Ends, ClientsInv, TypeInv
<1>2. code' \subseteq Accounts /\ enabled' \subseteq Accounts
  BY <1>1 DEF Conclude, CodesAfter
<1>3. task[t].pc \in (Statuses \cup {"deleted"}) \ {"CONNECTING"} /\ task[t].pc # "close"
  BY <1>1 DEF Ends, Statuses
<1>4. \/ status' = [status EXCEPT ![task[t].acc] = task[t].pc]
      \/ status' = status /\ ~Exists(task[t].acc)
  BY DEF Conclude
<1>5. /\ task' = [task EXCEPT ![t] = NoTask]
      /\ UNCHANGED <<clientVars, credVars, reaper, disturbed, interrupted>>
  BY DEF Conclude, Finish
<1> QED BY <1>1, <1>2, <1>3, <1>4, <1>5, RowStep

\* A write fails: the dialogue goes on to ERROR, or is gone and has left its
\* account to `interrupted'.
LEMMA WriteFailsKeeps ==
  ASSUME ClientsInv, NEW t \in Tasks, WriteFails(t)
  PROVE  ClientsInv'
<1>0. /\ task[t].pc # "close" /\ task \in [Tasks -> Task] /\ task[t] \in Task
      /\ UNCHANGED <<accountVars, clientVars, credVars, reaper, disturbed>>
  BY TaskTypes DEF WriteFails
<1>1. CASE InTry(t)
  <2>1. Raise(t) /\ UNCHANGED interrupted
    BY <1>1 DEF WriteFails
  <2> QED BY <1>0, <2>1, RaiseKeeps
<1>2. CASE ~InTry(t)
  <2>0. /\ task' = [task EXCEPT ![t] = NoTask]
        /\ interrupted' = IF task[t].op \in Dialogues /\ task[t].pc # "announce"
                          THEN interrupted \cup {task[t].acc} ELSE interrupted
    BY <1>2 DEF WriteFails, Finish
  <2>1. task'[t] = NoTask /\ \A u \in Tasks : u # t => task'[u] = task[u]
    BY <1>0, <2>0
  <2>2. task' \in [Tasks -> Task] /\ TaskInv'
    BY <2>0, NoTaskOk, OneTask DEF ClientsInv
  <2>3. ClientInv'
    <3>1. NoTask.cl = None /\ NoTask.pc = "none"
      BY DEF NoTask
    <3> QED BY <1>0, <2>0, <3>1, NoTaskOk, QuietSlots DEF ClientsInv, clientVars
  <2>4. TypeInv'
    BY <1>0, <2>2 DEF ClientsInv, TypeInv, accountVars, clientVars, credVars
  <2>5. ConnectingIsLive'
    <3> SUFFICES ASSUME NEW a \in Accounts, status[a] = "CONNECTING", a \notin interrupted'
                 PROVE  \E u \in Tasks : /\ task'[u].acc = a /\ task'[u].op \in Dialogues
                                     /\ task'[u].pc # "announce"
      BY <1>0 DEF ConnectingIsLive, accountVars
    <3>1. PICK u \in Tasks : /\ task[u].acc = a /\ task[u].op \in Dialogues
                              /\ task[u].pc # "announce"
      BY <2>0 DEF ClientsInv, ConnectingIsLive
    <3>2. u # t
      BY <2>0, <3>1
    <3> QED BY <2>1, <3>1, <3>2
  <2> QED BY <2>2, <2>3, <2>4, <2>5 DEF ClientsInv
<1> QED BY <1>1, <1>2

LEMMA WorkerKeeps ==
  ASSUME ClientsInv, NEW t \in Tasks, Worker(t) \/ Erase(t)
  PROVE  ClientsInv'
<1>0. /\ task[t] \in Task /\ Placed(task[t])
      /\ enabled \subseteq Accounts /\ code \subseteq Accounts
  BY TaskTypes DEF ClientsInv, TypeInv
<1>1. CASE WriteEnabled(t)
  <2>1. task[t].op = "enable" /\ task[t].acc \in Accounts /\ task[t].pc # "close"
    BY <1>0, <1>1 DEF WriteEnabled, Placed, Reached
  <2>2. PICK st \in {"DISCONNECTED", "DISABLED"} :
          status' = status \/ status' = [status EXCEPT ![task[t].acc] = st]
    BY <1>1 DEF WriteEnabled
  <2>3. st \in (Statuses \cup {"deleted"}) \ {"CONNECTING"} /\ task[t].op \notin Dialogues
    BY <2>1 DEF Statuses, Dialogues
  <2>4. /\ task' = [task EXCEPT ![t] = NoTask]
        /\ enabled' \subseteq Accounts /\ code' \subseteq Accounts
        /\ UNCHANGED <<clientVars, credVars, reaper, disturbed, interrupted>>
    BY <1>0, <1>1, <2>1 DEF WriteEnabled, Finish
  <2> QED BY <2>1, <2>2, <2>3, <2>4, RowStep
<1>2. CASE SaveSettings(t)
  <2>1. task[t].pc = "save" /\ task[t].op \notin Dialogues /\ task[t].ver \in Nat
    BY <1>0, <1>2 DEF SaveSettings, Placed, Reached, Dialogues, Ends, Task
  <2>2. NoTask.cl = None /\ NoTask.pc = "none"
    BY DEF NoTask
  <2>3. /\ saved' \in Nat /\ task' = [task EXCEPT ![t] = NoTask]
        /\ UNCHANGED <<accountVars, clientVars, creds, reaper, disturbed, interrupted>>
    BY <1>2, <2>1 DEF SaveSettings, Finish
  <2> QED BY <2>1, <2>2, <2>3, NoTaskOk, OwnStep
<1>3. CASE Erase(t)
  <2>1. task[t].pc = "erase" /\ task[t].acc \in Accounts
    BY <1>3, TaskTypes DEF Erase
  <2>2. /\ task' = [task EXCEPT ![t] = NoTask]
        /\ status' = [status EXCEPT ![task[t].acc] = "deleted"]
        /\ enabled' \subseteq Accounts /\ code' \subseteq Accounts
        /\ UNCHANGED <<clientVars, credVars, reaper, disturbed, interrupted>>
    BY <1>0, <1>3 DEF Erase, Finish
  <2>3. "deleted" \in (Statuses \cup {"deleted"}) \ {"CONNECTING"}
    OBVIOUS
  <2> QED BY <2>1, <2>2, <2>3, RowStep
<1> QED BY <1>1, <1>2, <1>3, WriteFailsKeeps DEF Worker

-----------------------------------------------------------------------------
(* Disconnecting.                                                          *)

\* The accounts P lose their clients to somebody who closes them, and clients
\* that were being closed are closed.
LEMMA SlotsAfter ==
  ASSUME TypeInv, TaskInv, SlotInv, NEW P \in SUBSET Accounts,
         \A a \in P : ~Dialing(a),
         \A b \in Accounts : slot'[b] = IF b \in P THEN None ELSE slot[b],
         outdated' = outdated \/ \A a \in Accounts : slot[a] = None /\ ~Dialing(a),
         \A d \in Clients :
           /\ Closing(d)' => Closing(d) \/ \E a \in P : d = slot[a]
           /\ conn'[d] = conn[d] \/ (conn'[d] = "none" /\ Closing(d))
           /\ Closing(d) => Closing(d)' \/ conn'[d] = "none"
           /\ (\E a \in P : d = slot[a]) => Closing(d)',
         reaper'.cl \in {reaper.cl, None} \cup {slot[a] : a \in P},
         \A u \in Tasks :
           /\ task'[u].cl \in {task[u].cl, None} \cup {slot[a] : a \in P}
           /\ task'[u].pc \in {"dial", "redial"} => task'[u] = task[u]
  PROVE  SlotInv'
<1>0. /\ slot \in [Accounts -> Client] /\ None \notin Clients
      /\ conn \in [Clients -> {"none", "dialing", "up", "lost"}]
  BY NoneIsNoClient DEF TypeInv
<1>1. \A b1, b2 \in Accounts : slot'[b1] = slot'[b2] /\ slot'[b1] # None => b1 = b2
  BY DEF SlotInv
<1>2. ASSUME NEW b \in Accounts, slot'[b] # None
      PROVE  slot'[b] \notin outdated' /\ conn'[slot'[b]] # "none"
  <2>1. b \notin P /\ slot'[b] = slot[b] /\ slot[b] \in Clients /\ slot[b] # None
    BY <1>0, <1>2 DEF Client
  <2>2. ~Closing(slot[b])
    BY <2>1 DEF SlotInv, Free
  <2>3. conn'[slot[b]] = conn[slot[b]]
    BY <2>1, <2>2
  <2>4. outdated' = outdated
    BY <2>1
  <2> QED BY <2>1, <2>3, <2>4 DEF SlotInv
<1>3. ASSUME NEW d \in Clients, Free(d) PROVE Free(d)'
  BY <1>0, <1>3 DEF Free
<1>4. ASSUME NEW d \in Clients PROVE Closing(d)' => Free(d)'
  <2> SUFFICES ASSUME Closing(d)' PROVE Free(d)'
    OBVIOUS
  <2>1. CASE Closing(d)
    BY <1>3, <2>1 DEF SlotInv
  <2>2. CASE ~Closing(d)
    <3>1. PICK a \in P : d = slot[a]
      BY <2>2
    <3> QED BY <1>0, <3>1 DEF SlotInv, Free
  <2> QED BY <2>1, <2>2
<1>5. ASSUME NEW d \in Clients PROVE conn'[d] = "up" /\ ~Closing(d)' => ~Free(d)'
  <2> SUFFICES ASSUME conn'[d] = "up", ~Closing(d)' PROVE ~Free(d)'
    OBVIOUS
  <2>1. conn[d] = "up" /\ ~Closing(d)
    OBVIOUS
  <2>2. PICK b \in Accounts : slot[b] = d
    BY <2>1 DEF SlotInv, Free
  <2>3. b \notin P
    BY <2>2
  <2> QED BY <2>2, <2>3 DEF Free
<1>6. ASSUME NEW u \in Tasks, task'[u].pc = "dial" PROVE Alone(u)'
  <2>1. task'[u] = task[u] /\ task[u].pc = "dial" /\ Alone(u)
    BY <1>6 DEF SlotInv
  <2>2. task[u].cl \in Clients /\ task[u].acc \in Accounts
    BY <2>1 DEF TaskInv, Placed, Reached, NoTask
  <2>3. task[u].acc \notin P /\ Dialing(task[u].acc)
    BY <2>1, <2>2 DEF Dialing
  <2>4. outdated' = outdated
    BY <2>2, <2>3
  <2>5. ~Closing(task[u].cl)
    BY <2>1 DEF Alone, Closing
  <2>6. conn'[task[u].cl] = conn[task[u].cl]
    BY <2>2, <2>5
  <2>7. /\ conn[task[u].cl] = "dialing" /\ task[u].cl \notin outdated
        /\ \A b \in Accounts : slot[b] # task[u].cl
        /\ reaper.cl # task[u].cl /\ slot[task[u].acc] = None
        /\ \A v \in Tasks : v # u => /\ task[v].cl # task[u].cl
                                     /\ task[v].pc \in {"dial", "redial"} => task[v].acc # task[u].acc
    BY <2>1 DEF Alone, Free
  <2>8. reaper'.cl # task[u].cl
    BY <1>0, <2>2, <2>7
  <2>9. \A v \in Tasks : v # u =>
           task'[v].cl # task[u].cl /\ (task'[v].pc \in {"dial", "redial"} => task'[v].acc # task[u].acc)
    BY <1>0, <2>2, <2>7
  <2>10. \A b \in Accounts : slot'[b] # task[u].cl
    BY <1>0, <2>2, <2>7
  <2> QED BY <2>1, <2>2, <2>3, <2>4, <2>6, <2>7, <2>8, <2>9, <2>10 DEF Alone, Free
<1>7. ASSUME NEW u \in Tasks, task'[u].pc = "redial" PROVE slot'[task'[u].acc] = task'[u].cl
  <2>1. task'[u] = task[u] /\ slot[task[u].acc] = task[u].cl
    BY <1>7 DEF SlotInv
  <2>2. task[u].acc \in Accounts
    BY <1>7, <2>1 DEF TaskInv, Placed, Reached, NoTask
  <2>3. task[u].acc \notin P
    BY <1>7, <2>1 DEF Dialing
  <2> QED BY <2>1, <2>2, <2>3
<1> QED BY <1>1, <1>2, <1>4, <1>5, <1>6, <1>7 DEF SlotInv

\* No account loses its client.
LEMMA ShutSlots ==
  ASSUME TypeInv, TaskInv, SlotInv, slot' = slot,
         outdated' = outdated \/ \A a \in Accounts : slot[a] = None /\ ~Dialing(a),
         \A d \in Clients :
           /\ Closing(d)' => Closing(d)
           /\ conn'[d] = conn[d] \/ (conn'[d] = "none" /\ Closing(d))
           /\ Closing(d) => Closing(d)' \/ conn'[d] = "none",
         reaper'.cl \in {reaper.cl, None},
         \A u \in Tasks :
           /\ task'[u].cl \in {task[u].cl, None}
           /\ task'[u].pc \in {"dial", "redial"} => task'[u] = task[u]
  PROVE  SlotInv'
<1>1. PICK P \in SUBSET Accounts : P = {}
  OBVIOUS
<1>2. \A b \in Accounts : slot'[b] = IF b \in P THEN None ELSE slot[b]
  BY <1>1
<1>3. \A d \in Clients :
        /\ Closing(d)' => Closing(d) \/ \E a \in P : d = slot[a]
        /\ conn'[d] = conn[d] \/ (conn'[d] = "none" /\ Closing(d))
        /\ Closing(d) => Closing(d)' \/ conn'[d] = "none"
        /\ (\E a \in P : d = slot[a]) => Closing(d)'
  BY <1>1
<1>4. /\ reaper'.cl \in {reaper.cl, None} \cup {slot[a] : a \in P}
      /\ \A u \in Tasks :
           /\ task'[u].cl \in {task[u].cl, None} \cup {slot[a] : a \in P}
           /\ task'[u].pc \in {"dial", "redial"} => task'[u] = task[u]
  OBVIOUS
<1>5. \A a \in P : ~Dialing(a)
  BY <1>1
<1> QED BY <1>2, <1>3, <1>4, <1>5, SlotsAfter

LEMMA DropKeeps ==
  ASSUME ClientsInv, NEW t \in Tasks, Drop(t)
  PROVE  ClientsInv'
<1>0. /\ task[t] \in Task /\ Placed(task[t]) /\ task \in [Tasks -> Task]
      /\ task[t].pc = "drop" /\ task[t].acc \in Accounts /\ slot \in [Accounts -> Client]
      /\ UNCHANGED <<accountVars, conn, outdated, credVars, reaper, interrupted>>
  BY TaskTypes DEF Drop, ClientsInv, TypeInv
<1>1. PICK a \in Accounts, c \in Client : a = task[t].acc /\ c = slot[a]
  BY <1>0
<1>2. /\ slot' = [slot EXCEPT ![a] = None] /\ idle' = idle \ {a}
      /\ disturbed' = disturbed \cup Disturb({a})
  BY <1>1 DEF Drop
<1> DEFINE k == [task[t] EXCEPT !.cl = c, !.pc = IF c = None THEN task[t].then ELSE "close"]
<1>3. task[t].op = "delete" /\ task[t].then = "erase"
  BY <1>0 DEF Placed, Reached, Task, Ops, Ends, NoTask
<1>4. task' = [task EXCEPT ![t] = k]
  BY <1>0, <1>1 DEF Drop, Task
<1>5. /\ k \in Task /\ k.op = "delete" /\ k.acc = task[t].acc /\ k.cl = c /\ k.then = "erase"
      /\ k.pc = IF c = None THEN "erase" ELSE "close"
  BY <1>0, <1>3 DEF Task, Pcs
<1>6. Placed(k)
  BY <1>0, <1>5 DEF Placed, Reached, Dialogues
<1> HIDE DEF k
<1>7. /\ task' \in [Tasks -> Task] /\ TaskInv'
      /\ task'[t] = k /\ \A u \in Tasks : u # t => task'[u] = task[u]
  BY <1>4, <1>5, <1>6, OneTask DEF ClientsInv
<1>8. ConnectingIsLive'
  BY <1>0, <1>3, <1>4, <1>5, LiveKept DEF accountVars, ClientsInv, Dialogues
<1>9. TypeInv'
  BY <1>0, <1>2, <1>7 DEF ClientsInv, TypeInv, accountVars, credVars, Client
<1>10. ClientInv'
  <2> SUFFICES ASSUME disturbed' = {} PROVE SlotInv'
    BY <1>0 DEF ClientsInv, ClientInv
  <2>1. SlotInv /\ ~Dialing(a)
    BY <1>2 DEF ClientsInv, ClientInv, Disturb
  <2>2. \A b \in Accounts : slot'[b] = IF b \in {a} THEN None ELSE slot[b]
    BY <1>0, <1>2
  <2>3. ASSUME NEW d \in Clients
        PROVE  Closing(d)' <=> Closing(d) \/ d = slot[a]
    <3>1. d # None
      BY NoneIsNoClient
    <3> QED BY <1>0, <1>1, <1>5, <1>7, <3>1 DEF Closing
  <2>4. \A u \in Tasks : /\ task'[u].cl \in {task[u].cl, None} \cup {slot[b] : b \in {a}}
                         /\ task'[u].pc \in {"dial", "redial"} => task'[u] = task[u]
    BY <1>1, <1>5, <1>7
  <2> QED BY <1>0, <2>1, <2>2, <2>3, <2>4, SlotsAfter DEF ClientsInv
<1> QED BY <1>7, <1>8, <1>9, <1>10 DEF ClientsInv

LEMMA ClosedKeeps ==
  ASSUME ClientsInv, NEW t \in Tasks, Closed(t)
  PROVE  ClientsInv'
<1>0. /\ task[t] \in Task /\ Placed(task[t]) /\ task \in [Tasks -> Task]
      /\ task[t].pc = "close" /\ task[t].op = "delete" /\ task[t].then = "erase"
      /\ conn' = [conn EXCEPT ![task[t].cl] = "none"]
      /\ UNCHANGED <<accountVars, slot, idle, outdated, credVars, reaper, disturbed, interrupted>>
  BY TaskTypes DEF Closed, Placed, Reached
<1> DEFINE k == [task[t] EXCEPT !.pc = "erase"]
<1>1. task' = [task EXCEPT ![t] = k]
  BY <1>0 DEF Closed, Goto, Task
<1>2. /\ k \in Task /\ k.op = "delete" /\ k.acc = task[t].acc /\ k.cl = task[t].cl
      /\ k.then = "erase" /\ k.pc = "erase"
  BY <1>0 DEF Task, Pcs
<1>3. Placed(k)
  BY <1>0, <1>2 DEF Placed, Reached, Dialogues
<1> HIDE DEF k
<1>4. /\ task' \in [Tasks -> Task] /\ TaskInv'
      /\ task'[t] = k /\ \A u \in Tasks : u # t => task'[u] = task[u]
  BY <1>1, <1>2, <1>3, OneTask DEF ClientsInv
<1>5. ConnectingIsLive'
  BY <1>0, <1>1, <1>2, LiveKept DEF accountVars, ClientsInv, Dialogues
<1>6. conn \in [Clients -> {"none", "dialing", "up", "lost"}]
  BY DEF ClientsInv, TypeInv
<1>7. TypeInv'
  BY <1>0, <1>4, <1>6 DEF ClientsInv, TypeInv, accountVars, credVars
<1>8. ClientInv'
  <2> SUFFICES ASSUME disturbed = {} PROVE SlotInv'
    BY <1>0 DEF ClientsInv, ClientInv
  <2>1. SlotInv
    BY DEF ClientsInv, ClientInv
  <2>2. ASSUME NEW d \in Clients
        PROVE  /\ Closing(d)' => Closing(d)
               /\ conn'[d] = conn[d] \/ (conn'[d] = "none" /\ Closing(d))
               /\ Closing(d) => Closing(d)' \/ conn'[d] = "none"
    BY <1>0, <1>2, <1>4, <1>6 DEF Closing
  <2>3. \A u \in Tasks : /\ task'[u].cl = task[u].cl
                         /\ task'[u].pc \in {"dial", "redial"} => task'[u] = task[u]
    BY <1>2, <1>4
  <2> QED BY <1>0, <2>1, <2>2, <2>3, ShutSlots DEF ClientsInv
<1> QED BY <1>4, <1>5, <1>7, <1>8 DEF ClientsInv

\* close_all, up to the cancelled reaper.
LEMMA SettingsKeeps ==
  ASSUME ClientsInv, NEW t \in Tasks, StartSettings(t)
  PROVE  ClientsInv'
<1>0. /\ task[t] = NoTask /\ CloseAll /\ NoTask \in Task /\ task \in [Tasks -> Task]
      /\ UNCHANGED <<accountVars, slot, idle, outdated, credVars, interrupted>>
      /\ reaper' = NoReaper /\ reaper \in Reapers
      /\ conn \in [Clients -> {"none", "dialing", "up", "lost"}]
  BY NoTaskOk DEF StartSettings, FirstFree, ClientsInv, TypeInv, CloseAll, Cancelled
<1> DEFINE k == [NoTask EXCEPT !.op = "settings", !.pc = "list"]
<1>1. task' = [task EXCEPT ![t] = k]
  BY <1>0 DEF StartSettings, UpdateSettings
<1>2. /\ k \in Task /\ k.op = "settings" /\ k.pc = "list" /\ k.cl = None
  <2>1. NoTask.cl = None
    BY DEF NoTask
  <2> QED BY <1>0, <2>1 DEF Task, Pcs, Ops
<1>3. Placed(k)
  BY <1>2 DEF Placed, Reached, Dialogues
<1>4. NoTask.op = "none" /\ NoTask.pc = "none" /\ NoTask.cl = None /\ NoReaper.cl = None
      /\ NoReaper \in Reapers
  BY DEF NoTask, NoReaper, Reapers, Client
<1> HIDE DEF k
<1>5. /\ task' \in [Tasks -> Task] /\ TaskInv'
      /\ task'[t] = k /\ \A u \in Tasks : u # t => task'[u] = task[u]
  BY <1>1, <1>2, <1>3, OneTask DEF ClientsInv
<1>6. ConnectingIsLive'
  BY <1>0, <1>1, <1>2, <1>4, LiveKept DEF accountVars, ClientsInv, Dialogues
<1>7. conn' \in [Clients -> {"none", "dialing", "up", "lost"}]
  BY <1>0 DEF CloseAll
<1>8. TypeInv'
  BY <1>0, <1>4, <1>5, <1>7 DEF ClientsInv, TypeInv, accountVars, credVars
<1>9. ClientInv'
  <2> SUFFICES ASSUME disturbed' = {} PROVE SlotInv'
    BY <1>0, <1>4 DEF ClientInv
  <2>1. disturbed = {} /\ reaper.cl = None
    BY <1>0 DEF CloseAll, ClientsInv, ClientInv
  <2>2. conn' = conn
    <3>1. \A c \in Clients : c # reaper.cl
      BY <2>1, NoneIsNoClient
    <3> QED BY <1>0, <3>1 DEF CloseAll
  <2>3. ClientInv'
    BY <1>0, <1>1, <1>2, <1>4, <2>1, <2>2, QuietSlots DEF ClientsInv
  <2> QED BY <2>3 DEF ClientInv
<1> QED BY <1>5, <1>6, <1>8, <1>9 DEF ClientsInv

\* The await of close_all is over: its client, if it has one, is closed.
LEMMA ResumeStep ==
  ASSUME ClientsInv, NEW t \in Tasks, CloseAllResumes(t)
  PROVE  /\ task[t] \in Task /\ Placed(task[t]) /\ task \in [Tasks -> Task]
         /\ task[t].op = "settings" /\ task[t].pc \in {"list", "close"}
         /\ conn' \in [Clients -> {"none", "dialing", "up", "lost"}]
         /\ \A d \in Clients :
              /\ conn'[d] = conn[d] \/ (conn'[d] = "none" /\ Closing(d))
              /\ task[t].pc = "close" /\ task[t].cl = d => conn'[d] = "none"
<1>0. /\ task[t] \in Task /\ Placed(task[t]) /\ task \in [Tasks -> Task]
      /\ conn \in [Clients -> {"none", "dialing", "up", "lost"}]
  BY TaskTypes DEF ClientsInv, TypeInv
<1>1. task[t].op = "settings" /\ task[t].pc \in {"list", "close"}
  BY DEF CloseAllResumes
<1>2. CASE task[t].cl = None
  BY <1>0, <1>1, <1>2, NoneIsNoClient DEF CloseAllResumes
<1>3. CASE task[t].cl # None
  <2>1. task[t].pc = "close" /\ task[t].cl \in Clients
    BY <1>0, <1>1, <1>3 DEF Placed, Task, Client
  <2>2. conn' = [conn EXCEPT ![task[t].cl] = "none"]
    BY <1>3 DEF CloseAllResumes
  <2>3. Closing(task[t].cl)
    BY <2>1 DEF Closing
  <2> QED BY <1>0, <1>1, <2>1, <2>2, <2>3
<1> QED BY <1>2, <1>3

LEMMA CloseNextKeeps ==
  ASSUME ClientsInv, NEW t \in Tasks, CloseNext(t)
  PROVE  ClientsInv'
<1>0. /\ task[t] \in Task /\ Placed(task[t]) /\ task \in [Tasks -> Task]
      /\ task[t].op = "settings" /\ task[t].pc \in {"list", "close"}
      /\ conn' \in [Clients -> {"none", "dialing", "up", "lost"}]
      /\ \A d \in Clients :
           /\ conn'[d] = conn[d] \/ (conn'[d] = "none" /\ Closing(d))
           /\ task[t].pc = "close" /\ task[t].cl = d => conn'[d] = "none"
      /\ UNCHANGED <<accountVars, outdated, credVars, reaper, interrupted>>
  BY ResumeStep DEF CloseNext
<1>1. PICK a \in ToClose(t) :
        /\ slot' = [slot EXCEPT ![a] = None] /\ idle' = idle \ {a}
        /\ disturbed' = disturbed \cup Disturb({a})
        /\ task' = [task EXCEPT ![t].rest = ToClose(t) \ {a}, ![t].cl = slot[a],
                                ![t].pc = "close"]
  BY DEF CloseNext
<1>2. /\ a \in Accounts /\ slot \in [Accounts -> Client] /\ slot[a] \in Clients
      /\ ToClose(t) \subseteq Accounts
  BY <1>0, <1>1 DEF ToClose, Registered, ClientsInv, TypeInv, Client, Task
<1>3. PICK c \in Clients, rest \in SUBSET Accounts : c = slot[a] /\ rest = ToClose(t) \ {a}
  BY <1>2
<1> DEFINE k == [task[t] EXCEPT !.rest = rest, !.cl = c, !.pc = "close"]
<1>4. task' = [task EXCEPT ![t] = k]
  BY <1>0, <1>1, <1>3 DEF Task
<1>5. k \in Task /\ k.op = "settings" /\ k.cl = c /\ k.pc = "close"
  BY <1>0 DEF Task, Pcs, Client
<1>6. Placed(k)
  BY <1>5 DEF Placed, Reached, Dialogues
<1> HIDE DEF k
<1>7. /\ task' \in [Tasks -> Task] /\ TaskInv'
      /\ task'[t] = k /\ \A u \in Tasks : u # t => task'[u] = task[u]
  BY <1>4, <1>5, <1>6, OneTask DEF ClientsInv
<1>8. ConnectingIsLive'
  BY <1>0, <1>4, <1>5, LiveKept DEF accountVars, ClientsInv, Dialogues
<1>9. TypeInv'
  BY <1>0, <1>1, <1>2, <1>7 DEF ClientsInv, TypeInv, accountVars, credVars, Client
<1>10. ClientInv'
  <2> SUFFICES ASSUME disturbed' = {} PROVE SlotInv'
    BY <1>0 DEF ClientsInv, ClientInv
  <2>1. SlotInv /\ ~Dialing(a)
    BY <1>1, <1>2 DEF ClientsInv, ClientInv, Disturb
  <2>2. \A b \in Accounts : slot'[b] = IF b \in {a} THEN None ELSE slot[b]
    BY <1>1, <1>2
  <2>3. ASSUME NEW d \in Clients
        PROVE  /\ Closing(d)' => Closing(d) \/ d = slot[a]
               /\ Closing(d) => Closing(d)' \/ conn'[d] = "none"
               /\ d = slot[a] => Closing(d)'
    BY <1>0, <1>3, <1>5, <1>7 DEF Closing
  <2>4. \A u \in Tasks : /\ task'[u].cl \in {task[u].cl, None} \cup {slot[b] : b \in {a}}
                         /\ task'[u].pc \in {"dial", "redial"} => task'[u] = task[u]
    BY <1>3, <1>5, <1>7
  <2> QED BY <1>0, <1>2, <2>1, <2>2, <2>3, <2>4, SlotsAfter DEF ClientsInv
<1> QED BY <1>7, <1>8, <1>9, <1>10 DEF ClientsInv

\* Outdated clients are closed ones, or belong to accounts that are disturbed.
LEMMA CredentialsKeeps ==
  ASSUME ClientsInv, NEW t \in Tasks, UpdateCredentials(t)
  PROVE  ClientsInv'
<1>0. /\ task[t] \in Task /\ Placed(task[t]) /\ task \in [Tasks -> Task]
      /\ task[t].op = "settings" /\ task[t].pc \in {"list", "close"}
      /\ conn' \in [Clients -> {"none", "dialing", "up", "lost"}]
      /\ \A d \in Clients :
           /\ conn'[d] = conn[d] \/ (conn'[d] = "none" /\ Closing(d))
           /\ task[t].pc = "close" /\ task[t].cl = d => conn'[d] = "none"
      /\ UNCHANGED <<accountVars, slot, idle, saved, reaper, interrupted>>
      /\ disturbed' = disturbed \cup Disturb(Accounts)
  BY ResumeStep DEF UpdateCredentials
<1>1. PICK k \in Task :
        /\ task' = [task EXCEPT ![t] = k] /\ Placed(k) /\ k.cl = None
        /\ k.pc \notin {"dial", "redial", "close"}
  <2>1. NoTask \in Task /\ NoTask.pc = "none" /\ NoTask.cl = None
    BY NoTaskOk DEF NoTask
  <2>2. CASE Finish(t)
    BY <2>1, <2>2, NoTaskOk DEF Finish
  <2>3. CASE Applied(t)
    <3> DEFINE k == [NoTask EXCEPT !.op = "settings", !.pc = "save", !.ver = creds + 1]
    <3>1. k \in Task /\ k.op = "settings" /\ k.pc = "save" /\ k.cl = None
      <4>1. creds + 1 \in Nat
        BY DEF ClientsInv, TypeInv
      <4> QED BY <2>1, <4>1 DEF Task, Pcs, Ops
    <3>2. Placed(k)
      BY <3>1 DEF Placed, Reached, Dialogues
    <3> QED BY <2>3, <3>1, <3>2 DEF Applied
  <2> QED BY <2>2, <2>3 DEF UpdateCredentials
<1>2. /\ task' \in [Tasks -> Task] /\ TaskInv'
      /\ task'[t] = k /\ \A u \in Tasks : u # t => task'[u] = task[u]
  BY <1>1, OneTask DEF ClientsInv
<1>3. ConnectingIsLive'
  BY <1>0, <1>1, LiveKept DEF accountVars, ClientsInv, Dialogues
<1>4. creds' \in Nat
  BY DEF UpdateCredentials, ClientsInv, TypeInv
<1>5. TypeInv'
  BY <1>0, <1>2, <1>4 DEF ClientsInv, TypeInv, accountVars
<1>6. ClientInv'
  <2> SUFFICES ASSUME disturbed' = {} PROVE SlotInv'
    BY <1>0 DEF ClientsInv, ClientInv
  <2>1. SlotInv /\ \A a \in Accounts : ~Dialing(a)
    BY <1>0 DEF ClientsInv, ClientInv, Disturb
  <2>2. outdated' = outdated \/ \A a \in Accounts : slot[a] = None /\ ~Dialing(a)
    BY <2>1 DEF UpdateCredentials, Registered
  <2>3. ASSUME NEW d \in Clients
        PROVE  /\ Closing(d)' => Closing(d)
               /\ Closing(d) => Closing(d)' \/ conn'[d] = "none"
    BY <1>0, <1>1, <1>2 DEF Closing
  <2>4. \A u \in Tasks : /\ task'[u].cl \in {task[u].cl, None}
                         /\ task'[u].pc \in {"dial", "redial"} => task'[u] = task[u]
    BY <1>1, <1>2
  <2> QED BY <1>0, <2>1, <2>2, <2>3, <2>4, ShutSlots DEF ClientsInv
<1> QED BY <1>2, <1>3, <1>5, <1>6 DEF ClientsInv

-----------------------------------------------------------------------------
(* The reaper and the environment.                                         *)

LEMMA ReaperKeeps ==
  ASSUME ClientsInv, Reaper
  PROVE  ClientsInv'
<1>0. /\ slot \in [Accounts -> Client] /\ reaper \in Reapers /\ idle \subseteq Accounts
      /\ conn \in [Clients -> {"none", "dialing", "up", "lost"}]
      /\ UNCHANGED <<accountVars, outdated, credVars, task, interrupted>>
  BY DEF ClientsInv, TypeInv, Reaper, ReaperWakes, ReaperCloses
<1>1. PICK A \in SUBSET Accounts : ReaperPops(A)
  <2>1. Registered(reaper.rest) \subseteq Accounts
    BY <1>0 DEF Reapers, Registered
  <2> QED BY <1>0, <2>1 DEF Reaper, ReaperWakes, ReaperCloses
<1>2. conn' \in [Clients -> {"none", "dialing", "up", "lost"}]
  BY <1>0 DEF Reaper, ReaperWakes, ReaperCloses
<1>3. ASSUME NEW d \in Clients
      PROVE  /\ conn'[d] = conn[d] \/ (conn'[d] = "none" /\ Closing(d))
             /\ reaper.cl = d => conn'[d] = "none"
  <2>1. CASE ReaperWakes
    BY <1>0, <2>1, NoneIsNoClient DEF ReaperWakes, Reapers
  <2>2. CASE ReaperCloses
    <3>1. conn' = [conn EXCEPT ![reaper.cl] = "none"]
      BY <2>2 DEF ReaperCloses
    <3> QED BY <1>0, <3>1 DEF Closing
  <2> QED BY <2>1, <2>2 DEF Reaper
<1>4. TaskInv' /\ ConnectingIsLive'
  BY <1>0 DEF ClientsInv, TaskInv, ConnectingIsLive, accountVars
<1>5. CASE A = {}
  <2>1. /\ reaper' = [NoReaper EXCEPT !.pc = "asleep"] /\ UNCHANGED <<slot, idle, disturbed>>
    BY <1>1, <1>5 DEF ReaperPops
  <2>2. reaper' = [pc |-> "asleep", rest |-> {}, cl |-> None]
    BY <2>1 DEF NoReaper
  <2>3. reaper' \in Reapers /\ reaper'.cl = None
    BY <2>2 DEF Reapers, Client
  <2>4. TypeInv'
    BY <1>0, <1>2, <2>1, <2>3 DEF ClientsInv, TypeInv, accountVars, credVars
  <2>5. ASSUME disturbed' = {} PROVE SlotInv'
    <3>1. SlotInv
      BY <2>1, <2>5 DEF ClientsInv, ClientInv
    <3>2. ASSUME NEW d \in Clients
          PROVE  /\ Closing(d)' => Closing(d)
                 /\ Closing(d) => Closing(d)' \/ conn'[d] = "none"
      BY <1>0, <1>3, <2>3, NoneIsNoClient DEF Closing
    <3>3. \A u \in Tasks : /\ task'[u].cl \in {task[u].cl, None}
                           /\ task'[u].pc \in {"dial", "redial"} => task'[u] = task[u]
      BY <1>0
    <3> QED BY <1>0, <1>3, <2>1, <2>3, <3>1, <3>2, <3>3, ShutSlots DEF ClientsInv
  <2>6. ClientInv'
    BY <2>3, <2>5 DEF ClientInv
  <2> QED BY <1>4, <2>4, <2>6 DEF ClientsInv
<1>6. CASE A # {}
  <2>1. PICK a \in A :
          /\ slot' = [slot EXCEPT ![a] = None] /\ idle' = idle \ {a}
          /\ disturbed' = disturbed \cup Disturb({a})
          /\ reaper' = [pc |-> "sweep", rest |-> A \ {a}, cl |-> slot[a]]
    BY <1>1, <1>6 DEF ReaperPops
  <2>2. reaper' \in Reapers /\ reaper'.cl = slot[a] /\ a \in Accounts
    BY <1>0, <2>1 DEF Reapers
  <2>3. TypeInv'
    BY <1>0, <1>2, <2>1, <2>2 DEF ClientsInv, TypeInv, accountVars, credVars, Client
  <2>4. ASSUME disturbed' = {} PROVE SlotInv'
    <3>1. SlotInv /\ ~Dialing(a)
      BY <2>1, <2>2, <2>4 DEF ClientsInv, ClientInv, Disturb
    <3>2. \A b \in Accounts : slot'[b] = IF b \in {a} THEN None ELSE slot[b]
      BY <1>0, <2>1
    <3>3. ASSUME NEW d \in Clients
          PROVE  /\ Closing(d)' => Closing(d) \/ d = slot[a]
                 /\ Closing(d) => Closing(d)' \/ conn'[d] = "none"
                 /\ d = slot[a] => Closing(d)'
      BY <1>0, <1>3, <2>2 DEF Closing
    <3>4. \A u \in Tasks : /\ task'[u].cl \in {task[u].cl, None} \cup {slot[b] : b \in {a}}
                           /\ task'[u].pc \in {"dial", "redial"} => task'[u] = task[u]
      BY <1>0
    <3> QED BY <1>0, <1>3, <2>2, <3>1, <3>2, <3>3, <3>4, SlotsAfter DEF ClientsInv
  <2>5. ClientInv'
    BY <2>2, <2>4 DEF ClientInv
  <2> QED BY <1>4, <2>3, <2>5 DEF ClientsInv
<1> QED BY <1>5, <1>6

LEMMA TimeKeeps ==
  ASSUME ClientsInv, NEW a \in Accounts, TimePasses(a)
  PROVE  ClientsInv'
<1>1. idle' = idle \cup {a}
      /\ UNCHANGED <<accountVars, slot, conn, outdated, credVars, task, reaper, disturbed, interrupted>>
  BY DEF TimePasses
<1>2. TypeInv' /\ TaskInv' /\ ConnectingIsLive'
  BY <1>1 DEF ClientsInv, TypeInv, TaskInv, ConnectingIsLive, accountVars, credVars
<1>3. ClientInv'
  BY <1>1 DEF ClientsInv, ClientInv, SlotInv, Alone, Free, Closing
<1> QED BY <1>2, <1>3 DEF ClientsInv

\* The client of a lost connection stays registered.
LEMMA LostKeeps ==
  ASSUME ClientsInv, NEW c \in Clients, ConnectionLost(c)
  PROVE  ClientsInv'
<1>1. /\ conn' = [conn EXCEPT ![c] = "lost"] /\ conn[c] = "up"
      /\ UNCHANGED <<accountVars, slot, idle, outdated, credVars, task, reaper, disturbed, interrupted>>
      /\ conn \in [Clients -> {"none", "dialing", "up", "lost"}] /\ slot \in [Accounts -> Client]
  BY DEF ConnectionLost, ClientsInv, TypeInv
<1>2. TypeInv' /\ TaskInv' /\ ConnectingIsLive'
  BY <1>1 DEF ClientsInv, TypeInv, TaskInv, ConnectingIsLive, accountVars, credVars
<1>3. ASSUME disturbed = {} PROVE SlotInv'
  <2>1. SlotInv
    BY <1>3 DEF ClientsInv, ClientInv
  <2>2. conn'[c] = "lost" /\ \A d \in Clients : d # c => conn'[d] = conn[d]
    BY <1>1
  <2>3. ASSUME NEW d \in Clients PROVE (Closing(d)' <=> Closing(d)) /\ (Free(d)' <=> Free(d))
    BY <1>1 DEF Closing, Free
  <2>4. ASSUME NEW b \in Accounts, slot'[b] # None
        PROVE  slot'[b] \notin outdated' /\ conn'[slot'[b]] # "none"
    <3>1. slot'[b] = slot[b] /\ slot[b] \in Clients
      BY <1>1, <2>4 DEF Client
    <3> QED BY <1>1, <2>1, <2>2, <2>4, <3>1 DEF SlotInv
  <2>5. ASSUME NEW u \in Tasks, task'[u].pc = "dial" PROVE Alone(u)'
    <3>1. Alone(u) /\ task[u].cl \in Clients
      BY <1>1, <2>1, <2>5 DEF SlotInv, ClientsInv, TaskInv, Placed
    <3>2. task[u].cl # c
      BY <1>1, <3>1 DEF Alone
    <3> QED BY <1>1, <2>2, <3>1, <3>2 DEF Alone, Free
  <2>6. ASSUME NEW d \in Clients, conn'[d] = "up" PROVE conn[d] = "up"
    BY <2>2, <2>6
  <2> QED BY <1>1, <2>1, <2>3, <2>4, <2>5, <2>6 DEF SlotInv
<1>4. ClientInv'
  BY <1>1, <1>3 DEF ClientsInv, ClientInv
<1> QED BY <1>2, <1>4 DEF ClientsInv

\* Nothing is registered, connected or in progress: at the start and after the
\* end of the process.
LEMMA NothingGoesOn ==
  ASSUME task = [t \in Tasks |-> NoTask], reaper = NoReaper,
         slot = [a \in Accounts |-> None], conn = [c \in Clients |-> "none"]
  PROVE  TaskInv /\ ClientInv /\ task \in [Tasks -> Task] /\ reaper \in Reapers
<1>1. /\ NoTask \in Task /\ Placed(NoTask) /\ NoTask.pc = "none" /\ NoTask.cl = None
      /\ NoReaper.cl = None /\ NoReaper \in Reapers
  BY NoTaskOk DEF NoTask, NoReaper, Reapers, Client
<1>2. TaskInv /\ task \in [Tasks -> Task]
  BY <1>1 DEF TaskInv
<1>3. \A c \in Clients : ~Closing(c)
  BY <1>1, NoneIsNoClient DEF Closing
<1>4. SlotInv
  BY <1>1, <1>3 DEF SlotInv
<1> QED BY <1>1, <1>2, <1>4 DEF ClientInv

LEMMA StopKeeps ==
  ASSUME ClientsInv, Stop
  PROVE  ClientsInv'
<1>0. /\ task' = [t \in Tasks |-> NoTask] /\ reaper' = NoReaper
      /\ slot' = [a \in Accounts |-> None] /\ idle' = {} /\ code' = {}
      /\ conn' = [c \in Clients |-> "none"] /\ status' = status /\ enabled' = enabled
      /\ interrupted' = interrupted \cup {a \in Accounts : \E t \in Tasks :
                          task[t].acc = a /\ task[t].op \in Dialogues}
  BY DEF Stop
<1>1. TaskInv' /\ ClientInv' /\ task' \in [Tasks -> Task] /\ reaper' \in Reapers
  <2>1. /\ NoTask \in Task /\ Placed(NoTask) /\ NoTask.pc = "none" /\ NoTask.cl = None
        /\ NoReaper.cl = None /\ NoReaper \in Reapers
    BY NoTaskOk DEF NoTask, NoReaper, Reapers, Client
  <2>2. TaskInv' /\ task' \in [Tasks -> Task]
    BY <1>0, <2>1 DEF TaskInv
  <2>3. \A c \in Clients : ~Closing(c)'
    BY <1>0, <2>1, NoneIsNoClient DEF Closing
  <2>4. SlotInv'
    BY <1>0, <2>1, <2>3 DEF SlotInv
  <2> QED BY <1>0, <2>1, <2>2, <2>4 DEF ClientInv
<1>2. creds' \in Nat /\ saved' \in Nat
  <2>1. LoadedSettings \subseteq Nat
    BY DEF LoadedSettings, ClientsInv, TypeInv, Task
  <2> QED BY <2>1 DEF Stop
<1>3. TypeInv'
  BY <1>0, <1>1, <1>2 DEF ClientsInv, TypeInv, Client
<1>4. ConnectingIsLive'
  BY <1>0 DEF ClientsInv, ConnectingIsLive
<1> QED BY <1>1, <1>3, <1>4 DEF ClientsInv

-----------------------------------------------------------------------------
(* Theorems.                                                               *)

LEMMA StartsClients ==
  ASSUME Init
  PROVE  ClientsInv
<1>1. TaskInv /\ ClientInv /\ task \in [Tasks -> Task] /\ reaper \in Reapers
  BY NothingGoesOn DEF Init
<1>2. TypeInv
  BY <1>1 DEF Init, TypeInv, Client
<1>3. ConnectingIsLive
  BY DEF Init, ConnectingIsLive
<1> QED BY <1>1, <1>2, <1>3 DEF ClientsInv

LEMMA StutterKeeps ==
  ASSUME ClientsInv, UNCHANGED vars
  PROVE  ClientsInv'
<1>1. UNCHANGED <<status, enabled, code, slot, idle, conn, outdated, creds, saved, task, reaper,
                  disturbed, interrupted>>
  BY DEF vars, accountVars, clientVars, credVars
<1>2. TypeInv' /\ TaskInv' /\ ConnectingIsLive'
  BY <1>1 DEF ClientsInv, TypeInv, TaskInv, ConnectingIsLive
<1>3. ClientInv'
  BY <1>1 DEF ClientsInv, ClientInv, SlotInv, Alone, Free, Closing
<1> QED BY <1>2, <1>3 DEF ClientsInv

\* What every command may have reached, who may refer to a client, and that a
\* dialogue is on its way for every CONNECTING account: together inductive.
THEOREM ClientsInvCorrect == Spec => []ClientsInv
<1>1. Init => ClientsInv
  BY StartsClients
<1>2. ClientsInv /\ [Next]_vars => ClientsInv'
  <2> SUFFICES ASSUME ClientsInv, [Next]_vars PROVE ClientsInv'
    OBVIOUS
  <2>1. ASSUME NEW t \in Tasks, Get(t) PROVE ClientsInv'
    <3>1. CASE GetUnknown(t)
      BY <3>1, RaiseKeeps DEF GetUnknown
    <3> QED BY <2>1, <3>1, HitKeeps, MissKeeps, RegisterKeeps, ReconnectKeeps, FailKeeps DEF Get
  <2>2. ASSUME NEW t \in Tasks, Dialogue(t) PROVE ClientsInv'
    BY <2>2, AnnounceKeeps, RequestKeeps, ConcludeKeeps DEF Dialogue
  <2>3. ASSUME NEW t \in Tasks, Disconnect(t) \/ Worker(t) PROVE ClientsInv'
    BY <2>3, DropKeeps, ClosedKeeps, CloseNextKeeps, CredentialsKeeps, WorkerKeeps
       DEF Disconnect
  <2>4. CASE UNCHANGED vars
    BY <2>4, StutterKeeps
  <2> QED BY <2>1, <2>2, <2>3, <2>4, StartKeeps, AddKeeps, SettingsKeeps, ReaperKeeps,
             TimeKeeps, LostKeeps, StopKeeps DEF Next
<1> QED BY <1>1, <1>2, PTL DEF Spec

\* Every variable has a value of its type in every reachable state.
THEOREM TypeCorrect == Spec => []TypeOK
<1>1. ClientsInv => TypeOK
  BY DEF ClientsInv, TypeInv, TypeOK, Reapers, Client
<1> QED BY <1>1, ClientsInvCorrect, PTL

\* As long as nobody takes away or makes a client while get awaits connect, the
\* connected clients are the registered ones, and none of these is outdated or
\* closed: whatever logins, requests, deletions, settings and the reaper do at
\* their awaits.
THEOREM OneClientPerSessionCorrect == Spec => []OneClientPerSession
<1>1. ClientsInv => OneClientPerSession
  <2> SUFFICES ASSUME ClientsInv, disturbed = {}, NEW c \in Clients
               PROVE  /\ conn[c] = "up" /\ ~Closing(c) => \E a \in Accounts : slot[a] = c
                      /\ \A a \in Accounts : slot[a] = c => c \notin outdated /\ conn[c] # "none"
    BY DEF OneClientPerSession
  <2> QED BY NoneIsNoClient DEF ClientsInv, ClientInv, SlotInv, Free
<1> QED BY <1>1, ClientsInvCorrect, PTL

\* A row says CONNECTING only while a dialogue of its account is on its way,
\* unless the process ended or the last write of one failed since the latest
\* dialogue announced itself: no other exception leaves the row behind.
THEOREM ConnectingIsLiveCorrect == Spec => []ConnectingIsLive
<1>1. ClientsInv => ConnectingIsLive
  BY DEF ClientsInv
<1> QED BY <1>1, ClientsInvCorrect, PTL
=============================================================================
