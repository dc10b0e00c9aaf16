--------------------------- MODULE TelegramClients ---------------------------
(***************************************************************************)
(* The registry of connected clients, tms/telegram/client_manager.py, and  *)
(* its callers: the login dialogue (tms/telegram/auth_service.py with the  *)
(* handlers account.connect, auth.send_code, auth.sign_in), every other    *)
(* request through a gateway, account.delete, account.enable,              *)
(* settings.update, the idle reaper, and the end of the process.           *)
(*                                                                         *)
(* Everything runs on the network loop, so steps are separated by awaits:  *)
(* connecting, disconnecting, a request, a write.  Worker threads write    *)
(* settings.json, delete accounts, and enable and disable them.            *)
(*                                                                         *)
(* Abstractions: the server's answers are arbitrary; a client is a number, *)
(* free again once it is disconnected and nobody refers to it; last_used   *)
(* is reduced to `idle', which time may set whenever a client is           *)
(* registered; credentials are a version number, 0 when there are none;    *)
(* the environment variables that override settings.json are not set.      *)
(***************************************************************************)
EXTENDS Integers, FiniteSets

CONSTANTS
  Accounts,
  Tasks,        \* bound: commands in progress, natural numbers
  Clients,      \* bound: clients at a time, natural numbers from 1
  MaxCreds,     \* bound: settings.update commands
  MaxCommands,  \* bound: other commands
  MaxFaults     \* bound: connections lost and ends of the process

ASSUME ClientsAssumption ==
  /\ Clients \subseteq Nat \ {0} /\ IsFiniteSet(Clients) /\ Tasks \subseteq Nat
  /\ {MaxCreds, MaxCommands, MaxFaults} \subseteq Nat

VARIABLES
  status,      \* accounts.status, "absent" or "deleted" when there is no row
  enabled,     \* accounts.enabled
  code,        \* accounts with an entry in phone_code_hashes
  slot,        \* _clients: the registered client, None if there is none
  idle,        \* accounts whose slot has now - last_used >= idle_timeout
  conn,        \* of a client: "none", "dialing", "up" or "lost"
  outdated,    \* clients that were made with earlier credentials
  creds,       \* api_id and api_hash of the ClientManager
  saved,       \* ... and of settings.json
  task,        \* the commands in progress, on the loop or on a worker
  reaper,      \* _reaper_task: pc, the rest of its stale list, its client
  disturbed,   \* history: accounts whose calls have met, see Disturb
  interrupted, \* history: accounts left without the last write of a dialogue,
               \*   since the last one that announced itself
  commands, faults

accountVars == <<status, enabled, code>>
clientVars  == <<slot, idle, conn, outdated>>
credVars    == <<creds, saved>>
boundVars   == <<commands, faults>>
vars == <<accountVars, clientVars, credVars, task, reaper, disturbed, interrupted,
          boundVars>>

None     == 0
NoTask   == [op |-> "none", acc |-> None, pc |-> "none", then |-> "none",
             cl |-> None, rest |-> {}, ver |-> 0]
NoReaper == [pc |-> "none", rest |-> {}, cl |-> None]

Statuses  == {"DISCONNECTED", "CONNECTING", "AUTH_REQUIRED", "READY", "ERROR", "DISABLED"}
Dialogues == {"connect", "send"}     \* the ones that announce CONNECTING
Exists(a) == status[a] \notin {"absent", "deleted"}

\* Somebody is connecting a client of account a.
Dialing(a) == \E t \in Tasks : task[t].acc = a /\ task[t].pc \in {"dial", "redial"}

\* The client is not merely unregistered: somebody is disconnecting it.
Closing(c) == reaper.cl = c \/ \E t \in Tasks : task[t].pc = "close" /\ task[t].cl = c

Unused(c) == conn[c] = "none" /\ reaper.cl # c /\ \A t \in Tasks : task[t].cl # c

-----------------------------------------------------------------------------
Init ==
  /\ status = [a \in Accounts |-> "absent"]
  /\ enabled = Accounts /\ code = {}
  /\ slot = [a \in Accounts |-> None] /\ idle = {}
  /\ conn = [c \in Clients |-> "none"] /\ outdated = {}
  /\ creds = 0 /\ saved = 0
  /\ task = [t \in Tasks |-> NoTask] /\ reaper = NoReaper
  /\ disturbed = {} /\ interrupted = {}
  /\ commands = 0 /\ faults = 0

Goto(t, pc) == task' = [task EXCEPT ![t].pc = pc]
Finish(t)   == task' = [task EXCEPT ![t] = NoTask]

\* A new coroutine; which number it gets does not matter.
FirstFree(t) == task[t] = NoTask /\ \A u \in Tasks : task[u] = NoTask => t <= u

-----------------------------------------------------------------------------
(* Commands.                                                               *)

Launch(t, op, a, pc, then) ==
  /\ FirstFree(t) /\ commands < MaxCommands
  /\ commands' = commands + 1
  /\ task' = [task EXCEPT ![t] = [NoTask EXCEPT !.op = op, !.acc = a, !.pc = pc,
                                                !.then = then]]
  /\ UNCHANGED <<accountVars, clientVars, credVars, reaper, disturbed, interrupted,
                 faults>>

\* AccountRepository.create.
Create(a) == status' = [status EXCEPT ![a] = "DISCONNECTED"]

\* AccountService.add: a row and the path of a session file.
Add(a) == status[a] = "absent" /\ Create(a)

\* account.add.
AddAccount(a) ==
  /\ Add(a)
  /\ UNCHANGED <<enabled, code, clientVars, credVars, task, reaper, disturbed,
                 interrupted, boundVars>>

\* _selected_account of AccountsPage: a row of its table.
Selected(a) == Exists(a)

ConnectAccount(t, a) == Launch(t, "connect", a, "announce", "check")
SendCode(t, a)       == Launch(t, "send", a, "announce", "check")

\* auth.sign_in wants a code that was requested before.
SignIn(t, a) == a \in code /\ Launch(t, "sign", a, "get", "sign")

\* The buttons of AccountsPage, for an account that is enabled.
StartDialogue(t, a) ==
  /\ Selected(a) /\ a \in enabled
  /\ ConnectAccount(t, a) \/ SendCode(t, a) \/ SignIn(t, a)

\* Any other request: a scan, a check, an invitation, join or leave.
StartRequest(t, a) == Exists(a) /\ Launch(t, "use", a, "get", "request")

StartDelete(t, a) == Selected(a) /\ Launch(t, "delete", a, "drop", "erase")

\* account.enable, refused while the row says that work is going on.
MayDisable(a) == status[a] \notin {"CONNECTING", "BUSY", "WAITING_SERVER"}

StartEnable(t, a, on) ==
  /\ Selected(a)
  /\ on \/ MayDisable(a)
  /\ Launch(t, "enable", a, IF on THEN "on" ELSE "off", "none")

\* A worker writes the row, whatever it says by now.
WriteEnabled(t) ==
  LET a == task[t].acc  on == task[t].pc = "on" IN
  /\ task[t].op = "enable"
  /\ IF Exists(a)
     THEN /\ enabled' = IF on THEN enabled \cup {a} ELSE enabled \ {a}
          /\ status' = [status EXCEPT ![a] = IF on THEN "DISCONNECTED" ELSE "DISABLED"]
     ELSE UNCHANGED <<enabled, status>>
  /\ Finish(t)
  /\ UNCHANGED <<code, clientVars, credVars, reaper, disturbed, interrupted, boundVars>>

-----------------------------------------------------------------------------
(* ClientManager.get.                                                      *)

\* The first statement of get: there is a reaper from now on.
EnsureReaper ==
  reaper' = IF reaper.pc = "none" THEN [NoReaper EXCEPT !.pc = "asleep"] ELSE reaper

AtGet(t) == task[t].pc = "get" /\ Exists(task[t].acc) /\ EnsureReaper

\* Slip: the dialogue writes no ERROR.
RaiseSilently(t) == Finish(t)

\* What follows an exception: the dialogues that announced CONNECTING write
\* ERROR, the others leave the row alone.
Raise(t) ==
  task' = IF task[t].op \in Dialogues
          THEN [task EXCEPT ![t].pc = "ERROR", ![t].cl = None]
          ELSE [task EXCEPT ![t] = NoTask]

\* session_lookup of a deleted account.
GetUnknown(t) ==
  /\ task[t].pc = "get" /\ ~Exists(task[t].acc)
  /\ Raise(t)
  /\ UNCHANGED <<accountVars, clientVars, credVars, reaper, disturbed, interrupted,
                 boundVars>>

GetHit(t) ==
  LET a == task[t].acc  c == slot[a] IN
  /\ AtGet(t) /\ c # None
  /\ idle' = idle \ {a}
  /\ task' = [task EXCEPT ![t].cl = c,
                          ![t].pc = IF conn[c] = "up" THEN task[t].then ELSE "redial"]
  /\ UNCHANGED <<accountVars, slot, conn, outdated, credVars, disturbed, interrupted,
                 boundVars>>

\* No slot: make a client with the present credentials and connect it.  Two
\* such calls of one account do not see each other.
GetMiss(t) ==
  LET a == task[t].acc IN
  /\ AtGet(t) /\ slot[a] = None
  /\ \/ creds = 0 /\ Raise(t) /\ UNCHANGED <<conn, outdated, disturbed>>
     \/ /\ creds # 0
        /\ \E c \in Clients :
             /\ Unused(c) /\ \A d \in Clients : Unused(d) => c <= d
             /\ conn' = [conn EXCEPT ![c] = "dialing"]
             /\ outdated' = outdated \ {c}
             /\ task' = [task EXCEPT ![t].cl = c, ![t].pc = "dial"]
        /\ disturbed' = IF Dialing(a) THEN disturbed \cup {a} ELSE disturbed
  /\ UNCHANGED <<accountVars, slot, idle, credVars, interrupted, boundVars>>

\* connect returns, and the client is registered over whatever the slot holds.
Register(t) ==
  LET a == task[t].acc  c == task[t].cl IN
  /\ task[t].pc = "dial"
  /\ conn' = [conn EXCEPT ![c] = "up"]
  /\ slot' = [slot EXCEPT ![a] = c]
  /\ idle' = idle \ {a}
  /\ Goto(t, task[t].then)
  /\ UNCHANGED <<accountVars, outdated, credVars, reaper, disturbed, interrupted,
                 boundVars>>

Reconnect(t) ==
  /\ task[t].pc = "redial"
  /\ conn' = [conn EXCEPT ![task[t].cl] = "up"]
  /\ Goto(t, task[t].then)
  /\ UNCHANGED <<accountVars, slot, idle, outdated, credVars, reaper, disturbed,
                 interrupted, boundVars>>

ConnectFails(t) ==
  /\ task[t].pc \in {"dial", "redial"}
  /\ conn' = IF task[t].pc = "dial" THEN [conn EXCEPT ![task[t].cl] = "none"] ELSE conn
  /\ Raise(t)
  /\ UNCHANGED <<accountVars, slot, idle, outdated, credVars, reaper, disturbed,
                 interrupted, boundVars>>

-----------------------------------------------------------------------------
(* AuthService: the writes of the dialogue and the requests in between.    *)

Announce(t) ==
  LET a == task[t].acc IN
  /\ task[t].pc = "announce"
  /\ status' = IF Exists(a) THEN [status EXCEPT ![a] = "CONNECTING"] ELSE status
  /\ interrupted' = interrupted \ {a}
  /\ Goto(t, "get")
  /\ UNCHANGED <<enabled, code, clientVars, credVars, reaper, disturbed, boundVars>>

\* A request on the client that get returned raises when that client has been
\* disconnected meanwhile, and may raise anyway.
Up(t) == conn[task[t].cl] = "up"

\* What the dialogue writes at its end, see Conclude.
Write(t, st) == task' = [task EXCEPT ![t].pc = st, ![t].cl = None]

\* refresh_identity: get once more, then get_me.
RefreshIdentity(t) ==
  \/ /\ task[t].pc \in {"check", "sign"} /\ Up(t)
     /\ task' = [task EXCEPT ![t].pc = "get", ![t].then = "me", ![t].cl = None]
  \/ task[t].pc = "me" /\ (Raise(t) \/ (Up(t) /\ Write(t, "READY")))

ConnectExisting(t) ==
  /\ task[t].op = "connect" /\ task[t].pc = "check"
  /\ Raise(t) \/ (Up(t) /\ Write(t, "AUTH_REQUIRED"))

RequestCode(t) ==
  /\ task[t].op = "send" /\ task[t].pc \in {"check", "ask"}
  /\ \/ Raise(t)
     \/ Up(t) /\ IF task[t].pc = "check" THEN Goto(t, "ask") ELSE Write(t, "AUTH_REQUIRED")

\* sign_in, with the code or the password refused.
SignInFails(t) ==
  task[t].pc = "sign" /\ \E st \in {"AUTH_REQUIRED", "ERROR"} : Write(t, st)

UseClient(t) == task[t].pc = "request" /\ (Raise(t) \/ (Up(t) /\ Finish(t)))

Request(t) ==
  /\ RefreshIdentity(t) \/ ConnectExisting(t) \/ RequestCode(t) \/ SignInFails(t)
     \/ UseClient(t)
  /\ UNCHANGED <<accountVars, clientVars, credVars, reaper, disturbed, interrupted,
                 boundVars>>

\* The callbacks: a new code hash is kept, a used one is forgotten.
CodesAfter(t) ==
  CASE task[t].op = "send" /\ task[t].pc = "AUTH_REQUIRED" -> code \cup {task[t].acc}
    [] task[t].op = "sign" /\ task[t].pc = "READY"         -> code \ {task[t].acc}
    [] OTHER                                               -> code

\* The last write of the dialogue, submit_set_state or submit_update_identity,
\* and the callback.
Conclude(t) ==
  LET a == task[t].acc  st == task[t].pc IN
  /\ st \in {"READY", "AUTH_REQUIRED", "ERROR"}
  /\ status' = IF Exists(a) THEN [status EXCEPT ![a] = st] ELSE status
  /\ code' = CodesAfter(t)
  /\ Finish(t)
  /\ UNCHANGED <<enabled, clientVars, credVars, reaper, disturbed, interrupted,
                 boundVars>>

\* A write of the dialogue or of a worker may fail: the future raises.  What
\* connect_existing and send_code write inside their try becomes ERROR ...
InTry(t) ==
  /\ task[t].op \in Dialogues
  /\ task[t].pc = "READY" \/ (task[t].op = "connect" /\ task[t].pc = "AUTH_REQUIRED")

\* ... and outside of it, where ERROR and the AUTH_REQUIRED of send_code are
\* written, the command ends and leaves the row as it is.
WriteFails(t) ==
  /\ task[t].pc \in {"announce", "READY", "AUTH_REQUIRED", "ERROR", "on", "off", "erase"}
  /\ IF InTry(t)
     THEN Raise(t) /\ UNCHANGED interrupted
     ELSE /\ Finish(t)
          /\ interrupted' = IF task[t].op \in Dialogues /\ task[t].pc # "announce"
                            THEN interrupted \cup {task[t].acc} ELSE interrupted
  /\ UNCHANGED <<accountVars, clientVars, credVars, reaper, disturbed, boundVars>>

-----------------------------------------------------------------------------
(* Disconnecting.                                                          *)

\* The accounts of A whose client is taken away while it is being connected.
Disturb(A) == {a \in A : Dialing(a)}

\* disconnect: pop the slot, then await the client's disconnect.
Drop(t) ==
  LET a == task[t].acc  c == slot[a] IN
  /\ task[t].pc = "drop"
  /\ slot' = [slot EXCEPT ![a] = None]
  /\ idle' = idle \ {a}
  /\ disturbed' = disturbed \cup Disturb({a})
  /\ task' = [task EXCEPT ![t].cl = c,
                          ![t].pc = IF c = None THEN task[t].then ELSE "close"]
  /\ UNCHANGED <<accountVars, conn, outdated, credVars, reaper, interrupted, boundVars>>

Closed(t) ==
  /\ task[t].pc = "close" /\ task[t].op = "delete"
  /\ conn' = [conn EXCEPT ![task[t].cl] = "none"]
  /\ Goto(t, task[t].then)
  /\ UNCHANGED <<accountVars, slot, idle, outdated, credVars, reaper, disturbed,
                 interrupted, boundVars>>

\* account.delete: the row and the session file, by a worker thread.
Erase(t) ==
  /\ task[t].pc = "erase"
  /\ status' = [status EXCEPT ![task[t].acc] = "deleted"]
  /\ Finish(t)
  /\ UNCHANGED <<enabled, code, clientVars, credVars, reaper, disturbed, interrupted,
                 boundVars>>

\* Slip: the cancelled task is not forgotten.
CancelledOnly == [NoReaper EXCEPT !.pc = "cancelled"]

\* close_all forgets the task that it cancels, so that the next get makes one.
Cancelled == NoReaper

\* close_all cancels the reaper, which may be inside a disconnect and leave the
\* client connected or not.
CloseAll ==
  /\ reaper' = Cancelled
  /\ \E left \in {"up", "none"} :
       conn' = [c \in Clients |-> IF c = reaper.cl THEN left ELSE conn[c]]
  /\ disturbed' = disturbed \cup Disturb(Accounts)
                    \cup (IF reaper.cl # None THEN Accounts ELSE {})

\* settings.update: close_all begins ...
UpdateSettings(t) ==
  task' = [task EXCEPT ![t] = [NoTask EXCEPT !.op = "settings", !.pc = "list"]]

StartSettings(t) ==
  /\ FirstFree(t) /\ creds < MaxCreds
  /\ UpdateSettings(t) /\ CloseAll
  /\ UNCHANGED <<accountVars, slot, idle, outdated, credVars, interrupted, boundVars>>

\* The accounts of a list that are still registered: the others are skipped.
Registered(A) == {a \in A : slot[a] # None}

\* What close_all has still to pop: everything when it begins, then its list.
ToClose(t) == Registered(IF task[t].pc = "list" THEN Accounts ELSE task[t].rest)

\* The await that close_all comes back from: the reaper's end or a disconnect.
CloseAllResumes(t) ==
  /\ task[t].op = "settings" /\ task[t].pc \in {"list", "close"}
  /\ conn' = IF task[t].cl = None THEN conn ELSE [conn EXCEPT ![task[t].cl] = "none"]

\* ... pops the next registered account and awaits its disconnect ...
CloseNext(t) ==
  /\ CloseAllResumes(t)
  /\ \E a \in ToClose(t) :
       /\ slot' = [slot EXCEPT ![a] = None]
       /\ idle' = idle \ {a}
       /\ disturbed' = disturbed \cup Disturb({a})
       /\ task' = [task EXCEPT ![t].rest = ToClose(t) \ {a}, ![t].cl = slot[a],
                               ![t].pc = "close"]
  /\ UNCHANGED <<accountVars, outdated, credVars, reaper, interrupted, boundVars>>

Applied(t) == task' = [task EXCEPT ![t] = [NoTask EXCEPT !.op = "settings", !.pc = "save",
                                                         !.ver = creds + 1]]

\* Slip: update_credentials does not refuse while a client is registered.
UpdateCredentialsAnyway(t) ==
  /\ CloseAllResumes(t) /\ ToClose(t) = {}
  /\ creds' = creds + 1 /\ outdated' = {c \in Clients : conn[c] # "none"} \ {task[t].cl}
  /\ Applied(t)
  /\ disturbed' = disturbed \cup Disturb(Accounts)
  /\ UNCHANGED <<accountVars, slot, idle, saved, reaper, interrupted, boundVars>>

\* ... and at once after the last one update_credentials, which refuses while
\* a client is registered.
UpdateCredentials(t) ==
  /\ CloseAllResumes(t) /\ ToClose(t) = {}
  /\ \/ /\ Registered(Accounts) = {}
        /\ creds' = creds + 1 /\ outdated' = {c \in Clients : conn[c] # "none"} \ {task[t].cl}
        /\ Applied(t)
     \/ Registered(Accounts) # {} /\ Finish(t) /\ UNCHANGED <<creds, outdated>>
  /\ disturbed' = disturbed \cup Disturb(Accounts)
  /\ UNCHANGED <<accountVars, slot, idle, saved, reaper, interrupted, boundVars>>

\* Then a worker saves them: two updates may be saved in the other order.
SaveSettings(t) ==
  /\ task[t].pc = "save"
  /\ saved' = task[t].ver
  /\ Finish(t)
  /\ UNCHANGED <<accountVars, clientVars, creds, reaper, disturbed, interrupted,
                 boundVars>>

-----------------------------------------------------------------------------
(* The idle reaper.                                                        *)

\* disconnect for the next account of the stale list.
ReaperPops(A) ==
  IF A = {}
  THEN reaper' = [NoReaper EXCEPT !.pc = "asleep"] /\ UNCHANGED <<slot, idle, disturbed>>
  ELSE \E a \in A :
         /\ slot' = [slot EXCEPT ![a] = None]
         /\ idle' = idle \ {a}
         /\ disturbed' = disturbed \cup Disturb({a})
         /\ reaper' = [pc |-> "sweep", rest |-> A \ {a}, cl |-> slot[a]]

\* disconnect_idle makes its list once ...
ReaperWakes ==
  /\ reaper.pc = "asleep" /\ idle # {}
  /\ ReaperPops(idle)
  /\ UNCHANGED <<accountVars, conn, outdated, credVars, task, interrupted, boundVars>>

\* ... and awaits between its entries, whatever became of them meanwhile.
ReaperCloses ==
  /\ reaper.pc = "sweep"
  /\ conn' = [conn EXCEPT ![reaper.cl] = "none"]
  /\ ReaperPops(Registered(reaper.rest))
  /\ UNCHANGED <<accountVars, outdated, credVars, task, interrupted, boundVars>>

-----------------------------------------------------------------------------
(* The environment.                                                        *)

\* idle_timeout passes without a get.  Running requests do not count.
TimePasses(a) ==
  /\ slot[a] # None /\ a \notin idle
  /\ idle' = idle \cup {a}
  /\ UNCHANGED <<accountVars, slot, conn, outdated, credVars, task, reaper, disturbed,
                 interrupted, boundVars>>

ConnectionLost(c) ==
  /\ conn[c] = "up" /\ (\E a \in Accounts : slot[a] = c) /\ faults < MaxFaults
  /\ faults' = faults + 1
  /\ conn' = [conn EXCEPT ![c] = "lost"]
  /\ UNCHANGED <<accountVars, slot, idle, outdated, credVars, task, reaper, disturbed,
                 interrupted,
                 commands>>

\* Settings.load at the next start.  save does not write the file at once: one
\* that was cut off is what it was, complete, or unreadable and so ignored.
LoadedSettings ==
  {saved} \cup UNION {{0, task[t].ver} : t \in {u \in Tasks : task[u].pc = "save"}}

\* The process ends, by ApplicationRuntime.stop or otherwise: the tasks are
\* cancelled wherever they are, which no `except Exception' sees.
Stop ==
  /\ faults < MaxFaults
  /\ faults' = faults + 1
  /\ interrupted' = interrupted \cup {a \in Accounts : \E t \in Tasks :
                      task[t].acc = a /\ task[t].op \in Dialogues}
  /\ task' = [t \in Tasks |-> NoTask] /\ reaper' = NoReaper
  /\ slot' = [a \in Accounts |-> None] /\ idle' = {} /\ code' = {}
  /\ conn' = [c \in Clients |-> "none"] /\ outdated' = {}
  /\ disturbed' = {}
  /\ \E v \in LoadedSettings : creds' = v /\ saved' = v
  /\ UNCHANGED <<status, enabled, commands>>

-----------------------------------------------------------------------------
Get(t)        == GetUnknown(t) \/ GetHit(t) \/ GetMiss(t) \/ Register(t) \/ Reconnect(t)
                   \/ ConnectFails(t)
Dialogue(t)   == Announce(t) \/ Request(t) \/ Conclude(t)
Disconnect(t) == Drop(t) \/ Closed(t) \/ Erase(t) \/ CloseNext(t) \/ UpdateCredentials(t)
Worker(t)     == WriteEnabled(t) \/ SaveSettings(t) \/ WriteFails(t)
Reaper        == ReaperWakes \/ ReaperCloses

Next ==
  \/ \E t \in Tasks, a \in Accounts :
       \/ StartDialogue(t, a) \/ StartRequest(t, a) \/ StartDelete(t, a)
       \/ \E on \in BOOLEAN : StartEnable(t, a, on)
  \/ \E a \in Accounts : AddAccount(a)
  \/ \E t \in Tasks : StartSettings(t) \/ Get(t) \/ Dialogue(t) \/ Disconnect(t) \/ Worker(t)
  \/ Reaper
  \/ \E a \in Accounts : TimePasses(a)
  \/ \E c \in Clients : ConnectionLost(c)
  \/ Stop

\* The reaper's timer fires, the loop runs on, and disconnects return.
Fairness ==
  /\ WF_vars(ReaperWakes) /\ WF_vars(ReaperCloses)
  /\ \A t \in Tasks : WF_vars(Disconnect(t))

Spec == Init /\ [][Next]_vars /\ Fairness

-----------------------------------------------------------------------------
\* Values of the variables.
TypeOK ==
  /\ status \in [Accounts -> Statuses \cup {"absent", "deleted"}]
  /\ enabled \subseteq Accounts /\ code \subseteq Accounts /\ idle \subseteq Accounts
  /\ slot \in [Accounts -> Clients \cup {None}]
  /\ conn \in [Clients -> {"none", "dialing", "up", "lost"}]
  /\ reaper.pc \in {"none", "asleep", "sweep"}

\* As long as no client of an account is taken away or made a second time while
\* one is being connected, the clients that are connected and not about to be
\* closed are exactly the registered ones, made with the present credentials.
\* So the two places where get awaits connect are all that two sessions on one
\* file, or a client nobody will ever close, can come from.
OneClientPerSession ==
  disturbed = {} =>
    \A c \in Clients :
      /\ conn[c] = "up" /\ ~Closing(c) =>
           \E a \in Accounts : slot[a] = c
      /\ \A a \in Accounts : slot[a] = c => c \notin outdated /\ conn[c] # "none"

\* An account is shown as CONNECTING only while a dialogue that has announced
\* itself is on its way, over every exception and every failing write that a
\* dialogue can still answer.  Two things leave the row behind, and nothing at
\* start-up repairs it: the end of the process, and a last write that fails
\* (ERROR, or the AUTH_REQUIRED of send_code); the next dialogue takes the row
\* up again.
ConnectingIsLive ==
  \A a \in Accounts :
    status[a] = "CONNECTING" /\ a \notin interrupted =>
      \E t \in Tasks : /\ task[t].acc = a /\ task[t].op \in Dialogues
                       /\ task[t].pc # "announce"

\* A client that nobody asks for is closed: the reaper survives, or is made
\* again by the next get, also after settings.update has cancelled it.
IdleClientsGo ==
  \A a \in Accounts :
    (a \in idle /\ disturbed = {}) ~> (a \notin idle \/ disturbed # {})
=============================================================================
