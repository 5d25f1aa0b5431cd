--------------------------------- MODULE Login ---------------------------------
(***************************************************************************)
(* From a connection to a session and back: the dialogue of                *)
(* PreAuthController in blingmud.py, the authentication pool and the rate  *)
(* limiter of server_runtime.py, the registry SESSIONS, and the way a      *)
(* session leaves it.                                                      *)
(*                                                                         *)
(* The selector thread runs the dialogue: one action per line it accepts   *)
(* and one per result it drains from the pool.  Pool threads run the       *)
(* database functions, each atomic under USERS_LOCK.  A session's gameplay *)
(* thread plays, saves, and unlists itself.  The rows are written behind   *)
(* it by the store of WriteBehindStore, which PersistenceWriter            *)
(* implements; the dirty check and the autosaves are in SessionSave.       *)
(*                                                                         *)
(* All connections share one address and the model lives within the        *)
(* limiter's windows: time stamps are counts.  Lines that only repeat a    *)
(* prompt, password hashes and their upgrade are left out.                 *)
(***************************************************************************)
EXTENDS Naturals, Sequences, FiniteSets

CONSTANTS
  Connections, Names, States, Receipts,
  InitialState,   \* the document of a new account
  Registered,     \* names that have an account from the start
  None,           \* Python's None: no account record, no session, no name, no receipt
  Workers,        \* AUTH_WORKERS
  QueueLimit,     \* AUTH_QUEUE_LIMIT
  PlayerLimit,    \* AUTHENTICATED_CONNECTION_LIMIT
  FailureLimit,   \* AUTH_FAILURE_LIMIT, and the 5 of the handlers
  CreationLimit   \* ACCOUNT_CREATION_LIMIT

ASSUME LoginAssumption ==
  /\ IsFiniteSet(Connections)
  /\ InitialState \in States
  /\ Registered \subseteq Names
  /\ None \notin Connections \cup Names \cup Receipts \cup [name : Names, state : States]
  /\ {Workers, PlayerLimit, FailureLimit, CreationLimit} \subseteq Nat \ {0}
  /\ QueueLimit \in Nat

VARIABLES
  link,           \* link[c]: "open" or "closed"; a closed one's identity is reused
  closing,        \* closing[c]: close_after_output
  authenticated,  \* authenticated[c]
  dialogue,       \* controller.state
  busy,           \* controller.busy
  account,        \* controller.account: a record [name, state] read from the table
  new_name,       \* controller.new_name
  has_password,   \* controller.new_password is not None
  work,           \* tasks the pool has queued
  running,        \* tasks its threads have in hand
  completed,      \* results the selector has not drained
  capacity,       \* what is left of the capacity semaphore
  stopped,        \* the server has closed its connections and the pool
  exists,         \* names in the users table
  backlog, durable, verdict,  \* the write-behind store
  sessions,       \* SESSIONS
  life,           \* where the gameplay thread of c's session is
  player,         \* its player: [name, state]
  stored,         \* the state the session believes to be in the row
  receipt,        \* the receipt its final save waits for
  failures,       \* failures[n]: recent failed logins, counted up to the limit
  claims,         \* recent account creations
  newest,         \* history: newest[n], the last state a session gave the character n
  row_known,      \* history: row_known[n], the row holds what n's last session stored
  fresh,          \* history: <<c, n>>: n was offline, and row_known, when c read or made
                  \* its record, and no session of n has begun since
  created         \* history: accounts created

linkVars     == <<link, closing, authenticated>>
dialogueVars == <<dialogue, account, new_name, has_password>>
poolVars     == <<work, running, completed, capacity, busy>>
tableVars    == <<exists, backlog, durable, verdict>>
sessionVars  == <<sessions, life, player, stored, receipt>>
limitVars    == <<failures, claims>>
histVars     == <<newest, row_known, fresh, created>>
vars == <<linkVars, dialogueVars, poolVars, tableVars, sessionVars, limitVars, histVars, stopped>>

Store == INSTANCE WriteBehindStore WITH Keys <- Names

Record    == [name : Names, state : States]
Dialogues == {"name", "password", "new_name", "new_password", "confirm_password"}
Lives     == {"none", "playing", "saving", "leaving", "unlisted"}
Question  == [load |-> "name", authenticate |-> "password",
              check |-> "new_name", create |-> "confirm_password"]
Task      == [conn : Connections, op : DOMAIN Question, name : Names, state : States]
Answers   == {"error", "found", "unknown", "right", "wrong", "free", "taken", "created"}
Result    == [task : Task, answer : Answers]
PoolLimit == Workers + QueueLimit

Init ==
  /\ link = [c \in Connections |-> "closed"]
  /\ closing = [c \in Connections |-> FALSE]
  /\ authenticated = [c \in Connections |-> FALSE]
  /\ dialogue = [c \in Connections |-> "name"]
  /\ busy = [c \in Connections |-> FALSE]
  /\ account = [c \in Connections |-> None]
  /\ new_name = [c \in Connections |-> None]
  /\ has_password = [c \in Connections |-> FALSE]
  /\ work = <<>> /\ running = {} /\ completed = <<>>
  /\ capacity = PoolLimit
  /\ stopped = FALSE
  /\ exists = Registered
  /\ Store!StoreInit
  /\ sessions = [n \in Names |-> None]
  /\ life = [c \in Connections |-> "none"]
  /\ player = [c \in Connections |-> None]
  /\ stored = [c \in Connections |-> InitialState]
  /\ receipt = [c \in Connections |-> None]
  /\ failures = [n \in Names |-> 0]
  /\ claims = 0
  /\ newest = durable
  /\ row_known = [n \in Names |-> TRUE]
  /\ fresh = {}
  /\ created = 0

-------------------------------------------------------------------------------
(* Connections *)

Players == {c \in Connections : link[c] = "open" /\ authenticated[c]}
InPool(c) == \/ \E i \in DOMAIN work : work[i].conn = c
             \/ \E t \in running : t.conn = c
             \/ \E i \in DOMAIN completed : completed[i].task.conn = c

\* _prompt_name and its like: the dialogue goes on with d.
Prompts(c, d) == dialogue' = [dialogue EXCEPT ![c] = d]

\* A new connection, with a fresh controller and session.
Accept(c) ==
  /\ link[c] = "closed" /\ life[c] = "none" /\ ~InPool(c)
  /\ ~stopped
  /\ Cardinality(Players) < PlayerLimit
  /\ link' = [link EXCEPT ![c] = "open"]
  /\ UNCHANGED <<closing, authenticated, dialogueVars, poolVars, tableVars, limitVars, sessionVars,
                 histVars, stopped>>

\* connection_closed: the controller forgets what it knows.
Forgets(S) ==
  /\ account' = [c \in Connections |-> IF c \in S THEN None ELSE account[c]]
  /\ new_name' = [c \in Connections |-> IF c \in S THEN None ELSE new_name[c]]
  /\ has_password' = [c \in Connections |-> has_password[c] /\ c \notin S]

\* mark_closed, for those in S: what nobody asks of a closed connection is cleared for the next
\* one of this identity.
MarkClosed(S) ==
  /\ link' = [c \in Connections |-> IF c \in S THEN "closed" ELSE link[c]]
  /\ Forgets(S)
  /\ closing' = [c \in Connections |-> closing[c] /\ c \notin S]
  /\ authenticated' = [c \in Connections |-> authenticated[c] /\ c \notin S]
  /\ dialogue' = [c \in Connections |-> IF c \in S THEN "name" ELSE dialogue[c]]
  /\ fresh' = {p \in fresh : p[1] \notin S}

\* The peer is gone, the output queue is full, or the grace of closing is over.
Close(c) ==
  /\ link[c] = "open"
  /\ MarkClosed({c})
  /\ UNCHANGED <<poolVars, tableVars, sessionVars, limitVars, newest, row_known, created, stopped>>

\* The pool's shutdown cancels its queued tasks.
CancelPending ==
  /\ work' = <<>>
  /\ completed' = completed \o [i \in DOMAIN work |-> [task |-> work[i], answer |-> "error"]]

\* server_close(): every connection, then the pool.
Stop ==
  /\ ~stopped
  /\ stopped' = TRUE
  /\ MarkClosed(Connections)
  /\ CancelPending
  /\ UNCHANGED <<running, capacity, busy, tableVars, sessionVars, limitVars, newest, row_known,
                 created>>

CloseAfterOutput(c) == closing' = [closing EXCEPT ![c] = TRUE]

-------------------------------------------------------------------------------
(* The dialogue, line by line *)

\* Fault: a line is handled while an answer is awaited.
ListensAlways(c, d) ==
  link[c] = "open" /\ ~authenticated[c] /\ dialogue[c] = d

\* on_line drops a line while the controller is busy.
Listens(c, d) ==
  link[c] = "open" /\ ~authenticated[c] /\ ~busy[c] /\ dialogue[c] = d

\* _submit: a full pool repeats the prompt.
Ask(c, op, n, s) ==
  IF capacity > 0
  THEN /\ capacity' = capacity - 1
       /\ work' = Append(work, [conn |-> c, op |-> op, name |-> n, state |-> s])
       /\ busy' = [busy EXCEPT ![c] = TRUE]
       /\ UNCHANGED <<running, completed>>
  ELSE UNCHANGED poolVars

\* authentication_allowed
Allowed(n) == failures[n] < FailureLimit

NameLine(c, n) ==
  /\ Listens(c, "name")
  /\ IF Allowed(n)
     THEN Ask(c, "load", n, InitialState) /\ UNCHANGED closing
     ELSE CloseAfterOutput(c) /\ UNCHANGED poolVars
  /\ UNCHANGED <<link, authenticated, dialogueVars, tableVars, sessionVars, limitVars, histVars, stopped>>

NewUserLine(c) ==
  /\ Listens(c, "name")
  /\ Prompts(c, "new_name")
  /\ UNCHANGED <<linkVars, account, new_name, has_password, poolVars, tableVars, sessionVars,
                 limitVars, histVars, stopped>>

\* A failed attempt is counted; the last one allowed closes the connection.
RecordFailure(n) == failures' = [failures EXCEPT ![n] = IF Allowed(n) THEN @ + 1 ELSE @]
CountFailure(c, n) ==
  /\ RecordFailure(n)
  /\ IF failures'[n] >= FailureLimit THEN CloseAfterOutput(c) ELSE UNCHANGED closing

PasswordLine(c) ==
  /\ Listens(c, "password")
  /\ \/ Ask(c, "authenticate", account[c].name, account[c].state) /\ UNCHANGED <<closing, failures>>
     \/ CountFailure(c, account[c].name) /\ UNCHANGED poolVars
  /\ UNCHANGED <<link, authenticated, dialogueVars, tableVars, sessionVars, claims, histVars, stopped>>

NewNameLine(c, n) ==
  /\ Listens(c, "new_name")
  /\ new_name' = [new_name EXCEPT ![c] = n]
  /\ Ask(c, "check", n, InitialState)
  /\ UNCHANGED <<linkVars, dialogue, account, has_password, tableVars, sessionVars, limitVars,
                 histVars, stopped>>

NewPasswordLine(c) ==
  /\ Listens(c, "new_password")
  /\ has_password' = [has_password EXCEPT ![c] = TRUE]
  /\ Prompts(c, "confirm_password")
  /\ UNCHANGED <<linkVars, account, new_name, poolVars, tableVars, sessionVars, limitVars, histVars, stopped>>

\* The confirmation differs, or there is nothing left to compare it with.
MismatchLine(c) ==
  /\ Listens(c, "confirm_password")
  /\ has_password' = [has_password EXCEPT ![c] = FALSE]
  /\ Prompts(c, "new_password")
  /\ UNCHANGED <<linkVars, account, new_name, poolVars, tableVars, sessionVars, limitVars, histVars, stopped>>

\* Fault: one claim too many.
MayCreateOneMore == claims <= CreationLimit

MayCreate == claims < CreationLimit

\* The claim is taken before the task is submitted.
MatchLine(c) ==
  /\ Listens(c, "confirm_password")
  /\ has_password[c]
  /\ has_password' = [has_password EXCEPT ![c] = FALSE]
  /\ IF MayCreate
     THEN Ask(c, "create", new_name[c], InitialState) /\ claims' = claims + 1 /\ UNCHANGED closing
     ELSE CloseAfterOutput(c) /\ UNCHANGED <<poolVars, claims>>
  /\ UNCHANGED <<link, authenticated, dialogue, account, new_name, tableVars, sessionVars, failures,
                 histVars, stopped>>

-------------------------------------------------------------------------------
(* The pool's threads *)

Fetch ==
  /\ work # <<>>
  /\ Cardinality(running) < Workers
  /\ running' = running \cup {Head(work)}
  /\ work' = Tail(work)
  /\ UNCHANGED <<linkVars, dialogueVars, completed, capacity, busy, tableVars, sessionVars, limitVars,
                 histVars, stopped>>

\* What the function of t may answer; any of them may raise.
AnswersTo(t) ==
  {"error"} \cup
  CASE t.op = "load"         -> {IF t.name \in exists THEN "found" ELSE "unknown"}
    [] t.op = "authenticate" -> {"right", "wrong"}
    [] t.op = "check"        -> {IF t.name \in exists THEN "taken" ELSE "free"}
    [] t.op = "create"       -> {IF t.name \in exists THEN "taken" ELSE "created"}

\* load_user, and create_user
LoadUser(t) == [t EXCEPT !.state = durable[t.name]]
CreateUser(n) ==
  /\ exists' = exists \cup {n}
  /\ durable' = [durable EXCEPT ![n] = InitialState]
  /\ created' = created + 1

Perform(t) ==
  /\ t \in running
  /\ \E a \in AnswersTo(t) :
       /\ completed' = Append(completed,
            [task |-> IF a = "found" THEN LoadUser(t) ELSE t, answer |-> a])
       /\ IF a = "created" THEN CreateUser(t.name) ELSE UNCHANGED <<exists, durable, created>>
       /\ fresh' = IF a \notin {"found", "created"} THEN fresh
                   ELSE {p \in fresh : p[1] # t.conn} \cup
                        {p \in {<<t.conn, t.name>>} :
                           link[p[1]] = "open" /\ sessions[p[2]] = None /\ row_known[p[2]]}
  /\ running' = running \ {t}
  /\ UNCHANGED <<linkVars, dialogueVars, work, capacity, busy, backlog, verdict, sessionVars, limitVars,
                 newest, row_known, stopped>>

-------------------------------------------------------------------------------
(* The selector drains a result *)

\* The head of the completed queue is an answer of this kind for c.
Answered(c, op, answers) ==
  /\ completed # <<>>
  /\ LET r == Head(completed) IN r.task.conn = c /\ r.task.op = op /\ r.answer \in answers

\* Fault: a discarded result keeps its place in the pool.
DrainsKeeping(c, op, answers) ==
  /\ Answered(c, op, answers)
  /\ completed' = Tail(completed)
  /\ capacity' = IF link[c] = "open" THEN capacity + 1 ELSE capacity
  /\ busy' = [busy EXCEPT ![c] = FALSE]
  /\ UNCHANGED <<work, running, tableVars>>

\* The capacity is released before the callback runs.
Drains(c, op, answers) ==
  /\ Answered(c, op, answers)
  /\ completed' = Tail(completed)
  /\ capacity' = capacity + 1
  /\ busy' = [busy EXCEPT ![c] = FALSE]
  /\ UNCHANGED <<work, running, tableVars>>

\* Fault: the controller of a closed connection stays busy.
DiscardBusy(c) ==
  /\ link[c] = "closed"
  /\ \E op \in DOMAIN Question : Answered(c, op, Answers)
  /\ completed' = Tail(completed)
  /\ capacity' = capacity + 1
  /\ UNCHANGED <<work, running, busy, tableVars>>
  /\ UNCHANGED <<linkVars, dialogueVars, sessionVars, limitVars, histVars, stopped>>

\* completed() of _submit: the connection is closed by now.
Discard(c) ==
  /\ link[c] = "closed"
  /\ \E op \in DOMAIN Question : Drains(c, op, Answers)
  /\ UNCHANGED <<linkVars, dialogueVars, sessionVars, limitVars, histVars, stopped>>

Calls(c, op, answers) == link[c] = "open" /\ Drains(c, op, answers)

\* Storage or verification failed: the same prompt again (a name's record is dropped).
Failed(c) ==
  /\ \E op \in {"load", "authenticate", "check"} : Calls(c, op, {"error"})
  /\ UNCHANGED <<linkVars, dialogueVars, sessionVars, limitVars, histVars, stopped>>

AccountLoaded(c) ==
  /\ Calls(c, "load", {"found", "unknown"})
  /\ LET r == Head(completed) IN
     IF r.answer = "found"
     THEN /\ account' = [account EXCEPT ![c] = [name |-> r.task.name, state |-> r.task.state]]
          /\ Prompts(c, "password")
          /\ UNCHANGED <<closing, failures>>
     ELSE CountFailure(c, r.task.name) /\ UNCHANGED <<account, dialogue>>
  /\ UNCHANGED <<link, authenticated, new_name, has_password, sessionVars, claims, histVars, stopped>>

WrongPassword(c) ==
  /\ Calls(c, "authenticate", {"wrong"})
  /\ CountFailure(c, account[c].name)
  /\ UNCHANGED <<link, authenticated, dialogueVars, sessionVars, claims, histVars, stopped>>

NewNameChecked(c) ==
  /\ Calls(c, "check", {"free", "taken"})
  /\ Prompts(c, IF Head(completed).answer = "free" THEN "new_password" ELSE "new_name")
  /\ UNCHANGED <<linkVars, account, new_name, has_password, sessionVars, limitVars, histVars, stopped>>

ReleaseCreation == claims' = claims - 1
CreationFailed(c) ==
  /\ Calls(c, "create", {"error", "taken"})
  /\ ReleaseCreation
  /\ Prompts(c, "new_name")
  /\ UNCHANGED <<linkVars, account, new_name, has_password, sessionVars, failures, histVars, stopped>>

Offline(n) == sessions[n] = None

CanPromote(c) == Cardinality(Players \ {c}) < PlayerLimit

ClearFailures(n) == failures' = [failures EXCEPT ![n] = 0]

\* _finish_authenticated, under SESSIONS_LOCK and in the selector thread.
FinishAuthenticated(c, n, s) ==
  \/ /\ ~Offline(n)
     /\ Prompts(c, "name")
     /\ account' = [account EXCEPT ![c] = None]
     /\ UNCHANGED <<linkVars, new_name, sessionVars, failures, histVars>>
  \/ /\ Offline(n) /\ ~CanPromote(c)
     /\ CloseAfterOutput(c)
     /\ UNCHANGED <<link, authenticated, dialogue, account, new_name, sessionVars, failures, histVars>>
  \/ /\ Offline(n) /\ CanPromote(c)
     /\ authenticated' = [authenticated EXCEPT ![c] = TRUE]
     /\ sessions' = [sessions EXCEPT ![n] = c]
     /\ player' = [player EXCEPT ![c] = [name |-> n, state |-> s]]
     /\ stored' = [stored EXCEPT ![c] = s]
     /\ life' = [life EXCEPT ![c] = "playing"]
     /\ ClearFailures(n)
     /\ account' = [account EXCEPT ![c] = None]
     /\ new_name' = [new_name EXCEPT ![c] = None]
     /\ newest' = [newest EXCEPT ![n] = s]
     /\ row_known' = [row_known EXCEPT ![n] = <<c, n>> \in fresh]
     /\ fresh' = {p \in fresh : p[2] # n}
     /\ UNCHANGED <<link, closing, dialogue, receipt, created>>

RightPassword(c) ==
  /\ Calls(c, "authenticate", {"right"})
  /\ LET t == Head(completed).task IN FinishAuthenticated(c, t.name, t.state)
  /\ UNCHANGED <<has_password, claims, stopped>>

AccountCreated(c) ==
  /\ Calls(c, "create", {"created"})
  /\ FinishAuthenticated(c, new_name[c], InitialState)
  /\ UNCHANGED <<has_password, claims, stopped>>

-------------------------------------------------------------------------------
(* The session *)

Play(c, s) ==
  /\ life[c] = "playing"
  /\ s # player[c].state
  /\ player' = [player EXCEPT ![c].state = s]
  /\ newest' = [newest EXCEPT ![player[c].name] = s]
  /\ UNCHANGED <<linkVars, dialogueVars, poolVars, tableVars, limitVars, sessions, life, stored,
                 receipt, row_known, fresh, created, stopped>>

\* The gameplay loop ends; disconnect() submits the final snapshot if it is a new one.
FinalSave(c) ==
  LET n == player[c].name IN
  /\ life[c] = "playing"
  /\ IF player[c].state = stored[c]
     THEN /\ life' = [life EXCEPT ![c] = "leaving"]
          /\ UNCHANGED <<backlog, durable, verdict, receipt>>
     ELSE \E r \in Receipts :
          /\ life' = [life EXCEPT ![c] = "saving"]
          /\ receipt' = [receipt EXCEPT ![c] = r]
          /\ Store!Accept(n, player[c].state, r) \/ Store!Refuse(r)
  /\ UNCHANGED <<linkVars, dialogueVars, poolVars, exists, limitVars, sessions, player, stored,
                 histVars, stopped>>

\* Fault: a wait that ran out of time counts as saved.
SaveEndsAnyhow(c) ==
  /\ life[c] = "saving"
  /\ life' = [life EXCEPT ![c] = "leaving"]
  /\ receipt' = [receipt EXCEPT ![c] = None]
  /\ row_known' = [row_known EXCEPT ![player[c].name] = verdict[receipt[c]] # "failed"]
  /\ UNCHANGED <<linkVars, dialogueVars, poolVars, tableVars, limitVars, sessions, player, stored,
                 newest, fresh, created, stopped>>

\* The wait for the final save ends: saved, failed or out of time.
SaveEnds(c) ==
  /\ life[c] = "saving"
  /\ life' = [life EXCEPT ![c] = "leaving"]
  /\ receipt' = [receipt EXCEPT ![c] = None]
  /\ row_known' = [row_known EXCEPT ![player[c].name] = verdict[receipt[c]] = "saved"]
  /\ UNCHANGED <<linkVars, dialogueVars, poolVars, tableVars, limitVars, sessions, player, stored,
                 newest, fresh, created, stopped>>

\* Only its own entry of SESSIONS is deleted.
Unlist(c) ==
  /\ life[c] = "leaving"
  /\ life' = [life EXCEPT ![c] = "unlisted"]
  /\ sessions' = [sessions EXCEPT ![player[c].name] = IF @ = c THEN None ELSE @]
  /\ UNCHANGED <<linkVars, dialogueVars, poolVars, tableVars, limitVars, player, stored, receipt,
                 histVars, stopped>>

DropPlayer(c) ==
  /\ life[c] = "unlisted"
  /\ life' = [life EXCEPT ![c] = "none"]
  /\ player' = [player EXCEPT ![c] = None]
  /\ stored' = [stored EXCEPT ![c] = InitialState]
  /\ UNCHANGED <<linkVars, dialogueVars, poolVars, tableVars, limitVars, sessions, receipt,
                 histVars, stopped>>

\* The writer settles a request, or a receipt nobody waits for is dropped.
Settle ==
  /\ \/ \E n \in Names : \E i \in 1..Len(backlog[n]) : Store!Commit(n, i) \/ Store!Lose(n, i)
     \/ \E r \in Receipts : (\A c \in Connections : receipt[c] # r) /\ Store!Forget(r)
  /\ UNCHANGED <<linkVars, dialogueVars, poolVars, exists, sessionVars, limitVars, histVars, stopped>>

-------------------------------------------------------------------------------

Line(c) ==
  \/ \E n \in Names : NameLine(c, n) \/ NewNameLine(c, n)
  \/ NewUserLine(c) \/ PasswordLine(c) \/ NewPasswordLine(c) \/ MismatchLine(c) \/ MatchLine(c)

Drain ==
  \E c \in Connections :
    \/ Discard(c) \/ Failed(c) \/ AccountLoaded(c) \/ WrongPassword(c) \/ RightPassword(c)
    \/ NewNameChecked(c) \/ CreationFailed(c) \/ AccountCreated(c)

Pool == Fetch \/ \E t \in running : Perform(t)

Session(c) ==
  FinalSave(c) \/ SaveEnds(c) \/ Unlist(c) \/ DropPlayer(c) \/ \E s \in States : Play(c, s)

Next ==
  \/ \E c \in Connections : Accept(c) \/ Close(c) \/ Line(c) \/ Session(c)
  \/ Stop \/ Pool \/ Drain \/ Settle

\* The pool's threads run (hashing and the database end), and the selector drains results.
Fairness ==
  /\ WF_vars(Fetch) /\ WF_vars(Drain)
  /\ \A c \in Connections : WF_vars(\E t \in running : t.conn = c /\ Perform(t))

Spec == Init /\ [][Next]_vars /\ Fairness

-------------------------------------------------------------------------------
(* Properties *)

LoginTypeOK ==
  /\ link \in [Connections -> {"open", "closed"}]
  /\ {closing, authenticated, busy, has_password} \subseteq [Connections -> BOOLEAN]
  /\ dialogue \in [Connections -> Dialogues]
  /\ account \in [Connections -> Record \cup {None}]
  /\ \A c \in Connections : Listens(c, "password") => account[c] # None
  /\ new_name \in [Connections -> Names \cup {None}]
  /\ work \in Seq(Task) /\ running \subseteq Task /\ completed \in Seq(Result)
  /\ capacity \in 0..PoolLimit
  /\ stopped \in BOOLEAN /\ exists \subseteq Names
  /\ sessions \in [Names -> Connections \cup {None}]
  /\ life \in [Connections -> Lives]
  /\ player \in [Connections -> Record \cup {None}]
  /\ stored \in [Connections -> States]
  /\ receipt \in [Connections -> Receipts \cup {None}]
  /\ failures \in [Names -> 0..FailureLimit] /\ claims \in 0..CreationLimit

\* The pool's capacity counts exactly the tasks queued, in hand and undrained: results of
\* closed connections and cancelled tasks give their place back, so logins never dry up.
CapacityIsAccounted ==
  capacity + Len(work) + Cardinality(running) + Len(completed) = PoolLimit

\* A controller awaits an answer exactly while the pool has its task, only one, and the
\* answer is to the question its dialogue asks: no second line was let in meanwhile.
AnswerFitsQuestion ==
  \A c \in Connections :
    LET tasks == [i \in DOMAIN completed |-> completed[i].task] \o work
        mine  == {i \in DOMAIN tasks : tasks[i].conn = c}
        held  == {t \in running : t.conn = c}
    IN /\ Cardinality(mine) + Cardinality(held) = IF busy[c] THEN 1 ELSE 0
       /\ link[c] = "open" => \A t \in {tasks[i] : i \in mine} \cup held : Question[t.op] = dialogue[c]

Inside == {"playing", "saving", "leaving"}

\* One session per account: a session that plays, or has not finished its final save, is
\* the registered one, so nobody else can log in to its character.
SessionIsListed ==
  \A c \in Connections : life[c] \in Inside => sessions[player[c].name] = c

\* No more open connections are promoted than the limit of authenticated players.
PlayersWithinLimit == Cardinality(Players) <= PlayerLimit

\* Every account made, or being made, holds a claim of its address, whatever fails or
\* closes meanwhile: within one window no more are made than claims are granted.
Creating == {t \in running \cup {work[i] : i \in DOMAIN work} : t.op = "create"}
CreationsAreClaimed == created + Cardinality(Creating) <= claims

\* Whatever fails, is cancelled or is answered too late, the pool's places, the players' places,
\* the claims and the registry say what is in use.
ResourcesAreAccounted ==
  CapacityIsAccounted /\ PlayersWithinLimit /\ CreationsAreClaimed /\ SessionIsListed

\* A session begins where the character's last one ended, if that one's final save was
\* confirmed and the account record was read, or made, after it had left; and once the server
\* has closed its connections no session begins: main() joins them all.
Begins(c, n) == sessions[n] = None /\ sessions'[n] = c
SessionsBeginRight ==
  [][\A c \in Connections, n \in Names : Begins(c, n) =>
       /\ <<c, n>> \in fresh => player'[c].state = newest[n]
       /\ ~stopped]_vars

\* The same for every login: "ordinary disconnects do not lose all progress since login"
\* (AI_ROADMAP.md).
LoginContinues ==
  [][\A c \in Connections, n \in Names :
       Begins(c, n) /\ row_known[n] => player'[c].state = newest[n]]_vars

\* After "Please try that line again" the line can succeed: the password that is to be
\* confirmed is still there.
RetryIsPossible ==
  \A c \in Connections :
    Listens(c, "confirm_password") /\ ~closing[c] => has_password[c]

\* Every awaited answer comes, or is discarded with the connection, until the server stops
\* (it leaves behind what its threads do not end in time).
LineIsAnswered == \A c \in Connections : busy[c] ~> ~busy[c] \/ stopped
===============================================================================
