-------------------------------- MODULE NPCActor --------------------------------
(***************************************************************************)
(* One NPC's actor (class NPCActor in core.py) and the threads around it:  *)
(*   - callers: gameplay threads in Room._notify_npcs and the ticker in    *)
(*     NPCManager.tick take a list of NPCs, submit a job to each and then  *)
(*     wait for each, performing the actions themselves;                   *)
(*   - its worker, which runs the behaviour's callbacks and may be stuck   *)
(*     in one for ever;                                                    *)
(*   - stoppers: whoever removes the NPC from its room, and the main       *)
(*     thread's NPCManager.stop.                                           *)
(*                                                                         *)
(* The callers' shared deadline leaves a later NPC any remaining time,     *)
(* zero included: a wait may run out at any moment.  What a callback       *)
(* decides is left out; a job's answer is a result or an error.            *)
(***************************************************************************)
EXTENDS Naturals, Sequences, FiniteSets

CONSTANTS
  Callers,        \* threads that hand jobs to the actor
  Tickers,        \* those of them that submit ticks
  Stoppers,       \* threads that call stop()
  Jobs,           \* identities of NPCActorJob objects
  Workers,        \* identities of the actor's threads
  None,           \* Python's None
  mailbox_limit

ASSUME ActorAssumption ==
  /\ Tickers \subseteq Callers
  /\ None \notin Jobs \cup Workers
  /\ mailbox_limit \in Nat \ {0}

VARIABLES
  mailbox,        \* the jobs queued
  closing, unresponsive,
  tick_job,       \* the last tick submitted, until its callback has ended
  thread,         \* the last worker started
  worker,         \* worker[w]: where thread w is in _run
  held,           \* held[w]: the job whose callback w runs
  answer,         \* answer[j]: what the job's event and fields say
  performed,      \* the jobs with actions_performed
  caller,         \* caller[c]: where caller c is
  job,            \* job[c]: the job it waits for
  stopper,        \* stopper[s]: where s is in stop()
  target,         \* target[s]: the thread it joins
  listed,         \* the NPC is in its room, and the manager's list
  ticks,          \* history: the jobs that are ticks
  overruled,      \* history: stop() gave up on a thread that had been replaced
  revived         \* history: a job came after the NPC had been removed

actorVars  == <<mailbox, closing, unresponsive, tick_job>>
workerVars == <<thread, worker, held>>
jobVars    == <<answer, performed, ticks>>
callerVars == <<caller, job>>
stopVars   == <<stopper, target, listed, overruled, revived>>
vars == <<actorVars, workerVars, jobVars, callerVars, stopVars>>

WorkerPc  == {"none", "looping", "asleep", "callback", "ending"}
CallerPc  == {"idle", "picked", "waiting", "marking"}
StopperPc == {"idle", "called", "joining", "late"}
Answers   == {"unused", "open", "result", "error"}

Init ==
  /\ mailbox = <<>>
  /\ closing = FALSE /\ unresponsive = FALSE
  /\ tick_job = None
  /\ thread = None
  /\ worker = [w \in Workers |-> "none"]
  /\ held = [w \in Workers |-> None]
  /\ answer = [j \in Jobs |-> "unused"]
  /\ performed = {} /\ ticks = {}
  /\ caller = [c \in Callers |-> "idle"]
  /\ job = [c \in Callers |-> None]
  /\ stopper = [s \in Stoppers |-> "idle"]
  /\ target = [s \in Stoppers |-> None]
  /\ listed = TRUE
  /\ overruled = FALSE /\ revived = FALSE

-------------------------------------------------------------------------------
(* Helpers *)

Queued == {mailbox[i] : i \in DOMAIN mailbox}
Alive(w) == w # None /\ worker[w] # "none"

\* condition.notify_all()
Notified == [w \in Workers |-> IF worker[w] = "asleep" THEN "looping" ELSE worker[w]]

\* complete(error=...) of every job in S that has no answer yet
FailJobs(S) ==
  answer' = [j \in Jobs |-> IF j \in S /\ answer[j] = "open" THEN "error" ELSE answer[j]]

\* Fault: a thread that is to close is replaced.
ReplacesClosing == ~Alive(thread) \/ closing

\* _start_locked starts a thread if there is none, or the old one has ended.
NeedsThread == ~Alive(thread)

\* Fault: an inert actor starts again.
AcceptsInert == NeedsThread \/ ~closing

Accepts == ~unresponsive /\ (NeedsThread \/ ~closing)

\* Fault: one job too many.
HasRoomForMore == Len(mailbox) <= mailbox_limit

HasRoom == Len(mailbox) < mailbox_limit

-------------------------------------------------------------------------------
(* Callers *)

\* The NPC is on the list that the caller took of its room or of the active NPCs.
Pick(c) ==
  /\ caller[c] = "idle"
  /\ listed
  /\ caller' = [caller EXCEPT ![c] = "picked"]
  /\ UNCHANGED <<actorVars, workerVars, jobVars, job, stopVars>>

TickIsOpen == tick_job # None /\ answer[tick_job] = "open"

\* Fault: nobody is notified.
StartQuietly(others) ==
  IF NeedsThread
  THEN \E w \in Workers :
         /\ worker[w] = "none"
         /\ thread' = w
         /\ worker' = [worker EXCEPT ![w] = "looping"]
         /\ closing' = FALSE
  ELSE UNCHANGED <<thread, closing, worker>>

\* _start_locked, beside what happens to the other threads.
StartLocked(others) ==
  IF NeedsThread
  THEN \E w \in Workers :
         /\ worker[w] = "none"
         /\ thread' = w
         /\ worker' = [others EXCEPT ![w] = "looping"]
         /\ closing' = FALSE
  ELSE /\ worker' = others
       /\ UNCHANGED <<thread, closing>>

\* submit() raises: the actor is inert or stopping, or its mailbox is full.
SubmitRejected(c) ==
  /\ caller[c] = "picked"
  /\ \/ ~Accepts /\ UNCHANGED <<thread, closing, worker>>
     \/ Accepts /\ ~HasRoom /\ ~(c \in Tickers /\ TickIsOpen) /\ StartLocked(worker)
  /\ caller' = [caller EXCEPT ![c] = "idle"]
  /\ UNCHANGED <<mailbox, unresponsive, tick_job, held, jobVars, job, stopVars>>

\* A tick that has no answer yet is shared.
SubmitCoalesced(c) ==
  /\ caller[c] = "picked"
  /\ Accepts
  /\ c \in Tickers /\ TickIsOpen
  /\ StartLocked(worker)
  /\ caller' = [caller EXCEPT ![c] = "waiting"]
  /\ job' = [job EXCEPT ![c] = tick_job]
  /\ revived' = (revived \/ ~listed)
  /\ UNCHANGED <<mailbox, unresponsive, tick_job, held, jobVars, stopper, target, listed, overruled>>

Submit(c, j) ==
  /\ caller[c] = "picked"
  /\ answer[j] = "unused"
  /\ Accepts /\ HasRoom
  /\ ~(c \in Tickers /\ TickIsOpen)
  /\ StartLocked(Notified)
  /\ mailbox' = Append(mailbox, j)
  /\ answer' = [answer EXCEPT ![j] = "open"]
  /\ IF c \in Tickers
     THEN tick_job' = j /\ ticks' = ticks \cup {j}
     ELSE UNCHANGED <<tick_job, ticks>>
  /\ caller' = [caller EXCEPT ![c] = "waiting"]
  /\ job' = [job EXCEPT ![c] = j]
  /\ revived' = (revived \/ ~listed)
  /\ UNCHANGED <<unresponsive, held, performed, stopper, target, listed, overruled>>

\* The wait for the answer has run out.
TimesOut(c) ==
  /\ caller[c] = "waiting"
  /\ answer[job[c]] = "open"
  /\ caller' = [caller EXCEPT ![c] = "marking"]
  /\ UNCHANGED <<actorVars, workerVars, jobVars, job, stopVars>>

\* Fault: the answer that came meanwhile is replaced.
MarkAnyhow(c) ==
  /\ caller[c] = "marking"
  /\ caller' = [caller EXCEPT ![c] = "waiting"]
  /\ unresponsive' = TRUE
  /\ closing' = TRUE
  /\ mailbox' = <<>>
  /\ answer' = [j \in Jobs |-> IF j \in Queued \cup {job[c]} THEN "error" ELSE answer[j]]
  /\ worker' = Notified
  /\ UNCHANGED <<tick_job, thread, held, performed, ticks, job, stopVars>>

\* Fault: the job whose wait ran out is left to its callback.
MarkQueuedOnly(c) ==
  /\ caller[c] = "marking"
  /\ caller' = [caller EXCEPT ![c] = "waiting"]
  /\ IF answer[job[c]] # "open"
     THEN UNCHANGED <<mailbox, closing, unresponsive, worker, answer>>
     ELSE /\ unresponsive' = TRUE
          /\ closing' = TRUE
          /\ mailbox' = <<>>
          /\ FailJobs(Queued)
          /\ worker' = Notified
  /\ UNCHANGED <<tick_job, thread, held, performed, ticks, job, stopVars>>

\* _mark_unresponsive: unless the answer has come meanwhile, the actor turns inert.
Mark(c) ==
  /\ caller[c] = "marking"
  /\ caller' = [caller EXCEPT ![c] = "waiting"]
  /\ IF answer[job[c]] # "open"
     THEN UNCHANGED <<mailbox, closing, unresponsive, worker, answer>>
     ELSE /\ unresponsive' = TRUE
          /\ closing' = TRUE
          /\ mailbox' = <<>>
          /\ FailJobs(Queued \cup {job[c]})
          /\ worker' = Notified
  /\ UNCHANGED <<tick_job, thread, held, performed, ticks, job, stopVars>>

\* The job is answered: perform its actions, unless another caller has, or raise its error.
Receive(c) ==
  /\ caller[c] = "waiting"
  /\ answer[job[c]] # "open"
  /\ performed' = IF answer[job[c]] = "result" THEN performed \cup {job[c]} ELSE performed
  /\ caller' = [caller EXCEPT ![c] = "idle"]
  /\ job' = [job EXCEPT ![c] = None]
  /\ UNCHANGED <<actorVars, workerVars, answer, ticks, stopVars>>

\* A job that nobody refers to is garbage.
Drop(j) ==
  /\ answer[j] \in {"result", "error"}
  /\ j # tick_job
  /\ \A c \in Callers : job[c] # j
  /\ \A w \in Workers : held[w] # j
  /\ answer' = [answer EXCEPT ![j] = "unused"]
  /\ performed' = performed \ {j}
  /\ ticks' = ticks \ {j}
  /\ UNCHANGED <<actorVars, workerVars, callerVars, stopVars>>

-------------------------------------------------------------------------------
(* The worker *)

\* The head of the loop: return, sleep or take a job.
Loop(w) ==
  /\ worker[w] = "looping"
  /\ \/ /\ mailbox = <<>> /\ closing
        /\ worker' = [worker EXCEPT ![w] = "ending"]
        /\ UNCHANGED <<mailbox, held>>
     \/ /\ mailbox = <<>> /\ ~closing
        /\ worker' = [worker EXCEPT ![w] = "asleep"]
        /\ UNCHANGED <<mailbox, held>>
     \/ /\ mailbox # <<>>
        /\ held' = [held EXCEPT ![w] = Head(mailbox)]
        /\ mailbox' = Tail(mailbox)
        /\ worker' = [worker EXCEPT ![w] = "callback"]
  /\ UNCHANGED <<closing, unresponsive, tick_job, thread, jobVars, callerVars, stopVars>>

\* The callback has returned a decision or raised.
CallbackEnds(w) ==
  /\ worker[w] = "callback"
  /\ \E a \in {"result", "error"} :
       answer' = [answer EXCEPT ![held[w]] = IF @ = "open" THEN a ELSE @]
  /\ tick_job' = IF tick_job = held[w] THEN None ELSE tick_job
  /\ held' = [held EXCEPT ![w] = None]
  /\ worker' = [worker EXCEPT ![w] = IF unresponsive THEN "ending" ELSE "looping"]
  /\ UNCHANGED <<mailbox, closing, unresponsive, thread, performed, ticks, callerVars, stopVars>>

\* _run has returned; until now is_alive() was true.
Ends(w) ==
  /\ worker[w] = "ending"
  /\ worker' = [worker EXCEPT ![w] = "none"]
  /\ UNCHANGED <<actorVars, thread, held, jobVars, callerVars, stopVars>>

-------------------------------------------------------------------------------
(* stop() *)

\* remove_npc: out of the room and of the manager's list, then stop().
Remove(s) ==
  /\ stopper[s] = "idle"
  /\ listed
  /\ listed' = FALSE
  /\ revived' = FALSE
  /\ stopper' = [stopper EXCEPT ![s] = "called"]
  /\ UNCHANGED <<actorVars, workerVars, jobVars, callerVars, target, overruled>>

\* add_npc, of an NPC that was removed
AddAgain ==
  /\ ~listed
  /\ listed' = TRUE
  /\ UNCHANGED <<actorVars, workerVars, jobVars, callerVars, stopper, target, overruled, revived>>

\* NPCManager.stop: the NPC stays where it is.
CallStop(s) ==
  /\ stopper[s] = "idle"
  /\ stopper' = [stopper EXCEPT ![s] = "called"]
  /\ UNCHANGED <<actorVars, workerVars, jobVars, callerVars, target, listed, overruled, revived>>

Stop(s) ==
  /\ stopper[s] = "called"
  /\ closing' = TRUE
  /\ mailbox' = <<>>
  /\ FailJobs(Queued)
  /\ worker' = Notified
  /\ IF Alive(thread)
     THEN stopper' = [stopper EXCEPT ![s] = "joining"] /\ target' = [target EXCEPT ![s] = thread]
     ELSE stopper' = [stopper EXCEPT ![s] = "idle"] /\ UNCHANGED target
  /\ UNCHANGED <<unresponsive, tick_job, thread, held, performed, ticks, callerVars,
                 listed, overruled, revived>>

\* The thread is gone, or alive when the time has run out.
Join(s) ==
  /\ stopper[s] = "joining"
  /\ stopper' = [stopper EXCEPT ![s] = IF Alive(target[s]) THEN "late" ELSE "idle"]
  /\ target' = [target EXCEPT ![s] = None]
  /\ UNCHANGED <<actorVars, workerVars, jobVars, callerVars, listed, overruled, revived>>

\* ... and then the actor is declared inert, whatever became of the thread meanwhile.
GiveUp(s) ==
  /\ stopper[s] = "late"
  /\ stopper' = [stopper EXCEPT ![s] = "idle"]
  /\ unresponsive' = TRUE
  /\ overruled' = (overruled \/ (Alive(thread) /\ ~closing))
  /\ UNCHANGED <<mailbox, closing, tick_job, workerVars, jobVars, callerVars, target, listed, revived>>

-------------------------------------------------------------------------------

Caller(c) ==
  \/ Pick(c) \/ SubmitRejected(c) \/ SubmitCoalesced(c) \/ TimesOut(c) \/ Mark(c) \/ Receive(c)
  \/ \E j \in Jobs : Submit(c, j)
Worker(w) == Loop(w) \/ CallbackEnds(w) \/ Ends(w)
Stopper(s) == Remove(s) \/ CallStop(s) \/ Stop(s) \/ Join(s) \/ GiveUp(s)

Next ==
  \/ \E c \in Callers : Caller(c)
  \/ \E w \in Workers : Worker(w)
  \/ \E s \in Stoppers : Stopper(s)
  \/ AddAgain
  \/ \E j \in Jobs : Drop(j)

\* A wait has a time-out, and locks are held briefly.  A callback need not end, and a thread
\* that is scheduled need not be prompt.
Fairness ==
  \A c \in Callers : WF_vars(TimesOut(c)) /\ WF_vars(Mark(c))

Spec == Init /\ [][Next]_vars /\ Fairness

-------------------------------------------------------------------------------
(* Properties *)

ActorTypeOK ==
  /\ mailbox \in Seq(Jobs) /\ Len(mailbox) <= mailbox_limit
  /\ {closing, unresponsive, listed, overruled, revived} \subseteq BOOLEAN
  /\ tick_job \in Jobs \cup {None}
  /\ thread \in Workers \cup {None}
  /\ worker \in [Workers -> WorkerPc]
  /\ held \in [Workers -> Jobs \cup {None}]
  /\ answer \in [Jobs -> Answers]
  /\ performed \subseteq Jobs /\ ticks \subseteq Jobs
  /\ caller \in [Callers -> CallerPc]
  /\ job \in [Callers -> Jobs \cup {None}]
  /\ stopper \in [Stoppers -> StopperPc]
  /\ target \in [Stoppers -> Workers \cup {None}]

\* "One bounded sequential callback worker": a second thread is never started while one is
\* alive, whoever stops, restarts or gives up on the actor meanwhile.
OneWorker == \A w \in Workers : Alive(w) => w = thread

\* The worker never sleeps on work or on a stop: no wake-up is lost.
SleepsOnlyWhenIdle ==
  \A w \in Workers : worker[w] = "asleep" => mailbox = <<>> /\ ~closing

\* An unanswered job is in a worker's hands, or queued for one that will come to it: an inert
\* actor, for one, has nothing queued.  The exception is a stop() that gave up on a thread after a new one had taken its place.
OpenJobIsKept ==
  \A j \in Jobs : answer[j] = "open" =>
    \/ \E w \in Workers : held[w] = j
    \/ /\ j \in Queued
       /\ \/ overruled
          \/ ~unresponsive /\ worker[thread] \in {"looping", "callback"}

\* "Tick jobs coalesce": there is never a second unanswered tick, whatever stop, restart and
\* time-outs do to the one that tick_job names.
TicksCoalesce == Cardinality({j \in ticks : answer[j] = "open"}) <= 1

\* The actor of a removed NPC comes to an end, unless a caller that had listed the NPC before
\* submitted a job afterwards, and so started it again.
RemovedIsStopped ==
  ~listed /\ ~revived /\ (\A s \in Stoppers : stopper[s] # "called") =>
    \A w \in Workers : Alive(w) => closing

\* The mailbox, the ticks and the threads that stop, restart and time-outs leave behind.
NothingIsLeftBehind == OpenJobIsKept /\ TicksCoalesce /\ RemovedIsStopped

\* The actor implements the board of callbacks.
Board == INSTANCE CallbackBoard WITH
  running <- {held[w] : w \in Workers} \ {None}
ImplementsBoard == Board!BoardSpec

\* Whatever becomes of a callback, its job is answered, at the latest when the caller's wait
\* runs out: a stuck NPC stalls nobody for ever.
EveryJobIsAnswered == \A j \in Jobs : answer[j] = "open" ~> answer[j] # "open"
===============================================================================
