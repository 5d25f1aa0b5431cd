----------------------------- MODULE NPCActorProofs -----------------------------
(***************************************************************************)
(* What holds of an NPC's actor for any number of callers, stoppers, jobs  *)
(* and threads and any mailbox limit: it never has two threads, its thread *)
(* never sleeps on work or on a stop, no job is left behind by a stop, and *)
(* what callers see of their jobs is what CallbackBoard promises.          *)
(***************************************************************************)
EXTENDS NPCActor, SequenceTheorems, FiniteSetTheorems, TLAPS

\* Who waits, or has waited too long, waits for a job.
CallerHasJob ==
  \A c \in Callers : caller[c] \in {"waiting", "marking"} => job[c] \in Jobs

ActorInv == ActorTypeOK /\ CallerHasJob /\ OneWorker /\ SleepsOnlyWhenIdle

\* The actor of a new NPC satisfies the invariant.
LEMMA ActorInitial ==
  ASSUME Init
  PROVE  ActorInv
<1> USE ActorAssumption DEF Init
<1>1. ActorTypeOK
  <2>1. mailbox \in Seq(Jobs) /\ Len(mailbox) <= mailbox_limit
    <3>1. <<>> \in Seq(Jobs) /\ Len(<<>>) = 0
      BY EmptySeq, LenProperties
    <3> QED  BY <3>1
  <2>2. worker \in [Workers -> WorkerPc] /\ held \in [Workers -> Jobs \cup {None}]
    BY DEF WorkerPc
  <2>3. answer \in [Jobs -> Answers] /\ performed \subseteq Jobs /\ ticks \subseteq Jobs
    BY DEF Answers
  <2>4. caller \in [Callers -> CallerPc] /\ job \in [Callers -> Jobs \cup {None}]
    BY DEF CallerPc
  <2>5. stopper \in [Stoppers -> StopperPc] /\ target \in [Stoppers -> Workers \cup {None}]
    BY DEF StopperPc
  <2> QED  BY <2>1, <2>2, <2>3, <2>4, <2>5 DEF ActorTypeOK
<1>2. CallerHasJob /\ OneWorker /\ SleepsOnlyWhenIdle
  BY DEF CallerHasJob, OneWorker, SleepsOnlyWhenIdle, Alive
<1> QED  BY <1>1, <1>2 DEF ActorInv

\* condition.notify_all() leaves nobody asleep, and wakes the dead as little as the busy.
LEMMA NotifiedWakes ==
  ASSUME worker \in [Workers -> WorkerPc]
  PROVE  /\ Notified \in [Workers -> WorkerPc]
         /\ \A w \in Workers : /\ Notified[w] # "asleep"
                               /\ Notified[w] # "none" <=> worker[w] # "none"
BY DEF Notified, WorkerPc

\* _start_locked leaves one thread alive; a thread sleeps afterwards only if it did before,
\* and closing stays clear for it.
LEMMA StartsOneWorker ==
  ASSUME ActorTypeOK, OneWorker,
         NEW others \in [Workers -> WorkerPc],
         \A w \in Workers : others[w] # "none" <=> worker[w] # "none",
         StartLocked(others)
  PROVE  /\ thread' \in Workers \cup {None}
         /\ worker' \in [Workers -> WorkerPc]
         /\ closing' \in BOOLEAN /\ (closing' => closing)
         /\ OneWorker'
         /\ \A w \in Workers : worker'[w] = "asleep" => others[w] = "asleep"
<1> USE ActorAssumption
<1>1. CASE NeedsThread
  <2>1. PICK w \in Workers : /\ worker[w] = "none"
                             /\ thread' = w
                             /\ worker' = [others EXCEPT ![w] = "looping"]
                             /\ closing' = FALSE
    BY <1>1 DEF StartLocked
  <2>2. \A v \in Workers : worker[v] = "none"
    BY <1>1 DEF NeedsThread, OneWorker, Alive
  <2>3. OneWorker'
    BY <2>1, <2>2 DEF OneWorker, Alive
  <2> QED  BY <2>1, <2>3 DEF WorkerPc
<1>2. CASE ~NeedsThread
  <2>1. worker' = others /\ UNCHANGED <<thread, closing>>
    BY <1>2 DEF StartLocked
  <2>2. OneWorker'
    BY <2>1 DEF OneWorker, Alive
  <2> QED  BY <2>1, <2>2 DEF ActorTypeOK
<1> QED  BY <1>1, <1>2

\* Every caller's step keeps the invariant.
LEMMA CallerKeepsInv ==
  ASSUME ActorInv, NEW c \in Callers, Caller(c)
  PROVE  ActorInv'
<1> USE ActorAssumption DEF ActorInv
<1>1. CASE Pick(c)
  <2>1. ActorTypeOK' /\ CallerHasJob'
    BY <1>1 DEF Pick, ActorTypeOK, CallerHasJob, CallerPc, actorVars, workerVars, jobVars, stopVars
  <2> QED  BY <1>1, <2>1 DEF Pick, OneWorker, Alive, SleepsOnlyWhenIdle, actorVars, workerVars
<1>2. CASE SubmitRejected(c)
  <2>1. /\ thread' \in Workers \cup {None}
        /\ worker' \in [Workers -> WorkerPc]
        /\ closing' \in BOOLEAN /\ (closing' => closing)
        /\ OneWorker'
        /\ \A w \in Workers : worker'[w] = "asleep" => worker[w] = "asleep"
    <3>1. CASE StartLocked(worker)
      BY <3>1, StartsOneWorker DEF ActorTypeOK
    <3>2. CASE UNCHANGED <<thread, closing, worker>>
      BY <3>2 DEF ActorTypeOK, OneWorker, Alive
    <3> QED  BY <1>2, <3>1, <3>2 DEF SubmitRejected
  <2>2. ActorTypeOK' /\ CallerHasJob'
    BY <1>2, <2>1 DEF SubmitRejected, ActorTypeOK, CallerHasJob, CallerPc, jobVars, stopVars
  <2>3. SleepsOnlyWhenIdle'
    BY <1>2, <2>1 DEF SubmitRejected, SleepsOnlyWhenIdle
  <2> QED  BY <2>1, <2>2, <2>3
<1>3. CASE SubmitCoalesced(c)
  <2>1. /\ thread' \in Workers \cup {None}
        /\ worker' \in [Workers -> WorkerPc]
        /\ closing' \in BOOLEAN /\ (closing' => closing)
        /\ OneWorker'
        /\ \A w \in Workers : worker'[w] = "asleep" => worker[w] = "asleep"
    BY <1>3, StartsOneWorker DEF SubmitCoalesced, ActorTypeOK
  <2>2. tick_job \in Jobs
    BY <1>3 DEF SubmitCoalesced, TickIsOpen, ActorTypeOK
  <2>3. ActorTypeOK' /\ CallerHasJob'
    BY <1>3, <2>1, <2>2 DEF SubmitCoalesced, ActorTypeOK, CallerHasJob, CallerPc, jobVars
  <2>4. SleepsOnlyWhenIdle'
    BY <1>3, <2>1 DEF SubmitCoalesced, SleepsOnlyWhenIdle
  <2> QED  BY <2>1, <2>3, <2>4
<1>4. ASSUME NEW j \in Jobs, Submit(c, j) PROVE ActorInv'
  <2>1. /\ thread' \in Workers \cup {None}
        /\ worker' \in [Workers -> WorkerPc]
        /\ closing' \in BOOLEAN /\ (closing' => closing)
        /\ OneWorker'
        /\ \A w \in Workers : worker'[w] = "asleep" => Notified[w] = "asleep"
    BY <1>4, StartsOneWorker, NotifiedWakes DEF Submit, ActorTypeOK
  <2>2. mailbox' \in Seq(Jobs) /\ Len(mailbox') <= mailbox_limit
    BY <1>4, AppendProperties DEF Submit, HasRoom, ActorTypeOK
  <2>3. ActorTypeOK' /\ CallerHasJob'
    BY <1>4, <2>1, <2>2 DEF Submit, ActorTypeOK, CallerHasJob, CallerPc, Answers
  <2>4. SleepsOnlyWhenIdle'
    BY <2>1, NotifiedWakes DEF SleepsOnlyWhenIdle, ActorTypeOK
  <2> QED  BY <2>1, <2>3, <2>4
<1>5. CASE TimesOut(c)
  <2>1. ActorTypeOK' /\ CallerHasJob'
    BY <1>5 DEF TimesOut, ActorTypeOK, CallerHasJob, CallerPc, actorVars, workerVars, jobVars, stopVars
  <2> QED  BY <1>5, <2>1 DEF TimesOut, OneWorker, Alive, SleepsOnlyWhenIdle, actorVars, workerVars
<1>6. CASE Mark(c)
  <2>1. CASE answer[job[c]] # "open"
    <3>1. ActorTypeOK' /\ CallerHasJob'
      BY <1>6, <2>1 DEF Mark, ActorTypeOK, CallerHasJob, CallerPc, stopVars
    <3> QED  BY <1>6, <2>1, <3>1 DEF Mark, OneWorker, Alive, SleepsOnlyWhenIdle
  <2>2. CASE answer[job[c]] = "open"
    <3>1. worker' = Notified
      BY <1>6, <2>2 DEF Mark
    <3>2. ActorTypeOK'
      BY <1>6, <2>2, <3>1, NotifiedWakes
      DEF Mark, FailJobs, ActorTypeOK, CallerPc, Answers, stopVars
    <3>3. CallerHasJob'
      BY <1>6 DEF Mark, CallerHasJob, ActorTypeOK
    <3>4. OneWorker'
      BY <1>6, <3>1, NotifiedWakes DEF Mark, OneWorker, Alive, ActorTypeOK
    <3>5. SleepsOnlyWhenIdle'
      BY <3>1, NotifiedWakes DEF SleepsOnlyWhenIdle, ActorTypeOK
    <3> QED  BY <3>2, <3>3, <3>4, <3>5
  <2> QED  BY <2>1, <2>2
<1>7. CASE Receive(c)
  <2>1. ActorTypeOK' /\ CallerHasJob'
    BY <1>7 DEF Receive, ActorTypeOK, CallerHasJob, CallerPc, actorVars, workerVars, stopVars
  <2> QED  BY <1>7, <2>1 DEF Receive, OneWorker, Alive, SleepsOnlyWhenIdle, actorVars, workerVars
<1> QED  BY <1>1, <1>2, <1>3, <1>4, <1>5, <1>6, <1>7 DEF Caller

\* Every step of a thread keeps the invariant.
LEMMA WorkerKeepsInv ==
  ASSUME ActorInv, NEW w \in Workers, Worker(w)
  PROVE  ActorInv'
<1> USE ActorAssumption DEF ActorInv
<1>1. CASE Loop(w)
  <2>1. worker' \in [Workers -> WorkerPc] /\ worker[w] = "looping"
    BY <1>1 DEF Loop, ActorTypeOK, WorkerPc
  <2>2. /\ mailbox' \in Seq(Jobs) /\ Len(mailbox') <= mailbox_limit
        /\ held' \in [Workers -> Jobs \cup {None}]
    <3>1. CASE mailbox = <<>>
      BY <1>1, <3>1 DEF Loop, ActorTypeOK
    <3>2. CASE mailbox # <<>>
      <4>1. /\ Head(mailbox) \in Jobs /\ Tail(mailbox) \in Seq(Jobs)
            /\ Len(Tail(mailbox)) = Len(mailbox) - 1
        BY <3>2, HeadTailProperties DEF ActorTypeOK
      <4>2. held' = [held EXCEPT ![w] = Head(mailbox)] /\ mailbox' = Tail(mailbox)
        BY <1>1, <3>2 DEF Loop
      <4>3. Len(mailbox) \in Nat
        BY LenProperties DEF ActorTypeOK
      <4> QED  BY <4>1, <4>2, <4>3 DEF ActorTypeOK
    <3> QED  BY <3>1, <3>2
  <2>3. ActorTypeOK'
    BY <1>1, <2>1, <2>2 DEF Loop, ActorTypeOK, jobVars, callerVars, stopVars
  <2>4. CallerHasJob' /\ OneWorker'
    BY <1>1, <2>1 DEF Loop, CallerHasJob, OneWorker, Alive, ActorTypeOK, callerVars
  <2>5. ASSUME NEW v \in Workers, worker'[v] = "asleep"
        PROVE  mailbox' = <<>> /\ ~closing'
    <3>1. CASE v = w
      BY <1>1, <2>5, <3>1 DEF Loop, ActorTypeOK
    <3>2. CASE v # w
      <4>1. worker[v] = "asleep"
        BY <1>1, <2>5, <3>2 DEF Loop, ActorTypeOK
      <4> QED  BY <2>1, <3>2, <4>1 DEF OneWorker, Alive
    <3> QED  BY <3>1, <3>2
  <2> QED  BY <2>3, <2>4, <2>5 DEF SleepsOnlyWhenIdle
<1>2. CASE CallbackEnds(w)
  <2>1. ActorTypeOK'
    <3>1. answer' \in [Jobs -> Answers]
      BY <1>2, ZenonT(60) DEF CallbackEnds, ActorTypeOK, Answers
    <3>2. worker' \in [Workers -> WorkerPc]
      BY <1>2 DEF CallbackEnds, ActorTypeOK, WorkerPc
    <3>3. held' \in [Workers -> Jobs \cup {None}] /\ tick_job' \in Jobs \cup {None}
      BY <1>2 DEF CallbackEnds, ActorTypeOK
    <3> QED  BY <1>2, <3>1, <3>2, <3>3 DEF CallbackEnds, ActorTypeOK, callerVars, stopVars
  <2> QED  BY <1>2, <2>1 DEF CallbackEnds, CallerHasJob, OneWorker, Alive, SleepsOnlyWhenIdle,
                             ActorTypeOK, callerVars
<1>3. CASE Ends(w)
  <2>1. ActorTypeOK'
    BY <1>3 DEF Ends, ActorTypeOK, WorkerPc, actorVars, jobVars, callerVars, stopVars
  <2> QED  BY <1>3, <2>1 DEF Ends, CallerHasJob, OneWorker, Alive, SleepsOnlyWhenIdle,
                             ActorTypeOK, actorVars, callerVars
<1> QED  BY <1>1, <1>2, <1>3 DEF Worker

\* Every step of a stopper keeps the invariant.
LEMMA StopperKeepsInv ==
  ASSUME ActorInv, NEW s \in Stoppers, Stopper(s)
  PROVE  ActorInv'
<1> USE ActorAssumption DEF ActorInv
<1>1. CASE Remove(s) \/ CallStop(s) \/ Join(s)
  <2>1. ActorTypeOK'
    BY <1>1 DEF Remove, CallStop, Join, ActorTypeOK, StopperPc,
                actorVars, workerVars, jobVars, callerVars
  <2> QED  BY <1>1, <2>1 DEF Remove, CallStop, Join, CallerHasJob, OneWorker, Alive,
                             SleepsOnlyWhenIdle, actorVars, workerVars, callerVars
<1>2. CASE Stop(s)
  <2>1. worker' = Notified
    BY <1>2 DEF Stop
  <2>2. stopper' \in [Stoppers -> StopperPc] /\ target' \in [Stoppers -> Workers \cup {None}]
    BY <1>2 DEF Stop, ActorTypeOK, StopperPc
  <2>3. ActorTypeOK'
    BY <1>2, <2>1, <2>2, NotifiedWakes DEF Stop, FailJobs, ActorTypeOK, Answers, callerVars
  <2>4. CallerHasJob'
    BY <1>2 DEF Stop, CallerHasJob, callerVars
  <2>5. OneWorker' /\ SleepsOnlyWhenIdle'
    BY <1>2, <2>1, NotifiedWakes DEF Stop, OneWorker, Alive, SleepsOnlyWhenIdle, ActorTypeOK
  <2> QED  BY <2>3, <2>4, <2>5
<1>3. CASE GiveUp(s)
  <2>1. ActorTypeOK'
    BY <1>3 DEF GiveUp, ActorTypeOK, StopperPc, workerVars, jobVars, callerVars
  <2> QED  BY <1>3, <2>1 DEF GiveUp, CallerHasJob, OneWorker, Alive, SleepsOnlyWhenIdle,
                             workerVars, callerVars
<1> QED  BY <1>1, <1>2, <1>3 DEF Stopper

\* What happens to the NPC, or to a job that nobody refers to, does not touch the threads.
LEMMA OthersKeepInv ==
  ASSUME ActorInv, AddAgain \/ \E j \in Jobs : Drop(j)
  PROVE  ActorInv'
<1> USE ActorAssumption DEF ActorInv
<1>1. CASE AddAgain
  <2>1. ActorTypeOK'
    BY <1>1 DEF AddAgain, ActorTypeOK, actorVars, workerVars, jobVars, callerVars
  <2> QED  BY <1>1, <2>1 DEF AddAgain, CallerHasJob, OneWorker, Alive, SleepsOnlyWhenIdle,
                             actorVars, workerVars, callerVars
<1>2. ASSUME NEW j \in Jobs, Drop(j) PROVE ActorInv'
  <2>1. answer' \in [Jobs -> Answers] /\ performed' \subseteq Jobs /\ ticks' \subseteq Jobs
    BY <1>2 DEF Drop, ActorTypeOK, Answers
  <2>2. ActorTypeOK'
    BY <1>2, <2>1 DEF Drop, ActorTypeOK, actorVars, workerVars, callerVars, stopVars
  <2> QED  BY <1>2, <2>2 DEF Drop, CallerHasJob, OneWorker, Alive, SleepsOnlyWhenIdle,
                             actorVars, workerVars, callerVars
<1> QED  BY <1>1, <1>2

\* Where nothing changes the invariant stays.
LEMMA StutterKeepsInv ==
  ASSUME ActorInv, UNCHANGED vars
  PROVE  ActorInv'
BY DEF ActorInv, ActorTypeOK, CallerHasJob, OneWorker, Alive, SleepsOnlyWhenIdle, vars,
       actorVars, workerVars, jobVars, callerVars, stopVars

\* The inductive invariant of the actor.
THEOREM ActorInvariant == Spec => []ActorInv
<1>1. Init => ActorInv
  BY ActorInitial
<1>2. ActorInv /\ [Next]_vars => ActorInv'
  BY CallerKeepsInv, WorkerKeepsInv, StopperKeepsInv, OthersKeepInv, StutterKeepsInv DEF Next
<1> QED  BY <1>1, <1>2, PTL DEF Spec

\* The variables keep their types, the mailbox its limit, and who waits has a job.
THEOREM ActorTypeCorrect == Spec => []ActorTypeOK
<1>1. ActorInv => ActorTypeOK
  BY DEF ActorInv
<1> QED  BY <1>1, ActorInvariant, PTL

\* submit, _mark_unresponsive and stop never leave an NPC with two living threads.
THEOREM OneWorkerAtMost == Spec => []OneWorker
<1>1. ActorInv => OneWorker
  BY DEF ActorInv
<1> QED  BY <1>1, ActorInvariant, PTL

\* No wake-up of the actor's condition is lost.
THEOREM NoWakeUpIsLost == Spec => []SleepsOnlyWhenIdle
<1>1. ActorInv => SleepsOnlyWhenIdle
  BY DEF ActorInv
<1> QED  BY <1>1, ActorInvariant, PTL

-------------------------------------------------------------------------------
(* The jobs: what stops, restarts and time-outs leave behind. *)

\* A thread is inside a callback exactly when it holds a job, which is not free for another use.
HandsMatch ==
  \A w \in Workers : /\ worker[w] = "callback" <=> held[w] # None
                     /\ held[w] # None => answer[held[w]] # "unused"

Distinct == \A i, k \in DOMAIN mailbox : mailbox[i] = mailbox[k] => i = k

\* What is queued is queued once, waits for its answer, and is in nobody's hands; a thread has
\* been started for it.
QueueSound ==
  /\ Distinct
  /\ mailbox # <<>> => thread \in Workers
  /\ \A j \in Queued : answer[j] = "open" /\ \A w \in Workers : held[w] # j

\* Only the tick that tick_job names can be without an answer.
TicksKnown == \A j \in ticks : answer[j] # "unused" /\ (answer[j] = "open" => j = tick_job)

\* A stop, or giving up, leaves nothing queued; a thread ends for one of these reasons alone.
StopsHold ==
  /\ closing => mailbox = <<>>
  /\ \A w \in Workers : worker[w] = "ending" => closing \/ unresponsive
  /\ overruled => unresponsive

JobInv ==
  HandsMatch /\ QueueSound /\ TicksKnown /\ StopsHold /\ OpenJobIsKept /\ RemovedIsStopped

\* What append() does to the mailbox.
LEMMA QueuedAppend ==
  ASSUME mailbox \in Seq(Jobs), Distinct, NEW j \in Jobs, j \notin Queued,
         mailbox' = Append(mailbox, j)
  PROVE  Distinct' /\ Queued' = Queued \cup {j}
<1>1. /\ DOMAIN mailbox = 1..Len(mailbox) /\ Len(mailbox) \in Nat
      /\ DOMAIN mailbox' = 1..Len(mailbox) + 1
      /\ \A i \in 1..Len(mailbox) : mailbox'[i] = mailbox[i]
      /\ mailbox'[Len(mailbox) + 1] = j
  BY AppendProperties, LenProperties
<1>2. Distinct'
  BY <1>1 DEF Distinct, Queued
<1>3. Queued' = Queued \cup {j}
  BY <1>1 DEF Queued
<1> QED  BY <1>2, <1>3

\* What popleft() does to the mailbox.
LEMMA QueuedTail ==
  ASSUME mailbox \in Seq(Jobs), Distinct, mailbox # <<>>, mailbox' = Tail(mailbox)
  PROVE  Distinct' /\ Head(mailbox) \in Queued /\ Queued' = Queued \ {Head(mailbox)}
<1>1. /\ DOMAIN mailbox = 1..Len(mailbox) /\ Len(mailbox) \in Nat \ {0}
      /\ DOMAIN mailbox' = 1..Len(mailbox) - 1
      /\ \A i \in 1..Len(mailbox) - 1 : mailbox'[i] = mailbox[i + 1]
      /\ Head(mailbox) = mailbox[1]
  BY HeadTailProperties, LenProperties, EmptySeq
<1>2. Distinct'
  BY <1>1 DEF Distinct
<1>3. Head(mailbox) \in Queued
  BY <1>1 DEF Queued
<1>4. ASSUME NEW i \in DOMAIN mailbox, i # 1
      PROVE  \E k \in DOMAIN mailbox' : mailbox'[k] = mailbox[i]
  <2>1. i - 1 \in DOMAIN mailbox' /\ (i - 1) + 1 = i
    BY <1>1, <1>4
  <2> QED  BY <1>1, <2>1
<1>5. ASSUME NEW k \in DOMAIN mailbox'
      PROVE  k + 1 \in DOMAIN mailbox /\ k + 1 # 1 /\ mailbox'[k] = mailbox[k + 1]
  BY <1>1
<1>6. Queued' = Queued \ {Head(mailbox)}
  BY <1>1, <1>4, <1>5 DEF Queued, Distinct
<1> QED  BY <1>2, <1>3, <1>6

\* An empty mailbox holds nothing.
LEMMA QueuedEmpty ==
  ASSUME mailbox = <<>>
  PROVE  Queued = {} /\ Distinct
BY DEF Queued, Distinct

\* A new actor has no job anywhere.
LEMMA JobInitial ==
  ASSUME Init
  PROVE  JobInv
<1>1. Queued = {} /\ Distinct
  BY QueuedEmpty DEF Init
<1> QED  BY <1>1, ActorAssumption DEF Init, JobInv, HandsMatch, QueueSound, TicksKnown,
           StopsHold, OpenJobIsKept, RemovedIsStopped, Alive

\* _start_locked while the mailbox holds something starts no thread; whenever it starts one, no
\* thread was alive, and else nothing changes but the sleepers.
LEMMA StartsWhenNeeded ==
  ASSUME ActorInv, NEW others \in [Workers -> WorkerPc], StartLocked(others)
  PROVE  \/ /\ ~NeedsThread /\ worker' = others /\ UNCHANGED <<thread, closing>>
         \/ /\ NeedsThread /\ closing' = FALSE /\ thread' \in Workers
            /\ worker' = [others EXCEPT ![thread'] = "looping"]
            /\ \A w \in Workers : worker[w] = "none"
<1>1. NeedsThread => \A w \in Workers : worker[w] = "none"
  BY ActorAssumption DEF ActorInv, OneWorker, Alive, NeedsThread
<1> QED  BY <1>1 DEF StartLocked, WorkerPc

\* Steps that touch neither jobs nor threads, and call nobody to stop.
LEMMA JobFrame ==
  ASSUME JobInv,
         UNCHANGED <<mailbox, closing, unresponsive, tick_job, thread, worker, held, answer, ticks,
                     overruled, revived>>,
         listed' \/ ~listed,
         \A s \in Stoppers : stopper[s] = "called" => stopper'[s] = "called" \/ listed'
  PROVE  JobInv'
<1>1. HandsMatch' /\ QueueSound' /\ TicksKnown' /\ StopsHold' /\ OpenJobIsKept'
  BY DEF JobInv, HandsMatch, QueueSound, Distinct, Queued, TicksKnown, StopsHold, OpenJobIsKept
<1>2. RemovedIsStopped'
  BY DEF JobInv, RemovedIsStopped, Alive
<1> QED  BY <1>1, <1>2 DEF JobInv

\* Everything queued is failed, with some jobs in J, and everybody is woken to a stop.
LEMMA JobsFailed ==
  ASSUME ActorInv, JobInv, NEW J \in SUBSET Jobs, FailJobs(Queued \cup J),
         mailbox' = <<>>, closing' = TRUE, worker' = Notified,
         unresponsive' \in BOOLEAN, unresponsive => unresponsive',
         UNCHANGED <<tick_job, thread, held, ticks, listed, overruled, revived>>
  PROVE  JobInv'
<1> USE DEF JobInv
<1>1. \A j \in Jobs : /\ answer'[j] = answer[j] \/ (answer[j] = "open" /\ answer'[j] = "error")
                      /\ answer'[j] = "open" => j \notin Queued /\ answer[j] = "open"
  BY DEF FailJobs
<1>2. Queued' = {} /\ Distinct'
  BY DEF Queued, Distinct
<1>3. \A w \in Workers : /\ worker'[w] = "callback" <=> worker[w] = "callback"
                         /\ worker'[w] = "ending" <=> worker[w] = "ending"
                         /\ worker'[w] = "none" <=> worker[w] = "none"
  BY DEF Notified, ActorInv, ActorTypeOK
<1>4. HandsMatch'
  BY <1>1, <1>3 DEF HandsMatch, ActorInv, ActorTypeOK
<1>5. QueueSound'
  BY <1>2 DEF QueueSound
<1>6. TicksKnown'
  BY <1>1 DEF TicksKnown, ActorInv, ActorTypeOK
<1>7. StopsHold'
  BY <1>3 DEF StopsHold
<1>8. OpenJobIsKept'
  BY <1>1 DEF OpenJobIsKept
<1>9. RemovedIsStopped'
  BY DEF RemovedIsStopped
<1> QED  BY <1>4, <1>5, <1>6, <1>7, <1>8, <1>9

\* A thread is started, or found, for what is in the mailbox, the job j added to it.
LEMMA JobQueued ==
  ASSUME ActorInv, JobInv, NEW c \in Callers, NEW j \in Jobs, Submit(c, j)
  PROVE  JobInv'
<1> USE ActorAssumption DEF JobInv
<1>1. /\ answer[j] = "unused" /\ Accepts
      /\ StartLocked(Notified)
      /\ mailbox' = Append(mailbox, j)
      /\ answer' = [answer EXCEPT ![j] = "open"]
      /\ UNCHANGED <<unresponsive, held, overruled, listed, stopper>>
      /\ revived' = (revived \/ ~listed)
  BY DEF Submit
<1>2. j \notin Queued /\ \A w \in Workers : held[w] # j
  BY <1>1 DEF QueueSound, HandsMatch, ActorInv, ActorTypeOK
<1>3. Distinct' /\ Queued' = Queued \cup {j}
  BY <1>1, <1>2, QueuedAppend DEF QueueSound, ActorInv, ActorTypeOK
<1>4. \A i \in Jobs : answer'[i] = IF i = j THEN "open" ELSE answer[i]
  BY <1>1 DEF ActorInv, ActorTypeOK
<1>5. Notified \in [Workers -> WorkerPc]
  BY NotifiedWakes DEF ActorInv, ActorTypeOK
<1>6. \/ /\ ~NeedsThread /\ worker' = Notified /\ UNCHANGED <<thread, closing>>
      \/ /\ NeedsThread /\ closing' = FALSE /\ thread' \in Workers
         /\ worker' = [Notified EXCEPT ![thread'] = "looping"]
         /\ \A w \in Workers : worker[w] = "none"
  BY <1>1, <1>5, StartsWhenNeeded
<1>7. /\ closing' = FALSE
      /\ thread' \in Workers /\ worker'[thread'] \in {"looping", "callback"}
      /\ \A w \in Workers : /\ worker'[w] = "callback" <=> worker[w] = "callback"
                            /\ worker'[w] # "ending"
  <2>1. CASE NeedsThread
    BY <1>6, <2>1 DEF Notified, ActorInv, ActorTypeOK
  <2>2. CASE ~NeedsThread
    <3>1. worker' = Notified /\ UNCHANGED <<thread, closing>> /\ closing = FALSE
      BY <1>1, <1>6, <2>2 DEF Accepts, ActorInv, ActorTypeOK
    <3>2. thread \in Workers /\ worker[thread] # "none"
      BY <2>2 DEF NeedsThread, Alive, ActorInv, ActorTypeOK
    <3>3. \A w \in Workers : worker[w] # "ending"
      BY <1>1, <3>1 DEF Accepts, StopsHold
    <3> QED  BY <3>1, <3>2, <3>3 DEF Notified, ActorInv, ActorTypeOK, WorkerPc
  <2> QED  BY <2>1, <2>2
<1>8. HandsMatch'
  BY <1>1, <1>4, <1>7 DEF HandsMatch, ActorInv, ActorTypeOK
<1>9. QueueSound'
  BY <1>1, <1>7, <1>2, <1>3, <1>4 DEF QueueSound, Queued, ActorInv, ActorTypeOK
<1>10. TicksKnown'
  BY <1>1, <1>4 DEF Submit, TicksKnown, TickIsOpen, ActorInv, ActorTypeOK
<1>11. StopsHold'
  BY <1>1, <1>7 DEF StopsHold
<1>12. OpenJobIsKept'
  <2>1. ~unresponsive'
    BY <1>1 DEF Accepts
  <2> QED  BY <1>1, <1>3, <1>4, <1>7, <2>1 DEF OpenJobIsKept, StopsHold
<1>13. RemovedIsStopped'
  BY <1>1 DEF RemovedIsStopped, ActorInv, ActorTypeOK
<1> QED  BY <1>8, <1>9, <1>10, <1>11, <1>12, <1>13

\* A full mailbox has a thread that comes to it: a refused submission starts none.
LEMMA FullMailboxHasThread ==
  ASSUME ActorInv, JobInv, ~unresponsive, mailbox # <<>>
  PROVE  ~NeedsThread
<1>1. mailbox[1] \in Jobs /\ mailbox[1] \in Queued
  BY EmptySeq, LenProperties DEF Queued, ActorInv, ActorTypeOK
<1>2. worker[thread] \in {"looping", "callback"}
  BY <1>1 DEF JobInv, OpenJobIsKept, QueueSound, StopsHold
<1>3. thread \in Workers
  BY DEF JobInv, QueueSound
<1> QED  BY <1>2, <1>3, ActorAssumption DEF NeedsThread, Alive

\* A submission that adds nothing to the mailbox may still have started a thread.
LEMMA JobNotQueued ==
  ASSUME ActorInv, JobInv,
         StartLocked(worker), Accepts, mailbox # <<>> \/ revived' \/ listed,
         UNCHANGED <<mailbox, unresponsive, tick_job, held, answer, ticks, stopper, listed, overruled>>,
         revived => revived'
  PROVE  JobInv'
<1> USE ActorAssumption DEF JobInv
<1>1. CASE ~NeedsThread
  <2>1. UNCHANGED <<worker, thread, closing>>
    BY <1>1 DEF StartLocked
  <2>2. HandsMatch' /\ QueueSound' /\ TicksKnown' /\ StopsHold' /\ OpenJobIsKept'
    BY <2>1 DEF HandsMatch, QueueSound, Distinct, Queued, TicksKnown, StopsHold, OpenJobIsKept
  <2>3. RemovedIsStopped'
    BY <2>1 DEF RemovedIsStopped, Alive
  <2> QED  BY <2>2, <2>3
<1>2. CASE NeedsThread
  <2>1. mailbox = <<>>
    BY <1>2, FullMailboxHasThread DEF Accepts
  <2>2. /\ thread' \in Workers /\ closing' = FALSE
        /\ worker' = [worker EXCEPT ![thread'] = "looping"]
        /\ \A w \in Workers : worker[w] = "none"
    BY <1>2, StartsWhenNeeded DEF ActorInv, ActorTypeOK
  <2>3. \A w \in Workers : worker'[w] \in {"none", "looping"}
    BY <2>2 DEF ActorInv, ActorTypeOK
  <2>4. HandsMatch'
    BY <2>2, <2>3 DEF HandsMatch
  <2>5. QueueSound' /\ TicksKnown'
    BY <2>2 DEF QueueSound, Distinct, Queued, TicksKnown
  <2>6. StopsHold' /\ OpenJobIsKept'
    BY <2>1, <2>2, <2>3 DEF StopsHold, OpenJobIsKept, Queued, QueueSound
  <2>7. RemovedIsStopped'
    BY <2>1 DEF RemovedIsStopped
  <2> QED  BY <2>4, <2>5, <2>6, <2>7
<1> QED  BY <1>1, <1>2

\* Making, queueing, refusing and giving up a job keep every job accounted for.
LEMMA CallerKeepsJobs ==
  ASSUME ActorInv, JobInv, NEW c \in Callers, Caller(c)
  PROVE  JobInv'
<1>1. CASE Pick(c) \/ TimesOut(c) \/ Receive(c)
  BY <1>1, JobFrame DEF Pick, TimesOut, Receive, actorVars, workerVars, jobVars, stopVars
<1>2. CASE SubmitRejected(c)
  <2>1. CASE UNCHANGED <<thread, closing, worker>>
    BY <1>2, <2>1, JobFrame DEF SubmitRejected, jobVars, stopVars
  <2>2. CASE Accepts /\ ~HasRoom /\ StartLocked(worker)
    <3>1. mailbox # <<>>
      BY <2>2, EmptySeq, LenProperties, ActorAssumption DEF HasRoom
    <3> QED  BY <1>2, <2>2, <3>1, JobNotQueued DEF SubmitRejected, jobVars, stopVars
  <2> QED  BY <1>2, <2>1, <2>2 DEF SubmitRejected
<1>3. CASE SubmitCoalesced(c)
  <2>1. revived' \/ listed
    BY <1>3 DEF SubmitCoalesced
  <2> QED  BY <1>3, <2>1, JobNotQueued DEF SubmitCoalesced, jobVars
<1>4. ASSUME NEW j \in Jobs, Submit(c, j) PROVE JobInv'
  BY <1>4, JobQueued
<1>5. CASE Mark(c)
  <2>1. CASE answer[job[c]] # "open"
    BY <1>5, <2>1, JobFrame DEF Mark, stopVars
  <2>2. CASE answer[job[c]] = "open"
    <3>1. job[c] \in Jobs
      BY <1>5 DEF Mark, ActorInv, CallerHasJob
    <3> QED  BY <1>5, <2>2, <3>1, JobsFailed DEF Mark, stopVars
  <2> QED  BY <2>1, <2>2
<1> QED  BY <1>1, <1>2, <1>3, <1>4, <1>5 DEF Caller

\* A thread loses no job between the mailbox and its answer, whichever way its turn goes.
LEMMA WorkerKeepsJobs ==
  ASSUME ActorInv, JobInv, NEW w \in Workers, Worker(w)
  PROVE  JobInv'
<1> USE ActorAssumption DEF JobInv
<1>0. worker[w] # "none" /\ \A v \in Workers : v # w => worker[v] = "none"
  BY DEF ActorInv, OneWorker, Alive, Worker, Loop, CallbackEnds, Ends
<1>1. CASE Loop(w) /\ mailbox = <<>>
  <2>1. /\ worker' \in {[worker EXCEPT ![w] = "ending"], [worker EXCEPT ![w] = "asleep"]}
        /\ worker'[w] = "ending" => closing
        /\ UNCHANGED <<mailbox, held, closing, unresponsive, answer, ticks, tick_job, thread>>
        /\ UNCHANGED stopVars
    BY <1>1 DEF Loop, jobVars, ActorInv, ActorTypeOK
  <2>2. \A v \in Workers : worker'[v] = "callback" <=> worker[v] = "callback"
    BY <1>1, <2>1 DEF Loop, ActorInv, ActorTypeOK
  <2>3. HandsMatch' /\ QueueSound' /\ TicksKnown'
    BY <2>1, <2>2 DEF HandsMatch, QueueSound, Distinct, Queued, TicksKnown
  <2>4. StopsHold'
    BY <1>0, <2>1 DEF StopsHold, stopVars, ActorInv, ActorTypeOK
  <2>5. OpenJobIsKept'
    BY <1>1, <2>1, QueuedEmpty DEF OpenJobIsKept
  <2>6. RemovedIsStopped'
    BY <1>0, <2>1 DEF RemovedIsStopped, Alive, stopVars, ActorInv, ActorTypeOK
  <2> QED  BY <2>3, <2>4, <2>5, <2>6
<1>2. CASE Loop(w) /\ mailbox # <<>>
  <2>1. /\ held' = [held EXCEPT ![w] = Head(mailbox)] /\ mailbox' = Tail(mailbox)
        /\ worker' = [worker EXCEPT ![w] = "callback"] /\ worker[w] = "looping"
        /\ UNCHANGED <<closing, unresponsive, answer, ticks, tick_job, thread>>
        /\ UNCHANGED stopVars
    BY <1>2 DEF Loop, jobVars
  <2>2. Distinct' /\ Head(mailbox) \in Queued /\ Queued' = Queued \ {Head(mailbox)}
    BY <1>2, <2>1, QueuedTail DEF QueueSound, ActorInv, ActorTypeOK
  <2>3. Head(mailbox) \in Jobs /\ answer[Head(mailbox)] = "open"
    BY <1>2, <2>2, HeadTailProperties DEF QueueSound, ActorInv, ActorTypeOK
  <2>4. HandsMatch'
    BY <2>1, <2>3 DEF HandsMatch, ActorInv, ActorTypeOK
  <2>5. QueueSound'
    BY <1>2, <2>1, <2>2 DEF QueueSound, ActorInv, ActorTypeOK
  <2>6. TicksKnown' /\ StopsHold'
    BY <1>2, <2>1 DEF TicksKnown, StopsHold, stopVars, ActorInv, ActorTypeOK
  <2>7. OpenJobIsKept'
    <3>1. thread = w
      BY <1>0 DEF ActorInv, OneWorker, Alive
    <3>2. held'[w] = Head(mailbox) /\ worker'[thread] = "callback"
      BY <2>1, <3>1 DEF ActorInv, ActorTypeOK
    <3>3. \A v \in Workers : v # w => held'[v] = held[v] /\ held[v] = None
      BY <1>0, <2>1 DEF HandsMatch, ActorInv, ActorTypeOK
    <3> QED  BY <2>1, <2>2, <3>2, <3>3 DEF OpenJobIsKept, HandsMatch, stopVars
  <2>8. RemovedIsStopped'
    BY <1>0, <2>1 DEF RemovedIsStopped, Alive, stopVars, ActorInv, ActorTypeOK
  <2> QED  BY <2>4, <2>5, <2>6, <2>7, <2>8
<1>3. CASE CallbackEnds(w)
  <2>1. PICK a \in {"result", "error"} :
          answer' = [answer EXCEPT ![held[w]] = IF @ = "open" THEN a ELSE @]
    BY <1>3 DEF CallbackEnds
  <2>2. /\ worker[w] = "callback" /\ held[w] \in Jobs
        /\ held' = [held EXCEPT ![w] = None]
        /\ worker' = [worker EXCEPT ![w] = IF unresponsive THEN "ending" ELSE "looping"]
        /\ tick_job' = IF tick_job = held[w] THEN None ELSE tick_job
        /\ UNCHANGED <<mailbox, closing, unresponsive, thread, ticks>>
        /\ UNCHANGED stopVars
    BY <1>3 DEF CallbackEnds, HandsMatch, ActorInv, ActorTypeOK
  <2>3. \A j \in Jobs : /\ j = held[w] => answer'[j] \in {"result", "error"}
                        /\ j # held[w] => answer'[j] = answer[j]
    BY <2>1, <2>2 DEF HandsMatch, ActorInv, ActorTypeOK, Answers
  <2>4. HandsMatch'
    BY <2>2, <2>3 DEF HandsMatch, ActorInv, ActorTypeOK
  <2>5. QueueSound'
    BY <2>2, <2>3 DEF QueueSound, Distinct, Queued, ActorInv, ActorTypeOK
  <2>6. TicksKnown'
    BY <2>2, <2>3 DEF TicksKnown, ActorInv, ActorTypeOK
  <2>7. StopsHold'
    BY <1>0, <2>2 DEF StopsHold, stopVars, ActorInv, ActorTypeOK
  <2>8. OpenJobIsKept'
    <3>1. thread = w
      BY <1>0 DEF ActorInv, OneWorker, Alive
    <3>2. worker'[thread] = IF unresponsive THEN "ending" ELSE "looping"
      BY <2>2, <3>1 DEF ActorInv, ActorTypeOK
    <3>3. \A v \in Workers : v # w => held'[v] = held[v]
      BY <2>2 DEF ActorInv, ActorTypeOK
    <3> QED  BY <2>2, <2>3, <3>2, <3>3 DEF OpenJobIsKept, Queued, stopVars
  <2>9. RemovedIsStopped'
    BY <1>0, <2>2 DEF RemovedIsStopped, Alive, stopVars, ActorInv, ActorTypeOK
  <2> QED  BY <2>4, <2>5, <2>6, <2>7, <2>8, <2>9
<1>4. CASE Ends(w)
  <2>1. /\ worker[w] = "ending" /\ worker' = [worker EXCEPT ![w] = "none"]
        /\ UNCHANGED <<mailbox, closing, unresponsive, tick_job, thread, held, answer, ticks>>
        /\ UNCHANGED stopVars
    BY <1>4 DEF Ends, actorVars, jobVars
  <2>2. HandsMatch' /\ StopsHold'
    BY <2>1 DEF HandsMatch, StopsHold, stopVars, ActorInv, ActorTypeOK
  <2>3. QueueSound' /\ TicksKnown'
    BY <2>1 DEF QueueSound, Distinct, Queued, TicksKnown
  <2>4. OpenJobIsKept'
    BY <1>0, <2>1 DEF OpenJobIsKept, Queued, stopVars, ActorInv, ActorTypeOK
  <2>5. RemovedIsStopped'
    BY <2>1 DEF RemovedIsStopped, Alive, stopVars, ActorInv, ActorTypeOK
  <2> QED  BY <2>2, <2>3, <2>4, <2>5
<1> QED  BY <1>1, <1>2, <1>3, <1>4 DEF Worker

\* A stop fails what is queued and wakes the thread, and a late one leaves nothing queued for good.
LEMMA StopperKeepsJobs ==
  ASSUME ActorInv, JobInv, NEW s \in Stoppers, Stopper(s)
  PROVE  JobInv'
<1>1. CASE CallStop(s) \/ Join(s)
  BY <1>1, JobFrame DEF CallStop, Join, actorVars, workerVars, jobVars, ActorInv, ActorTypeOK
<1>2. CASE Remove(s)
  <2>1. HandsMatch' /\ QueueSound' /\ TicksKnown' /\ StopsHold' /\ OpenJobIsKept'
    BY <1>2 DEF Remove, JobInv, HandsMatch, QueueSound, Distinct, Queued, TicksKnown, StopsHold,
                OpenJobIsKept, actorVars, workerVars, jobVars
  <2>2. RemovedIsStopped'
    BY <1>2 DEF Remove, RemovedIsStopped, ActorInv, ActorTypeOK
  <2> QED  BY <2>1, <2>2 DEF JobInv
<1>3. CASE Stop(s)
  <2>1. FailJobs(Queued \cup {})
    BY <1>3 DEF Stop, FailJobs
  <2> QED  BY <1>3, <2>1, JobsFailed DEF Stop, ActorInv, ActorTypeOK
<1>4. CASE GiveUp(s)
  <2>1. /\ unresponsive' = TRUE /\ overruled' = (overruled \/ (Alive(thread) /\ ~closing))
        /\ stopper' = [stopper EXCEPT ![s] = "idle"] /\ stopper[s] = "late"
        /\ UNCHANGED <<mailbox, closing, tick_job, thread, worker, held, answer, ticks, listed, revived>>
    BY <1>4 DEF GiveUp, workerVars, jobVars
  <2>2. HandsMatch' /\ QueueSound' /\ TicksKnown' /\ StopsHold'
    BY <2>1 DEF JobInv, HandsMatch, QueueSound, Distinct, Queued, TicksKnown, StopsHold
  <2>3. OpenJobIsKept'
    <3>1. ASSUME NEW j \in Queued, ~overruled
          PROVE  overruled'
      <4>1. mailbox # <<>>
        BY <3>1, QueuedEmpty
      <4>2. j \in Jobs
        BY <3>1 DEF Queued, ActorInv, ActorTypeOK
      <4>3. ~unresponsive
        BY <3>1, <4>2 DEF JobInv, QueueSound, OpenJobIsKept
      <4> QED  BY <2>1, <4>1, <4>3, FullMailboxHasThread DEF JobInv, StopsHold, NeedsThread
    <3> QED  BY <2>1, <3>1 DEF JobInv, OpenJobIsKept, Queued
  <2>4. RemovedIsStopped'
    BY <2>1 DEF JobInv, RemovedIsStopped, Alive, ActorInv, ActorTypeOK
  <2> QED  BY <2>2, <2>3, <2>4 DEF JobInv
<1> QED  BY <1>1, <1>2, <1>3, <1>4 DEF Stopper

\* An NPC that is added again and a job nobody refers to any more disturb none of this.
LEMMA OthersKeepJobs ==
  ASSUME ActorInv, JobInv, AddAgain \/ \E j \in Jobs : Drop(j)
  PROVE  JobInv'
<1>1. CASE AddAgain
  BY <1>1, JobFrame DEF AddAgain, actorVars, workerVars, jobVars
<1>2. ASSUME NEW j \in Jobs, Drop(j) PROVE JobInv'
  <2>1. /\ answer[j] \in {"result", "error"} /\ answer' = [answer EXCEPT ![j] = "unused"]
        /\ ticks' = ticks \ {j} /\ \A w \in Workers : held[w] # j
        /\ UNCHANGED <<mailbox, closing, unresponsive, tick_job, thread, worker, held>>
        /\ UNCHANGED stopVars
    BY <1>2 DEF Drop, actorVars, workerVars
  <2>2. HandsMatch' /\ TicksKnown' /\ StopsHold'
    BY <2>1 DEF JobInv, HandsMatch, TicksKnown, StopsHold, stopVars, ActorInv, ActorTypeOK
  <2>3. QueueSound'
    BY <2>1 DEF JobInv, QueueSound, Distinct, Queued, ActorInv, ActorTypeOK
  <2>4. OpenJobIsKept'
    BY <2>1 DEF JobInv, OpenJobIsKept, Queued, stopVars, ActorInv, ActorTypeOK
  <2>5. RemovedIsStopped'
    BY <2>1 DEF JobInv, RemovedIsStopped, Alive, stopVars
  <2> QED  BY <2>2, <2>3, <2>4, <2>5 DEF JobInv
<1> QED  BY <1>1, <1>2

\* Nothing is lost while nothing happens.
LEMMA StutterKeepsJobs ==
  ASSUME JobInv, UNCHANGED vars
  PROVE  JobInv'
BY JobFrame DEF vars, actorVars, workerVars, jobVars, callerVars, stopVars

\* The inductive invariant of the jobs, on top of the threads'.
THEOREM JobInvariant == Spec => [](ActorInv /\ JobInv)
<1>1. Init => JobInv
  BY JobInitial
<1>2. ActorInv /\ JobInv /\ [Next]_vars => JobInv'
  BY CallerKeepsJobs, WorkerKeepsJobs, StopperKeepsJobs, OthersKeepJobs, StutterKeepsJobs DEF Next
<1> QED  BY <1>1, <1>2, ActorInvariant, PTL DEF Spec

\* Of the ticks only the one tick_job names is open: there is never a second.
LEMMA OpenTickIsOne ==
  ASSUME ActorInv, JobInv
  PROVE  TicksCoalesce
<1> DEFINE open == {j \in ticks : answer[j] = "open"}
<1>1. open \subseteq {tick_job}
  BY DEF JobInv, TicksKnown, ActorInv, ActorTypeOK
<1>2. open = {} \/ open = {tick_job}
  BY <1>1
<1>3. Cardinality(open) <= 1
  <2>1. Cardinality({}) = 0 /\ Cardinality({tick_job}) = 1
    BY FS_EmptySet, FS_Singleton
  <2>2. 0 <= 1 /\ 1 <= 1
    OBVIOUS
  <2> QED  BY <1>2, <2>1, <2>2
<1> QED  BY <1>3 DEF TicksCoalesce

\* No stop, restart or time-out leaves an unanswered job with nobody to come to it, a second
\* open tick, or the actor of a removed NPC at work.
THEOREM NothingLeftBehind == Spec => []NothingIsLeftBehind
<1>1. ActorInv /\ JobInv => NothingIsLeftBehind
  BY OpenTickIsOne DEF JobInv, NothingIsLeftBehind
<1> QED  BY <1>1, JobInvariant, PTL

-------------------------------------------------------------------------------
(* The actor implements the board of callbacks. *)

\* What the board calls running
Running == {held[w] : w \in Workers} \ {None}

\* A new actor is an empty board.
LEMMA BoardInitial ==
  ASSUME Init
  PROVE  Board!BoardInit
BY DEF Init, Board!BoardInit

\* Answers given up are the board's GiveUp, of those that were open.
LEMMA FailIsGiveUp ==
  ASSUME ActorInv, NEW J \in SUBSET Jobs, FailJobs(J), UNCHANGED <<held, performed>>
  PROVE  [Board!BoardNext]_Board!boardVars
<1> DEFINE S == {j \in J : answer[j] = "open"}
<1>1. answer' = [j \in Jobs |-> IF j \in S THEN "error" ELSE answer[j]]
  BY DEF FailJobs
<1>2. CASE S = {}
  BY <1>1, <1>2 DEF Board!boardVars, ActorInv, ActorTypeOK
<1>3. CASE S # {}
  BY <1>1, <1>3 DEF Board!BoardNext, Board!GiveUp
<1> QED  BY <1>2, <1>3

\* What callers do to their jobs, they do to the callbacks on the board.
LEMMA CallerImplements ==
  ASSUME ActorInv, JobInv, NEW c \in Callers, Caller(c)
  PROVE  [Board!BoardNext]_Board!boardVars
<1>1. CASE UNCHANGED <<answer, held, performed>>
  BY <1>1 DEF Board!boardVars
<1>2. ASSUME NEW j \in Jobs, Submit(c, j) PROVE Board!Offer(j)
  BY <1>2 DEF Submit, Board!Offer
<1>3. CASE Mark(c) /\ answer[job[c]] = "open"
  <2>1. Queued \cup {job[c]} \in SUBSET Jobs
    BY <1>3 DEF Mark, ActorInv, CallerHasJob, ActorTypeOK, Queued
  <2> QED  BY <1>3, <2>1, FailIsGiveUp DEF Mark
<1>4. CASE Receive(c) /\ answer[job[c]] = "result" /\ job[c] \notin performed
  <2>1. job[c] \in Jobs /\ Board!Perform(job[c])
    BY <1>4 DEF Receive, workerVars, ActorInv, CallerHasJob, Board!Perform
  <2> QED  BY <2>1 DEF Board!BoardNext
<1> QED  BY <1>1, <1>2, <1>3, <1>4
         DEF Caller, Pick, SubmitRejected, SubmitCoalesced, TimesOut, Mark, Receive, Board!BoardNext,
             jobVars, workerVars

\* A thread that takes a job or ends its callback does so on the board.
LEMMA WorkerImplements ==
  ASSUME ActorInv, JobInv, NEW w \in Workers, Worker(w)
  PROVE  [Board!BoardNext]_Board!boardVars
<1> USE ActorAssumption
<1>1. \A v \in Workers : v # w => held[v] = None
  BY DEF ActorInv, OneWorker, Alive, Worker, Loop, CallbackEnds, Ends, JobInv, HandsMatch
<1>2. CASE UNCHANGED <<answer, held, performed>>
  BY <1>2 DEF Board!boardVars
<1>3. CASE Loop(w) /\ mailbox # <<>>
  <2>1. /\ worker[w] = "looping" /\ held' = [held EXCEPT ![w] = Head(mailbox)]
        /\ UNCHANGED <<answer, performed>>
    BY <1>3 DEF Loop, jobVars
  <2>2. PICK j \in Jobs : j = Head(mailbox) /\ j \in Queued
    BY <1>3, QueuedTail, HeadTailProperties, EmptySeq, LenProperties
    DEF Queued, ActorInv, ActorTypeOK
  <2>3. Running = {} /\ Running' = {j}
    BY <1>1, <2>1, <2>2 DEF Running, JobInv, HandsMatch, ActorInv, ActorTypeOK
  <2>4. Board!Begin(j)
    BY <2>1, <2>2, <2>3 DEF Board!Begin, Running, JobInv, QueueSound
  <2> QED  BY <2>4 DEF Board!BoardNext
<1>4. CASE CallbackEnds(w)
  <2>1. PICK a \in {"result", "error"} :
          answer' = [answer EXCEPT ![held[w]] = IF @ = "open" THEN a ELSE @]
    BY <1>4 DEF CallbackEnds
  <2>2. /\ held[w] \in Jobs /\ held' = [held EXCEPT ![w] = None]
        /\ UNCHANGED performed
    BY <1>4 DEF CallbackEnds, JobInv, HandsMatch, ActorInv, ActorTypeOK
  <2>3. held[w] \in Running /\ Running' = Running \ {held[w]}
    BY <1>1, <2>2 DEF Running, ActorInv, ActorTypeOK
  <2>4. Board!End(held[w], a)
    BY <2>1, <2>2, <2>3 DEF Board!End, Running
  <2> QED  BY <2>2, <2>4 DEF Board!BoardNext
<1> QED  BY <1>2, <1>3, <1>4 DEF Worker, Loop, Ends, jobVars

\* Stopping fails callbacks that have not begun, or shows nothing.
LEMMA StopperImplements ==
  ASSUME ActorInv, NEW s \in Stoppers, Stopper(s)
  PROVE  [Board!BoardNext]_Board!boardVars
<1>1. CASE Stop(s)
  <2>1. Queued \in SUBSET Jobs
    BY DEF ActorInv, ActorTypeOK, Queued
  <2> QED  BY <1>1, <2>1, FailIsGiveUp DEF Stop
<1>2. CASE UNCHANGED <<answer, held, performed>>
  BY <1>2 DEF Board!boardVars
<1> QED  BY <1>1, <1>2 DEF Stopper, Remove, CallStop, Join, GiveUp, workerVars, jobVars

\* A dropped job leaves the board, and an NPC that is added again shows nothing there.
LEMMA OthersImplement ==
  ASSUME ActorInv, AddAgain \/ \E j \in Jobs : Drop(j)
  PROVE  [Board!BoardNext]_Board!boardVars
<1>1. CASE AddAgain
  BY <1>1 DEF AddAgain, workerVars, jobVars, Board!boardVars
<1>2. ASSUME NEW j \in Jobs, Drop(j) PROVE Board!Forget(j)
  BY <1>2 DEF Drop, workerVars, Board!Forget
<1> QED  BY <1>1, <1>2 DEF Board!BoardNext

\* Callbacks run one at a time and only for jobs without an answer, every job keeps the one
\* answer it gets, and its actions are performed once: the actor, its callers, stoppers and
\* time-outs implement CallbackBoard.
THEOREM ActorImplementsBoard == Spec => ImplementsBoard
<1>1. Init => Board!BoardInit
  BY BoardInitial
<1>2. ActorInv /\ JobInv /\ [Next]_vars => [Board!BoardNext]_Board!boardVars
  <2>1. ActorInv /\ JobInv /\ UNCHANGED vars => UNCHANGED Board!boardVars
    BY DEF vars, workerVars, jobVars, Board!boardVars
  <2> QED  BY <2>1, CallerImplements, WorkerImplements, StopperImplements, OthersImplement DEF Next
<1> QED  BY <1>1, <1>2, JobInvariant, PTL DEF Spec, ImplementsBoard, Board!BoardSpec
===============================================================================
