--------------------------- MODULE PersistenceWriter ---------------------------
(***************************************************************************)
(* class PersistenceWriter of persistence_runtime.py: any number of        *)
(* threads submit encoded snapshots, one daemon thread writes them to the  *)
(* database, and the main thread flushes and shuts the writer down.        *)
(*                                                                         *)
(* Each action is one critical section of the condition's lock or one      *)
(* unlocked step of the writer thread.  The thread sleeps in               *)
(* condition.wait() and only notify_all() wakes it, so a forgotten         *)
(* notification is a hang here as it is in the program.                    *)
(*                                                                         *)
(* Left out: completed_writes, failed_writes and last_error, which only    *)
(* status_snapshot() reads, and the argument checks of the constructor     *)
(* and of submit().                                                        *)
(***************************************************************************)
EXTENDS Naturals, Sequences, FiniteSets

CONSTANTS
  Keys,            \* lower-cased user names (or "village", NPC identifiers)
  States,          \* encoded snapshots
  Receipts,        \* SaveReceipt identities; one is reused once nobody can see it
  InitialState,    \* what every row holds before the first write
  NoKey,           \* stands for the writer thread's username while it has no job
  PendingKeyLimit  \* pending_key_limit

ASSUME WriterAssumption ==
  /\ NoKey \notin Keys
  /\ InitialState \in States
  /\ PendingKeyLimit \in Nat \ {0}

VARIABLES
  started,    \* self.started
  closing,    \* self.closing
  order,      \* keys of self.pending, in the order of the OrderedDict
  saveOf,     \* values of self.pending; EmptySave for a key that is not pending
  in_flight,  \* self.in_flight
  pc,         \* where the writer thread is
  job,        \* its locals username and pending_save
  success,    \* its local success
  receipt,    \* receipt[r]: what the SaveReceipt r says
  durable,    \* durable[k]: the database row
  main,       \* what the main thread does with the writer
  accepted,   \* history: accepted[k] is the last snapshot submit() took for k
  lost        \* history: lost[k] says that the last write of k raised

callVars  == <<started, closing>>
queueVars == <<order, saveOf>>
threadVars == <<in_flight, pc, job, success>>
histVars == <<accepted, lost>>
vars == <<callVars, queueVars, threadVars, receipt, durable, main, histVars>>

Completion  == [receipt : Receipts, encoded_state : States]
PendingSave == [encoded_state : States, completions : Seq(Completion)]
EmptySave   == [encoded_state |-> InitialState, completions |-> <<>>]

\* The thread's locals while it has no job: Python keeps dead values there.
NoJob == [key |-> NoKey, save |-> EmptySave]

ThreadPc == {"unborn", "loop", "asleep", "saving", "finish", "answer", "callback", "exited"}
MainPc   == {"idle", "flush_loop", "flush_asleep", "flushed", "flush_timeout",
             "joining", "joined", "join_timeout"}
Returned == {"idle", "flushed", "flush_timeout", "joined", "join_timeout"}

Pending(k) == saveOf[k].completions # <<>>

\* Receipts that some list of completions still names.
InList(r, list) == \E i \in DOMAIN list : list[i].receipt = r
Held(r) == \/ \E k \in Keys : InList(r, saveOf[k].completions)
           \/ InList(r, job.save.completions)

\* notify_all() sends the sleepers back to test their condition.
Awake(p) == IF p = "asleep" THEN "loop" ELSE p
MainAwake(p) == IF p = "flush_asleep" THEN "flush_loop" ELSE p

InitWith(is_started, at) ==
  /\ started = is_started
  /\ pc = at
  /\ closing = FALSE
  /\ order = <<>>
  /\ saveOf = [k \in Keys |-> EmptySave]
  /\ in_flight = FALSE
  /\ job = NoJob
  /\ success = FALSE
  /\ receipt = [r \in Receipts |-> "unused"]
  /\ durable = [k \in Keys |-> InitialState]
  /\ main = "idle"
  /\ accepted = durable
  /\ lost = [k \in Keys |-> FALSE]

Init == InitWith(FALSE, "unborn")

\* The writer as main() hands it to the sessions.
Ready == InitWith(TRUE, "loop")

-------------------------------------------------------------------------------
(* Callers *)

\* start() of a writer that is closing raises and changes nothing.
Start ==
  /\ ~started
  /\ ~closing
  /\ started' = TRUE
  /\ pc' = "loop"
  /\ UNCHANGED <<closing, queueVars, in_flight, job, success, receipt, durable, main, histVars>>

\* Fault: the limit is tested after one key too many.
AtLimitOffByOne == Len(order) > PendingKeyLimit

AtLimit == Len(order) >= PendingKeyLimit

\* submit() answers a refused request at once, in the caller's thread.
Reject(k, r) ==
  /\ receipt[r] = "unused"
  /\ \/ ~started
     \/ closing
     \/ ~Pending(k) /\ AtLimit
  /\ receipt' = [receipt EXCEPT ![r] = "failed"]
  /\ UNCHANGED <<callVars, queueVars, threadVars, durable, main, histVars>>

\* Fault: the sleeping thread is not notified.
SubmitSilently(k, s) ==
  /\ started
  /\ ~closing
  /\ accepted' = [accepted EXCEPT ![k] = s]
  /\ UNCHANGED <<callVars, in_flight, pc, job, success, durable, main, lost>>

\* The part every accepted submit() shares.
AcceptedSubmit(k, s) ==
  /\ started
  /\ ~closing
  /\ accepted' = [accepted EXCEPT ![k] = s]
  /\ pc' = Awake(pc)
  /\ main' = MainAwake(main)
  /\ UNCHANGED <<callVars, in_flight, job, success, durable, lost>>

\* A key that was not pending joins the end of the queue.
Enqueue(k, s, r) ==
  /\ ~Pending(k)
  /\ ~AtLimit
  /\ receipt[r] = "unused"
  /\ AcceptedSubmit(k, s)
  /\ order' = Append(order, k)
  /\ saveOf' = [saveOf EXCEPT ![k] =
       [encoded_state |-> s, completions |-> <<[receipt |-> r, encoded_state |-> s]>>]]
  /\ receipt' = [receipt EXCEPT ![r] = "open"]

\* pending.move_to_end(k)
MoveToEnd(k) ==
  LET n == Len(order)
      at == CHOOSE i \in 1..n : order[i] = k
  IN [i \in 1..n |-> IF i = n THEN k ELSE IF i < at THEN order[i] ELSE order[i + 1]]

\* Fault: the entry is replaced, and with it the older waiters.
CoalesceDropsWaiters(k, s, r) ==
  /\ Pending(k)
  /\ receipt[r] = "unused"
  /\ AcceptedSubmit(k, s)
  /\ order' = MoveToEnd(k)
  /\ saveOf' = [saveOf EXCEPT ![k] =
       [encoded_state |-> s, completions |-> <<[receipt |-> r, encoded_state |-> s]>>]]
  /\ receipt' = [receipt EXCEPT ![r] = "open"]

\* Fault: the waiter is added and the older snapshot kept.
CoalesceKeepsSnapshot(k, s, r) ==
  /\ Pending(k)
  /\ receipt[r] = "unused"
  /\ AcceptedSubmit(k, s)
  /\ order' = MoveToEnd(k)
  /\ saveOf' = [saveOf EXCEPT ![k].completions =
       Append(@, [receipt |-> r, encoded_state |-> s])]
  /\ receipt' = [receipt EXCEPT ![r] = "open"]

\* A pending key takes the new snapshot and goes to the end of the queue.
Coalesce(k, s, r) ==
  /\ Pending(k)
  /\ receipt[r] = "unused"
  /\ AcceptedSubmit(k, s)
  /\ order' = MoveToEnd(k)
  /\ saveOf' = [saveOf EXCEPT ![k] =
       [encoded_state |-> s,
        completions |-> Append(@.completions, [receipt |-> r, encoded_state |-> s])]]
  /\ receipt' = [receipt EXCEPT ![r] = "open"]

\* The same submit() by a caller that drops its older receipt for the new one, as
\* Session.last_save_receipt is overwritten.  The older entry can no longer be seen by
\* anyone, so the two entries share one identity: this lets callers resubmit for ever
\* with finitely many receipts.
CoalesceAgain(k, s, r) ==
  LET n == Len(saveOf[k].completions) IN
  /\ n > 0
  /\ saveOf[k].completions[n].receipt = r
  /\ AcceptedSubmit(k, s)
  /\ order' = MoveToEnd(k)
  /\ saveOf' = [saveOf EXCEPT ![k] =
       [encoded_state |-> s,
        completions |-> [@.completions EXCEPT ![n] = [receipt |-> r, encoded_state |-> s]]]]
  /\ UNCHANGED receipt

Accepts(k) == \E s \in States, r \in Receipts :
  Enqueue(k, s, r) \/ Coalesce(k, s, r) \/ CoalesceAgain(k, s, r)

\* The caller drops an answered receipt.
Forget(r) ==
  /\ receipt[r] \in {"saved", "failed"}
  /\ ~Held(r)
  /\ receipt' = [receipt EXCEPT ![r] = "unused"]
  /\ UNCHANGED <<callVars, queueVars, threadVars, durable, main, histVars>>

-------------------------------------------------------------------------------
(* _run(), the writer thread *)

Sleep ==
  /\ pc = "loop"
  /\ order = <<>>
  /\ ~closing
  /\ pc' = "asleep"
  /\ UNCHANGED <<callVars, queueVars, in_flight, job, success, receipt, durable, main, histVars>>

\* Fault: the thread leaves as soon as it sees closing.
ExitAtOnce ==
  /\ pc = "loop"
  /\ closing
  /\ pc' = "exited"
  /\ main' = MainAwake(main)
  /\ UNCHANGED <<callVars, queueVars, in_flight, job, success, receipt, durable, histVars>>

Exit ==
  /\ pc = "loop"
  /\ order = <<>>
  /\ closing
  /\ pc' = "exited"
  /\ main' = MainAwake(main)
  /\ UNCHANGED <<callVars, queueVars, in_flight, job, success, receipt, durable, histVars>>

\* pending.popitem(last=False)
Take ==
  /\ pc = "loop"
  /\ order # <<>>
  /\ job' = [key |-> Head(order), save |-> saveOf[Head(order)]]
  /\ order' = Tail(order)
  /\ saveOf' = [saveOf EXCEPT ![Head(order)] = EmptySave]
  /\ in_flight' = TRUE
  /\ pc' = "saving"
  /\ UNCHANGED <<callVars, success, receipt, durable, main, histVars>>

\* save_function() outside the lock, returning or raising.  The row changes only in the
\* commit that is its last statement, so a call that raises has left the row alone.
Write ==
  /\ pc = "saving"
  /\ pc' = "finish"
  /\ \/ /\ success' = TRUE
        /\ durable' = [durable EXCEPT ![job.key] = job.save.encoded_state]
     \/ /\ success' = FALSE
        /\ UNCHANGED durable
  /\ lost' = [lost EXCEPT ![job.key] = ~success']
  /\ UNCHANGED <<callVars, queueVars, in_flight, job, receipt, main, accepted>>

Finish ==
  /\ pc = "finish"
  /\ in_flight' = FALSE
  /\ pc' = "answer"
  /\ main' = MainAwake(main)
  /\ UNCHANGED <<callVars, queueVars, job, success, receipt, durable, histVars>>

\* Fault: the error is not passed on.
AnswerSaved ==
  /\ pc = "answer"
  /\ job.save.completions # <<>>
  /\ receipt' = [receipt EXCEPT ![Head(job.save.completions).receipt] = "saved"]
  /\ pc' = "callback"
  /\ UNCHANGED <<callVars, queueVars, in_flight, job, success, durable, main, histVars>>

\* receipt.complete(success, error), for the oldest request left
Answer ==
  /\ pc = "answer"
  /\ job.save.completions # <<>>
  /\ receipt' = [receipt EXCEPT ![Head(job.save.completions).receipt] =
                   IF success THEN "saved" ELSE "failed"]
  /\ pc' = "callback"
  /\ UNCHANGED <<callVars, queueVars, in_flight, job, success, durable, main, histVars>>

\* completion(success, error, requested_state), which runs code of the caller
Callback ==
  /\ pc = "callback"
  /\ job' = [job EXCEPT !.save.completions = Tail(@)]
  /\ pc' = "answer"
  /\ UNCHANGED <<callVars, queueVars, in_flight, success, receipt, durable, main, histVars>>

Answered ==
  /\ pc = "answer"
  /\ job.save.completions = <<>>
  /\ pc' = "loop"
  /\ job' = NoJob
  /\ success' = FALSE
  /\ UNCHANGED <<callVars, queueVars, in_flight, receipt, durable, main, histVars>>

Run == Sleep \/ Exit \/ Take \/ Write \/ Finish \/ Answer \/ Callback \/ Answered

-------------------------------------------------------------------------------
(* flush() and shutdown(), called by the main thread *)

FlushCall ==
  /\ main \in Returned
  /\ main' = "flush_loop"
  /\ UNCHANGED <<callVars, queueVars, threadVars, receipt, durable, histVars>>

\* Fault: the job in the thread's hands is forgotten.
QueueEmpty == order = <<>>

NothingLeft == order = <<>> /\ ~in_flight

\* One turn of flush()'s loop: done, out of time, or asleep.
FlushTest ==
  /\ main = "flush_loop"
  /\ IF NothingLeft THEN main' = "flushed"
                    ELSE main' \in {"flush_timeout", "flush_asleep"}
  /\ UNCHANGED <<callVars, queueVars, threadVars, receipt, durable, histVars>>

\* condition.wait(remaining) returns unnotified.
FlushExpires ==
  /\ main = "flush_asleep"
  /\ main' = "flush_loop"
  /\ UNCHANGED <<callVars, queueVars, threadVars, receipt, durable, histVars>>

\* Fault: closing is set without a notification.
ShutdownSilently ==
  /\ main \in Returned
  /\ closing' = TRUE
  /\ main' = IF started THEN "joining" ELSE "joined"
  /\ UNCHANGED <<started, queueVars, threadVars, receipt, durable, histVars>>

ShutdownCall ==
  /\ main \in Returned
  /\ closing' = TRUE
  /\ pc' = IF closing THEN pc ELSE Awake(pc)
  /\ main' = IF started THEN "joining" ELSE "joined"
  /\ UNCHANGED <<started, queueVars, in_flight, job, success, receipt, durable, histVars>>

Join ==
  /\ main = "joining"
  /\ \/ pc = "exited" /\ main' = "joined"
     \/ pc # "exited" /\ main' = "join_timeout"
  /\ UNCHANGED <<callVars, queueVars, threadVars, receipt, durable, histVars>>

-------------------------------------------------------------------------------

Submit == \/ \E k \in Keys : Accepts(k)
          \/ \E k \in Keys, r \in Receipts : Reject(k, r)

Main == FlushCall \/ FlushTest \/ FlushExpires \/ ShutdownCall \/ Join

Next == Start \/ Submit \/ (\E r \in Receipts : Forget(r)) \/ Run \/ Main

\* The writer is a thread of its own that never waits for anything but the condition
\* and the database; nothing else is assumed to run.
Spec == Init /\ [][Next]_vars /\ WF_vars(Run)

-------------------------------------------------------------------------------
(* Properties *)

\* The two halves of the OrderedDict agree: `order` lists exactly the keys that have a
\* pending save, once each.
QueueCoherent ==
  /\ \A i, j \in 1..Len(order) : order[i] = order[j] => i = j
  /\ \A k \in Keys : Pending(k) <=> \E i \in 1..Len(order) : order[i] = k

\* Shapes, the bound pending_key_limit on the queue, and the OrderedDict's coherence
\* through every move_to_end and popitem.
TypeOK ==
  /\ started \in BOOLEAN /\ closing \in BOOLEAN /\ in_flight \in BOOLEAN
  /\ success \in BOOLEAN
  /\ order \in Seq(Keys)
  /\ Len(order) <= PendingKeyLimit
  /\ saveOf \in [Keys -> PendingSave]
  /\ pc \in ThreadPc
  /\ main \in MainPc
  /\ job \in [key : Keys \cup {NoKey}, save : PendingSave]
  /\ pc = "saving" => job.key \in Keys
  /\ pc = "callback" => job.save.completions # <<>>
  /\ receipt \in [Receipts -> {"unused", "open", "saved", "failed"}]
  /\ durable \in [Keys -> States]
  /\ accepted \in [Keys -> States]
  /\ lost \in [Keys -> BOOLEAN]
  /\ QueueCoherent

\* An unanswered receipt is named by some list of completions, so the thread will come to
\* it: coalescing, taking a job and closing never drop a waiter.
OpenReceiptIsHeld ==
  \A r \in Receipts : receipt[r] = "open" => Held(r)

\* When nothing of a key is pending or being written, its row is the last snapshot that
\* submit() accepted, or the write of that snapshot has raised: a coalesced queue neither
\* drops the newest snapshot nor lets an older one overwrite it.
Settled(k) == durable[k] = accepted[k] \/ lost[k]
Busy(k) == Pending(k) \/ (pc = "saving" /\ job.key = k)
QuietKeyIsSettled == \A k \in Keys : Busy(k) \/ Settled(k)

\* flush() returns True only when every snapshot accepted before it returned has been
\* written or has failed: it does not miss the one in the writer's hands.
FlushedIsSettled ==
  [][main' = "flushed" /\ main # "flushed" => \A k \in Keys : Settled(k)]_vars

\* shutdown() returns True only when no caller is left waiting on a receipt and no
\* accepted snapshot is unwritten: the thread drains its queue before it exits.
JoinedIsDrained ==
  main = "joined" => /\ \A r \in Receipts : receipt[r] # "open"
                     /\ \A k \in Keys : Settled(k)

\* What flush() and shutdown() report is true.
ReportsAreTrue == FlushedIsSettled /\ []JoinedIsDrained

\* A key that callers leave alone ends settled, however busily other keys are submitted.
\* (A key resubmitted for ever may starve: every resubmission moves it to the end.)
LeftAloneIsSettled ==
  \A k \in Keys : []<><<Accepts(k)>>_vars \/ <>[]Settled(k)

\* Once shutdown() has been called on a started writer, its thread exits.
ClosingEnds == (closing /\ started) ~> pc = "exited"

-------------------------------------------------------------------------------
(* The writer implements WriteBehindStore *)

InHand(k) == IF pc = "saving" /\ job.key = k THEN job.save.completions ELSE <<>>

\* A receipt the thread has not come to yet has the verdict of the finished write.
Verdict(r) ==
  IF pc \in {"finish", "answer", "callback"} /\ InList(r, job.save.completions)
  THEN IF success THEN "saved" ELSE "failed"
  ELSE receipt[r]

Store == INSTANCE WriteBehindStore WITH
  backlog <- [k \in Keys |-> InHand(k) \o saveOf[k].completions],
  verdict <- [r \in Receipts |-> Verdict(r)]

\* Every step of the writer is a step of the abstract store or invisible there.
ImplementsStore == Store!StoreSpec
===============================================================================
