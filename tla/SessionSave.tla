------------------------------ MODULE SessionSave ------------------------------
(***************************************************************************)
(* One logged-in character and the persistence writer: the dirty-only      *)
(* saving of class Session in blingmud.py (save_if_changed,                *)
(* _save_completed, disconnect), called by several threads at once:        *)
(*   - the selector thread, every autosave interval (never waits);         *)
(*   - gameplay threads of administrators (/save waits, /save all does     *)
(*     not);                                                               *)
(*   - the character's own gameplay thread (/save, and the final save of   *)
(*     disconnect, which wait).                                            *)
(*                                                                         *)
(* save_if_changed serializes under state_lock, RELEASES it, and compares  *)
(* and submits under save_lock: the two critical sections are two actions. *)
(* The module extends PersistenceWriter, whose actions the session's steps *)
(* take; the writer's step Callback runs Session._save_completed.  Other   *)
(* keys of the writer belong to other sessions, seen here only through the *)
(* queue they fill.                                                        *)
(*                                                                         *)
(* Left out: the branch without a writer (only the blocking compatibility  *)
(* mode of the tests runs it) and last_save_error, which is only reported. *)
(***************************************************************************)
EXTENDS PersistenceWriter

CONSTANTS
  User,        \* the key of this character
  Own,         \* its gameplay thread
  Autosavers,  \* threads that call save_if_changed(wait=False)
  Admins,      \* threads that call it with wait True or False
  NoReceipt,   \* last_save_receipt is None
  NoState      \* persisted_state_json is None, until set_persisted_state

Savers == {Own} \cup Autosavers \cup Admins

ASSUME SessionAssumption ==
  /\ User \in Keys
  /\ NoReceipt \notin Receipts
  /\ NoState \notin States
  /\ Own \notin Autosavers \cup Admins

VARIABLES
  phase,       \* where the own thread is in the life of the session
  running,     \* self.running
  player,      \* the snapshot serialize_player_state would give now
  persisted,   \* self.persisted_state_json
  submitted,   \* self.last_submitted_state_json
  last_receipt,\* self.last_save_receipt
  saver,       \* saver[t]: the locals of thread t inside save_if_changed
  result,      \* what the final save_if_changed of disconnect returned
  since,       \* history: states the character has had since the final serialization
  overtaken,   \* history: another thread held an older snapshot at that moment
  muddled,     \* history: the bookkeeping was rolled back past an outstanding request
  early        \* history: somebody saved the session before set_persisted_state

bookVars == <<persisted, submitted, last_receipt, muddled, early>>
lifeVars == <<phase, running, player>>
finalVars == <<result, since, overtaken>>
sessionVars == <<bookVars, lifeVars, finalVars, saver>>
allVars == <<vars, sessionVars>>

SaverPc == {"idle", "checked", "decide", "waiting", "joining"}
Phases  == {"registered", "playing", "saving", "leaving", "gone"}
Results == {"none", "unavailable", "busy", "failed", "unchanged", "queued"}
Idle == [pc |-> "idle", wait |-> FALSE, snapshot |-> InitialState, receipt |-> NoReceipt]

\* Requests of this session whose callback has not run, other than the one it runs for.
Outstanding(skip) == Len(saveOf[User].completions)
  + (IF job.key = User THEN Len(job.save.completions) ELSE 0) > skip

\* A character's state may differ from the stored one from the start: an invalid
\* document is replaced by defaults and intoxication decays offline.
SessionInit ==
  /\ Ready
  /\ phase = "registered"
  /\ running = TRUE
  /\ player \in States
  /\ persisted = NoState
  /\ submitted = NoState
  /\ last_receipt = NoReceipt
  /\ saver = [t \in Savers |-> Idle]
  /\ result = "none"
  /\ since = {}
  /\ overtaken = FALSE
  /\ muddled = FALSE
  /\ early = FALSE

-------------------------------------------------------------------------------
(* The character *)

\* The selector thread has put the session into SESSIONS, where others find it, and only
\* then tells it the state it was loaded from; the gameplay thread starts after that.
SetPersistedState ==
  /\ phase = "registered"
  /\ phase' = "playing"
  /\ persisted' = InitialState
  /\ submitted' = InitialState
  /\ last_receipt' = NoReceipt
  /\ early' = (Outstanding(0) \/ durable[User] # InitialState)
  /\ UNCHANGED <<vars, running, player, muddled, finalVars, saver>>

\* A /save typed by the character itself runs inside dispatch, which holds state_lock.
OwnHoldsStateLock == phase = "playing" /\ saver[Own].pc # "idle"

\* A command of the player, damage_player, /heal or decay_online_status, each of them
\* under state_lock while self.player is set.
Change(s) ==
  /\ phase # "gone"
  /\ ~OwnHoldsStateLock
  /\ s # player
  /\ player' = s
  /\ since' = IF since = {} THEN {} ELSE since \cup {s}
  /\ UNCHANGED <<vars, bookVars, phase, running, saver, result, overtaken>>

\* request_kick, and the idle timeout
Kick ==
  /\ running
  /\ running' = FALSE
  /\ UNCHANGED <<vars, bookVars, phase, player, finalVars, saver>>

\* The gameplay loop has ended: disconnect() starts its final save.
Disconnect ==
  /\ phase = "playing"
  /\ saver[Own].pc = "idle"
  /\ phase' = "saving"
  /\ running' = FALSE
  /\ saver' = [saver EXCEPT ![Own] = [Idle EXCEPT !.pc = "checked", !.wait = TRUE]]
  /\ UNCHANGED <<vars, bookVars, player, finalVars>>

\* Whatever the final save returned, the session leaves SESSIONS and then drops its player.
\* (That others no longer find it in between shows in module Login; here they may have.)
DropPlayer ==
  /\ phase = "leaving"
  /\ phase' = "gone"
  /\ UNCHANGED <<vars, bookVars, running, player, finalVars, saver>>

-------------------------------------------------------------------------------
(* save_if_changed *)

\* A thread in both sets makes the calls of both, one at a time.
MayWait(t) ==
  {w \in BOOLEAN : (t = Own /\ w) \/ (t \in Autosavers /\ ~w) \/ t \in Admins}

\* The tests before state_lock.
Call(t, wait) ==
  /\ saver[t].pc = "idle"
  /\ phase # "gone"
  /\ t = Own => phase = "playing"
  /\ t \in Autosavers \ Admins => phase # "registered"  \* the same thread
  /\ running \/ wait
  /\ saver' = [saver EXCEPT ![t] = [Idle EXCEPT !.pc = "checked", !.wait = wait]]
  /\ UNCHANGED <<vars, bookVars, lifeVars, finalVars>>

\* The thread returns from save_if_changed; the final save moves disconnect on.
Return(t, value) ==
  /\ saver' = [saver EXCEPT ![t] = Idle]
  /\ IF t = Own /\ phase = "saving"
     THEN phase' = "leaving" /\ result' = value
     ELSE UNCHANGED <<phase, result>>

\* state_lock stayed busy, or the state cannot be serialized.
NoSnapshot(t) ==
  /\ saver[t].pc = "checked"
  /\ Return(t, IF saver[t].wait THEN "failed" ELSE "busy")
  /\ UNCHANGED <<vars, bookVars, running, player, since, overtaken>>

\* Under state_lock: serialize, or find that the player is gone.
Snapshot(t) ==
  /\ saver[t].pc = "checked"
  /\ t # Own => ~OwnHoldsStateLock
  /\ IF phase = "gone"
     THEN saver' = [saver EXCEPT ![t] = Idle] /\ UNCHANGED finalVars
     ELSE /\ saver' = [saver EXCEPT ![t].pc = "decide", ![t].snapshot = player]
          /\ IF t = Own /\ phase = "saving"
             THEN /\ since' = {player}
                  /\ overtaken' = \E u \in Savers :
                       saver[u].pc = "decide" /\ saver[u].snapshot # player
                  /\ UNCHANGED result
             ELSE UNCHANGED finalVars
  /\ UNCHANGED <<vars, bookVars, lifeVars>>

\* Fault: an unchanged snapshot is taken for a saved one.
DecideUnchangedAtOnce(t) ==
  /\ saver[t].pc = "decide"
  /\ saver[t].snapshot = submitted
  /\ Return(t, "unchanged")
  /\ UNCHANGED <<vars, bookVars, running, player, since, overtaken>>

\* Under save_lock: the snapshot is the one submitted last.
DecideUnchanged(t) ==
  LET r == last_receipt IN
  /\ saver[t].pc = "decide"
  /\ saver[t].snapshot = submitted
  /\ \/ /\ r = NoReceipt \/ ~saver[t].wait
        /\ Return(t, "unchanged")
     \/ /\ r # NoReceipt /\ saver[t].wait
        /\ receipt[r] = "saved"
        /\ Return(t, "unchanged")
     \/ /\ r # NoReceipt /\ saver[t].wait
        /\ receipt[r] = "failed"
        /\ Return(t, "failed")
     \/ /\ r # NoReceipt /\ saver[t].wait
        /\ receipt[r] = "open"
        /\ saver' = [saver EXCEPT ![t].pc = "joining", ![t].receipt = r]
        /\ UNCHANGED <<phase, result>>
  /\ UNCHANGED <<vars, bookVars, running, player, since, overtaken>>

\* Fault: a failed snapshot stays the one compared with.
SaveCompletedKeeps(ok, s, others) ==
  /\ persisted' = IF ok THEN s ELSE persisted
  /\ muddled' = (muddled \/ (~ok /\ submitted = s /\ others))
  /\ UNCHANGED submitted

\* _save_completed(ok, error, s); `others` says that more requests are outstanding.
SaveCompleted(ok, s, others) ==
  IF ok THEN persisted' = s /\ UNCHANGED <<submitted, muddled>>
  ELSE /\ submitted' = IF submitted = s THEN persisted ELSE submitted
       /\ muddled' = (muddled \/ (submitted = s /\ others))
       /\ UNCHANGED persisted

\* Under save_lock: submit() takes the new snapshot.
DecideSubmit(t, r) ==
  LET s == saver[t].snapshot IN
  /\ saver[t].pc = "decide"
  /\ s # submitted
  /\ Enqueue(User, s, r) \/ Coalesce(User, s, r)
  /\ submitted' = s
  /\ last_receipt' = r
  /\ IF saver[t].wait
     THEN /\ saver' = [saver EXCEPT ![t].pc = "waiting", ![t].receipt = r]
          /\ UNCHANGED <<phase, result>>
     ELSE Return(t, "queued")
  /\ UNCHANGED <<persisted, muddled, early, running, player, since, overtaken>>

\* Fault: the callback of a refused request is not run.
DecideRejectedKeeps(t, r) ==
  /\ saver[t].pc = "decide"
  /\ saver[t].snapshot # submitted
  /\ Reject(User, r)
  /\ submitted' = saver[t].snapshot
  /\ last_receipt' = r
  /\ Return(t, "failed")
  /\ UNCHANGED <<persisted, muddled, early, running, player, since, overtaken>>

\* Under save_lock: submit() refuses and calls _save_completed before it returns.
DecideRejected(t, r) ==
  LET s == saver[t].snapshot IN
  /\ saver[t].pc = "decide"
  /\ s # submitted
  /\ Reject(User, r)
  /\ submitted' = persisted
  /\ muddled' = (muddled \/ Outstanding(0))
  /\ last_receipt' = r
  /\ Return(t, "failed")
  /\ UNCHANGED <<persisted, early, running, player, since, overtaken>>

\* Fault: the receipt's own word is returned.
WaitedVerdict(t) ==
  /\ saver[t].pc \in {"waiting", "joining"}
  /\ Return(t, receipt[saver[t].receipt])
  /\ UNCHANGED <<vars, bookVars, running, player, since, overtaken>>

\* receipt.wait, on the own receipt or an older one, returns True, False, or runs out
\* of time.
Waited(t) ==
  /\ saver[t].pc \in {"waiting", "joining"}
  /\ Return(t, IF receipt[saver[t].receipt] # "saved" THEN "failed"
               ELSE IF saver[t].pc = "waiting" THEN "queued" ELSE "unchanged")
  /\ UNCHANGED <<vars, bookVars, running, player, since, overtaken>>

SaveStep(t) ==
  \/ NoSnapshot(t) \/ Snapshot(t) \/ DecideUnchanged(t) \/ Waited(t)
  \/ \E r \in Receipts : DecideSubmit(t, r) \/ DecideRejected(t, r)

Save(t) == SaveStep(t) \/ \E w \in MayWait(t) : Call(t, w)

-------------------------------------------------------------------------------
(* The writer *)

\* The callback of a request of this session.
SessionCallback ==
  /\ job.key = User
  /\ Callback
  /\ SaveCompleted(success, Head(job.save.completions).encoded_state, Outstanding(1))
  /\ UNCHANGED <<last_receipt, early, lifeVars, finalVars, saver>>

WriterStep ==
  \/ SessionCallback
  \/ /\ job.key # User /\ Callback
     /\ UNCHANGED sessionVars
  \/ /\ Sleep \/ Exit \/ Take \/ Write \/ Finish \/ Answer \/ Answered
     /\ UNCHANGED sessionVars

Seen(r) == r = last_receipt \/ \E t \in Savers : saver[t].receipt = r

\* A receipt nobody refers to is dropped.
DropReceipt ==
  /\ \E r \in Receipts : ~Seen(r) /\ Forget(r)
  /\ UNCHANGED sessionVars

\* The rest of the program: it shuts down the writer, and other sessions submit.
Elsewhere ==
  /\ \/ ShutdownCall
     \/ \E k \in Keys \ {User}, r \in Receipts : Enqueue(k, InitialState, r)
  /\ UNCHANGED sessionVars

Life ==
  \/ SetPersistedState \/ Kick \/ Disconnect \/ DropPlayer
  \/ \E s \in States : Change(s)

SessionNext == Life \/ (\E t \in Savers : Save(t)) \/ WriterStep \/ DropReceipt \/ Elsewhere

\* The login that has begun, the writer's thread, a thread inside save_if_changed (whose
\* waits all time out) and the selector's ticks go on; players, administrators and the operator
\* need not.  Receipts are fresh objects: identities nobody uses always come free again, and a
\* thread that wants one gets one, whatever other sessions take (hence SF).
Fairness ==
  /\ WF_allVars(SetPersistedState)
  /\ WF_allVars(WriterStep)
  /\ WF_allVars(DropReceipt)
  /\ \A t \in Savers : SF_allVars(SaveStep(t))
  /\ \A t \in Autosavers : WF_allVars(Call(t, FALSE))

SessionSpec == SessionInit /\ [][SessionNext]_allVars /\ Fairness

-------------------------------------------------------------------------------
(* Properties *)

SessionTypeOK ==
  /\ phase \in Phases
  /\ running \in BOOLEAN /\ overtaken \in BOOLEAN /\ {muddled, early} \subseteq BOOLEAN
  /\ player \in States
  /\ {persisted, submitted} \subseteq States \cup {NoState}
  /\ last_receipt \in Receipts \cup {NoReceipt}
  /\ saver \in [Savers -> [pc : SaverPc, wait : BOOLEAN, snapshot : States,
                           receipt : Receipts \cup {NoReceipt}]]
  /\ result \in Results
  /\ since \subseteq States

\* Between a write and its callbacks the session cannot know the row; at every other
\* moment persisted_state_json, the value a failed save falls back to, is the row, unless
\* somebody saved the session before set_persisted_state.
CallbackDue == job.key = User /\ pc \in {"finish", "answer", "callback"}
PersistedIsRow == CallbackDue \/ early \/ phase = "registered" \/ persisted = durable[User]

\* When no request of the session is outstanding, "unchanged" is the truth: the snapshot
\* the next save is compared with is the row.  The exception is a failed request that
\* rolls last_submitted_state_json back while a later request is still outstanding, or a
\* save before set_persisted_state, which forgets that one.
Quiet == ~Outstanding(0)
CleanMeansSaved ==
  Quiet /\ ~muddled /\ ~early /\ phase # "registered" => submitted = durable[User]

\* What the session believes of its row is true, whatever failed, was refused or overlapped.
BeliefIsTrue == PersistedIsRow /\ CleanMeansSaved

\* After a final save that did not report failure, the row of a quiet writer holds the
\* snapshot of that save or a later one -- provided no other thread held an older
\* snapshot, taken but not yet submitted, when the final one was taken.
FinalSaveOK == result \in {"queued", "unchanged"} /\ ~muddled /\ ~early
FinalSaveStands == FinalSaveOK /\ ~overtaken /\ Quiet => durable[User] \in since

\* The same without the proviso: what "Logout waits for its final queued snapshot"
\* (README.md) is there for.
LogoutKeepsFinalSnapshot == FinalSaveOK /\ Quiet => durable[User] \in since

\* A character that stays online and stops changing is saved, however the threads and the
\* writes of its snapshots interleaved before, once the lock is free at the autosaves and
\* the writer takes and writes what it is given -- provided nobody saved the session before
\* set_persisted_state, which resets what is believed to be the row's state and lets every autosave
\* say "unchanged" over a row it did not see.
Trouble ==
  \/ \E s \in States : Change(s)
  \/ \E t \in Savers : NoSnapshot(t)
  \/ \E t \in Savers, r \in Receipts : DecideRejected(t, r)
  \/ Write /\ ~success'
StableStateIsSaved ==
  \/ []<><<Trouble>>_allVars
  \/ []<>(~running \/ closing \/ muddled \/ early)
  \/ <>[](durable[User] = player)
===============================================================================
