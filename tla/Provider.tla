-------------------------------- MODULE Provider --------------------------------
(***************************************************************************)
(* OpenRouterProvider of openrouter_provider.py: the model rotation with   *)
(* its cooldowns, the budget of a day in UTC with its file, and the audit  *)
(* log with its room for answers, as the advisory runtime's worker threads *)
(* use them side by side.                                                  *)
(*                                                                         *)
(* A request to OpenRouter is two steps, the request and what comes of it. *)
(* Money and bytes are small units: Price[m] is what complete() reserves   *)
(* for model m (the free ones cost nothing), AuditRoom the room it keeps   *)
(* in the log for an answer.  The status word, the key file and the        *)
(* validation of a catalogue's entries are left out; a key that cannot be  *)
(* read is one more way for a request to fail.                             *)
(***************************************************************************)
EXTENDS Naturals, Sequences, FiniteSets, SequencesExt

CONSTANTS
  Workers,      \* the worker threads of NPCAdvisorRuntime
  Models, Price,
  Catalogues,   \* what refresh_models may come back with: paid and free models, in order
  Daily,        \* DAILY_PAID_BUDGET_USD
  Dearest,      \* MAX_PAID_RESERVATION_USD, which also bounds the cost an answer may name
  LogLimit,     \* MAX_QUERY_LOG_BYTES
  AuditRoom,    \* MAX_AUDIT_RESPONSE_BYTES
  Attempts,     \* the 4 of complete()
  LastDay, MaxCrashes  \* bounds of a run

ASSUME ProviderAssumption ==
  /\ IsFiniteSet(Workers) /\ Models # {}
  /\ Price \in [Models -> Nat]
  /\ {Daily, Dearest, LogLimit, AuditRoom, Attempts, LastDay} \subseteq Nat \ {0}
  /\ MaxCrashes \in Nat
  /\ \A c \in Catalogues : c.paid \in Seq(Models) /\ c.free \in Seq(Models)

VARIABLES
  catalogue,      \* models and paid_models
  cooling,        \* the models whose cooldown is not over
  next_index,     \* modulo the number of candidates
  paid_day, paid_reserved,
  budget_file,    \* day and reserved_usd, or an empty file
  log,            \* size: bytes in the audit log; reserved: audit_reserved_bytes
  call,           \* call[w]: where worker w is inside complete() or refresh_models()
  today,          \* the day in UTC
  crashes,
  owed,           \* history: owed[d]: what the requests of day d cost, or may yet cost
  forgotten,      \* history: what min() has cut off today's account
  excused         \* history: whether today's account is known to be off (see TodayIsCounted)

book == <<paid_day, paid_reserved, budget_file>>
rotation == <<catalogue, cooling, next_index>>
world == <<today, crashes>>
history == <<owed, forgotten, excused>>
vars == <<rotation, book, log, call, world, history>>

Empty == [day |-> 0, reserved_usd |-> 0]  \* the file, missing or cut short
NoCatalogue == [paid |-> <<>>, free |-> <<>>]
Idle == [pc |-> "idle", left |-> 0, model |-> CHOOSE m \in Models : TRUE,
         paid |-> FALSE, reservation |-> 0, day |-> 1]

Init ==
  /\ catalogue = NoCatalogue /\ cooling = {} /\ next_index = 0
  /\ paid_day = 1 /\ paid_reserved = 0 /\ budget_file = Empty
  /\ log = [size |-> 0, reserved |-> 0]
  /\ call = [w \in Workers |-> Idle]
  /\ today = 1 /\ crashes = 0
  /\ owed = [d \in 1..LastDay |-> 0] /\ forgotten = 0 /\ excused = FALSE

-------------------------------------------------------------------------------
(* The budget *)

Least(a, b) == IF a < b THEN a ELSE b

\* _reset_budget_if_needed: what is reserved once it has run
Reserved == IF today = paid_day THEN paid_reserved ELSE 0

\* The account under the lock, of the day d with n reserved, and _save_budget: the whole file is
\* cut and written again, and an error in the middle raises with nothing or all of it there.
Account(d, n) == paid_day' = d /\ paid_reserved' = n
Saved(d, n) == budget_file' = [day |-> d, reserved_usd |-> n]
NotSaved == budget_file' \in {budget_file, Empty}

\* _load_budget
Loaded(file) == IF file.day = today THEN Least(file.reserved_usd, Daily) ELSE 0

-------------------------------------------------------------------------------
(* The audit log *)

\* _audit_log of n bytes that keeps `keep` more and gives `release` back
Kept(release) == IF log.reserved > release THEN log.reserved - release ELSE 0

\* Fault: the room kept for other answers is not counted.
FitsAlone(n, keep, release) == log.size + n + keep <= LogLimit
Fits(n, keep, release) == log.size + Kept(release) + n + keep <= LogLimit
Audit(n, keep, release) ==
  log' = IF Fits(n, keep, release)
         THEN [size |-> log.size + n, reserved |-> Kept(release) + keep]
         ELSE [log EXCEPT !.reserved = Kept(release)]

-------------------------------------------------------------------------------
(* complete *)

Goto(w, pc) == call' = [call EXCEPT ![w].pc = pc]
Return(w) == call' = [call EXCEPT ![w] = Idle]

\* The loop's next attempt, if any is left
NextAttempt(w) ==
  IF call[w].left > 1 THEN call' = [call EXCEPT ![w].pc = "picking", ![w].left = @ - 1]
  ELSE Return(w)

Candidates == catalogue.paid \o catalogue.free

Complete(w) ==
  /\ call[w].pc = "idle" /\ Candidates # <<>>
  /\ call' = [call EXCEPT ![w].pc = "picking", ![w].left = Least(Attempts, Len(Candidates))]
  /\ UNCHANGED <<rotation, book, log, world, history>>

\* next_model: the first candidate from next_index on that is neither cooling nor beyond a
\* budget that is spent
Turn(i) == Candidates[((next_index + i) % Len(Candidates)) + 1]
Usable(m) == m \notin cooling /\ ~(m \in ToSet(catalogue.paid) /\ Reserved >= Daily)
Turns == {i \in 0..Len(Candidates) - 1 : Usable(Turn(i))}
FirstTurn == CHOOSE i \in Turns : \A j \in Turns : i <= j

NextModel(w) ==
  /\ call[w].pc = "picking"
  /\ Account(today, Reserved)
  /\ IF today = paid_day THEN UNCHANGED budget_file ELSE Saved(today, 0)
  /\ IF Turns # {}
     THEN /\ next_index' = (next_index + FirstTurn + 1) % Len(Candidates)
          /\ call' = [call EXCEPT ![w].pc = "picked", ![w].model = Turn(FirstTurn)]
     ELSE /\ Return(w)
          /\ UNCHANGED next_index
  /\ UNCHANGED <<catalogue, cooling, log, world, history>>

\* The file of a new day cannot be written: complete raises.
NextModelFails(w) ==
  /\ call[w].pc = "picking" /\ today # paid_day
  /\ Account(today, 0) /\ NotSaved
  /\ Return(w)
  /\ UNCHANGED <<rotation, log, world, history>>

\* A refresh took the model out of the catalogue in the meantime: next() raises.
ModelIsGone(w) ==
  /\ call[w].pc = "picked" /\ call[w].model \notin ToSet(Candidates)
  /\ Return(w)
  /\ UNCHANGED <<rotation, book, log, world, history>>

Cool(m) == cooling' = cooling \cup {m} /\ UNCHANGED <<catalogue, next_index>>

Picked(w) == call[w].pc = "picked" /\ call[w].model \in ToSet(Candidates)
IsPaid(w) == call[w].model \in ToSet(catalogue.paid)
Reservation(w) == Price[call[w].model]
Exceeds(w) == Reserved + Reservation(w) > Daily

PickFree(w) ==
  /\ Picked(w) /\ ~IsPaid(w)
  /\ call' = [call EXCEPT ![w].pc = "asking", ![w].paid = FALSE,
                              ![w].reservation = 0, ![w].day = paid_day]
  /\ UNCHANGED <<rotation, book, log, world, history>>

TooDear(w) ==
  /\ Picked(w) /\ IsPaid(w) /\ Reservation(w) > Dearest
  /\ Cool(call[w].model) /\ NextAttempt(w)
  /\ UNCHANGED <<book, log, world, history>>

OverBudget(w) ==
  /\ Picked(w) /\ IsPaid(w) /\ Reservation(w) <= Dearest /\ Exceeds(w)
  /\ Account(today, Reserved)
  /\ IF today = paid_day THEN UNCHANGED budget_file ELSE Saved(today, 0)
  /\ Cool(call[w].model) /\ NextAttempt(w)
  /\ UNCHANGED <<log, world, history>>

CanReserve(w) == Picked(w) /\ IsPaid(w) /\ Reservation(w) <= Dearest /\ ~Exceeds(w)

Goes(w) ==
  call' = [call EXCEPT ![w].pc = "asking", ![w].paid = TRUE,
                       ![w].reservation = Reservation(w), ![w].day = today]

\* Fault: the reservation is only written when the cost is known.
ReserveInMemory(w) ==
  /\ CanReserve(w)
  /\ Account(today, Reserved + Reservation(w))
  /\ UNCHANGED budget_file
  /\ Goes(w)
  /\ UNCHANGED <<rotation, log, world, history>>

Reserve(w) ==
  /\ CanReserve(w)
  /\ Account(today, Reserved + Reservation(w))
  /\ Saved(today, Reserved + Reservation(w))
  /\ Goes(w)
  /\ UNCHANGED <<rotation, log, world, history>>

\* The file cannot be written: the reservation stays, and complete raises.
ReserveFails(w) ==
  /\ CanReserve(w)
  /\ Account(today, Reserved + Reservation(w)) /\ NotSaved
  /\ Return(w)
  /\ UNCHANGED <<rotation, log, world, history>>

\* _request_json up to the opener: the key is read and the request is in the log, with room
\* for its answer.
Send(w) ==
  /\ call[w].pc = "asking" /\ Fits(1, AuditRoom, 0)
  /\ Audit(1, AuditRoom, 0)
  /\ Goto(w, "waiting")
  /\ owed' = [owed EXCEPT ![call[w].day] = @ + call[w].reservation]
  /\ UNCHANGED <<rotation, book, world, forgotten, excused>>

\* There is no key, or no room in the log, or no writing to it: ProviderError, the model cools.
NotSent(w) ==
  /\ call[w].pc = "asking"
  /\ Cool(call[w].model) /\ NextAttempt(w)
  /\ UNCHANGED <<book, log, world, history>>

\* The answer is read and logged: whatever it is, it needs n of the room kept for it.
Answered(w) == \E n \in 1..AuditRoom : Fits(n, 0, AuditRoom) /\ Audit(n, 0, AuditRoom)

Receive(w) ==
  /\ call[w].pc = "waiting"
  /\ Answered(w)
  /\ Goto(w, "answered")
  /\ UNCHANGED <<rotation, book, world, history>>

\* HTTP or transport error, an answer beyond its limit, not JSON or without content, or an
\* answer that cannot be logged
ReceiveError(w) ==
  /\ call[w].pc = "waiting"
  /\ Answered(w) \/ log' = [log EXCEPT !.reserved = Kept(AuditRoom)]
  /\ Cool(call[w].model) /\ NextAttempt(w)
  /\ UNCHANGED <<book, world, history>>

\* Any other exception of the opener gives the room back and leaves complete.
ReceiveRaises(w) ==
  /\ call[w].pc = "waiting"
  /\ log' = [log EXCEPT !.reserved = Kept(AuditRoom)]
  /\ Return(w)
  /\ UNCHANGED <<rotation, book, world, history>>

\* The reservation gives way to the cost the answer names, which may be higher: it is held against
\* MAX_PAID_RESERVATION_USD only.  It goes to whatever day the account is at, which need not be
\* the request's, and min() cuts off what is beyond the day's budget.
SettledUncapped(r, cost) == IF paid_reserved + cost > r THEN paid_reserved - r + cost ELSE 0  \* Fault
Settled(r, cost) ==
  Least(Daily, IF paid_reserved + cost > r THEN paid_reserved - r + cost ELSE 0)
CutOff(r, cost) ==
  IF paid_day = today /\ paid_reserved + cost > r + Daily THEN paid_reserved + cost - (r + Daily) ELSE 0

\* _save_budget may raise: the answer is lost, and of a cost beyond the reservation the file may
\* not know.
Reconcile(w, cost) ==
  LET r == call[w].reservation IN
  /\ call[w].pc = "answered" /\ call[w].paid
  /\ Account(paid_day, Settled(r, cost))
  /\ Saved(paid_day, Settled(r, cost)) \/ NotSaved
  /\ cooling' = cooling \ {call[w].model}
  /\ owed' = [owed EXCEPT ![call[w].day] = @ - r + cost]
  /\ forgotten' = forgotten + CutOff(r, cost)
  /\ excused' = \/ excused
                 \/ paid_day # call[w].day
                 \/ (paid_day = today /\ cost > r /\ ~Saved(paid_day, Settled(r, cost)))
  /\ Return(w)
  /\ UNCHANGED <<catalogue, next_index, log, world>>

\* The answer of a free model, or one that names no cost, or one out of bounds: a reservation
\* stands.
NoCost(w) ==
  /\ call[w].pc = "answered"
  /\ cooling' = cooling \ {call[w].model}
  /\ Return(w)
  /\ UNCHANGED <<catalogue, next_index, book, log, world, history>>

-------------------------------------------------------------------------------
(* refresh_models *)

Refresh(w) ==
  /\ call[w].pc = "idle" /\ Fits(1, AuditRoom, 0)
  /\ Audit(1, AuditRoom, 0)
  /\ Goto(w, "refreshing")
  /\ UNCHANGED <<rotation, book, world, history>>

Refreshed(w) ==
  /\ call[w].pc = "refreshing"
  /\ Answered(w)
  /\ catalogue' \in Catalogues /\ next_index' = 0
  /\ Return(w)
  /\ UNCHANGED <<cooling, book, world, history>>

RefreshFails(w) ==
  /\ call[w].pc = "refreshing"
  /\ Answered(w) \/ log' = [log EXCEPT !.reserved = Kept(AuditRoom)]
  /\ Return(w)
  /\ UNCHANGED <<rotation, book, world, history>>

-------------------------------------------------------------------------------
(* Time, the administrator and the process *)

CoolDown(m) ==
  /\ m \in cooling
  /\ cooling' = cooling \ {m}
  /\ UNCHANGED <<catalogue, next_index, book, log, call, world, history>>

ClearCircuit ==
  /\ cooling # {}
  /\ cooling' = {}
  /\ UNCHANGED <<catalogue, next_index, book, log, call, world, history>>

Midnight ==
  /\ today < LastDay
  /\ today' = today + 1
  /\ forgotten' = 0 /\ excused' = FALSE
  /\ UNCHANGED <<rotation, book, log, call, crashes, owed>>

\* Whether some thread may be in the middle of _save_budget
Saving == \E w \in Workers :
  \/ CanReserve(w) \/ call[w].pc = "answered"
  \/ call[w].pc \in {"picking", "picked"} /\ today # paid_day

\* The process dies and starts again: what it knew is gone, the two files stay.
Restart(file) ==
  /\ crashes < MaxCrashes
  /\ crashes' = crashes + 1
  /\ catalogue' = NoCatalogue /\ cooling' = {} /\ next_index' = 0
  /\ budget_file' = file /\ paid_day' = today /\ paid_reserved' = Loaded(file)
  /\ log' = [log EXCEPT !.reserved = 0]
  /\ call' = [w \in Workers |-> Idle]
  /\ UNCHANGED <<today, owed, forgotten>>

Crash ==
  /\ Restart(budget_file)
  /\ excused' = (excused \/ (budget_file = Empty /\ paid_reserved > 0))
CrashInSave == Saving /\ Restart(Empty) /\ excused' = TRUE

-------------------------------------------------------------------------------
Worker(w) ==
  \/ Complete(w) \/ NextModel(w) \/ NextModelFails(w) \/ ModelIsGone(w) \/ PickFree(w)
  \/ TooDear(w) \/ OverBudget(w) \/ Reserve(w) \/ ReserveFails(w)
  \/ Send(w) \/ NotSent(w) \/ Receive(w) \/ ReceiveError(w) \/ ReceiveRaises(w)
  \/ NoCost(w) \/ \E cost \in 0..Dearest : Reconcile(w, cost)
  \/ Refresh(w) \/ Refreshed(w) \/ RefreshFails(w)

Next ==
  \/ \E w \in Workers : Worker(w)
  \/ \E m \in Models : CoolDown(m)
  \/ ClearCircuit \/ Midnight \/ Crash \/ CrashInSave

Spec == Init /\ [][Next]_vars

-------------------------------------------------------------------------------
Asking == {w \in Workers : call[w].pc \in {"waiting", "refreshing"}}

\* The account never shows more than the day's budget, a reservation is never dearer than one
\* request may be, and a model picked is one of Models (openrouter_provider.py:450, :458, :501).
ProviderTypeOK ==
  /\ catalogue \in Catalogues \cup {NoCatalogue}
  /\ cooling \subseteq Models
  /\ next_index \in 0..Len(Candidates)
  /\ paid_day \in 1..today /\ paid_reserved \in 0..Daily
  /\ budget_file.day \in 0..today /\ budget_file.reserved_usd \in 0..Daily
  /\ \A w \in Workers : call[w].model \in Models /\ call[w].reservation \in 0..Dearest

\* What today's requests cost or may yet cost is never more than the account says and min() has
\* cut off it, however the two threads' reservations, failures, answers and costs interleave and
\* whenever the process dies: an answer that never came stays paid for, and a crash forgets no
\* request that was sent.  What is cut off is forgotten for good (openrouter_provider.py:501-508):
\* only a cost above its reservation can come to that, but complete() accepts such costs, and the
\* money it has forgotten may be spent again, although "a request must never exceed its bounded
\* reservation or cause the persistent UTC-day total to exceed one US dollar"
\* (NEXT_STEP_FOR_CODEX.md:251).
\* Excused are the days on which an answer to a request of the day before has been settled:
\* complete() takes yesterday's reservation from today's account (:493-509).  Excused too are those
\* on which the process died with the file cut short or missing (:456-462), or on which a cost
\* above its reservation could not be written to it.
TodayIsCounted ==
  (paid_day = today /\ ~excused) => owed[today] <= paid_reserved + forgotten

\* "If there is not enough audit capacity for a complete request/response pair, the provider
\* call is refused" (README.md:45): once a request is sent its answer fits into the log, with
\* two requests under way and after any number of failures, and no room is lost for good.
AnswersFitTheLog ==
  /\ log.size + Cardinality(Asking) * AuditRoom <= LogLimit
  /\ log.reserved = Cardinality(Asking) * AuditRoom
===============================================================================
