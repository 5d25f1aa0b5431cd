----------------------------- MODULE ProviderProofs -----------------------------
(***************************************************************************)
(* What holds of the provider for any number of worker threads, any models *)
(* and prices, any budget and any size of the audit log: its records keep  *)
(* their ranges, every answer has its room in the log, and today's account *)
(* covers what today's requests cost.                                      *)
(***************************************************************************)
EXTENDS Provider, FiniteSetTheorems, WellFoundedInduction, TLAPS

-------------------------------------------------------------------------------
(* The constants, the candidates and the rotation *)

\* Budgets, limits and prices are whole numbers.
LEMMA ConstantsType ==
  /\ Daily \in Nat \ {0} /\ Dearest \in Nat \ {0} /\ LogLimit \in Nat \ {0}
  /\ AuditRoom \in Nat \ {0} /\ Attempts \in Nat \ {0} /\ LastDay \in Nat \ {0}
  /\ \A m \in Models : Price[m] \in Nat
BY ProviderAssumption

\* Any set of natural numbers that is not empty has a least one.
LEMMA LeastOf ==
  ASSUME NEW S, S \subseteq Nat, S # {}
  PROVE  \E i \in S : \A j \in S : i <= j
<1>1. PICK i \in S : \A j \in S : ~(<<j, i>> \in OpToRel(<, Nat))
  BY NatLessThanWellFounded, WFMin
<1>2. \A j \in S : ~(j < i)
  BY <1>1 DEF OpToRel
<1> QED BY <1>2

\* What a catalogue names are models.
LEMMA CatalogueType ==
  ASSUME NEW c \in Catalogues \cup {NoCatalogue}
  PROVE  c.paid \in Seq(Models) /\ c.free \in Seq(Models) /\ c.paid \o c.free \in Seq(Models)
<1>1. c.paid \in Seq(Models) /\ c.free \in Seq(Models)
  <2>1. CASE c \in Catalogues
    BY <2>1, ProviderAssumption
  <2>2. CASE c = NoCatalogue
    BY <2>2 DEF NoCatalogue
  <2> QED BY <2>1, <2>2
<1> QED BY <1>1

\* So are the candidates.
LEMMA CandidatesType ==
  ASSUME catalogue \in Catalogues \cup {NoCatalogue}
  PROVE  Candidates \in Seq(Models)
BY CatalogueType DEF Candidates

\* The search of next_model stays in the catalogue, whatever the index.
LEMMA TurnType ==
  ASSUME catalogue \in Catalogues \cup {NoCatalogue}, next_index \in Nat, Turns # {}
  PROVE  /\ Candidates # <<>>
         /\ FirstTurn \in 0..Len(Candidates) - 1
         /\ Turn(FirstTurn) \in Models
         /\ (next_index + FirstTurn + 1) % Len(Candidates) \in 0..Len(Candidates)
<1> DEFINE n == Len(Candidates)
<1>1. Candidates \in Seq(Models) /\ n \in Nat
  BY CandidatesType
<1>2. Turns \subseteq 0..n - 1
  BY DEF Turns
<1>3. FirstTurn \in Turns
  <2>1. Turns \subseteq Nat
    BY <1>1, <1>2
  <2>2. \E i \in Turns : \A j \in Turns : i <= j
    BY <2>1, LeastOf
  <2> QED BY <2>2 DEF FirstTurn
<1>4. FirstTurn \in 0..n - 1 /\ n > 0
  BY <1>1, <1>2, <1>3
<1>5. ASSUME NEW i \in Nat
      PROVE  i % n \in 0..n - 1
  BY <1>1, <1>4
<1>6. next_index + FirstTurn \in Nat /\ next_index + FirstTurn + 1 \in Nat
  BY <1>1, <1>4
<1>7. ((next_index + FirstTurn) % n) + 1 \in 1..n
  <2>1. PICK i \in 0..n - 1 : i = (next_index + FirstTurn) % n
    BY <1>5, <1>6
  <2>2. i + 1 \in 1..n
    BY <1>1
  <2> QED BY <2>1, <2>2
<1>8. Turn(FirstTurn) \in Models
  BY <1>1, <1>7 DEF Turn
<1>9. (next_index + FirstTurn + 1) % n \in 0..n
  BY <1>1, <1>5, <1>6
<1> QED BY <1>1, <1>4, <1>8, <1>9

-------------------------------------------------------------------------------
(* Shapes *)

CallPc == {"idle", "picking", "picked", "asking", "waiting", "answered", "refreshing"}
Calls  == [pc : CallPc, left : Nat, model : Models, paid : BOOLEAN,
           reservation : 0..Dearest, day : 1..LastDay]

\* ProviderTypeOK and the shapes it takes for granted; and neither the file nor a request is
\* of a later day than the account.
ProviderShape ==
  /\ catalogue \in Catalogues \cup {NoCatalogue}
  /\ cooling \subseteq Models
  /\ next_index \in 0..Len(Candidates)
  /\ today \in 1..LastDay
  /\ paid_day \in 1..today /\ paid_reserved \in 0..Daily
  /\ budget_file \in [day : 0..paid_day, reserved_usd : 0..Daily]
  /\ log \in [size : Nat, reserved : Nat]
  /\ call \in [Workers -> Calls]
  /\ \A w \in Workers : call[w].day <= paid_day
  /\ owed \in [1..LastDay -> Int]
  /\ forgotten \in Nat /\ excused \in BOOLEAN

\* A worker outside complete() and refresh_models() is well formed.
LEMMA IdleType == Idle \in Calls /\ Idle.day = 1 /\ Idle.pc = "idle" /\ Idle.reservation = 0
<1>1. (CHOOSE m \in Models : TRUE) \in Models
  BY ProviderAssumption
<1> QED BY <1>1, ProviderAssumption DEF Idle, Calls, CallPc

\* A new provider is well formed.
LEMMA ShapeInit == Init => ProviderShape
<1> SUFFICES ASSUME Init PROVE ProviderShape
  OBVIOUS
<1>1. next_index \in 0..Len(Candidates)
  BY DEF Init, NoCatalogue, Candidates
<1>2. call \in [Workers -> Calls] /\ \A w \in Workers : call[w].day <= paid_day
  BY IdleType DEF Init
<1>3. budget_file \in [day : 0..paid_day, reserved_usd : 0..Daily]
  BY ConstantsType DEF Init, Empty
<1>4. log \in [size : Nat, reserved : Nat] /\ owed \in [1..LastDay -> Int] /\ forgotten \in Nat
  BY DEF Init
<1>5. /\ today \in 1..LastDay /\ paid_day \in 1..today /\ paid_reserved \in 0..Daily
      /\ excused \in BOOLEAN
  <2>1. today = 1 /\ paid_day = 1 /\ paid_reserved = 0 /\ excused = FALSE
    BY DEF Init
  <2>2. 1 \in 1..LastDay /\ 1 \in 1..1 /\ 0 \in 0..Daily
    BY ConstantsType
  <2> QED BY <2>1, <2>2
<1>6. catalogue \in Catalogues \cup {NoCatalogue} /\ cooling \subseteq Models
  BY DEF Init
<1> QED BY <1>1, <1>2, <1>3, <1>4, <1>5, <1>6 DEF ProviderShape

\* What becomes of one worker's record is well formed when the new record is.
LEMMA CallUpdated ==
  ASSUME call \in [Workers -> Calls], \A v \in Workers : call[v].day <= paid_day,
         paid_day \in 1..today, today \in 1..LastDay,
         NEW w \in Workers, NEW c \in Calls, c.day <= paid_day',
         paid_day' \in Nat, paid_day <= paid_day',
         call' = [call EXCEPT ![w] = c]
  PROVE  call' \in [Workers -> Calls] /\ \A v \in Workers : call'[v].day <= paid_day'
<1>1. call' \in [Workers -> Calls]
  OBVIOUS
<1>2. ASSUME NEW v \in Workers PROVE call'[v].day <= paid_day'
  <2>1. CASE v = w
    BY <2>1
  <2>2. CASE v # w
    <3>1. call'[v] = call[v] /\ call[v].day \in Nat /\ call[v].day <= paid_day
      BY <2>2 DEF Calls
    <3> QED BY <3>1
  <2> QED BY <2>1, <2>2
<1> QED BY <1>1, <1>2

\* Whatever a worker does, the account stays between nothing and the day's budget, at a day that
\* has come, and the file is of no later day.
LEMMA WorkerKeepsBook ==
  ASSUME ProviderShape, NEW w \in Workers, Worker(w)
  PROVE  /\ paid_day' \in 1..today /\ paid_day <= paid_day'
         /\ paid_reserved' \in 0..Daily
         /\ budget_file' \in [day : 0..paid_day', reserved_usd : 0..Daily]
<1>1. /\ today \in Nat /\ paid_day \in Nat /\ 1 <= paid_day /\ paid_day <= today
      /\ paid_reserved \in Nat /\ paid_reserved <= Daily
      /\ Daily \in Nat
      /\ budget_file \in [day : 0..paid_day, reserved_usd : 0..Daily]
  BY ConstantsType DEF ProviderShape
<1>2. Reserved \in 0..Daily
  BY <1>1 DEF Reserved
<1> DEFINE Good(d, n, file) == /\ d \in 1..today /\ paid_day <= d /\ n \in 0..Daily
                               /\ file \in [day : 0..d, reserved_usd : 0..Daily]
<1>3. ASSUME NEW d \in paid_day..today, NEW n \in 0..Daily
      PROVE  /\ Good(d, n, [day |-> d, reserved_usd |-> n])
             /\ Good(d, n, [day |-> d, reserved_usd |-> 0])
             /\ Good(d, n, Empty)
             /\ Good(d, n, budget_file)
  BY <1>1 DEF Empty
<1> HIDE DEF Good
<1>4. CASE UNCHANGED book
  BY <1>1, <1>4 DEF book
<1>5. CASE NextModel(w) \/ NextModelFails(w)
  <2>1. today \in paid_day..today /\ 0 \in 0..Daily
    BY <1>1
  <2>2. Good(paid_day', paid_reserved', budget_file')
    BY <1>2, <1>3, <1>5, <2>1 DEF NextModel, NextModelFails, Account, Saved, NotSaved
  <2> QED BY <2>2 DEF Good
<1>6. CASE OverBudget(w)
  <2>1. today \in paid_day..today
    BY <1>1
  <2>2. Good(paid_day', paid_reserved', budget_file')
    BY <1>2, <1>3, <1>6, <2>1 DEF OverBudget, Account, Saved
  <2> QED BY <2>2 DEF Good
<1>7. CASE Reserve(w) \/ ReserveFails(w)
  <2>1. call[w].model \in Models
    BY DEF ProviderShape, Calls
  <2>2. Reserved + Reservation(w) \in 0..Daily
    BY <1>1, <1>2, <1>7, <2>1, ConstantsType
       DEF Reserve, ReserveFails, CanReserve, Exceeds, Reservation
  <2>3. today \in paid_day..today
    BY <1>1
  <2>4. Good(paid_day', paid_reserved', budget_file')
    BY <1>3, <1>7, <2>2, <2>3 DEF Reserve, ReserveFails, Account, Saved, NotSaved
  <2> QED BY <2>4 DEF Good
<1>8. ASSUME NEW cost \in 0..Dearest, Reconcile(w, cost)
      PROVE  Good(paid_day', paid_reserved', budget_file')
  <2>1. call[w].reservation \in Nat /\ cost \in Nat
    BY ConstantsType DEF ProviderShape, Calls
  <2>2. Settled(call[w].reservation, cost) \in 0..Daily
    BY <1>1, <2>1 DEF Settled, Least
  <2>3. paid_day \in paid_day..today
    BY <1>1
  <2> QED BY <1>3, <1>8, <2>2, <2>3 DEF Reconcile, Account, Saved, NotSaved
<1>9. CASE \E cost \in 0..Dearest : Reconcile(w, cost)
  BY <1>8, <1>9 DEF Good
<1> QED BY <1>4, <1>5, <1>6, <1>7, <1>9
     DEF Worker, Complete, ModelIsGone, PickFree, TooDear, Send, NotSent, Receive, ReceiveError,
         ReceiveRaises, NoCost, Refresh, Refreshed, RefreshFails

\* A worker's record stays well formed, and is of no later day than the account.
LEMMA WorkerKeepsCall ==
  ASSUME ProviderShape, NEW w \in Workers, Worker(w)
  PROVE  \E c \in Calls : c.day <= paid_day' /\ call' = [call EXCEPT ![w] = c]
<1>1. /\ paid_day \in Nat /\ 1 <= paid_day /\ paid_day <= today /\ today \in 1..LastDay
      /\ today \in Nat /\ paid_day' \in Nat /\ 1 <= paid_day' /\ paid_day <= paid_day'
  BY WorkerKeepsBook, ConstantsType, SMTT(30) DEF ProviderShape
<1>2. call[w] \in Calls /\ call[w].day <= paid_day /\ call[w].day \in Nat /\ call[w].left \in Nat
  BY DEF ProviderShape, Calls
<1>3. call \in [Workers -> Calls]
  BY DEF ProviderShape
<1>4. CASE Return(w)
  BY <1>1, <1>4, IdleType DEF Return
<1>5. ASSUME NEW pc \in CallPc, Goto(w, pc)
      PROVE  \E c \in Calls : c.day <= paid_day' /\ call' = [call EXCEPT ![w] = c]
  <2>1. [call[w] EXCEPT !.pc = pc] \in Calls
    BY <1>2 DEF Calls
  <2>2. call' = [call EXCEPT ![w] = [call[w] EXCEPT !.pc = pc]]
    BY <1>5 DEF Goto
  <2>3. [call[w] EXCEPT !.pc = pc].day <= paid_day'
    BY <1>1, <1>2 DEF Calls
  <2> QED BY <2>1, <2>2, <2>3
<1>6. CASE NextAttempt(w)
  <2>1. CASE call[w].left > 1
    <3> DEFINE n == call[w].left - 1
               c == [call[w] EXCEPT !.pc = "picking", !.left = n]
    <3>1. n \in Nat
      BY <1>2, <2>1
    <3>2. call' = [call EXCEPT ![w] = c]
      BY <1>6, <2>1 DEF NextAttempt
    <3> HIDE DEF n
    <3>3. c \in Calls /\ c.day = call[w].day
      BY <1>2, <3>1 DEF Calls, CallPc
    <3>4. c.day <= paid_day'
      BY <3>3, <1>1, <1>2
    <3> HIDE DEF c
    <3> QED BY <3>2, <3>3, <3>4, Zenon
  <2> QED BY <1>4, <1>6, <2>1 DEF NextAttempt
<1>7. CASE Complete(w)
  <2> DEFINE n == Least(Attempts, Len(Candidates))
             c == [call[w] EXCEPT !.pc = "picking", !.left = n]
  <2>1. n \in Nat
    <3>1. Candidates \in Seq(Models)
      BY CandidatesType DEF ProviderShape
    <3> QED BY <3>1, ConstantsType DEF Least
  <2>2. call' = [call EXCEPT ![w] = c]
    BY <1>7 DEF Complete
  <2> HIDE DEF n
  <2>3. c \in Calls /\ c.day = call[w].day
    BY <1>2, <2>1 DEF Calls, CallPc
  <2>4. c.day <= paid_day'
    BY <2>3, <1>1, <1>2
  <2> HIDE DEF c
  <2> QED BY <2>2, <2>3, <2>4, Zenon
<1>8. CASE NextModel(w) /\ Turns # {}
  <2> DEFINE c == [call[w] EXCEPT !.pc = "picked", !.model = Turn(FirstTurn)]
  <2>1. Turn(FirstTurn) \in Models
    <3>1. next_index \in Nat
      <4>1. Candidates \in Seq(Models)
        BY CandidatesType DEF ProviderShape
      <4> QED BY <4>1 DEF ProviderShape
    <3> QED BY <3>1, <1>8, TurnType DEF ProviderShape
  <2>2. call' = [call EXCEPT ![w] = c]
    BY <1>8 DEF NextModel
  <2>3. c \in Calls /\ c.day = call[w].day
    BY <1>2, <2>1 DEF Calls, CallPc
  <2>4. c.day <= paid_day'
    BY <2>3, <1>1, <1>2
  <2> HIDE DEF c
  <2> QED BY <2>2, <2>3, <2>4, Zenon
<1>9. CASE PickFree(w)
  <2> DEFINE c == [call[w] EXCEPT !.pc = "asking", !.paid = FALSE, !.reservation = 0, !.day = paid_day]
  <2>1. 0 \in 0..Dearest /\ paid_day \in 1..LastDay
    BY <1>1, ConstantsType
  <2>2. c \in Calls /\ c.day = paid_day
    BY <1>2, <2>1 DEF Calls, CallPc
  <2>3. call' = [call EXCEPT ![w] = c]
    BY <1>9 DEF PickFree
  <2>4. c.day <= paid_day'
    BY <2>2, <2>3, <1>1
  <2> HIDE DEF c
  <2> QED BY <2>2, <2>3, <2>4, Zenon
<1>10. CASE Reserve(w)
  <2> DEFINE c == [call[w] EXCEPT !.pc = "asking", !.paid = TRUE, !.reservation = Reservation(w), !.day = today]
  <2>1. Reservation(w) \in 0..Dearest
    BY <1>2, <1>10, ConstantsType DEF Reserve, CanReserve, Reservation, Calls
  <2>2. c \in Calls /\ c.day = today
    BY <1>1, <1>2, <2>1 DEF Calls, CallPc
  <2>3. call' = [call EXCEPT ![w] = c] /\ paid_day' = today
    BY <1>10 DEF Reserve, Goes, Account
  <2>4. c.day <= paid_day'
    BY <2>2, <2>3, <1>1
  <2> HIDE DEF c
  <2> QED BY <2>2, <2>3, <2>4, Zenon
<1> QED BY <1>4, <1>5, <1>6, <1>7, <1>8, <1>9, <1>10
     DEF Worker, NextModel, NextModelFails, ModelIsGone, TooDear, OverBudget, ReserveFails, Send,
         NotSent, Receive, ReceiveError, ReceiveRaises, NoCost, Reconcile, Refresh, Refreshed,
         RefreshFails, CallPc

\* Nobody else's record changes.
LEMMA OthersKeepCalls ==
  ASSUME ProviderShape, NEW w \in Workers, Worker(w)
  PROVE  \A v \in Workers : v # w => call'[v] = call[v]
<1>1. PICK c \in Calls : c.day <= paid_day' /\ call' = [call EXCEPT ![w] = c]
  BY WorkerKeepsCall
<1>2. call' = [call EXCEPT ![w] = c]
  BY <1>1
<1>3. call \in [Workers -> Calls]
  BY DEF ProviderShape
<1> QED BY <1>2, <1>3

\* The index and the cooled models stay with the catalogue, a refresh starts the rotation anew,
\* and the log counts in whole numbers.
LEMMA WorkerKeepsRest ==
  ASSUME ProviderShape, NEW w \in Workers, Worker(w)
  PROVE  /\ catalogue' \in Catalogues \cup {NoCatalogue}
         /\ cooling' \subseteq Models
         /\ next_index' \in 0..Len(Candidates)'
         /\ log' \in [size : Nat, reserved : Nat]
         /\ owed' \in [1..LastDay -> Int] /\ forgotten' \in Nat
         /\ excused' \in BOOLEAN /\ today' = today
<1>1. Candidates \in Seq(Models) /\ next_index \in Nat
  <2>1. Candidates \in Seq(Models)
    BY CandidatesType DEF ProviderShape
  <2> QED BY <2>1 DEF ProviderShape
<1>2. next_index' \in 0..Len(Candidates)' /\ catalogue' \in Catalogues \cup {NoCatalogue}
  <2>1. CASE UNCHANGED <<catalogue, next_index>>
    BY <2>1 DEF ProviderShape, Candidates
  <2>2. CASE NextModel(w) /\ Turns # {}
    <3>1. (next_index + FirstTurn + 1) % Len(Candidates) \in 0..Len(Candidates)
      BY <1>1, <2>2, TurnType DEF ProviderShape
    <3>2. next_index' = (next_index + FirstTurn + 1) % Len(Candidates) /\ catalogue' = catalogue
      BY <2>2 DEF NextModel
    <3>3. Candidates' = Candidates
      BY <3>2 DEF Candidates
    <3> QED BY <3>1, <3>2, <3>3 DEF ProviderShape
  <2>3. CASE Refreshed(w)
    <3>1. catalogue' \in Catalogues \cup {NoCatalogue} /\ next_index' = 0
      BY <2>3 DEF Refreshed
    <3>2. Candidates' \in Seq(Models)
      BY <3>1, CatalogueType DEF Candidates
    <3>3. Len(Candidates)' \in Nat
      BY <3>2
    <3> QED BY <3>1, <3>3
  <2> QED BY <2>1, <2>2, <2>3
       DEF Worker, Complete, NextModel, NextModelFails, ModelIsGone, PickFree, TooDear, OverBudget,
           Reserve, ReserveFails, Send, NotSent, Receive, ReceiveError, ReceiveRaises, NoCost,
           Reconcile, Refresh, RefreshFails, rotation, Cool
<1>3. cooling' \subseteq Models
  <2>1. call[w].model \in Models /\ cooling \subseteq Models
    BY DEF ProviderShape, Calls
  <2> QED BY <2>1
       DEF Worker, Complete, NextModel, NextModelFails, ModelIsGone, PickFree, TooDear, OverBudget,
           Reserve, ReserveFails, Send, NotSent, Receive, ReceiveError, ReceiveRaises, NoCost,
           Reconcile, Refresh, Refreshed, RefreshFails, rotation, Cool
<1>4. log' \in [size : Nat, reserved : Nat]
  <2>1. /\ log \in [size : Nat, reserved : Nat] /\ AuditRoom \in Nat
    BY ConstantsType DEF ProviderShape
  <2>2. Kept(0) \in Nat /\ Kept(AuditRoom) \in Nat
    BY <2>1 DEF Kept
  <2>3. ASSUME NEW n \in Nat, NEW keep \in Nat, NEW release \in {0, AuditRoom},
               Audit(n, keep, release)
        PROVE  log' \in [size : Nat, reserved : Nat]
    <3>1. Kept(release) + keep \in Nat /\ log.size + n \in Nat /\ Kept(release) \in Nat
      BY <2>1, <2>2, <2>3
    <3> HIDE DEF Fits, Kept
    <3>2. [size |-> log.size + n, reserved |-> Kept(release) + keep] \in [size : Nat, reserved : Nat]
      BY <3>1
    <3>3. [log EXCEPT !.reserved = Kept(release)] \in [size : Nat, reserved : Nat]
      BY <2>1, <3>1
    <3> QED BY <2>3, <3>2, <3>3 DEF Audit
  <2>4. CASE Audit(1, AuditRoom, 0)
    BY <2>1, <2>3, <2>4
  <2>5. CASE Answered(w)
    <3>1. PICK n \in 1..AuditRoom : Audit(n, 0, AuditRoom)
      BY <2>5 DEF Answered
    <3>2. n \in Nat
      BY <2>1
    <3> QED BY <2>3, <3>1, <3>2
  <2>6. CASE log' = log \/ log' = [log EXCEPT !.reserved = Kept(AuditRoom)]
    BY <2>1, <2>2, <2>6
  <2> QED BY <2>4, <2>5, <2>6
       DEF Worker, Complete, NextModel, NextModelFails, ModelIsGone, PickFree, TooDear, OverBudget,
           Reserve, ReserveFails, Send, NotSent, Receive, ReceiveError, ReceiveRaises, NoCost,
           Reconcile, Refresh, Refreshed, RefreshFails
<1>5. owed' \in [1..LastDay -> Int]
  <2>1. /\ owed \in [1..LastDay -> Int] /\ call[w].day \in 1..LastDay
        /\ call[w].reservation \in Int /\ Dearest \in Nat
    BY ConstantsType, SMTT(30) DEF ProviderShape, Calls
  <2>2. CASE Send(w)
    BY <2>1, <2>2 DEF Send
  <2>3. ASSUME NEW cost \in 0..Dearest, Reconcile(w, cost)
        PROVE  owed' \in [1..LastDay -> Int]
    BY <2>1, <2>3 DEF Reconcile
  <2> QED BY <2>1, <2>2, <2>3
       DEF Worker, Complete, NextModel, NextModelFails, ModelIsGone, PickFree, TooDear, OverBudget,
           Reserve, ReserveFails, NotSent, Receive, ReceiveError, ReceiveRaises, NoCost, Refresh,
           Refreshed, RefreshFails, history
<1>6. excused' \in BOOLEAN /\ today' = today
  <2>1. excused \in BOOLEAN
    BY DEF ProviderShape
  <2> QED BY <2>1
       DEF Worker, Complete, NextModel, NextModelFails, ModelIsGone, PickFree, TooDear, OverBudget,
           Reserve, ReserveFails, Send, NotSent, Receive, ReceiveError, ReceiveRaises, NoCost,
           Reconcile, Refresh, Refreshed, RefreshFails, history, world
<1>7. forgotten' \in Nat
  <2>1. /\ forgotten \in Nat /\ call[w].reservation \in Nat /\ paid_reserved \in Nat
        /\ Daily \in Nat /\ Dearest \in Nat
    BY ConstantsType, SMTT(30) DEF ProviderShape, Calls
  <2>2. ASSUME NEW cost \in 0..Dearest, Reconcile(w, cost)
        PROVE  forgotten' \in Nat
    <3>1. CutOff(call[w].reservation, cost) \in Nat
      BY <2>1 DEF CutOff
    <3> QED BY <2>1, <2>2, <3>1 DEF Reconcile
  <2> QED BY <2>1, <2>2
       DEF Worker, Complete, NextModel, NextModelFails, ModelIsGone, PickFree, TooDear, OverBudget,
           Reserve, ReserveFails, Send, NotSent, Receive, ReceiveError, ReceiveRaises, NoCost,
           Refresh, Refreshed, RefreshFails, history
<1> QED BY <1>2, <1>3, <1>4, <1>5, <1>6, <1>7

\* A process that starts again finds its files as the last one left them, or one of them empty.
LEMMA RestartKeepsShape ==
  ASSUME ProviderShape, Crash \/ CrashInSave
  PROVE  ProviderShape'
<1>1. PICK file \in {budget_file, Empty} : Restart(file)
  BY DEF Crash, CrashInSave
<1>2. /\ today \in 1..LastDay /\ today \in Nat /\ 1 <= today
      /\ paid_day \in Nat /\ paid_day <= today /\ Daily \in Nat
  BY ConstantsType DEF ProviderShape
<1>3. budget_file' \in [day : 0..paid_day', reserved_usd : 0..Daily] /\ paid_day' = today
  <2>1. file \in [day : 0..today, reserved_usd : 0..Daily]
    <3>1. budget_file \in [day : 0..paid_day, reserved_usd : 0..Daily]
      BY DEF ProviderShape
    <3> QED BY <3>1, <1>2 DEF Empty
  <2>2. budget_file' = file /\ paid_day' = today
    BY <1>1 DEF Restart
  <2> QED BY <2>1, <2>2
<1>4. paid_reserved' \in 0..Daily
  <2>1. file.reserved_usd \in 0..Daily
    BY <1>2 DEF ProviderShape, Empty
  <2> QED BY <1>1, <1>2, <2>1 DEF Restart, Loaded, Least
<1>5. call' \in [Workers -> Calls] /\ \A w \in Workers : call'[w].day <= paid_day'
  BY <1>1, <1>2, <1>3, IdleType DEF Restart
<1>6. /\ catalogue' \in Catalogues \cup {NoCatalogue} /\ cooling' \subseteq Models
      /\ next_index' = 0 /\ today' = today /\ owed' = owed /\ excused' \in BOOLEAN
      /\ forgotten' = forgotten
      /\ log' \in [size : Nat, reserved : Nat]
  <2>1. log \in [size : Nat, reserved : Nat] /\ excused \in BOOLEAN
    BY DEF ProviderShape
  <2> QED BY <1>1, <2>1 DEF Restart, Crash, CrashInSave
<1>7. 0 \in 0..Len(Candidates)'
  <2>1. Candidates' = <<>>
    BY <1>1 DEF Restart, NoCatalogue, Candidates
  <2> QED BY <2>1
<1>8. today \in 1..today
  BY <1>2
<1> QED BY <1>2, <1>3, <1>4, <1>5, <1>6, <1>7, <1>8 DEF ProviderShape

\* Every step keeps the shapes.
LEMMA ShapeStep == ProviderShape /\ [Next]_vars => ProviderShape'
<1> SUFFICES ASSUME ProviderShape, [Next]_vars PROVE ProviderShape'
  OBVIOUS
<1>1. CASE UNCHANGED vars
  BY <1>1 DEF vars, rotation, book, world, history, ProviderShape, Candidates
<1>2. ASSUME NEW w \in Workers, Worker(w)
      PROVE  ProviderShape'
  <2>1. PICK c \in Calls : c.day <= paid_day' /\ call' = [call EXCEPT ![w] = c]
    BY <1>2, WorkerKeepsCall
  <2>2. paid_day' \in 1..today /\ paid_day <= paid_day' /\ paid_day' \in Nat
    BY <1>2, WorkerKeepsBook, ConstantsType, SMTT(30) DEF ProviderShape
  <2>3. call' \in [Workers -> Calls] /\ \A v \in Workers : call'[v].day <= paid_day'
    BY <2>1, <2>2, CallUpdated DEF ProviderShape
  <2> QED BY <1>2, <2>3, WorkerKeepsBook, WorkerKeepsRest DEF ProviderShape
<1>3. CASE ClearCircuit \/ \E m \in Models : CoolDown(m)
  BY <1>3 DEF ClearCircuit, CoolDown, ProviderShape, book, world, history, Candidates
<1>4. CASE Midnight
  <2>1. today' \in 1..LastDay /\ paid_day \in 1..today'
    BY <1>4, ConstantsType DEF Midnight, ProviderShape
  <2> QED BY <1>4, <2>1 DEF Midnight, ProviderShape, rotation, book, Candidates
<1>5. CASE Crash \/ CrashInSave
  BY <1>5, RestartKeepsShape
<1> QED BY <1>1, <1>2, <1>3, <1>4, <1>5 DEF Next

\* The account of a day never shows more than its budget, its file and its requests are of no
\* later day than it is, and a model picked is one of the catalogue's, whatever the threads,
\* midnights and crashes do.
THEOREM ProviderTypeCorrect == Spec => []ProviderTypeOK
<1>1. ProviderShape => ProviderTypeOK
  <2> SUFFICES ASSUME ProviderShape PROVE ProviderTypeOK
    OBVIOUS
  <2>1. budget_file.day \in 0..today /\ budget_file.reserved_usd \in 0..Daily
    BY ConstantsType DEF ProviderShape
  <2>2. \A w \in Workers : call[w].model \in Models /\ call[w].reservation \in 0..Dearest
    BY DEF ProviderShape, Calls
  <2> QED BY <2>1, <2>2 DEF ProviderShape, ProviderTypeOK
<1> QED BY <1>1, ShapeInit, ShapeStep, PTL DEF Spec

\* Shapes, for the proofs that follow.
LEMMA ShapeInvariant == Spec => []ProviderShape
BY ShapeInit, ShapeStep, PTL DEF Spec

-------------------------------------------------------------------------------
(* The room kept in the audit log *)

\* One answer more or less to keep room for.
LEMMA RoomForOne ==
  ASSUME NEW n \in Nat, NEW room \in Nat
  PROVE  /\ n * room \in Nat
         /\ (n + 1) * room = n * room + room
         /\ n > 0 => (n - 1) * room = n * room - room /\ n * room - room \in Nat
<1>1. n * room \in Nat /\ (n + 1) * room = n * room + room
  OBVIOUS
<1>2. ASSUME n > 0
      PROVE  (n - 1) * room = n * room - room /\ (n - 1) * room \in Nat
  <2>1. PICK m \in Nat : n = m + 1
    <3>1. n - 1 \in Nat /\ n = (n - 1) + 1
      BY <1>2
    <3> QED BY <3>1
  <2>2. m * room \in Nat /\ (m + 1) * room = m * room + room
    OBVIOUS
  <2>3. n - 1 = m
    BY <2>1
  <2> QED BY <2>1, <2>2, <2>3
<1> QED BY <1>1, <1>2

\* How many wait for an answer changes by the one worker that moves.
LEMMA AskingChanges ==
  ASSUME ProviderShape, NEW w \in Workers, Worker(w)
  PROVE  /\ Cardinality(Asking) \in Nat
         /\ w \in Asking => Cardinality(Asking) > 0
         /\ Cardinality(Asking)' =
              IF call'[w].pc \in {"waiting", "refreshing"}
              THEN IF w \in Asking THEN Cardinality(Asking) ELSE Cardinality(Asking) + 1
              ELSE IF w \in Asking THEN Cardinality(Asking) - 1 ELSE Cardinality(Asking)
<1>1. IsFiniteSet(Asking) /\ Cardinality(Asking) \in Nat
  BY ProviderAssumption, FS_Subset, FS_CardinalityType DEF Asking
<1>2. \A v \in Workers : v # w => call'[v] = call[v]
  BY OthersKeepCalls
<1>3. Asking' = IF call'[w].pc \in {"waiting", "refreshing"} THEN Asking \cup {w} ELSE Asking \ {w}
  BY <1>2 DEF Asking
<1>4. w \in Asking => Cardinality(Asking) > 0
  <2>1. Cardinality(Asking) = 0 => Asking = {}
    BY <1>1, FS_EmptySet
  <2> QED BY <1>1, <2>1
<1>5. /\ Cardinality(Asking \cup {w}) = IF w \in Asking THEN Cardinality(Asking)
                                                       ELSE Cardinality(Asking) + 1
      /\ Cardinality(Asking \ {w}) = IF w \in Asking THEN Cardinality(Asking) - 1
                                                    ELSE Cardinality(Asking)
  BY <1>1, FS_AddElement, FS_RemoveElement
<1> QED BY <1>1, <1>3, <1>4, <1>5

\* A request goes out with room for its answer.
LEMMA RoomIsKept ==
  ASSUME ProviderShape, AnswersFitTheLog, NEW w \in Workers, Send(w) \/ Refresh(w)
  PROVE  AnswersFitTheLog'
<1> DEFINE n == Cardinality(Asking)
<1>1. Worker(w) /\ w \notin Asking /\ call'[w].pc \in {"waiting", "refreshing"}
  BY SMTT(30) DEF Send, Refresh, Worker, Asking, Goto, ProviderShape, Calls
<1>2. n \in Nat /\ Cardinality(Asking)' = n + 1
  BY <1>1, AskingChanges
<1>3. Fits(1, AuditRoom, 0) /\ Audit(1, AuditRoom, 0)
  BY DEF Send, Refresh
<1>4. log.size \in Nat /\ log.reserved \in Nat /\ AuditRoom \in Nat /\ LogLimit \in Nat
  BY ConstantsType DEF ProviderShape
<1>5. Kept(0) = log.reserved
  BY <1>4 DEF Kept
<1>6. /\ log'.size = log.size + 1 /\ log'.reserved = log.reserved + AuditRoom
      /\ log.size + log.reserved + 1 + AuditRoom <= LogLimit
  BY <1>3, <1>5 DEF Audit, Fits
<1>7. log.reserved = n * AuditRoom /\ (n + 1) * AuditRoom = n * AuditRoom + AuditRoom
  BY <1>2, <1>4, RoomForOne DEF AnswersFitTheLog
<1> HIDE DEF n
<1>8. log'.reserved = (n + 1) * AuditRoom
  BY <1>6, <1>7
<1>9. log'.size + log'.reserved <= LogLimit
  BY <1>4, <1>6
<1> QED BY <1>2, <1>8, <1>9 DEF AnswersFitTheLog

\* An answer, or the end of the wait for it, takes no more than the room kept and frees it.
LEMMA RoomIsFreed ==
  ASSUME ProviderShape, AnswersFitTheLog, NEW w \in Workers, Worker(w),
         w \in Asking, call'[w].pc \notin {"waiting", "refreshing"},
         Answered(w) \/ log' = [log EXCEPT !.reserved = Kept(AuditRoom)]
  PROVE  AnswersFitTheLog'
<1> DEFINE n == Cardinality(Asking)
<1>1. n \in Nat /\ n > 0 /\ Cardinality(Asking)' = n - 1
  BY AskingChanges
<1>2. log \in [size : Nat, reserved : Nat] /\ log.size \in Nat /\ log.reserved \in Nat
      /\ AuditRoom \in Nat /\ LogLimit \in Nat
  BY ConstantsType DEF ProviderShape
<1>3. /\ log.reserved = n * AuditRoom /\ log.size + log.reserved <= LogLimit
      /\ (n - 1) * AuditRoom = log.reserved - AuditRoom /\ log.reserved - AuditRoom \in Nat
  BY <1>1, <1>2, RoomForOne DEF AnswersFitTheLog
<1> HIDE DEF n
<1>4. Kept(AuditRoom) = log.reserved - AuditRoom
  BY <1>2, <1>3 DEF Kept
<1>5. log'.reserved = log.reserved - AuditRoom /\ log'.size + log'.reserved <= LogLimit
  <2>1. CASE log' = [log EXCEPT !.reserved = Kept(AuditRoom)]
    BY <1>2, <1>3, <1>4, <2>1
  <2>2. CASE Answered(w)
    <3>1. PICK k \in 1..AuditRoom : Fits(k, 0, AuditRoom) /\ Audit(k, 0, AuditRoom)
      BY <2>2 DEF Answered
    <3>2. log' = [size |-> log.size + k, reserved |-> Kept(AuditRoom) + 0]
      BY <3>1 DEF Audit
    <3> QED BY <1>2, <1>3, <1>4, <3>2
  <2> QED BY <2>1, <2>2
<1> QED BY <1>1, <1>3, <1>5 DEF AnswersFitTheLog

\* No step takes the room of an answer that is still to come.
LEMMA RoomStep == ProviderShape /\ AnswersFitTheLog /\ [Next]_vars => AnswersFitTheLog'
<1> SUFFICES ASSUME ProviderShape, AnswersFitTheLog, [Next]_vars PROVE AnswersFitTheLog'
  OBVIOUS
<1>1. CASE UNCHANGED <<log, call>>
  <2>1. Asking' = Asking
    BY <1>1 DEF Asking
  <2> QED BY <1>1, <2>1 DEF AnswersFitTheLog
<1>2. ASSUME NEW w \in Workers, Worker(w)
      PROVE  AnswersFitTheLog'
  <2>1. CASE Send(w) \/ Refresh(w)
    BY <2>1, RoomIsKept
  <2>2. CASE Receive(w) \/ ReceiveError(w) \/ ReceiveRaises(w) \/ Refreshed(w) \/ RefreshFails(w)
    <3>1. /\ w \in Asking
          /\ Answered(w) \/ log' = [log EXCEPT !.reserved = Kept(AuditRoom)]
      BY <2>2 DEF Receive, ReceiveError, ReceiveRaises, Refreshed, RefreshFails, Asking
    <3>2. call'[w].pc \notin {"waiting", "refreshing"}
      BY <2>2, IdleType, SMTT(30) DEF Receive, ReceiveError, ReceiveRaises, Refreshed, RefreshFails, Goto,
         Return, NextAttempt, ProviderShape, Calls
    <3> QED BY <1>2, <3>1, <3>2, RoomIsFreed
  <2>3. CASE /\ log' = log /\ call[w].pc \notin {"waiting", "refreshing"}
             /\ call'[w].pc \notin {"waiting", "refreshing"}
    <3>1. Cardinality(Asking)' = Cardinality(Asking)
      BY <1>2, <2>3, AskingChanges DEF Asking
    <3> QED BY <2>3, <3>1 DEF AnswersFitTheLog
  <2>4. call \in [Workers -> Calls]
    BY DEF ProviderShape
  <2>5. CASE Complete(w) \/ NextModel(w) \/ NextModelFails(w) \/ ModelIsGone(w) \/ PickFree(w)
    <3>1. log' = log /\ call[w].pc \in {"idle", "picking", "picked"}
      BY <2>5 DEF Complete, NextModel, NextModelFails, ModelIsGone, PickFree, Picked
    <3>2. call'[w].pc \notin {"waiting", "refreshing"}
      BY <2>4, <2>5, IdleType
         DEF Complete, NextModel, NextModelFails, ModelIsGone, PickFree, Return, Calls
    <3> QED BY <2>3, <3>1, <3>2
  <2>6. CASE TooDear(w) \/ OverBudget(w) \/ Reserve(w) \/ ReserveFails(w) \/ NotSent(w)
    <3>1. log' = log /\ call[w].pc \in {"picked", "asking"}
      BY <2>6 DEF TooDear, OverBudget, Reserve, ReserveFails, NotSent, CanReserve, Picked
    <3>2. call'[w].pc \notin {"waiting", "refreshing"}
      BY <2>4, <2>6, IdleType
         DEF TooDear, OverBudget, Reserve, ReserveFails, Goes, NotSent, NextAttempt, Return, Calls
    <3> QED BY <2>3, <3>1, <3>2
  <2>7. CASE NoCost(w) \/ \E cost \in 0..Dearest : Reconcile(w, cost)
    <3>1. log' = log /\ call[w].pc = "answered" /\ Return(w)
      BY <2>7 DEF NoCost, Reconcile
    <3>2. call'[w].pc = "idle"
      BY <2>4, <3>1, IdleType DEF Return
    <3> QED BY <2>3, <3>1, <3>2
  <2> QED BY <1>2, <2>1, <2>2, <2>5, <2>6, <2>7 DEF Worker
<1>3. CASE Crash \/ CrashInSave
  <2>1. Asking' = {} /\ log'.reserved = 0 /\ log'.size = log.size
    BY <1>3, IdleType DEF Crash, CrashInSave, Restart, Asking, ProviderShape
  <2>2. Cardinality(Asking)' = 0
    BY <2>1, FS_EmptySet
  <2>3. Cardinality(Asking) \in Nat
    BY ProviderAssumption, FS_Subset, FS_CardinalityType DEF Asking
  <2>4. /\ Cardinality(Asking) * AuditRoom \in Nat /\ 0 * AuditRoom = 0
        /\ log.size \in Nat /\ LogLimit \in Nat
    BY <2>3, ConstantsType, RoomForOne DEF ProviderShape
  <2>5. log.size + 0 <= LogLimit
    BY <2>4 DEF AnswersFitTheLog
  <2> QED BY <2>1, <2>2, <2>4, <2>5 DEF AnswersFitTheLog
<1> QED BY <1>1, <1>2, <1>3
     DEF Next, CoolDown, ClearCircuit, Midnight, vars

\* Once a request is sent its answer fits into the log, however many threads ask at the same
\* time and however their requests end, and the room kept is exactly theirs.
THEOREM AnswersFit == Spec => []AnswersFitTheLog
<1>1. Init => AnswersFitTheLog
  <2> SUFFICES ASSUME Init PROVE AnswersFitTheLog
    OBVIOUS
  <2>1. Asking = {} /\ log.size = 0 /\ log.reserved = 0
    BY IdleType DEF Init, Asking
  <2>2. Cardinality({}) = 0 /\ 0 * AuditRoom = 0 /\ 0 + 0 <= LogLimit
    BY FS_EmptySet, ConstantsType
  <2> QED BY <2>1, <2>2 DEF AnswersFitTheLog
<1> QED BY <1>1, RoomStep, ShapeInvariant, PTL DEF Spec

-------------------------------------------------------------------------------
(* What is reserved and not yet sent *)

\* One element for each unit of money that f has for the members of W, and so many without w's
Units(W, m, f) == {p \in W \X (1..m) : p[2] <= f[p[1]]}
UnitsBut(w, W, m, f) == {p \in Units(W, m, f) : p[1] # w}

\* A request that has its reservation and is not in the log yet: none of its money is owed,
\* and all of it may still be.
Pledge(w) == IF call[w].pc = "asking" /\ call[w].day = today THEN call[w].reservation ELSE 0

\* As many elements as today's pledges are units
Pledged == Units(Workers, Dearest, [w \in Workers |-> Pledge(w)])

\* A sum is one summand more than the sum of the others.
LEMMA SumOfAll ==
  ASSUME NEW W, IsFiniteSet(W), NEW m \in Nat, NEW f \in [W -> 0..m], NEW w \in W
  PROVE  /\ Cardinality(Units(W, m, f)) \in Nat /\ Cardinality(UnitsBut(w, W, m, f)) \in Nat
         /\ Cardinality(Units(W, m, f)) = Cardinality(UnitsBut(w, W, m, f)) + f[w]
<1> DEFINE all == Units(W, m, f)
           others == UnitsBut(w, W, m, f)
<1>0. PICK k \in Nat : k = f[w] /\ k <= m
  OBVIOUS
<1> DEFINE own == {w} \X (1..k)
<1>1. IsFiniteSet(1..m) /\ IsFiniteSet(1..k) /\ Cardinality(1..k) = k
  <2>1. 1 \in Int /\ k \in Int /\ m \in Int
    OBVIOUS
  <2>2. IsFiniteSet(1..m) /\ IsFiniteSet(1..k)
    BY <2>1, FS_Interval
  <2>3. Cardinality(1..k) = IF 1 > k THEN 0 ELSE k - 1 + 1
    BY <2>1, FS_Interval
  <2> QED BY <2>1, <2>2, <2>3
<1>2. IsFiniteSet(all) /\ IsFiniteSet(others)
  <2>1. IsFiniteSet(W \X (1..m))
    BY <1>1, FS_Product
  <2>2. all \subseteq W \X (1..m) /\ others \subseteq W \X (1..m)
    BY DEF Units, UnitsBut
  <2> HIDE DEF all, others
  <2> QED BY <2>1, <2>2, FS_Subset
<1>3. IsFiniteSet(own) /\ Cardinality(own) = k
  <2>1. IsFiniteSet({w}) /\ Cardinality({w}) = 1
    BY FS_Singleton
  <2>2. IsFiniteSet(own) /\ Cardinality(own) = Cardinality({w}) * Cardinality(1..k)
    BY <1>1, <2>1, FS_Product
  <2>3. 1 * k = k
    OBVIOUS
  <2> QED BY <1>1, <2>1, <2>2, <2>3
<1>4. all = others \cup own /\ others \cap own = {}
  <2>1. \A p \in own : p \in all
    BY <1>0 DEF Units
  <2>2. \A p \in all : p \in others \/ p \in own
    BY <1>0 DEF Units, UnitsBut
  <2>3. \A p \in others : p \in all /\ p \notin own
    BY DEF UnitsBut
  <2> QED BY <2>1, <2>2, <2>3
<1> HIDE DEF all, others, own
<1>5. Cardinality(all) = Cardinality(others) + Cardinality(own) - Cardinality({})
  BY <1>2, <1>3, <1>4, FS_Union
<1>6. Cardinality({}) = 0 /\ Cardinality(all) \in Nat /\ Cardinality(others) \in Nat
  BY <1>2, FS_EmptySet, FS_CardinalityType
<1>7. Cardinality(all) = Cardinality(others) + f[w]
  BY <1>0, <1>3, <1>5, <1>6
<1> QED BY <1>6, <1>7 DEF all, others

\* A pledge is a number of units a request may cost.
LEMMA PledgeType ==
  ASSUME ProviderShape, NEW w \in Workers
  PROVE  Pledge(w) \in 0..Dearest /\ Pledge(w) \in Nat
  BY ConstantsType DEF ProviderShape, Calls, Pledge

\* The sum of the pledges changes by the pledge of the one worker that moves.
LEMMA PledgeChanges ==
  ASSUME ProviderShape, ProviderShape', today' = today,
         NEW w \in Workers, \A v \in Workers : v # w => call'[v] = call[v]
  PROVE  /\ Cardinality(Pledged) \in Nat /\ Cardinality(Pledged)' \in Nat
         /\ Pledge(w) \in Nat /\ Pledge(w)' \in Nat
         /\ Pledge(w) <= Cardinality(Pledged)
         /\ Cardinality(Pledged)' = Cardinality(Pledged) - Pledge(w) + Pledge(w)'
<1> DEFINE f == [v \in Workers |-> Pledge(v)]
           g == [v \in Workers |-> Pledge(v)']
           all(h) == Units(Workers, Dearest, h)
           others(h) == UnitsBut(w, Workers, Dearest, h)
<1>1. \A v \in Workers : Pledge(v) \in 0..Dearest
  BY PledgeType
<1>2. \A v \in Workers : Pledge(v)' \in 0..Dearest
  BY ConstantsType DEF ProviderShape, Calls, Pledge
<1>3. \A v \in Workers : v # w => Pledge(v)' = Pledge(v)
  BY DEF Pledge
<1>4. f \in [Workers -> 0..Dearest] /\ g \in [Workers -> 0..Dearest]
  BY <1>1, <1>2
<1>5. Pledged = all(f) /\ Pledged' = all(g)
  BY DEF Pledged
<1>6. others(f) = others(g)
  BY <1>3 DEF Units, UnitsBut
<1>7. f[w] = Pledge(w) /\ g[w] = Pledge(w)'
  OBVIOUS
<1>8. IsFiniteSet(Workers) /\ Dearest \in Nat
  BY ProviderAssumption, ConstantsType
<1> HIDE DEF f, g
<1>9. \A h \in [Workers -> 0..Dearest] :
        /\ Cardinality(all(h)) \in Nat /\ Cardinality(others(h)) \in Nat
        /\ Cardinality(all(h)) = Cardinality(others(h)) + h[w]
  BY <1>8, SumOfAll
<1> HIDE DEF all, others
<1>10. Pledge(w) \in Nat /\ Pledge(w)' \in Nat
  BY <1>1, <1>2, <1>8
<1>11. /\ Cardinality(Pledged) \in Nat /\ Cardinality(Pledged)' \in Nat
       /\ Cardinality(Pledged) = Cardinality(others(f)) + Pledge(w)
       /\ Cardinality(Pledged)' = Cardinality(others(f)) + Pledge(w)'
       /\ Cardinality(others(f)) \in Nat
  BY <1>4, <1>5, <1>6, <1>7, <1>9
<1> QED BY <1>10, <1>11

\* When nothing is pledged, the sum is nothing.
LEMMA NothingPledged ==
  ASSUME \A w \in Workers : Pledge(w) = 0
  PROVE  Cardinality(Pledged) = 0
<1>1. Pledged = {}
  BY ConstantsType DEF Pledged, Units
<1> QED BY <1>1, FS_EmptySet

\* An account that has not come to today has nothing pledged for today.
LEMMA NothingPledgedAhead ==
  ASSUME ProviderShape, paid_day < today
  PROVE  Cardinality(Pledged) = 0
<1>1. \A w \in Workers : call[w].day < today
  BY ConstantsType, SMTT(30) DEF ProviderShape, Calls
<1>2. \A w \in Workers : Pledge(w) = 0
  BY <1>1, ConstantsType, SMTT(30) DEF Pledge, ProviderShape, Calls
<1> QED BY <1>2, NothingPledged

-------------------------------------------------------------------------------
(* Today's account covers today's requests *)

\* What a restart would read from the file
OnFile == IF budget_file.day = today THEN budget_file.reserved_usd ELSE 0

Covered(n) == owed[today] + Cardinality(Pledged) <= n + forgotten

\* Nothing is owed for a day the account has not come to; what is owed and pledged for today is
\* in the account, but for what min() has cut off it, and in the file unless that was cut short, so
\* that a restart finds it.
BookCovers ==
  /\ \A d \in 1..LastDay : d > paid_day => owed[d] = 0
  /\ paid_day = today /\ ~excused =>
       Covered(paid_reserved) /\ (budget_file # Empty => Covered(OnFile))

\* The numbers among the shapes
LEMMA ShapeNumbers ==
  ASSUME ProviderShape
  PROVE  /\ paid_day \in Nat /\ today \in Nat /\ paid_day <= today /\ today \in 1..LastDay
         /\ paid_reserved \in Nat /\ paid_reserved <= Daily /\ Daily \in Nat /\ forgotten \in Nat
         /\ \A d \in 1..LastDay : owed[d] \in Int
         /\ \A w \in Workers :
              /\ call[w].reservation \in Nat /\ call[w].day \in 1..LastDay
              /\ call[w].day \in Nat /\ call[w].day <= paid_day
<1>1. /\ paid_day \in Nat /\ today \in Nat /\ paid_day <= today /\ today \in 1..LastDay
      /\ paid_reserved \in Nat /\ paid_reserved <= Daily /\ Daily \in Nat /\ forgotten \in Nat
  BY ConstantsType DEF ProviderShape
<1>2. \A d \in 1..LastDay : owed[d] \in Int
  BY DEF ProviderShape
<1>3. \A w \in Workers : /\ call[w].reservation \in Nat /\ call[w].day \in 1..LastDay
                           /\ call[w].day \in Nat /\ call[w].day <= paid_day
  BY ConstantsType, SMTT(30) DEF ProviderShape, Calls
<1> QED BY <1>1, <1>2, <1>3

\* A provider that has just started owes nothing.
LEMMA CoversInit == Init => BookCovers
<1> SUFFICES ASSUME Init PROVE BookCovers
  OBVIOUS
<1>1. \A w \in Workers : Pledge(w) = 0
  BY IdleType DEF Init, Pledge
<1>2. Cardinality(Pledged) = 0
  BY <1>1, NothingPledged
<1>3. today = 1 /\ paid_reserved = 0 /\ budget_file = Empty /\ forgotten = 0 /\ \A d \in 1..LastDay : owed[d] = 0
  BY DEF Init
<1>4. owed[today] = 0
  BY <1>3, ConstantsType
<1> QED BY <1>2, <1>3, <1>4 DEF BookCovers, Covered

\* The sum of the pledges is a number.
LEMMA PledgedType == Cardinality(Pledged) \in Nat
<1>1. IsFiniteSet(Workers) /\ IsFiniteSet(1..Dearest)
  BY ProviderAssumption, ConstantsType, FS_Interval
<1>2. IsFiniteSet(Workers \X (1..Dearest))
  BY <1>1, FS_Product
<1>3. Pledged \subseteq Workers \X (1..Dearest)
  BY DEF Pledged, Units
<1> QED BY <1>2, <1>3, FS_Subset, FS_CardinalityType

\* What the account will show once it has come to today covers today, and so does the file.
LEMMA TodayCovers ==
  ASSUME ProviderShape, BookCovers, ~excused
  PROVE  Covered(Reserved) /\ (budget_file # Empty => Covered(OnFile))
<1>1. paid_day \in Nat /\ today \in Nat /\ paid_day <= today /\ today \in 1..LastDay
  BY ConstantsType DEF ProviderShape
<1>2. CASE paid_day = today
  BY <1>2 DEF BookCovers, Reserved
<1>3. CASE paid_day < today
  <2>1. owed[today] = 0 /\ Cardinality(Pledged) = 0
    BY <1>1, <1>3, NothingPledgedAhead DEF BookCovers
  <2>2. Reserved = 0
    BY <1>1, <1>3 DEF Reserved
  <2>3. OnFile \in Nat /\ forgotten \in Nat
    BY ConstantsType DEF ProviderShape, OnFile
  <2>4. 0 + 0 <= 0 + forgotten /\ 0 + 0 <= OnFile + forgotten
    BY <2>3
  <2> QED BY <2>1, <2>2, <2>4 DEF Covered
<1> QED BY <1>1, <1>2, <1>3

\* The account comes to today, or stays there, and takes r more; a new pledge is no more than r,
\* and the file is written, or left as it was when nothing new is pledged, or cut short.
LEMMA AccountMoves ==
  ASSUME ProviderShape, ProviderShape', BookCovers, NEW w \in Workers, Worker(w),
         UNCHANGED <<owed, forgotten, excused>>, paid_day' = today,
         NEW r \in Nat, paid_reserved' = Reserved + r, Pledge(w)' <= Pledge(w) + r,
         \/ budget_file' = [day |-> today, reserved_usd |-> Reserved + r]
         \/ budget_file' \in {budget_file, Empty} /\ Pledge(w)' <= Pledge(w)
  PROVE  BookCovers'
<1>1. /\ paid_day \in Nat /\ today \in Nat /\ paid_day <= today /\ today' = today
      /\ today \in 1..LastDay /\ owed[today] \in Int
      /\ paid_reserved \in Nat /\ forgotten \in Nat /\ forgotten' = forgotten
  BY WorkerKeepsRest, ShapeNumbers
<1>2. /\ Cardinality(Pledged) \in Nat /\ Cardinality(Pledged)' \in Nat
      /\ Pledge(w) \in Nat /\ Pledge(w)' \in Nat
      /\ Cardinality(Pledged)' = Cardinality(Pledged) - Pledge(w) + Pledge(w)'
  <2>1. \A v \in Workers : v # w => call'[v] = call[v]
    BY OthersKeepCalls
  <2> QED BY <2>1, <1>1, PledgeChanges
<1>3. \A d \in 1..LastDay : d > paid_day' => owed'[d] = 0
  BY <1>1, ConstantsType DEF BookCovers
<1>4. ASSUME ~excused
      PROVE  Covered(paid_reserved)' /\ (budget_file' # Empty => Covered(OnFile)')
  <2>1. Covered(Reserved) /\ (budget_file # Empty => Covered(OnFile))
    BY <1>4, TodayCovers
  <2>2. Reserved \in Nat
    BY <1>1 DEF Reserved
  <2>3. Covered(paid_reserved)'
    BY <1>1, <1>2, <2>1, <2>2 DEF Covered
  <2>4. CASE budget_file' = [day |-> today, reserved_usd |-> Reserved + r]
    <3>1. OnFile' = paid_reserved'
      BY <1>1, <2>4 DEF OnFile
    <3> QED BY <2>3, <3>1 DEF Covered
  <2>5. CASE budget_file' = budget_file /\ Pledge(w)' <= Pledge(w)
    <3>1. OnFile' = OnFile /\ OnFile \in Int
      BY <1>1, <2>5, ConstantsType DEF OnFile, ProviderShape
    <3>2. budget_file # Empty => Covered(OnFile)'
      BY <1>1, <1>2, <2>1, <2>5, <3>1 DEF Covered
    <3> QED BY <2>3, <2>5, <3>2
  <2>6. CASE budget_file' = Empty
    BY <2>3, <2>6
  <2> QED BY <2>4, <2>5, <2>6
<1> QED BY <1>1, <1>3, <1>4 DEF BookCovers

\* Money that is owed instead of pledged, or no longer pledged, was in the account already.
LEMMA MoneyMoves ==
  ASSUME ProviderShape, ProviderShape', BookCovers, NEW w \in Workers, Worker(w),
         UNCHANGED <<book, forgotten, excused>>,
         \A d \in 1..LastDay : d > paid_day => owed'[d] = owed[d],
         owed'[today] + Pledge(w)' <= owed[today] + Pledge(w)
  PROVE  BookCovers'
<1>1. /\ paid_day \in Nat /\ today \in Nat /\ today' = today /\ today \in 1..LastDay
      /\ owed[today] \in Int /\ owed'[today] \in Int
      /\ paid_reserved \in Int /\ forgotten \in Nat
      /\ UNCHANGED <<paid_day, paid_reserved, budget_file, forgotten>>
  <2>1. today' = today /\ owed' \in [1..LastDay -> Int]
    BY WorkerKeepsRest
  <2> QED BY <2>1, ShapeNumbers DEF book
<1>2. /\ Cardinality(Pledged) \in Nat /\ Cardinality(Pledged)' \in Nat
      /\ Pledge(w) \in Nat /\ Pledge(w)' \in Nat
      /\ Cardinality(Pledged)' = Cardinality(Pledged) - Pledge(w) + Pledge(w)'
  <2>1. \A v \in Workers : v # w => call'[v] = call[v]
    BY OthersKeepCalls
  <2> QED BY <2>1, <1>1, PledgeChanges
<1>3. \A n \in Int : Covered(n) => owed'[today] + Cardinality(Pledged)' <= n + forgotten
  BY <1>1, <1>2 DEF Covered
<1>4. OnFile' = OnFile /\ OnFile \in Int
  BY <1>1, ConstantsType DEF OnFile, ProviderShape
<1>5. \A d \in 1..LastDay : d > paid_day' => owed'[d] = 0
  BY <1>1 DEF BookCovers
<1> QED BY <1>1, <1>3, <1>4, <1>5 DEF BookCovers, Covered

\* A cost takes the place of its reservation, in what is owed and in the account of the same day.
LEMMA CostCovers ==
  ASSUME ProviderShape, ProviderShape', BookCovers, NEW w \in Workers,
         NEW cost \in 0..Dearest, Reconcile(w, cost)
  PROVE  BookCovers'
<1> DEFINE r == call[w].reservation
           d == call[w].day
<1>0. Worker(w)
  BY DEF Worker
<1>1. /\ paid_day \in Nat /\ today \in Nat /\ today' = today /\ today \in 1..LastDay
      /\ owed[today] \in Int /\ paid_reserved \in Nat /\ paid_reserved <= Daily /\ Daily \in Nat
      /\ r \in Nat /\ cost \in Nat /\ forgotten \in Nat
      /\ d \in 1..LastDay /\ d \in Nat /\ d <= paid_day
  BY <1>0, WorkerKeepsRest, ShapeNumbers, ConstantsType
<1>2. /\ owed' = [owed EXCEPT ![d] = @ - r + cost]
      /\ excused \/ paid_day # d => excused'
      /\ paid_day = today /\ cost > r /\ ~excused' =>
           budget_file' = [day |-> paid_day, reserved_usd |-> Settled(r, cost)]
      /\ forgotten' = forgotten + CutOff(r, cost)
      /\ paid_day' = paid_day /\ paid_reserved' = Settled(r, cost)
      /\ \/ budget_file' = [day |-> paid_day, reserved_usd |-> Settled(r, cost)]
         \/ budget_file' \in {budget_file, Empty}
      /\ call[w].pc = "answered" /\ call' = [call EXCEPT ![w] = Idle]
  BY DEF Reconcile, Account, Saved, NotSaved, Return
<1>3. \A e \in 1..LastDay : e > paid_day' => owed'[e] = 0
  <2> SUFFICES ASSUME NEW e \in 1..LastDay, e > paid_day' PROVE owed'[e] = 0
    OBVIOUS
  <2>1. e # d /\ owed[e] = 0
    BY <1>1, <1>2 DEF BookCovers
  <2> QED BY <1>2, <2>1 DEF ProviderShape
<1>4. ASSUME paid_day = today, ~excused'
      PROVE  Covered(paid_reserved)' /\ (budget_file' # Empty => Covered(OnFile)')
  <2>1. ~excused /\ d = today
    BY <1>2, <1>4
  <2>2. owed'[today] = owed[today] - r + cost
    BY <1>1, <1>2, <2>1 DEF ProviderShape
  <2>3. Cardinality(Pledged) \in Nat /\ Cardinality(Pledged)' = Cardinality(Pledged)
    <3>1. \A v \in Workers : v # w => call'[v] = call[v]
      BY <1>2 DEF ProviderShape
    <3>2. Pledge(w) = 0 /\ Pledge(w)' = 0
      BY <1>2, IdleType DEF Pledge, ProviderShape
    <3> QED BY <1>1, <3>1, <3>2, PledgeChanges
  <2>4. owed[today] + Cardinality(Pledged) <= paid_reserved + forgotten
        /\ (budget_file # Empty => owed[today] + Cardinality(Pledged) <= OnFile + forgotten)
    BY <1>4, <2>1 DEF BookCovers, Covered
  <2> HIDE DEF r
  <2>5. /\ owed'[today] + Cardinality(Pledged) <= Settled(r, cost) + forgotten'
        /\ forgotten' \in Nat /\ forgotten <= forgotten'
    BY <1>1, <1>2, <1>4, <2>2, <2>3, <2>4 DEF Settled, CutOff, Least
  <2>6. Covered(paid_reserved)'
    BY <1>1, <1>2, <2>3, <2>5 DEF Covered
  <2>7. CASE budget_file' = [day |-> paid_day, reserved_usd |-> Settled(r, cost)]
    <3>1. OnFile' = paid_reserved'
      BY <1>1, <1>2, <1>4, <2>7 DEF OnFile
    <3> QED BY <2>6, <3>1 DEF Covered
  <2>8. CASE budget_file' = budget_file /\ cost <= r
    <3>1. OnFile' = OnFile /\ OnFile \in Int
      BY <1>1, <2>8, ConstantsType DEF OnFile, ProviderShape
    <3>2. budget_file # Empty => Covered(OnFile)'
      BY <1>1, <2>2, <2>3, <2>4, <2>5, <2>8, <3>1 DEF Covered
    <3> QED BY <2>6, <2>8, <3>2
  <2>9. CASE budget_file' = Empty
    BY <2>6, <2>9
  <2> QED BY <1>1, <1>2, <1>4, <2>7, <2>8, <2>9
<1> QED BY <1>1, <1>2, <1>3, <1>4 DEF BookCovers

\* An attempt that has ended is not asking.
LEMMA AttemptEnds ==
  ASSUME ProviderShape, NEW w \in Workers, Return(w) \/ NextAttempt(w)
  PROVE  call'[w].pc \in {"idle", "picking"}
<1>1. call \in [Workers -> Calls] /\ Idle.pc = "idle"
  BY IdleType DEF ProviderShape
<1>2. CASE Return(w)
  BY <1>1, <1>2 DEF Return
<1>3. CASE call' = [call EXCEPT ![w].pc = "picking", ![w].left = @ - 1]
  BY <1>1, <1>3 DEF Calls
<1> QED BY <1>2, <1>3 DEF NextAttempt

\* The actions that bring the account to today keep today covered.
LEMMA AccountCovers ==
  ASSUME ProviderShape, ProviderShape', BookCovers, NEW w \in Workers,
         NextModel(w) \/ NextModelFails(w) \/ OverBudget(w) \/ Reserve(w) \/ ReserveFails(w)
  PROVE  BookCovers'
<1>0. Worker(w) /\ UNCHANGED <<owed, forgotten, excused>> /\ paid_day' = today
  BY DEF Worker, NextModel, NextModelFails, OverBudget, Reserve, ReserveFails, Account, history
<1>1. /\ call[w].pc \in {"picking", "picked"} /\ Pledge(w) = 0
      /\ today \in Nat /\ today' = today /\ paid_day \in Nat /\ paid_reserved \in Nat
      /\ Reserved \in Nat
  <2>1. call[w].pc \in {"picking", "picked"}
    BY DEF NextModel, NextModelFails, OverBudget, Reserve, ReserveFails, CanReserve, Picked
  <2>2. today \in Nat /\ today' = today /\ paid_day \in Nat /\ paid_reserved \in Nat
    BY <1>0, WorkerKeepsRest, ShapeNumbers
  <2> QED BY <2>1, <2>2 DEF Pledge, Reserved
<1>2. Reservation(w) \in Nat
  BY ProviderAssumption DEF Reservation, ProviderShape, Calls
<1>3. CASE Reserve(w) \/ ReserveFails(w)
  <2>1. paid_reserved' = Reserved + Reservation(w)
    BY <1>3 DEF Reserve, ReserveFails, Account
  <2>2. CASE Reserve(w)
    <3>1. budget_file' = [day |-> today, reserved_usd |-> Reserved + Reservation(w)]
      BY <2>2 DEF Reserve, Saved
    <3>2. call'[w].reservation = Reservation(w)
      BY <2>2 DEF Reserve, Goes, ProviderShape, Calls
    <3>3. Pledge(w)' <= Pledge(w) + Reservation(w)
      BY <1>1, <1>2, <3>2 DEF Pledge
    <3> QED BY <1>0, <1>2, <2>1, <3>1, <3>3, AccountMoves
  <2>3. CASE ReserveFails(w)
    <3>1. budget_file' \in {budget_file, Empty} /\ call'[w].pc = "idle"
      BY <2>3, IdleType DEF ReserveFails, NotSaved, Return, ProviderShape
    <3>2. Pledge(w)' = 0
      BY <3>1 DEF Pledge
    <3>3. Pledge(w)' <= Pledge(w) + Reservation(w) /\ Pledge(w)' <= Pledge(w)
      BY <1>1, <1>2, <3>2
    <3> QED BY <1>0, <1>2, <2>1, <3>1, <3>3, AccountMoves
  <2> QED BY <1>3, <2>2, <2>3
<1>4. CASE NextModel(w) \/ NextModelFails(w) \/ OverBudget(w)
  <2>1. paid_reserved' = Reserved + 0
    <3>1. paid_reserved' = Reserved
      BY <1>4 DEF NextModel, NextModelFails, OverBudget, Account, Reserved
    <3> QED BY <1>1, <3>1
  <2>2. call'[w].pc \in {"idle", "picking", "picked"}
    <3>1. CASE Return(w) \/ NextAttempt(w)
      BY <3>1, AttemptEnds
    <3>2. CASE call' = [call EXCEPT ![w].pc = "picked", ![w].model = Turn(FirstTurn)]
      BY <3>2 DEF ProviderShape, Calls
    <3> QED BY <1>4, <3>1, <3>2 DEF NextModel, NextModelFails, OverBudget
  <2>3. Pledge(w)' = 0
    BY <2>2 DEF Pledge
  <2>4. Pledge(w)' <= Pledge(w) + 0 /\ Pledge(w)' <= Pledge(w)
    BY <1>1, <2>3
  <2>5. \/ budget_file' = [day |-> today, reserved_usd |-> Reserved + 0]
        \/ budget_file' \in {budget_file, Empty}
    <3>1. CASE NextModelFails(w)
      BY <3>1 DEF NextModelFails, NotSaved
    <3>2. CASE NextModel(w) \/ OverBudget(w)
      <4>1. CASE today = paid_day
        BY <3>2, <4>1 DEF NextModel, OverBudget
      <4>2. CASE today # paid_day
        <5>1. budget_file' = [day |-> today, reserved_usd |-> 0]
          BY <3>2, <4>2 DEF NextModel, OverBudget, Saved
        <5>2. Reserved + 0 = 0
          BY <4>2 DEF Reserved
        <5> QED BY <5>1, <5>2
      <4> QED BY <4>1, <4>2
    <3> QED BY <1>4, <3>1, <3>2
  <2>6. 0 \in Nat
    OBVIOUS
  <2> QED BY <1>0, <2>1, <2>4, <2>5, <2>6, AccountMoves
<1> QED BY <1>3, <1>4

\* A request that is sent owes what it had pledged.
LEMMA SendCovers ==
  ASSUME ProviderShape, ProviderShape', BookCovers, NEW w \in Workers, Send(w)
  PROVE  BookCovers'
<1> DEFINE r == call[w].reservation
           d == call[w].day
<1>0. Worker(w) /\ UNCHANGED <<book, forgotten, excused>>
  BY DEF Worker, Send
<1>1. /\ paid_day \in Nat /\ today \in Nat /\ today' = today /\ today \in 1..LastDay
      /\ owed[today] \in Int /\ r \in Nat /\ d \in 1..LastDay /\ d \in Nat /\ d <= paid_day
  BY <1>0, WorkerKeepsRest, ShapeNumbers
<1>2. call[w].pc = "asking" /\ call'[w].pc = "waiting" /\ owed' = [owed EXCEPT ![d] = @ + r]
  BY DEF Send, Goto, ProviderShape
<1>3. Pledge(w)' = 0
  BY <1>2 DEF Pledge
<1>4. \A e \in 1..LastDay : e > paid_day => owed'[e] = owed[e]
  <2> SUFFICES ASSUME NEW e \in 1..LastDay, e > paid_day PROVE owed'[e] = owed[e]
    OBVIOUS
  <2>1. e # d
    BY <1>1
  <2> QED BY <1>2, <2>1 DEF ProviderShape
<1>5. owed'[today] + Pledge(w)' <= owed[today] + Pledge(w)
  <2>1. CASE d = today
    <3>1. owed'[today] = owed[today] + r /\ Pledge(w) = r
      BY <1>1, <1>2, <2>1 DEF ProviderShape, Pledge
    <3> QED BY <1>1, <1>3, <3>1
  <2>2. CASE d # today
    <3>1. owed'[today] = owed[today] /\ Pledge(w) = 0
      BY <1>1, <1>2, <2>2 DEF ProviderShape, Pledge
    <3> QED BY <1>1, <1>3, <3>1
  <2> QED BY <2>1, <2>2
<1> QED BY <1>0, <1>4, <1>5, MoneyMoves

\* Everything else a worker does with a request pledges nothing new and owes nothing new.
LEMMA OtherCovers ==
  ASSUME ProviderShape, ProviderShape', BookCovers, NEW w \in Workers, Worker(w),
         UNCHANGED <<book, history>>,
         call'[w].pc # "asking" \/ call'[w].reservation = 0
  PROVE  BookCovers'
<1>1. today \in Nat /\ today' = today /\ today \in 1..LastDay /\ owed[today] \in Int
  BY WorkerKeepsRest, ShapeNumbers
<1>2. Pledge(w)' = 0 /\ Pledge(w) \in Nat
  BY PledgeType DEF Pledge
<1>3. UNCHANGED <<book, forgotten, excused>> /\ owed' = owed
  BY DEF history
<1>4. owed'[today] + Pledge(w)' <= owed[today] + Pledge(w)
  BY <1>1, <1>2, <1>3
<1> QED BY <1>3, <1>4, MoneyMoves

\* Whatever a worker does, today stays covered.
LEMMA WorkerCovers ==
  ASSUME ProviderShape, ProviderShape', BookCovers, NEW w \in Workers, Worker(w)
  PROVE  BookCovers'
<1>1. CASE \/ NextModel(w) \/ NextModelFails(w) \/ OverBudget(w) \/ Reserve(w) \/ ReserveFails(w)
  BY <1>1, AccountCovers
<1>2. CASE Send(w)
  BY <1>2, SendCovers
<1>3. CASE \E cost \in 0..Dearest : Reconcile(w, cost)
  BY <1>3, CostCovers
<1>4. CASE Complete(w) \/ ModelIsGone(w) \/ PickFree(w) \/ TooDear(w) \/ NotSent(w) \/ NoCost(w)
  <2>1. UNCHANGED <<book, history>>
    BY <1>4 DEF Complete, ModelIsGone, PickFree, TooDear, NotSent, NoCost
  <2>2. call'[w].pc # "asking" \/ call'[w].reservation = 0
    <3>1. call \in [Workers -> Calls]
      BY DEF ProviderShape
    <3>2. CASE Complete(w) \/ PickFree(w)
      BY <3>1, <3>2 DEF Complete, PickFree, Calls
    <3>3. CASE Return(w) \/ NextAttempt(w)
      BY <3>3, AttemptEnds
    <3> QED BY <1>4, <3>2, <3>3 DEF ModelIsGone, TooDear, NotSent, NoCost
  <2> QED BY <2>1, <2>2, OtherCovers
<1>5. CASE \/ Receive(w) \/ ReceiveError(w) \/ ReceiveRaises(w)
           \/ Refresh(w) \/ Refreshed(w) \/ RefreshFails(w)
  <2>1. UNCHANGED <<book, history>>
    BY <1>5 DEF Receive, ReceiveError, ReceiveRaises, Refresh, Refreshed, RefreshFails
  <2>2. call'[w].pc # "asking" \/ call'[w].reservation = 0
    <3>1. call \in [Workers -> Calls]
      BY DEF ProviderShape
    <3>2. CASE Receive(w) \/ Refresh(w)
      <4>1. Goto(w, "answered") \/ Goto(w, "refreshing")
        BY <3>2 DEF Receive, Refresh
      <4> QED BY <3>1, <4>1 DEF Goto, Calls
    <3>3. CASE Return(w) \/ NextAttempt(w)
      BY <3>3, AttemptEnds
    <3>4. ReceiveError(w) => NextAttempt(w)
      BY DEF ReceiveError
    <3>5. ReceiveRaises(w) \/ Refreshed(w) \/ RefreshFails(w) => Return(w)
      BY DEF ReceiveRaises, Refreshed, RefreshFails
    <3> QED BY <1>5, <3>2, <3>3, <3>4, <3>5
  <2> QED BY <2>1, <2>2, OtherCovers
<1> QED BY <1>1, <1>2, <1>3, <1>4, <1>5 DEF Worker

\* A process that starts again finds today's requests in the file, or knows that it may not.
LEMMA RestartCovers ==
  ASSUME ProviderShape, ProviderShape', BookCovers, Crash \/ CrashInSave
  PROVE  BookCovers'
<1>1. /\ paid_day \in Nat /\ today \in Nat /\ paid_day <= today /\ today \in 1..LastDay
      /\ owed[today] \in Int /\ paid_reserved \in Nat /\ Daily \in Nat
      /\ paid_day' = today /\ today' = today /\ owed' = owed
      /\ forgotten \in Nat /\ forgotten' = forgotten
  BY ShapeNumbers DEF Crash, CrashInSave, Restart
<1>2. \A d \in 1..LastDay : d > paid_day' => owed'[d] = 0
  BY <1>1, ConstantsType DEF BookCovers
<1>3. Cardinality(Pledged)' = 0
  <2>1. \A w \in Workers : call'[w].pc = "idle"
    BY IdleType DEF Crash, CrashInSave, Restart
  <2>2. \A w \in Workers : Pledge(w)' = 0
    BY <2>1 DEF Pledge
  <2>3. Pledged' = {}
    BY <2>2, ConstantsType DEF Pledged, Units
  <2> QED BY <2>3, FS_EmptySet
<1>4. ASSUME ~excused'
      PROVE  Covered(paid_reserved)' /\ (budget_file' # Empty => Covered(OnFile)')
  <2>1. /\ ~excused /\ ~(budget_file = Empty /\ paid_reserved > 0)
        /\ budget_file' = budget_file /\ paid_reserved' = Loaded(budget_file)
    BY <1>4 DEF Crash, CrashInSave, Restart
  <2>2. Covered(Reserved) /\ (budget_file # Empty => Covered(OnFile))
    BY <2>1, TodayCovers
  <2>3. OnFile' = OnFile /\ OnFile \in 0..Daily /\ OnFile \in Int
    BY <1>1, <2>1, ConstantsType DEF OnFile, ProviderShape
  <2>4. paid_reserved' = OnFile
    BY <1>1, <2>1, <2>3 DEF OnFile, Loaded, Least
  <2>5. owed[today] <= OnFile + forgotten
    <3>1. CASE budget_file # Empty
      BY <1>1, <2>2, <2>3, <3>1, PledgedType DEF Covered
    <3>2. CASE budget_file = Empty
      <4>1. paid_reserved = 0 /\ Reserved = 0
        BY <1>1, <2>1, <3>2 DEF Reserved
      <4> QED BY <1>1, <2>2, <2>3, <4>1, PledgedType DEF Covered
    <3> QED BY <3>1, <3>2
  <2>6. owed[today] + 0 <= OnFile + forgotten
    BY <1>1, <2>3, <2>5
  <2> QED BY <1>1, <1>3, <2>3, <2>4, <2>6 DEF Covered
<1> QED BY <1>1, <1>2, <1>4 DEF BookCovers

\* No step leaves one of today's requests uncounted.
LEMMA CoversStep == ProviderShape /\ BookCovers /\ [Next]_vars => BookCovers'
<1> SUFFICES ASSUME ProviderShape, BookCovers, [Next]_vars PROVE BookCovers'
  OBVIOUS
<1>0. ProviderShape'
  BY ShapeStep
<1>1. CASE UNCHANGED <<book, call, today, history>>
  <2>1. UNCHANGED <<paid_day, paid_reserved, budget_file, owed, forgotten, excused, today, Pledged>>
    BY <1>1 DEF book, history, Pledged, Pledge
  <2> QED BY <2>1 DEF BookCovers, Covered, OnFile
<1>2. ASSUME NEW w \in Workers, Worker(w)
      PROVE  BookCovers'
  BY <1>0, <1>2, WorkerCovers
<1>3. CASE Midnight
  <2>1. /\ today' = today + 1 /\ UNCHANGED <<paid_day, owed>>
        /\ paid_day \in Nat /\ today \in Nat /\ paid_day <= today
    BY <1>3, ShapeNumbers DEF Midnight, book
  <2>2. paid_day' # today'
    BY <2>1
  <2> QED BY <2>1, <2>2 DEF BookCovers
<1>4. CASE Crash \/ CrashInSave
  BY <1>0, <1>4, RestartCovers
<1> QED BY <1>1, <1>2, <1>3, <1>4
     DEF Next, CoolDown, ClearCircuit, vars, world

\* Today's requests cost no more than today's account says and min() has cut off it, for any number
\* of threads, models and days and any cost complete() accepts, on every day on which no answer of an
\* earlier day was settled, no crash left the file cut short and no cost above its reservation
\* failed to reach the file (openrouter_provider.py:458-508).
THEOREM TodayCounted == Spec => []TodayIsCounted
<1>1. ProviderShape /\ BookCovers => TodayIsCounted
  <2> SUFFICES ASSUME ProviderShape, BookCovers, paid_day = today, ~excused
               PROVE  owed[today] <= paid_reserved + forgotten
    BY DEF TodayIsCounted
  <2>1. owed[today] + Cardinality(Pledged) <= paid_reserved + forgotten
    BY DEF BookCovers, Covered
  <2> QED BY <2>1, ShapeNumbers, PledgedType
<1> QED BY <1>1, CoversInit, CoversStep, ShapeInvariant, PTL DEF Spec
===============================================================================
