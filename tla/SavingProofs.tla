------------------------------ MODULE SavingProofs ------------------------------
(***************************************************************************)
(* Proofs about saving.  First the writer, for any keys, snapshots,        *)
(* receipts and queue limit: it loses no snapshot and no waiter, its       *)
(* reports are true, and it implements WriteBehindStore.  Then one         *)
(* character over such a writer: what the session believes of its row, and *)
(* what a final save leaves behind.                                        *)
(*                                                                         *)
(* Every step of the session is a step of the writer or leaves it alone,   *)
(* so the writer's own invariants hold under it.  What is new in the       *)
(* second part follows the requests of this session through the writer's   *)
(* queue and hands.                                                        *)
(***************************************************************************)
EXTENDS SessionSave, SequenceTheorems, TLAPS

-------------------------------------------------------------------------------
(* Lists of completions and the queue *)

\* The empty save belongs to no request.
LEMMA EmptySaveType == EmptySave \in PendingSave /\ EmptySave.completions = <<>>
  BY WriterAssumption DEF EmptySave, PendingSave, Completion

\* A request appended to the list of an entry leaves it a well-formed, pending entry.
LEMMA AppendSave ==
  ASSUME NEW save \in PendingSave, NEW s \in States, NEW r \in Receipts
  PROVE  LET list == Append(save.completions, [receipt |-> r, encoded_state |-> s])
         IN /\ [encoded_state |-> s, completions |-> list] \in PendingSave
            /\ list # <<>>
            /\ Len(list) = Len(save.completions) + 1
            /\ \A i \in 1..Len(list) : list[i] =
                 IF i = Len(list) THEN [receipt |-> r, encoded_state |-> s]
                                  ELSE save.completions[i]
<1> DEFINE c == [receipt |-> r, encoded_state |-> s]
           list == Append(save.completions, c)
<1>1. save.completions \in Seq(Completion)
  BY DEF PendingSave
<1>2. c \in Completion
  BY DEF Completion
<1> HIDE DEF c
<1>3. /\ list \in Seq(Completion) /\ list # <<>>
      /\ Len(list) = Len(save.completions) + 1
      /\ \A i \in 1..Len(list) : list[i] = IF i = Len(list) THEN c ELSE save.completions[i]
  BY <1>1, <1>2, AppendProperties
<1> HIDE DEF list
<1>4. list \in Seq(Completion)
  BY <1>3
<1>5. [encoded_state |-> s, completions |-> list] \in PendingSave
  BY <1>4 DEF PendingSave
<1> QED BY <1>3, <1>5 DEF list, c

\* The entry of a key that was not pending.
LEMMA FirstSave ==
  ASSUME NEW s \in States, NEW r \in Receipts
  PROVE  LET list == <<[receipt |-> r, encoded_state |-> s]>>
         IN /\ [encoded_state |-> s, completions |-> list] \in PendingSave
            /\ list # <<>>
<1> DEFINE c == [receipt |-> r, encoded_state |-> s]
<1>1. c \in Completion
  BY DEF Completion
<1> HIDE DEF c
<1>2. <<c>> \in Seq(Completion) /\ <<c>> # <<>>
  BY <1>1
<1> QED BY <1>1, <1>2 DEF PendingSave, c

\* Replacing the last request of a non-empty list does so too.
LEMMA ReplaceLast ==
  ASSUME NEW save \in PendingSave, NEW s \in States, NEW r \in Receipts,
         save.completions # <<>>
  PROVE  LET n == Len(save.completions)
             list == [save.completions EXCEPT ![n] = [receipt |-> r, encoded_state |-> s]]
         IN /\ [encoded_state |-> s, completions |-> list] \in PendingSave
            /\ list # <<>>
            /\ Len(list) = n
            /\ \A i \in 1..n : list[i] =
                 IF i = n THEN [receipt |-> r, encoded_state |-> s]
                          ELSE save.completions[i]
  BY DEF PendingSave, Completion

\* move_to_end(k) permutes the queue: the same keys, still once each.
LEMMA MoveToEndPermutes ==
  ASSUME NEW k \in Keys, order \in Seq(Keys),
         \A i, j \in 1..Len(order) : order[i] = order[j] => i = j,
         \E i \in 1..Len(order) : order[i] = k
  PROVE  /\ MoveToEnd(k) \in Seq(Keys)
         /\ Len(MoveToEnd(k)) = Len(order)
         /\ \A i, j \in 1..Len(order) : MoveToEnd(k)[i] = MoveToEnd(k)[j] => i = j
         /\ \A l \in Keys : (\E i \in 1..Len(order) : order[i] = l)
                              <=> (\E i \in 1..Len(order) : MoveToEnd(k)[i] = l)
<1> DEFINE n == Len(order)
           at == CHOOSE i \in 1..n : order[i] = k
           moved == MoveToEnd(k)
<1>1. n \in Nat /\ at \in 1..n /\ order[at] = k
  OBVIOUS
<1>2. moved = [i \in 1..n |-> IF i = n THEN k ELSE IF i < at THEN order[i] ELSE order[i + 1]]
  BY DEF MoveToEnd
<1>3. \A i \in 1..n : moved[i] \in Keys
  BY <1>1, <1>2
<1>4. moved \in Seq(Keys) /\ Len(moved) = n
  BY <1>1, <1>2, <1>3
<1> HIDE DEF at, moved
<1>5. \A i, j \in 1..n : moved[i] = moved[j] => i = j
  BY <1>1, <1>2
<1>6. ASSUME NEW l \in Keys
      PROVE  (\E i \in 1..n : order[i] = l) <=> (\E i \in 1..n : moved[i] = l)
  <2>1. ASSUME NEW i \in 1..n, order[i] = l
        PROVE  \E j \in 1..n : moved[j] = l
    <3>1. CASE i < at
      <4>1. moved[i] = l /\ i # n
        BY <3>1, <2>1, <1>1, <1>2
      <4> QED BY <4>1
    <3>2. CASE i = at
      <4>1. n \in 1..n /\ moved[n] = l
        BY <3>2, <2>1, <1>1, <1>2
      <4> QED BY <4>1
    <3>3. CASE i > at
      <4>1. i - 1 \in 1..n /\ moved[i - 1] = l
        BY <3>3, <2>1, <1>1, <1>2
      <4> QED BY <4>1
    <3> QED BY <3>1, <3>2, <3>3, <1>1
  <2>2. ASSUME NEW i \in 1..n, moved[i] = l
        PROVE  \E j \in 1..n : order[j] = l
    BY <2>2, <1>1, <1>2
  <2> QED BY <2>1, <2>2
<1> QED BY <1>4, <1>5, <1>6 DEF moved

-------------------------------------------------------------------------------
(* Type correctness and coherence of the OrderedDict *)

\* A writer that has just been made, whatever its thread does, is well formed.
LEMMA TypeInit == Init => TypeOK
<1> SUFFICES ASSUME Init PROVE TypeOK
  OBVIOUS
<1>1. NoJob \in [key : Keys \cup {NoKey}, save : PendingSave]
  BY EmptySaveType DEF NoJob
<1>2. QueueCoherent
  BY EmptySaveType DEF Init, InitWith, QueueCoherent, Pending
<1>3. order \in Seq(Keys) /\ Len(order) <= PendingKeyLimit
  BY WriterAssumption DEF Init, InitWith
<1> QED BY <1>1, <1>2, <1>3, EmptySaveType, WriterAssumption
     DEF Init, InitWith, TypeOK, ThreadPc, MainPc

\* The snapshot of the newest request of a list.
LastState(list) == list[Len(list)].encoded_state

\* What submit() makes of the entry of an accepted key: the new snapshot, and the new
\* receipt beside those already waiting.
LEMMA AcceptedSave ==
  ASSUME TypeOK, NEW k \in Keys, NEW s \in States, NEW r \in Receipts,
         Enqueue(k, s, r) \/ Coalesce(k, s, r) \/ CoalesceAgain(k, s, r)
  PROVE  \E save \in PendingSave :
           /\ saveOf' = [saveOf EXCEPT ![k] = save]
           /\ save.encoded_state = s
           /\ save.completions # <<>>
           /\ LastState(save.completions) = s
           /\ \A q \in Receipts : InList(q, save.completions)
                                   <=> q = r \/ InList(q, saveOf[k].completions)
<1> DEFINE c == [receipt |-> r, encoded_state |-> s]
           old == saveOf[k].completions
           Entry(list) == [encoded_state |-> s, completions |-> list]
           Good(save) == /\ saveOf' = [saveOf EXCEPT ![k] = save]
                         /\ save.encoded_state = s
                         /\ save.completions # <<>>
                         /\ LastState(save.completions) = s
                         /\ \A q \in Receipts : InList(q, save.completions)
                                                 <=> q = r \/ InList(q, old)
<1>1. saveOf[k] \in PendingSave /\ old \in Seq(Completion)
  BY DEF TypeOK, PendingSave
<1>2. CASE Enqueue(k, s, r)
  <2>1. old = <<>>
    BY <1>2 DEF Enqueue, Pending
  <2>2. Entry(<<c>>) \in PendingSave
    BY FirstSave
  <2>3. saveOf' = [saveOf EXCEPT ![k] = Entry(<<c>>)]
    BY <1>2 DEF Enqueue
  <2>4. \A q \in Receipts : InList(q, <<c>>) <=> q = r \/ InList(q, old)
    BY <2>1 DEF InList
  <2>5. Good(Entry(<<c>>))
    BY <2>3, <2>4 DEF LastState
  <2> QED BY <2>2, <2>5
<1>3. CASE Coalesce(k, s, r)
  <2> DEFINE new == Append(old, c)
  <2>1. /\ Entry(new) \in PendingSave /\ new # <<>>
        /\ Len(new) = Len(old) + 1
        /\ \A i \in 1..Len(new) : new[i] = IF i = Len(new) THEN c ELSE old[i]
    BY <1>1, AppendSave
  <2>2. saveOf' = [saveOf EXCEPT ![k] = Entry(new)]
    BY <1>1, <1>3 DEF Coalesce
  <2>3. DOMAIN new = 1..Len(new) /\ DOMAIN old = 1..Len(old) /\ Len(old) \in Nat
    BY <1>1, <2>1 DEF PendingSave
  <2> HIDE DEF new
  <2>4. \A q \in Receipts : InList(q, new) <=> q = r \/ InList(q, old)
    <3> SUFFICES ASSUME NEW q \in Receipts
                 PROVE  InList(q, new) <=> q = r \/ InList(q, old)
      OBVIOUS
    <3>1. ASSUME NEW i \in DOMAIN new, new[i].receipt = q
          PROVE  q = r \/ InList(q, old)
      BY <3>1, <2>1, <2>3 DEF InList
    <3>2. q = r => InList(q, new)
      <4>1. Len(new) \in DOMAIN new /\ new[Len(new)].receipt = r
        BY <2>1, <2>3
      <4> QED BY <4>1 DEF InList
    <3>3. ASSUME NEW i \in DOMAIN old, old[i].receipt = q
          PROVE  InList(q, new)
      <4>1. i \in DOMAIN new /\ new[i] = old[i]
        BY <3>3, <2>1, <2>3
      <4> QED BY <4>1, <3>3 DEF InList
    <3> QED BY <3>1, <3>2, <3>3 DEF InList
  <2>5. Len(new) \in 1..Len(new)
    BY <2>1, <2>3
  <2>6. LastState(new) = s
    BY <2>1, <2>5 DEF LastState
  <2>7. Good(Entry(new))
    BY <2>1, <2>2, <2>4, <2>6
  <2> QED BY <2>1, <2>7
<1>4. CASE CoalesceAgain(k, s, r)
  <2> DEFINE n == Len(old)
             new == [old EXCEPT ![n] = c]
  <2>1. old # <<>> /\ n \in 1..n /\ old[n].receipt = r
    BY <1>1, <1>4 DEF CoalesceAgain
  <2>2. /\ Entry(new) \in PendingSave /\ new # <<>> /\ Len(new) = n
        /\ \A i \in 1..n : new[i] = IF i = n THEN c ELSE old[i]
    BY <1>1, <2>1, ReplaceLast
  <2>3. saveOf' = [saveOf EXCEPT ![k] = Entry(new)]
    BY <1>1, <1>4 DEF CoalesceAgain
  <2>4. DOMAIN new = 1..n /\ DOMAIN old = 1..n
    BY <1>1
  <2> HIDE DEF new
  <2>5. \A i \in 1..n : new[i].receipt = old[i].receipt
    BY <2>1, <2>2
  <2>6. \A q \in Receipts : InList(q, new) <=> q = r \/ InList(q, old)
    BY <2>1, <2>4, <2>5 DEF InList
  <2>7. Good(Entry(new))
    <3>1. LastState(new) = s
      BY <2>1, <2>2 DEF LastState
    <3> QED BY <3>1, <2>2, <2>3, <2>6
  <2> QED BY <2>2, <2>7
<1> QED BY <1>2, <1>3, <1>4

\* An accepted request of a new key.
LEMMA EnqueueType ==
  ASSUME TypeOK, NEW k \in Keys, NEW s \in States, NEW r \in Receipts, Enqueue(k, s, r)
  PROVE  TypeOK'
<1> USE DEF Enqueue, AcceptedSubmit
<1> DEFINE save == [encoded_state |-> s, completions |-> <<[receipt |-> r, encoded_state |-> s]>>]
<1>1. save \in PendingSave /\ save.completions # <<>>
  BY FirstSave
<1>2. saveOf' = [saveOf EXCEPT ![k] = save]
  OBVIOUS
<1> HIDE DEF save
<1>3. saveOf' \in [Keys -> PendingSave] /\ Pending(k)'
  BY <1>1, <1>2 DEF TypeOK, Pending
<1>4. \A l \in Keys \ {k} : Pending(l)' <=> Pending(l)
  BY <1>2 DEF TypeOK, Pending
<1>5. order' \in Seq(Keys) /\ Len(order') = Len(order) + 1
      /\ \A i \in 1..Len(order') : order'[i] = IF i = Len(order') THEN k ELSE order[i]
  BY DEF TypeOK
<1>6. \A i \in 1..Len(order) : order[i] # k
  BY DEF TypeOK, QueueCoherent
<1>7. \A i, j \in 1..Len(order') : order'[i] = order'[j] => i = j
  BY <1>5, <1>6 DEF TypeOK, QueueCoherent
<1>8. \A l \in Keys : Pending(l)' <=> \E i \in 1..Len(order') : order'[i] = l
  <2> HIDE DEF Enqueue, AcceptedSubmit
  <2>1. Len(order) \in Nat
    BY DEF TypeOK
  <2>2. \E i \in 1..Len(order') : order'[i] = k
    <3>1. Len(order') \in 1..Len(order') /\ order'[Len(order')] = k
      BY <1>5, <2>1
    <3> QED BY <3>1
  <2>3. ASSUME NEW l \in Keys \ {k}
        PROVE  (\E i \in 1..Len(order') : order'[i] = l) <=> (\E i \in 1..Len(order) : order[i] = l)
    <3>1. ASSUME NEW i \in 1..Len(order'), order'[i] = l
          PROVE  i \in 1..Len(order) /\ order[i] = l
      BY <3>1, <1>5, <2>1
    <3>2. ASSUME NEW i \in 1..Len(order), order[i] = l
          PROVE  i \in 1..Len(order') /\ order'[i] = l
      BY <3>2, <1>5, <2>1
    <3> QED BY <3>1, <3>2
  <2> QED BY <2>2, <2>3, <1>3, <1>4 DEF TypeOK, QueueCoherent, Pending
<1>9. Len(order') <= PendingKeyLimit
  BY <1>5, WriterAssumption DEF TypeOK, AtLimit
<1>10. QueueCoherent'
  BY <1>7, <1>8 DEF QueueCoherent, Pending
<1> QED BY <1>3, <1>5, <1>9, <1>10
     DEF TypeOK, callVars, Awake, MainAwake, ThreadPc, MainPc

\* An accepted request of a pending key, whatever becomes of its entry.
LEMMA CoalesceType ==
  ASSUME TypeOK, NEW k \in Keys, NEW s \in States, Pending(k),
         AcceptedSubmit(k, s),
         NEW save \in PendingSave, save.completions # <<>>,
         order' = MoveToEnd(k),
         saveOf' = [saveOf EXCEPT ![k] = save],
         receipt' \in [Receipts -> {"unused", "open", "saved", "failed"}]
  PROVE  TypeOK'
<1> USE DEF AcceptedSubmit
<1>1. /\ order' \in Seq(Keys) /\ Len(order') = Len(order)
      /\ \A i, j \in 1..Len(order') : order'[i] = order'[j] => i = j
      /\ \A l \in Keys : (\E i \in 1..Len(order) : order[i] = l)
                          <=> (\E i \in 1..Len(order') : order'[i] = l)
  <2>1. /\ order \in Seq(Keys)
        /\ \A i, j \in 1..Len(order) : order[i] = order[j] => i = j
        /\ \E i \in 1..Len(order) : order[i] = k
    BY DEF TypeOK, QueueCoherent
  <2>2. /\ MoveToEnd(k) \in Seq(Keys) /\ Len(MoveToEnd(k)) = Len(order)
        /\ \A i, j \in 1..Len(order) : MoveToEnd(k)[i] = MoveToEnd(k)[j] => i = j
        /\ \A l \in Keys : (\E i \in 1..Len(order) : order[i] = l)
                            <=> (\E i \in 1..Len(order) : MoveToEnd(k)[i] = l)
    BY <2>1, MoveToEndPermutes, Zenon
  <2> QED BY <2>2
<1>2. saveOf' \in [Keys -> PendingSave] /\ \A l \in Keys : Pending(l)' <=> Pending(l)
  BY DEF TypeOK, Pending
<1>3. QueueCoherent'
  BY <1>1, <1>2 DEF TypeOK, QueueCoherent, Pending
<1> QED BY <1>1, <1>2, <1>3
     DEF TypeOK, callVars, Awake, MainAwake, ThreadPc, MainPc

\* popitem(last=False) takes the oldest key out of both halves of the OrderedDict.
LEMMA TakeType ==
  ASSUME TypeOK, Take
  PROVE  TypeOK'
<1>0. Head(order) \in Keys /\ Head(order) = order[1] /\ 1 \in 1..Len(order)
  BY DEF TypeOK, Take
<1> PICK k \in Keys : k = Head(order)
  BY <1>0
<1>1. k = order[1] /\ 1 \in 1..Len(order)
  BY <1>0
<1>2. order' \in Seq(Keys) /\ Len(order') = Len(order) - 1
      /\ \A i \in 1..Len(order') : i + 1 \in 1..Len(order) /\ order'[i] = order[i + 1]
  BY DEF TypeOK, Take
<1>3. saveOf' = [saveOf EXCEPT ![k] = EmptySave] /\ job' = [key |-> k, save |-> saveOf[k]]
  BY DEF Take
<1>4. saveOf' \in [Keys -> PendingSave] /\ ~Pending(k)'
      /\ \A l \in Keys \ {k} : Pending(l)' <=> Pending(l)
  <2>1. saveOf \in [Keys -> PendingSave]
    BY DEF TypeOK
  <2>2. saveOf' \in [Keys -> PendingSave]
    BY <2>1, <1>1, <1>3, EmptySaveType
  <2>3. \A l \in Keys : saveOf'[l] = IF l = k THEN EmptySave ELSE saveOf[l]
    BY <2>1, <1>1, <1>3
  <2> QED BY <2>2, <2>3, <1>1, EmptySaveType DEF Pending
<1>5. ASSUME NEW i \in 1..Len(order'), NEW j \in 1..Len(order'), order'[i] = order'[j]
      PROVE  i = j
  <2>1. /\ i + 1 \in 1..Len(order) /\ j + 1 \in 1..Len(order)
        /\ order[i + 1] = order[j + 1]
    BY <1>2, <1>5
  <2>2. i + 1 = j + 1
    BY <2>1 DEF TypeOK, QueueCoherent
  <2> QED BY <2>2
<1>6. \A i \in 1..Len(order') : order'[i] # k
  BY <1>1, <1>2 DEF TypeOK, QueueCoherent
<1>7. ASSUME NEW l \in Keys \ {k}
      PROVE  Pending(l)' <=> \E i \in 1..Len(order') : order'[i] = l
  <2>1. ASSUME NEW i \in 1..Len(order), order[i] = l
        PROVE  \E j \in 1..Len(order') : order'[j] = l
    <3>1. i # 1
      BY <2>1, <1>1, <1>7
    <3>2. i - 1 \in 1..Len(order') /\ (i - 1) + 1 = i
      BY <3>1, <1>2
    <3>3. order'[i - 1] = l
      BY <3>2, <2>1, <1>2
    <3> QED BY <3>2, <3>3
  <2> QED BY <2>1, <1>2, <1>4 DEF TypeOK, QueueCoherent
<1>8. QueueCoherent'
  <2>1. \A l \in Keys : Pending(l)' <=> \E i \in 1..Len(order') : order'[i] = l
    BY <1>4, <1>6, <1>7 DEF Pending
  <2> QED BY <2>1, <1>5 DEF QueueCoherent, Pending
<1>9. job' \in [key : Keys \cup {NoKey}, save : PendingSave] /\ job'.key \in Keys
  BY <1>1, <1>3 DEF TypeOK
<1> QED BY <1>2, <1>4, <1>8, <1>9, WriterAssumption
     DEF Take, TypeOK, ThreadPc, callVars, histVars

\* The steps that leave the queue alone.
LEMMA QueueUntouched ==
  ASSUME TypeOK, UNCHANGED queueVars
  PROVE  /\ order' \in Seq(Keys) /\ Len(order') <= PendingKeyLimit
         /\ saveOf' \in [Keys -> PendingSave]
         /\ QueueCoherent'
  BY DEF TypeOK, queueVars, QueueCoherent, Pending

\* A turn of the writer thread.
LEMMA RunType ==
  ASSUME TypeOK, Run
  PROVE  TypeOK'
<1> USE DEF callVars, histVars
<1>1. CASE Sleep
  BY <1>1, QueueUntouched DEF TypeOK, Sleep, ThreadPc
<1>2. CASE Exit
  BY <1>2, QueueUntouched DEF TypeOK, Exit, ThreadPc, MainPc, MainAwake
<1>3. CASE Take
  BY <1>3, TakeType
<1>4. CASE Write
  <2>1. job.key \in Keys /\ job.save.encoded_state \in States
    BY <1>4 DEF TypeOK, Write, PendingSave
  <2>2. durable' \in [Keys -> States] /\ lost' \in [Keys -> BOOLEAN] /\ success' \in BOOLEAN
    BY <1>4, <2>1 DEF TypeOK, Write
  <2> QED BY <1>4, <2>2, QueueUntouched DEF TypeOK, Write, ThreadPc
<1>5. CASE Finish
  BY <1>5, QueueUntouched DEF TypeOK, Finish, ThreadPc, MainPc, MainAwake
<1>6. CASE Answer
  <2>1. receipt' \in [Receipts -> {"unused", "open", "saved", "failed"}]
    BY <1>6 DEF TypeOK, Answer
  <2> QED BY <1>6, <2>1, QueueUntouched DEF TypeOK, Answer, ThreadPc
<1>7. CASE Callback
  <2>1. job.save.completions \in Seq(Completion) /\ job.save.completions # <<>>
    BY <1>7 DEF TypeOK, Callback, PendingSave
  <2>2. Tail(job.save.completions) \in Seq(Completion)
    BY <2>1
  <2>3. job' \in [key : Keys \cup {NoKey}, save : PendingSave]
    BY <1>7, <2>2 DEF TypeOK, Callback, PendingSave
  <2> QED BY <1>7, <2>3, QueueUntouched DEF TypeOK, Callback, ThreadPc
<1>8. CASE Answered
  BY <1>8, QueueUntouched, EmptySaveType DEF TypeOK, Answered, ThreadPc, NoJob
<1> QED BY <1>1, <1>2, <1>3, <1>4, <1>5, <1>6, <1>7, <1>8 DEF Run

\* A call of the main thread.
LEMMA MainType ==
  ASSUME TypeOK, Main
  PROVE  TypeOK'
<1>1. UNCHANGED queueVars
  BY DEF Main, FlushCall, FlushTest, FlushExpires, ShutdownCall, Join
<1>2. /\ main' \in MainPc /\ closing' \in BOOLEAN /\ pc' \in ThreadPc
      /\ pc' = "saving" => pc = "saving"
      /\ pc' = "callback" => pc = "callback"
  BY DEF TypeOK, Main, FlushCall, FlushTest, FlushExpires, ShutdownCall, Join,
         MainPc, ThreadPc, Awake, callVars, threadVars
<1>3. UNCHANGED <<started, in_flight, success, job, receipt, durable, accepted, lost>>
  BY DEF Main, FlushCall, FlushTest, FlushExpires, ShutdownCall, Join,
         callVars, threadVars, histVars
<1> QED BY <1>1, <1>2, <1>3, QueueUntouched DEF TypeOK

\* Any other step of a caller.
LEMMA CallerType ==
  ASSUME TypeOK,
         Start \/ Submit \/ \E r \in Receipts : Forget(r)
  PROVE  TypeOK'
<1> USE DEF callVars, threadVars, histVars
<1>1. CASE Start
  BY <1>1, QueueUntouched DEF TypeOK, Start, ThreadPc
<1>2. ASSUME NEW k \in Keys, NEW r \in Receipts, Reject(k, r)
      PROVE  TypeOK'
  BY <1>2, QueueUntouched DEF TypeOK, Reject
<1>3. ASSUME NEW r \in Receipts, Forget(r)
      PROVE  TypeOK'
  BY <1>3, QueueUntouched DEF TypeOK, Forget
<1>4. ASSUME NEW k \in Keys, NEW s \in States, NEW r \in Receipts,
             Enqueue(k, s, r) \/ Coalesce(k, s, r) \/ CoalesceAgain(k, s, r)
      PROVE  TypeOK'
  <2>1. CASE Enqueue(k, s, r)
    BY <2>1, EnqueueType
  <2>2. CASE Coalesce(k, s, r) \/ CoalesceAgain(k, s, r)
    <3>1. PICK save \in PendingSave : saveOf' = [saveOf EXCEPT ![k] = save]
                                      /\ save.completions # <<>>
      BY <2>2, AcceptedSave
    <3>2. receipt' \in [Receipts -> {"unused", "open", "saved", "failed"}]
      BY <2>2 DEF Coalesce, CoalesceAgain, TypeOK
    <3>3. Pending(k) /\ AcceptedSubmit(k, s) /\ order' = MoveToEnd(k)
      BY <2>2 DEF Coalesce, CoalesceAgain, Pending
    <3> QED BY <3>1, <3>2, <3>3, CoalesceType
  <2> QED BY <1>4, <2>1, <2>2
<1> QED BY <1>1, <1>2, <1>3, <1>4 DEF Submit, Accepts

\* TypeOK is inductive.
LEMMA TypeStep == TypeOK /\ [Next]_vars => TypeOK'
<1> SUFFICES ASSUME TypeOK, [Next]_vars PROVE TypeOK'
  OBVIOUS
<1>1. CASE UNCHANGED vars
  BY <1>1 DEF vars, callVars, queueVars, threadVars, histVars, TypeOK, QueueCoherent, Pending
<1> QED BY <1>1, RunType, MainType, CallerType DEF Next

\* The writer's state stays well formed, its queue within pending_key_limit, and the two
\* halves of the OrderedDict in agreement.
THEOREM TypeCorrect == Spec => []TypeOK
<1> QED BY TypeInit, TypeStep, PTL DEF Spec

-------------------------------------------------------------------------------
(* The newest snapshot is never lost *)

\* Why a quiet key is settled: the snapshot that submit() accepted last is the one the
\* queue holds for the key, or, once the thread has taken it and no newer one came, the
\* one in the thread's hands.
NewestIsKept ==
  /\ in_flight <=> pc \in {"saving", "finish"}
  /\ \A k \in Keys : Pending(k) => saveOf[k].encoded_state = accepted[k]
  /\ pc = "saving" /\ ~Pending(job.key) => job.save.encoded_state = accepted[job.key]
  /\ QuietKeyIsSettled

\* A new writer has written all it has accepted, which is nothing.
LEMMA NewestInit == Init => NewestIsKept
  BY EmptySaveType
     DEF Init, InitWith, NewestIsKept, QuietKeyIsSettled, Busy, Settled, Pending

\* An accepted snapshot becomes the one its key has pending.
LEMMA NewestAccepted ==
  ASSUME TypeOK, NewestIsKept, NEW k \in Keys, NEW s \in States, AcceptedSubmit(k, s),
         NEW save, save.encoded_state = s, save.completions # <<>>,
         saveOf' = [saveOf EXCEPT ![k] = save]
  PROVE  NewestIsKept'
<1>1. /\ \A l \in Keys : saveOf'[l] = IF l = k THEN save ELSE saveOf[l]
      /\ \A l \in Keys : accepted'[l] = IF l = k THEN s ELSE accepted[l]
      /\ UNCHANGED <<in_flight, job, durable, lost>>
      /\ pc' = Awake(pc)
  BY DEF TypeOK, AcceptedSubmit
<1>2. pc' = "saving" <=> pc = "saving"
  BY <1>1 DEF Awake
<1>3. (in_flight <=> pc \in {"saving", "finish"})'
  BY <1>1 DEF Awake, NewestIsKept
<1>4. \A l \in Keys : (Pending(l) => saveOf[l].encoded_state = accepted[l])'
  BY <1>1 DEF NewestIsKept, Pending
<1>5. (pc = "saving" /\ ~Pending(job.key) => job.save.encoded_state = accepted[job.key])'
  BY <1>1, <1>2 DEF NewestIsKept, Pending, TypeOK
<1>6. QuietKeyIsSettled'
  BY <1>1, <1>2 DEF NewestIsKept, QuietKeyIsSettled, Busy, Settled, Pending
<1> QED BY <1>3, <1>4, <1>5, <1>6 DEF NewestIsKept, Pending

\* The thread takes the newest snapshot of a key.
LEMMA NewestTaken ==
  ASSUME TypeOK, NewestIsKept, Take
  PROVE  NewestIsKept'
<1>1. PICK k \in Keys : k = Head(order) /\ Pending(k)
  <2>1. Head(order) \in Keys /\ 1 \in 1..Len(order) /\ order[1] = Head(order)
    BY DEF TypeOK, Take
  <2> QED BY <2>1 DEF TypeOK, QueueCoherent
<1>2. /\ \A l \in Keys : saveOf'[l] = IF l = k THEN EmptySave ELSE saveOf[l]
      /\ job' = [key |-> k, save |-> saveOf[k]]
      /\ pc = "loop" /\ pc' = "saving" /\ in_flight' = TRUE
      /\ UNCHANGED <<durable, accepted, lost>>
  BY <1>1 DEF TypeOK, Take, histVars
<1>3. \A l \in Keys : (Pending(l) => saveOf[l].encoded_state = accepted[l])'
  BY <1>2, EmptySaveType DEF NewestIsKept, Pending
<1>4. job'.save.encoded_state = accepted'[job'.key]
  BY <1>1, <1>2 DEF NewestIsKept
<1>5. QuietKeyIsSettled'
  BY <1>1, <1>2 DEF NewestIsKept, QuietKeyIsSettled, Busy, Settled, Pending
<1> QED BY <1>2, <1>3, <1>4, <1>5 DEF NewestIsKept, Pending

\* The thread writes its snapshot, or fails to.
LEMMA NewestWritten ==
  ASSUME TypeOK, NewestIsKept, Write
  PROVE  NewestIsKept'
<1>1. PICK k \in Keys : k = job.key
  BY DEF TypeOK, Write
<1>2. /\ pc = "saving" /\ pc' = "finish"
      /\ UNCHANGED <<saveOf, accepted, in_flight>>
      /\ \/ durable'[k] = job.save.encoded_state
         \/ lost'[k]
      /\ \A l \in Keys \ {k} : durable'[l] = durable[l] /\ lost'[l] = lost[l]
  BY <1>1 DEF TypeOK, Write, queueVars
<1>3. QuietKeyIsSettled'
  BY <1>1, <1>2 DEF NewestIsKept, QuietKeyIsSettled, Busy, Settled, Pending
<1> QED BY <1>2, <1>3 DEF NewestIsKept, Pending

\* No step of a caller, the thread or the main thread loses the newest snapshot of a key.
LEMMA NewestStep == TypeOK /\ NewestIsKept /\ [Next]_vars => NewestIsKept'
<1> SUFFICES ASSUME TypeOK, NewestIsKept, [Next]_vars PROVE NewestIsKept'
  OBVIOUS
<1>1. ASSUME UNCHANGED <<saveOf, accepted, durable, lost, in_flight, job>>,
             \/ pc' = pc
             \/ {pc, pc'} \cap {"saving", "finish"} = {}
      PROVE  NewestIsKept'
  BY <1>1 DEF NewestIsKept, QuietKeyIsSettled, Busy, Settled, Pending
<1>2. CASE UNCHANGED vars
  BY <1>1, <1>2 DEF vars, queueVars, threadVars, histVars
<1>3. CASE Start \/ Main
  BY <1>1, <1>3 DEF Start, Main, FlushCall, FlushTest, FlushExpires, ShutdownCall, Join,
     queueVars, threadVars, histVars, Awake
<1>4. CASE \E r \in Receipts : Forget(r) \/ \E k \in Keys : Reject(k, r)
  BY <1>1, <1>4 DEF Forget, Reject, queueVars, threadVars, histVars
<1>5. ASSUME NEW k \in Keys, Accepts(k)
      PROVE  NewestIsKept'
  <2>1. PICK s \in States, r \in Receipts :
          Enqueue(k, s, r) \/ Coalesce(k, s, r) \/ CoalesceAgain(k, s, r)
    BY <1>5 DEF Accepts
  <2>2. AcceptedSubmit(k, s)
    BY <2>1 DEF Enqueue, Coalesce, CoalesceAgain
  <2>3. PICK save \in PendingSave : /\ saveOf' = [saveOf EXCEPT ![k] = save]
                                    /\ save.encoded_state = s /\ save.completions # <<>>
    BY <2>1, AcceptedSave
  <2> QED BY <2>2, <2>3, NewestAccepted
<1>6. CASE Take \/ Write
  BY <1>6, NewestTaken, NewestWritten
<1>7. CASE Finish
  BY <1>7 DEF Finish, NewestIsKept, QuietKeyIsSettled, Busy, Settled, Pending,
     queueVars, histVars
<1>8. CASE Answered \/ Callback
  <2>1. UNCHANGED <<saveOf, accepted, durable, lost, in_flight>>
        /\ {pc, pc'} \cap {"saving", "finish"} = {}
    BY <1>8 DEF Answered, Callback, queueVars, histVars
  <2> QED BY <2>1 DEF NewestIsKept, QuietKeyIsSettled, Busy, Settled, Pending
<1>9. CASE Sleep \/ Exit \/ Answer
  BY <1>1, <1>9 DEF Sleep, Exit, Answer, queueVars, histVars
<1> QED BY <1>2, <1>3, <1>4, <1>5, <1>6, <1>7, <1>8, <1>9 DEF Next, Submit, Run

-------------------------------------------------------------------------------
(* The life of the thread *)

\* The thread is born with start(), leaves only when closing is set and the queue is empty,
\* and has left, or was never born, when shutdown() returns True.
ThreadLife ==
  /\ pc = "unborn" <=> ~started
  /\ pc \in {"unborn", "exited"} => order = <<>>
  /\ pc = "exited" => closing
  /\ main = "joined" => closing /\ pc \in {"unborn", "exited"}

\* A new writer has no thread and no work.
LEMMA LifeInit == Init => ThreadLife
  BY DEF Init, InitWith, ThreadLife

\* Every step keeps the thread's life and the main thread's reports in order.
LEMMA LifeStep == TypeOK /\ ThreadLife /\ [Next]_vars => ThreadLife'
<1> SUFFICES ASSUME TypeOK, ThreadLife, [Next]_vars PROVE ThreadLife'
  OBVIOUS
<1> USE DEF ThreadLife, callVars, queueVars, threadVars
<1>1. CASE UNCHANGED vars
  BY <1>1 DEF vars
<1>2. CASE Start
  BY <1>2 DEF Start
<1>3. CASE Submit
  <2>1. CASE \E k \in Keys, r \in Receipts : Reject(k, r)
    BY <2>1 DEF Reject
  <2>2. CASE \E k \in Keys : Accepts(k)
    <3>1. PICK k \in Keys, s \in States : AcceptedSubmit(k, s)
      BY <2>2 DEF Accepts, Enqueue, Coalesce, CoalesceAgain
    <3>2. pc \notin {"unborn", "exited"} /\ main # "joined"
      BY <3>1 DEF AcceptedSubmit
    <3> QED BY <3>1, <3>2 DEF AcceptedSubmit, Awake, MainAwake
  <2> QED BY <1>3, <2>1, <2>2 DEF Submit
<1>4. CASE \E r \in Receipts : Forget(r)
  BY <1>4 DEF Forget
<1>5. CASE Run
  BY <1>5 DEF Run, Sleep, Exit, Take, Write, Finish, Answer, Callback, Answered, MainAwake
<1>6. CASE Main
  BY <1>6 DEF Main, FlushCall, FlushTest, FlushExpires, ShutdownCall, Join, Awake, Returned
<1> QED BY <1>1, <1>2, <1>3, <1>4, <1>5, <1>6 DEF Next

-------------------------------------------------------------------------------
(* No waiter is forgotten *)

\* Why every open receipt is held: the thread drops a request only after answering it, and
\* holds none while it waits for work.
WaitersAreKept ==
  /\ OpenReceiptIsHeld
  /\ pc = "callback" => receipt[Head(job.save.completions).receipt] \in {"saved", "failed"}
  /\ pc \in {"unborn", "loop", "asleep", "exited"} => job.save.completions = <<>>

\* A new writer has no waiter.
LEMMA WaitersInit == Init => WaitersAreKept
  BY EmptySaveType DEF Init, InitWith, WaitersAreKept, OpenReceiptIsHeld, NoJob

\* The first request of a job is in its list, and the others are in its tail.
LEMMA HeadAndTail ==
  ASSUME NEW list \in Seq(Completion), list # <<>>
  PROVE  /\ Head(list) \in Completion
         /\ InList(Head(list).receipt, list)
         /\ \A q \in Receipts : InList(q, list)
              => q = Head(list).receipt \/ InList(q, Tail(list))
<1>1. 1 \in DOMAIN list /\ Head(list) = list[1] /\ list[1] \in Completion
  OBVIOUS
<1>2. ASSUME NEW i \in DOMAIN list, i # 1
      PROVE  \E j \in DOMAIN Tail(list) : Tail(list)[j] = list[i]
  <2>1. i - 1 \in DOMAIN Tail(list) /\ Tail(list)[i - 1] = list[(i - 1) + 1]
        /\ (i - 1) + 1 = i
    BY <1>2
  <2> QED BY <2>1
<1>3. ASSUME NEW q \in Receipts, NEW i \in DOMAIN list, list[i].receipt = q
      PROVE  q = Head(list).receipt \/ InList(q, Tail(list))
  <2>1. CASE i = 1
    BY <2>1, <1>1, <1>3
  <2>2. CASE i # 1
    BY <2>2, <1>2, <1>3 DEF InList
  <2> QED BY <2>1, <2>2
<1> QED BY <1>1, <1>3 DEF InList

\* An accepted request adds its receipt to those that are held.
LEMMA WaitersAccepted ==
  ASSUME TypeOK, WaitersAreKept, NEW k \in Keys, NEW s \in States, NEW r \in Receipts,
         Enqueue(k, s, r) \/ Coalesce(k, s, r) \/ CoalesceAgain(k, s, r)
  PROVE  WaitersAreKept'
<1>1. PICK save \in PendingSave :
        /\ saveOf' = [saveOf EXCEPT ![k] = save]
        /\ \A q \in Receipts : InList(q, save.completions)
                                <=> q = r \/ InList(q, saveOf[k].completions)
  BY AcceptedSave
<1>2. \A l \in Keys : saveOf'[l] = IF l = k THEN save ELSE saveOf[l]
  BY <1>1 DEF TypeOK
<1>3. /\ job' = job /\ pc' = Awake(pc)
      /\ \A q \in Receipts \ {r} : receipt'[q] = receipt[q]
      /\ receipt[r] = "unused" \/ receipt' = receipt
  BY DEF TypeOK, Enqueue, Coalesce, CoalesceAgain, AcceptedSubmit
<1>4. OpenReceiptIsHeld'
  <2> SUFFICES ASSUME NEW q \in Receipts, receipt'[q] = "open"
               PROVE  Held(q)'
    BY DEF OpenReceiptIsHeld
  <2>1. CASE q = r
    BY <2>1, <1>1, <1>2 DEF Held
  <2>2. CASE q # r
    <3>1. Held(q)
      BY <2>2, <1>3 DEF WaitersAreKept, OpenReceiptIsHeld
    <3>2. CASE InList(q, job.save.completions)
      BY <3>2, <1>3 DEF Held
    <3>3. ASSUME NEW l \in Keys, InList(q, saveOf[l].completions)
          PROVE  InList(q, saveOf'[l].completions)
      BY <3>3, <1>1, <1>2
    <3> QED BY <3>1, <3>2, <3>3 DEF Held
  <2> QED BY <2>1, <2>2
<1>5. (pc = "callback" => receipt[Head(job.save.completions).receipt] \in {"saved", "failed"})'
  <2> SUFFICES ASSUME pc' = "callback"
               PROVE  receipt'[Head(job.save.completions).receipt] \in {"saved", "failed"}
    BY <1>3
  <2>1. pc = "callback" /\ job.save.completions \in Seq(Completion)
        /\ job.save.completions # <<>>
    BY <1>3 DEF TypeOK, Awake, PendingSave
  <2>2. Head(job.save.completions).receipt \in Receipts
    BY <2>1, HeadAndTail DEF Completion
  <2> QED BY <2>1, <2>2, <1>3 DEF WaitersAreKept
<1> QED BY <1>3, <1>4, <1>5 DEF WaitersAreKept, Awake

\* A receipt is refused or forgotten.
LEMMA WaitersClosed ==
  ASSUME TypeOK, WaitersAreKept, NEW r \in Receipts,
         Forget(r) \/ \E k \in Keys : Reject(k, r)
  PROVE  WaitersAreKept'
<1>1. /\ UNCHANGED <<saveOf, job, pc>>
      /\ \A q \in Receipts \ {r} : receipt'[q] = receipt[q]
      /\ receipt'[r] # "open"
      /\ receipt[r] = "unused" \/ ~Held(r)
  BY DEF TypeOK, Forget, Reject, queueVars, threadVars
<1>2. OpenReceiptIsHeld'
  BY <1>1 DEF WaitersAreKept, OpenReceiptIsHeld, Held
<1>3. ASSUME pc = "callback"
      PROVE  receipt'[Head(job.save.completions).receipt] \in {"saved", "failed"}
  <2>1. job.save.completions \in Seq(Completion) /\ job.save.completions # <<>>
    BY <1>3 DEF TypeOK, PendingSave
  <2>2. Head(job.save.completions).receipt \in Receipts
        /\ InList(Head(job.save.completions).receipt, job.save.completions)
    BY <2>1, HeadAndTail DEF Completion
  <2> QED BY <2>2, <1>1, <1>3 DEF WaitersAreKept, Held
<1> QED BY <1>1, <1>2, <1>3 DEF WaitersAreKept

\* The list of the oldest key goes over to the thread, whose hands were empty.
LEMMA WaitersTaken ==
  ASSUME TypeOK, WaitersAreKept, Take
  PROVE  WaitersAreKept'
<1>1. PICK k \in Keys : k = Head(order)
  BY DEF TypeOK, Take
<1>2. /\ \A l \in Keys : saveOf'[l] = IF l = k THEN EmptySave ELSE saveOf[l]
      /\ job'.save = saveOf[k]
      /\ pc = "loop" /\ pc' = "saving"
      /\ receipt' = receipt
  BY <1>1 DEF TypeOK, Take
<1>3. \A q \in Receipts : ~InList(q, job.save.completions)
  BY <1>2 DEF WaitersAreKept, InList
<1>4. OpenReceiptIsHeld'
  BY <1>2, <1>3 DEF WaitersAreKept, OpenReceiptIsHeld, Held
<1> QED BY <1>2, <1>4 DEF WaitersAreKept

\* The thread answers its oldest request.
LEMMA WaitersAnswered ==
  ASSUME TypeOK, WaitersAreKept, Answer
  PROVE  WaitersAreKept'
<1> DEFINE r == Head(job.save.completions).receipt
<1>1. r \in Receipts
  <2>1. job.save.completions \in Seq(Completion) /\ job.save.completions # <<>>
    BY DEF TypeOK, PendingSave, Answer
  <2> QED BY <2>1, HeadAndTail DEF Completion
<1>2. /\ UNCHANGED <<saveOf, job>>
      /\ pc' = "callback"
      /\ \A q \in Receipts \ {r} : receipt'[q] = receipt[q]
      /\ receipt'[r] \in {"saved", "failed"}
  BY <1>1 DEF TypeOK, Answer, queueVars
<1>3. OpenReceiptIsHeld'
  BY <1>1, <1>2 DEF WaitersAreKept, OpenReceiptIsHeld, Held
<1> QED BY <1>2, <1>3 DEF WaitersAreKept

\* The thread drops the request it has answered.
LEMMA WaitersDropped ==
  ASSUME TypeOK, WaitersAreKept, Callback
  PROVE  WaitersAreKept'
<1> DEFINE list == job.save.completions
<1>1. list \in Seq(Completion) /\ list # <<>>
  BY DEF TypeOK, PendingSave, Callback
<1>2. job'.save.completions = Tail(list)
  BY DEF TypeOK, PendingSave, Callback
<1>3. UNCHANGED <<saveOf, receipt>> /\ pc = "callback" /\ pc' = "answer"
  BY DEF Callback, queueVars
<1>4. OpenReceiptIsHeld'
  <2> SUFFICES ASSUME NEW q \in Receipts, receipt[q] = "open"
               PROVE  Held(q)'
    BY <1>3 DEF OpenReceiptIsHeld
  <2>1. Held(q) /\ q # Head(list).receipt
    BY <1>3 DEF WaitersAreKept, OpenReceiptIsHeld
  <2>2. InList(q, list) => InList(q, Tail(list))
    BY <2>1, <1>1, HeadAndTail
  <2> QED BY <2>1, <2>2, <1>2, <1>3 DEF Held
<1> QED BY <1>3, <1>4 DEF WaitersAreKept

\* No step loses a waiter.
LEMMA WaitersStep == TypeOK /\ ThreadLife /\ WaitersAreKept /\ [Next]_vars => WaitersAreKept'
<1> SUFFICES ASSUME TypeOK, ThreadLife, WaitersAreKept, [Next]_vars PROVE WaitersAreKept'
  OBVIOUS
<1>1. ASSUME UNCHANGED <<saveOf, receipt, job>>,
             \/ pc' = pc
             \/ pc' \in {"loop", "asleep", "exited"} /\ pc \in {"unborn", "loop", "asleep"}
             \/ pc' \in {"finish", "answer"}
      PROVE  WaitersAreKept'
  BY <1>1 DEF WaitersAreKept, OpenReceiptIsHeld, Held
<1>2. CASE UNCHANGED vars
  BY <1>1, <1>2 DEF vars, queueVars, threadVars
<1>3. CASE Start \/ Main
  BY <1>1, <1>3 DEF Start, ThreadLife, Main, FlushCall, FlushTest, FlushExpires, ShutdownCall,
     Join, queueVars, threadVars, Awake
<1>4. CASE Take \/ Answer \/ Callback
  BY <1>4, WaitersTaken, WaitersAnswered, WaitersDropped
<1>5. CASE Sleep \/ Exit \/ Write \/ Finish
  BY <1>1, <1>5 DEF Sleep, Exit, Write, Finish, queueVars
<1>6. CASE Answered
  BY <1>6, EmptySaveType DEF Answered, queueVars, NoJob, WaitersAreKept, OpenReceiptIsHeld,
     Held, InList
<1> QED BY <1>2, <1>3, <1>4, <1>5, <1>6, WaitersAccepted, WaitersClosed
     DEF Next, Submit, Accepts, Run

\* The whole inductive invariant.
WriterInv == TypeOK /\ NewestIsKept /\ ThreadLife /\ WaitersAreKept

\* The whole inductive invariant holds in every state the writer can reach.
LEMMA WriterInvariant == Spec => []WriterInv
<1>1. Init => WriterInv
  BY TypeInit, NewestInit, LifeInit, WaitersInit DEF WriterInv
<1>2. WriterInv /\ [Next]_vars => WriterInv'
  BY TypeStep, NewestStep, LifeStep, WaitersStep DEF WriterInv
<1> QED BY <1>1, <1>2, PTL DEF Spec

\* A coalesced queue neither drops the newest accepted snapshot of a key nor lets an older
\* one overwrite it.
THEOREM QuietKeysSettled == Spec => []QuietKeyIsSettled
<1>1. WriterInv => QuietKeyIsSettled
  BY DEF WriterInv, NewestIsKept
<1> QED BY <1>1, WriterInvariant, PTL

\* A flush() that returns True has seen every accepted snapshot written or failed.
THEOREM FlushSettles == Spec => FlushedIsSettled
<1> DEFINE Flushed == main' = "flushed" /\ main # "flushed" => \A k \in Keys : Settled(k)
<1>1. ASSUME WriterInv, [Next]_vars
      PROVE  [Flushed]_vars
  <2> SUFFICES ASSUME Next, main' = "flushed", main # "flushed"
               PROVE  \A k \in Keys : Settled(k)
    BY <1>1
  <2>1. NothingLeft
    <3>1. ~Run
      BY DEF Run, Sleep, Exit, Take, Write, Finish, Answer, Callback, Answered, MainAwake
    <3>2. ~Submit
      <4>1. ASSUME NEW k \in Keys, NEW s \in States, AcceptedSubmit(k, s)
            PROVE  FALSE
        BY <4>1 DEF AcceptedSubmit, MainAwake
      <4>2. ASSUME NEW k \in Keys, NEW r \in Receipts, Reject(k, r)
            PROVE  FALSE
        BY <4>2 DEF Reject
      <4> QED BY <4>1, <4>2 DEF Submit, Accepts, Enqueue, Coalesce, CoalesceAgain
    <3>3. ~Start /\ ~\E r \in Receipts : Forget(r)
      BY DEF Start, Forget
    <3>4. FlushTest
      BY <3>1, <3>2, <3>3 DEF Next, Main, FlushCall, FlushExpires, ShutdownCall, Join
    <3> QED BY <3>4 DEF FlushTest
  <2>2. \A k \in Keys : ~Pending(k)
    BY <2>1, <1>1 DEF WriterInv, NothingLeft, TypeOK, QueueCoherent
  <2>3. pc # "saving"
    BY <2>1, <1>1 DEF WriterInv, NothingLeft, NewestIsKept
  <2> QED BY <2>2, <2>3, <1>1 DEF WriterInv, NewestIsKept, QuietKeyIsSettled, Busy
<1> QED BY <1>1, WriterInvariant, PTL DEF Spec, FlushedIsSettled

\* Every unanswered receipt is in some list the thread will come to.
THEOREM OpenReceiptsHeld == Spec => []OpenReceiptIsHeld
<1>1. WriterInv => OpenReceiptIsHeld
  BY DEF WriterInv, WaitersAreKept
<1> QED BY <1>1, WriterInvariant, PTL

\* A shutdown() that returns True leaves no caller waiting and no accepted snapshot
\* unwritten, unless its write raised.
THEOREM ShutdownDrains == Spec => []JoinedIsDrained
<1>1. ASSUME WriterInv
      PROVE  JoinedIsDrained
  <2> SUFFICES ASSUME main = "joined"
               PROVE  /\ \A r \in Receipts : receipt[r] # "open"
                      /\ \A k \in Keys : Settled(k)
    BY DEF JoinedIsDrained
  <2>1. order = <<>> /\ pc \in {"unborn", "exited"}
    BY <1>1 DEF WriterInv, ThreadLife
  <2>2. \A k \in Keys : ~Pending(k)
    BY <1>1, <2>1 DEF WriterInv, TypeOK, QueueCoherent
  <2>3. \A r \in Receipts : ~Held(r)
    BY <1>1, <2>1, <2>2 DEF WriterInv, WaitersAreKept, Held, InList, Pending
  <2>4. \A r \in Receipts : receipt[r] # "open"
    BY <1>1, <2>3 DEF WriterInv, WaitersAreKept, OpenReceiptIsHeld
  <2>5. \A k \in Keys : Settled(k)
    BY <1>1, <2>1, <2>2 DEF WriterInv, NewestIsKept, QuietKeyIsSettled, Busy
  <2> QED BY <2>4, <2>5
<1> QED BY <1>1, WriterInvariant, PTL

\* flush() and shutdown() never report a success they cannot stand for.
THEOREM ReportsTrue == Spec => ReportsAreTrue
BY FlushSettles, ShutdownDrains, PTL DEF ReportsAreTrue

-------------------------------------------------------------------------------
(* The writer implements WriteBehindStore *)

\* What the thread and the queue know of the requests they hold: their receipts are in use,
\* the newest one of an entry asked for the entry's snapshot, a job being written is not
\* empty, and during a callback the oldest receipt has the verdict of the write.
RequestsAreSound ==
  /\ \A r \in Receipts : Held(r) => receipt[r] # "unused"
  /\ \A k \in Keys : Pending(k) => LastState(saveOf[k].completions) = saveOf[k].encoded_state
  /\ pc = "saving" => /\ job.save.completions # <<>>
                      /\ LastState(job.save.completions) = job.save.encoded_state
  /\ pc = "callback" =>
       receipt[Head(job.save.completions).receipt] = IF success THEN "saved" ELSE "failed"

\* A new writer holds no request.
LEMMA RequestsInit == Init => RequestsAreSound
  BY EmptySaveType DEF Init, InitWith, RequestsAreSound, NoJob, Held, InList, Pending

\* The request the thread is calling back about is held.
LEMMA CalledBackIsHeld ==
  ASSUME TypeOK, pc = "callback"
  PROVE  /\ Head(job.save.completions).receipt \in Receipts
         /\ Held(Head(job.save.completions).receipt)
<1>1. job.save.completions \in Seq(Completion) /\ job.save.completions # <<>>
  BY DEF TypeOK, PendingSave
<1> QED BY <1>1, HeadAndTail DEF Completion, Held

\* submit() opens a receipt nobody holds, or renews the newest request of an entry.
LEMMA RequestsAccepted ==
  ASSUME TypeOK, RequestsAreSound, NEW k \in Keys, NEW s \in States, NEW r \in Receipts,
         Enqueue(k, s, r) \/ Coalesce(k, s, r) \/ CoalesceAgain(k, s, r)
  PROVE  RequestsAreSound'
<1>1. PICK save \in PendingSave :
        /\ saveOf' = [saveOf EXCEPT ![k] = save]
        /\ save.encoded_state = s
        /\ LastState(save.completions) = s
        /\ \A q \in Receipts : InList(q, save.completions)
                                <=> q = r \/ InList(q, saveOf[k].completions)
  BY AcceptedSave
<1>2. \A l \in Keys : saveOf'[l] = IF l = k THEN save ELSE saveOf[l]
  BY <1>1 DEF TypeOK
<1>3. /\ job' = job /\ pc' = Awake(pc) /\ success' = success
      /\ \A q \in Receipts \ {r} : receipt'[q] = receipt[q]
      /\ receipt'[r] # "unused"
      /\ receipt[r] = "unused" \/ receipt' = receipt
  <2>1. CASE Enqueue(k, s, r) \/ Coalesce(k, s, r)
    BY <2>1 DEF TypeOK, Enqueue, Coalesce, AcceptedSubmit
  <2>2. CASE CoalesceAgain(k, s, r)
    <3>1. saveOf[k].completions \in Seq(Completion)
      BY DEF TypeOK, PendingSave
    <3>2. InList(r, saveOf[k].completions)
      BY <3>1, <2>2 DEF CoalesceAgain, InList
    <3> QED BY <3>2, <2>2 DEF RequestsAreSound, Held, CoalesceAgain, AcceptedSubmit
  <2> QED BY <2>1, <2>2
<1>4. ASSUME NEW q \in Receipts, Held(q)'
      PROVE  receipt'[q] # "unused"
  <2>1. q = r \/ Held(q)
    BY <1>1, <1>2, <1>3, <1>4 DEF Held
  <2> QED BY <2>1, <1>3 DEF RequestsAreSound
<1>5. ASSUME NEW l \in Keys, Pending(l)'
      PROVE  LastState(saveOf'[l].completions) = saveOf'[l].encoded_state
  BY <1>1, <1>2, <1>5 DEF RequestsAreSound, Pending
<1>6. ASSUME pc' = "callback"
      PROVE  receipt'[Head(job.save.completions).receipt] = IF success THEN "saved" ELSE "failed"
  <2>1. pc = "callback"
    BY <1>3, <1>6 DEF Awake
  <2> QED BY <2>1, <1>3, CalledBackIsHeld DEF RequestsAreSound
<1> QED BY <1>3, <1>4, <1>5, <1>6 DEF RequestsAreSound, Awake

\* Only a receipt nobody holds is refused or forgotten.
LEMMA RequestsClosed ==
  ASSUME TypeOK, RequestsAreSound, NEW r \in Receipts,
         Forget(r) \/ \E k \in Keys : Reject(k, r)
  PROVE  RequestsAreSound'
<1>1. /\ UNCHANGED <<saveOf, job, pc, success>>
      /\ \A q \in Receipts \ {r} : receipt'[q] = receipt[q]
      /\ ~Held(r)
  BY DEF TypeOK, Forget, Reject, queueVars, threadVars, RequestsAreSound
<1>2. \A q \in Receipts : Held(q)' <=> Held(q)
  BY <1>1 DEF Held
<1>3. ASSUME pc = "callback"
      PROVE  receipt'[Head(job.save.completions).receipt] = IF success THEN "saved" ELSE "failed"
  BY <1>1, <1>3, CalledBackIsHeld DEF RequestsAreSound
<1> QED BY <1>1, <1>2, <1>3 DEF RequestsAreSound, Pending

\* The entry the thread takes goes over as it is.
LEMMA RequestsTaken ==
  ASSUME TypeOK, RequestsAreSound, Take
  PROVE  RequestsAreSound'
<1>0. Head(order) \in Keys /\ \E i \in 1..Len(order) : order[i] = Head(order)
  BY DEF TypeOK, Take
<1>1. PICK k \in Keys : k = Head(order)
  BY <1>0
<1>2. Pending(k)
  BY <1>0, <1>1 DEF TypeOK, QueueCoherent
<1>3. /\ \A l \in Keys : saveOf'[l] = IF l = k THEN EmptySave ELSE saveOf[l]
      /\ job'.save = saveOf[k]
      /\ pc' = "saving" /\ receipt' = receipt
  BY <1>1 DEF TypeOK, Take
<1>4. \A q \in Receipts : Held(q)' => Held(q)
  BY <1>3, EmptySaveType DEF Held, InList
<1> QED BY <1>2, <1>3, <1>4, EmptySaveType DEF RequestsAreSound, Pending

\* The thread answers its oldest request, and then drops it.
LEMMA RequestsAnswered ==
  ASSUME TypeOK, RequestsAreSound, Answer \/ Callback
  PROVE  RequestsAreSound'
<1> DEFINE list == job.save.completions
<1>1. list \in Seq(Completion) /\ list # <<>>
  BY DEF TypeOK, PendingSave, Answer, Callback
<1>2. CASE Answer
  <2>1. Head(list).receipt \in Receipts
    BY <1>1, HeadAndTail DEF Completion
  <2>2. /\ UNCHANGED <<saveOf, job, success>>
        /\ pc' = "callback"
        /\ receipt' = [receipt EXCEPT ![Head(list).receipt] = IF success THEN "saved" ELSE "failed"]
    BY <1>2 DEF Answer, queueVars
  <2>3. \A q \in Receipts : Held(q)' <=> Held(q)
    BY <2>2 DEF Held
  <2>4. \A q \in Receipts : receipt[q] # "unused" => receipt'[q] # "unused"
    BY <2>1, <2>2 DEF TypeOK
  <2>5. receipt'[Head(list).receipt] = IF success THEN "saved" ELSE "failed"
    BY <2>1, <2>2 DEF TypeOK
  <2> QED BY <2>2, <2>3, <2>4, <2>5 DEF RequestsAreSound, Pending
<1>3. CASE Callback
  <2>1. UNCHANGED <<saveOf, receipt, success>> /\ pc' = "answer"
    BY <1>3 DEF Callback, queueVars
  <2>2. job'.save.completions = Tail(list)
    BY <1>3 DEF TypeOK, PendingSave, Callback
  <2>3. \A q \in Receipts : InList(q, Tail(list)) => InList(q, list)
    <3>1. \A i \in DOMAIN Tail(list) : i + 1 \in DOMAIN list /\ Tail(list)[i] = list[i + 1]
      BY <1>1
    <3> QED BY <3>1 DEF InList
  <2>4. \A q \in Receipts : Held(q)' => Held(q)
    BY <2>1, <2>2, <2>3 DEF Held
  <2> QED BY <2>1, <2>4 DEF RequestsAreSound, Pending
<1> QED BY <1>2, <1>3

\* Every step of the writer keeps its requests sound.
LEMMA RequestsStep ==
  TypeOK /\ ThreadLife /\ RequestsAreSound /\ [Next]_vars => RequestsAreSound'
<1> SUFFICES ASSUME TypeOK, ThreadLife, RequestsAreSound, [Next]_vars PROVE RequestsAreSound'
  OBVIOUS
<1>1. ASSUME UNCHANGED <<saveOf, receipt, job>>,
             \/ pc' = pc /\ success' = success
             \/ pc' \notin {"saving", "callback"}
      PROVE  RequestsAreSound'
  BY <1>1 DEF RequestsAreSound, Held, Pending
<1>2. CASE UNCHANGED vars
  BY <1>1, <1>2 DEF vars, queueVars, threadVars
<1>3. CASE Start \/ Main
  BY <1>1, <1>3 DEF Start, Main, FlushCall, FlushTest, FlushExpires, ShutdownCall,
     Join, queueVars, threadVars, Awake
<1>4. CASE Take \/ Answer \/ Callback
  BY <1>4, RequestsTaken, RequestsAnswered
<1>5. CASE Sleep \/ Exit \/ Write \/ Finish
  BY <1>1, <1>5 DEF Sleep, Exit, Write, Finish, queueVars
<1>6. CASE Answered
  BY <1>6, EmptySaveType DEF Answered, queueVars, NoJob, RequestsAreSound, Held, InList, Pending
<1> QED BY <1>2, <1>3, <1>4, <1>5, <1>6, RequestsAccepted, RequestsClosed
     DEF Next, Submit, Accepts, Run

\* Requests are sound in every state of the writer, beside the rest of its invariant.
THEOREM RequestsSound == Spec => [](WriterInv /\ RequestsAreSound)
<1>1. Init => RequestsAreSound
  BY RequestsInit
<1>2. WriterInv /\ RequestsAreSound /\ [Next]_vars => RequestsAreSound'
  BY RequestsStep DEF WriterInv
<1> QED BY <1>1, <1>2, WriterInvariant, PTL DEF Spec

-------------------------------------------------------------------------------
(* Lists laid end to end *)

\* A request appended to the second list is appended to both.
LEMMA ConcatAppend ==
  ASSUME NEW S, NEW a \in Seq(S), NEW b \in Seq(S), NEW c \in S
  PROVE  a \o Append(b, c) = Append(a \o b, c)
<1>1. <<c>> \in Seq(S) /\ a \o b \in Seq(S)
  BY ConcatProperties
<1>2. Append(b, c) = b \o <<c>> /\ Append(a \o b, c) = (a \o b) \o <<c>>
  BY <1>1, AppendIsConcat
<1> QED BY <1>1, <1>2, ConcatAssociative

\* A change of the last element of the second list changes the last element of both.
LEMMA ConcatReplaceLast ==
  ASSUME NEW S, NEW a \in Seq(S), NEW b \in Seq(S), NEW c \in S, b # <<>>
  PROVE  /\ a \o [b EXCEPT ![Len(b)] = c] = [a \o b EXCEPT ![Len(a \o b)] = c]
         /\ Len(a \o b) > 0
         /\ (a \o b)[Len(a \o b)] = b[Len(b)]
<1> DEFINE ab == a \o b
           new == [b EXCEPT ![Len(b)] = c]
<1>1. Len(b) \in 1..Len(b) /\ Len(a) \in Nat /\ Len(b) \in Nat
  OBVIOUS
<1>2. /\ new \in Seq(S) /\ Len(new) = Len(b)
      /\ \A i \in 1..Len(b) : new[i] = IF i = Len(b) THEN c ELSE b[i]
  BY <1>1
<1> HIDE DEF new
<1>3. /\ ab \in Seq(S) /\ Len(ab) = Len(a) + Len(b)
      /\ \A i \in 1..Len(a) + Len(b) : ab[i] = IF i <= Len(a) THEN a[i] ELSE b[i - Len(a)]
  BY ConcatProperties
<1>4. /\ a \o new \in Seq(S) /\ Len(a \o new) = Len(ab)
      /\ \A i \in 1..Len(ab) : (a \o new)[i] = IF i <= Len(a) THEN a[i] ELSE new[i - Len(a)]
  <2>1. /\ a \o new \in Seq(S) /\ Len(a \o new) = Len(a) + Len(new)
        /\ \A i \in 1..Len(a) + Len(new) : (a \o new)[i] =
             IF i <= Len(a) THEN a[i] ELSE new[i - Len(a)]
    BY <1>2, ConcatProperties
  <2>2. Len(a) + Len(new) = Len(ab)
    BY <1>2, <1>3
  <2> QED BY <2>1, <2>2, Zenon
<1> DEFINE last == [ab EXCEPT ![Len(ab)] = c]
<1> HIDE DEF ab
<1>5. /\ last \in Seq(S) /\ Len(last) = Len(ab)
      /\ \A i \in 1..Len(ab) : last[i] = IF i = Len(ab) THEN c ELSE ab[i]
  BY <1>1, <1>3
<1> HIDE DEF last
<1>6. \A i \in 1..Len(ab) : (a \o new)[i] = last[i]
  <2> SUFFICES ASSUME NEW i \in 1..Len(ab) PROVE (a \o new)[i] = last[i]
    OBVIOUS
  <2>0. i \in 1..Len(a) + Len(b) /\ i \in Nat
    BY <1>1, <1>3
  <2>1. CASE i <= Len(a)
    BY <2>1, <1>1, <1>3, <1>4, <1>5
  <2>2. CASE ~(i <= Len(a))
    <3>1. i - Len(a) \in 1..Len(b) /\ (i - Len(a) = Len(b) <=> i = Len(ab))
      BY <2>0, <2>2, <1>1, <1>3
    <3>2. (a \o new)[i] = new[i - Len(a)]
      BY <2>2, <1>4
    <3>3. last[i] = IF i = Len(ab) THEN c ELSE b[i - Len(a)]
      BY <2>0, <2>2, <1>3, <1>5
    <3>4. new[i - Len(a)] = IF i - Len(a) = Len(b) THEN c ELSE b[i - Len(a)]
      BY <3>1, <1>2
    <3> QED BY <3>1, <3>2, <3>3, <3>4
  <2> QED BY <2>1, <2>2
<1>7. a \o new = last
  BY <1>4, <1>5, <1>6, SeqEqual
<1>8. Len(ab) > 0 /\ ab[Len(ab)] = b[Len(b)]
  BY <1>1, <1>3
<1> QED BY <1>7, <1>8 DEF new, last, ab

\* Dropping the first list leaves the second.
LEMMA ConcatDrop ==
  ASSUME NEW S, NEW a \in Seq(S), NEW b \in Seq(S)
  PROVE  /\ SubSeq(a \o b, Len(a) + 1, Len(a \o b)) = b
         /\ \A i \in 1..Len(a) : i \in 1..Len(a \o b) /\ (a \o b)[i] = a[i]
<1> DEFINE ab == a \o b
           rest == SubSeq(ab, Len(a) + 1, Len(ab))
<1>1. /\ ab \in Seq(S) /\ Len(ab) = Len(a) + Len(b)
      /\ \A i \in 1..Len(a) + Len(b) : ab[i] = IF i <= Len(a) THEN a[i] ELSE b[i - Len(a)]
      /\ Len(a) \in Nat /\ Len(b) \in Nat
  BY ConcatProperties
<1> HIDE DEF ab
<1>2. \A i \in Len(a) + 1..Len(ab) : ab[i] \in S
  BY <1>1
<1>3. /\ rest \in Seq(S)
      /\ Len(rest) = IF Len(a) + 1 <= Len(ab) THEN Len(ab) - (Len(a) + 1) + 1 ELSE 0
      /\ \A i \in 1..Len(ab) - (Len(a) + 1) + 1 : rest[i] = ab[Len(a) + 1 + i - 1]
  BY <1>1, <1>2, SubSeqProperties
<1> HIDE DEF rest
<1>4. Len(rest) = Len(b)
  BY <1>1, <1>3
<1>5. \A i \in 1..Len(b) : rest[i] = b[i]
  <2> SUFFICES ASSUME NEW i \in 1..Len(b) PROVE rest[i] = b[i]
    OBVIOUS
  <2>1. i \in 1..Len(ab) - (Len(a) + 1) + 1 /\ Len(a) + 1 + i - 1 = Len(a) + i
    BY <1>1
  <2>2. Len(a) + i \in 1..Len(a) + Len(b) /\ ~(Len(a) + i <= Len(a)) /\ Len(a) + i - Len(a) = i
    BY <1>1
  <2> QED BY <2>1, <2>2, <1>1, <1>3
<1>6. rest = b
  BY <1>3, <1>4, <1>5, SeqEqual
<1>7. \A i \in 1..Len(a) : i \in 1..Len(ab) /\ ab[i] = a[i]
  BY <1>1
<1> QED BY <1>6, <1>7 DEF rest, ab

-------------------------------------------------------------------------------
(* Each step of the writer is a step of the store, or none *)

\* What the thread holds of a key and what the queue holds of it are lists of requests.
LEMMA BacklogType ==
  ASSUME TypeOK, NEW k \in Keys
  PROVE  InHand(k) \in Seq(Completion) /\ saveOf[k].completions \in Seq(Completion)
  BY DEF TypeOK, PendingSave, InHand

\* Steps that leave the job and the thread's progress with it alone change no backlog but the
\* queue's, and no verdict but the receipts'.
LEMMA HandsUnmoved ==
  ASSUME job' = job, success' = success,
         pc' = pc \/ {pc, pc'} \subseteq {"unborn", "loop", "asleep", "exited"}
  PROVE  /\ \A k \in Keys : InHand(k)' = InHand(k)
         /\ \A r \in Receipts : receipt'[r] = receipt[r] => Verdict(r)' = Verdict(r)
         /\ \A r \in Receipts :
              InList(r, job.save.completions) \/ Verdict(r)' = receipt'[r]
  BY DEF InHand, Verdict

\* A new writer is a new store.
LEMMA StoreInitial == Init => Store!StoreInit
<1> SUFFICES ASSUME Init PROVE Store!StoreInit
  OBVIOUS
<1>1. \A k \in Keys : InHand(k) \o saveOf[k].completions = <<>>
  BY EmptySaveType DEF Init, InitWith, InHand
<1>2. \A r \in Receipts : Verdict(r) = "unused"
  BY DEF Init, InitWith, Verdict
<1>3. durable = [k \in Keys |-> InitialState]
  BY DEF Init, InitWith
<1> QED BY <1>1, <1>2, <1>3 DEF Store!StoreInit

\* A receipt that is not in use is not in the thread's hands, so the store knows it as unused.
LEMMA UnusedVerdict ==
  ASSUME RequestsAreSound, NEW r \in Receipts, receipt[r] = "unused"
  PROVE  Verdict(r) = "unused" /\ ~InList(r, job.save.completions)
  BY DEF RequestsAreSound, Held, Verdict

\* submit() with a new receipt queues a request behind the older ones of its key.
LEMMA SubmitAccepts ==
  ASSUME TypeOK, RequestsAreSound, NEW k \in Keys, NEW s \in States, NEW r \in Receipts,
         Enqueue(k, s, r) \/ Coalesce(k, s, r)
  PROVE  Store!Accept(k, s, r)
<1> DEFINE c == [receipt |-> r, encoded_state |-> s]
           old == saveOf[k].completions
           Backlog(l) == InHand(l) \o saveOf[l].completions
<1>1. c \in Completion /\ InHand(k) \in Seq(Completion) /\ old \in Seq(Completion)
  BY BacklogType DEF Completion
<1>2. /\ receipt[r] = "unused"
      /\ receipt' = [receipt EXCEPT ![r] = "open"]
      /\ job' = job /\ success' = success /\ pc' = Awake(pc) /\ durable' = durable
  BY DEF Enqueue, Coalesce, AcceptedSubmit
<1>3. saveOf'[k].completions = Append(old, c)
      /\ \A l \in Keys \ {k} : saveOf'[l] = saveOf[l]
  <2>1. CASE Enqueue(k, s, r)
    <3>1. old = <<>>
      BY <2>1 DEF Enqueue, Pending
    <3> QED BY <2>1, <3>1 DEF Enqueue, TypeOK
  <2>2. CASE Coalesce(k, s, r)
    BY <2>2 DEF Coalesce, TypeOK
  <2> QED BY <2>1, <2>2
<1> HIDE DEF c
<1>4. pc' = pc \/ {pc, pc'} \subseteq {"unborn", "loop", "asleep", "exited"}
  BY <1>2 DEF Awake
<1>5. /\ \A l \in Keys : InHand(l)' = InHand(l)
      /\ \A q \in Receipts : receipt'[q] = receipt[q] => Verdict(q)' = Verdict(q)
      /\ \A q \in Receipts : InList(q, job.save.completions) \/ Verdict(q)' = receipt'[q]
  BY <1>2, <1>4, HandsUnmoved
<1>6. Backlog(k)' = Append(Backlog(k), c) /\ \A l \in Keys \ {k} : Backlog(l)' = Backlog(l)
  <2>1. InHand(k)' = InHand(k) /\ saveOf[k].completions' = Append(old, c)
    BY <1>3, <1>5
  <2>2. InHand(k) \o Append(old, c) = Append(InHand(k) \o old, c)
    BY <1>1, ConcatAppend, SMTT(30)
  <2>3. \A l \in Keys \ {k} : Backlog(l)' = Backlog(l)
    BY <1>3, <1>5
  <2> QED BY <2>1, <2>2, <2>3
<1>7. Verdict(r) = "unused" /\ ~InList(r, job.save.completions)
  BY <1>2, UnusedVerdict
<1>8. Verdict(r)' = "open" /\ \A q \in Receipts \ {r} : Verdict(q)' = Verdict(q)
  BY <1>2, <1>5, <1>7 DEF TypeOK
<1> QED BY <1>2, <1>6, <1>7, <1>8 DEF Store!Accept, c

\* submit() by a caller that gives up its newest request puts the newer snapshot in its place.
LEMMA SubmitSupersedes ==
  ASSUME TypeOK, NEW k \in Keys, NEW s \in States, NEW r \in Receipts, CoalesceAgain(k, s, r)
  PROVE  Store!Supersede(k, s, r)
<1> DEFINE c == [receipt |-> r, encoded_state |-> s]
           old == saveOf[k].completions
           Backlog(l) == InHand(l) \o saveOf[l].completions
           n == Len(Backlog(k))
<1>1. /\ c \in Completion /\ InHand(k) \in Seq(Completion) /\ old \in Seq(Completion)
      /\ old # <<>> /\ old[Len(old)].receipt = r
  <2>1. c \in Completion /\ InHand(k) \in Seq(Completion) /\ old \in Seq(Completion)
    BY BacklogType DEF Completion
  <2>2. Len(old) > 0 /\ old[Len(old)].receipt = r
    BY DEF CoalesceAgain
  <2> QED BY <2>1, <2>2
<1>2. /\ receipt' = receipt
      /\ job' = job /\ success' = success /\ pc' = Awake(pc) /\ durable' = durable
  BY DEF CoalesceAgain, AcceptedSubmit
<1>3. saveOf'[k].completions = [old EXCEPT ![Len(old)] = c]
      /\ \A l \in Keys \ {k} : saveOf'[l] = saveOf[l]
  BY DEF CoalesceAgain, TypeOK
<1> HIDE DEF c
<1>4. pc' = pc \/ {pc, pc'} \subseteq {"unborn", "loop", "asleep", "exited"}
  BY <1>2 DEF Awake
<1>5. /\ \A l \in Keys : InHand(l)' = InHand(l)
      /\ \A q \in Receipts : Verdict(q)' = Verdict(q)
  BY <1>2, <1>4, HandsUnmoved
<1>6. /\ Backlog(k)' = [Backlog(k) EXCEPT ![n] = c]
      /\ n > 0 /\ Backlog(k)[n] = old[Len(old)]
      /\ \A l \in Keys \ {k} : Backlog(l)' = Backlog(l)
  <2>1. InHand(k)' = InHand(k) /\ saveOf[k].completions' = [old EXCEPT ![Len(old)] = c]
    BY <1>3, <1>5
  <2>2. /\ InHand(k) \o [old EXCEPT ![Len(old)] = c] = [Backlog(k) EXCEPT ![n] = c]
        /\ n > 0 /\ Backlog(k)[n] = old[Len(old)]
    <3>1. ASSUME NEW hand \in Seq(Completion), NEW list \in Seq(Completion),
                 list # <<>>, NEW d \in Completion
          PROVE  /\ hand \o [list EXCEPT ![Len(list)] = d]
                      = [hand \o list EXCEPT ![Len(hand \o list)] = d]
                 /\ Len(hand \o list) > 0
                 /\ (hand \o list)[Len(hand \o list)] = list[Len(list)]
      BY <3>1, ConcatReplaceLast
    <3> QED BY <3>1, <1>1
  <2>3. \A l \in Keys \ {k} : Backlog(l)' = Backlog(l)
    BY <1>3, <1>5
  <2> QED BY <2>1, <2>2, <2>3
<1>7. old[Len(old)] \in Completion
  BY <1>1
<1>8. c = [old[Len(old)] EXCEPT !.encoded_state = s]
  BY <1>1, <1>7 DEF c, Completion
<1> QED BY <1>1, <1>2, <1>5, <1>6, <1>8 DEF Store!Supersede

\* A refused or forgotten receipt is refused or forgotten by the store.
LEMMA ReceiptsAlone ==
  ASSUME TypeOK, RequestsAreSound, NEW r \in Receipts,
         Forget(r) \/ \E k \in Keys : Reject(k, r)
  PROVE  Store!Refuse(r) \/ Store!Forget(r)
<1>1. /\ UNCHANGED <<saveOf, durable, job, success, pc>>
      /\ ~InList(r, job.save.completions)
      /\ \A q \in Receipts \ {r} : receipt'[q] = receipt[q]
      /\ \/ receipt[r] = "unused" /\ receipt'[r] = "failed"
         \/ receipt[r] \in {"saved", "failed"} /\ receipt'[r] = "unused"
  BY UnusedVerdict DEF TypeOK, Forget, Reject, queueVars, threadVars, Held
<1>2. \A k \in Keys : InHand(k)' = InHand(k)
  BY <1>1, HandsUnmoved
<1>3. \A q \in Receipts \ {r} : Verdict(q)' = Verdict(q)
  BY <1>1, HandsUnmoved
<1>4. Verdict(r) = receipt[r] /\ Verdict(r)' = receipt'[r]
  BY <1>1 DEF Verdict
<1> QED BY <1>1, <1>2, <1>3, <1>4 DEF Store!Refuse, Store!Forget

\* The entry the thread takes stays in the backlog of its key.
LEMMA TakeIsInvisible ==
  ASSUME TypeOK, NewestIsKept, Take
  PROVE  UNCHANGED Store!storeVars
<1>1. PICK k \in Keys : k = Head(order)
  BY DEF TypeOK, Take
<1>2. /\ \A l \in Keys : saveOf'[l] = IF l = k THEN EmptySave ELSE saveOf[l]
      /\ job' = [key |-> k, save |-> saveOf[k]]
      /\ pc = "loop" /\ pc' = "saving"
      /\ UNCHANGED <<receipt, durable>>
  BY <1>1 DEF TypeOK, Take
<1>3. ASSUME NEW l \in Keys
      PROVE  (InHand(l) \o saveOf[l].completions)' = InHand(l) \o saveOf[l].completions
  <2>1. saveOf[l].completions \in Seq(Completion)
    BY BacklogType
  <2>2. InHand(l) = <<>>
    BY <1>2 DEF InHand
  <2>3. CASE l = k
    <3>1. InHand(l)' = saveOf[l].completions /\ saveOf'[l].completions = <<>>
      BY <2>3, <1>2, EmptySaveType DEF InHand
    <3> QED BY <2>1, <2>2, <3>1, ConcatEmptySeq
  <2>4. CASE l # k
    <3>1. InHand(l)' = <<>> /\ saveOf'[l] = saveOf[l]
      BY <2>4, <1>2 DEF InHand
    <3> QED BY <2>2, <3>1
  <2> QED BY <2>3, <2>4
<1>4. \A r \in Receipts : Verdict(r)' = Verdict(r)
  BY <1>2 DEF Verdict
<1> QED BY <1>2, <1>3, <1>4 DEF Store!storeVars

\* The write settles the job: its newest snapshot is in the row, or all of it is lost.
LEMMA WriteSettles ==
  ASSUME TypeOK, RequestsAreSound, Write
  PROVE  \E k \in Keys : \E n \in 1..Len(InHand(k) \o saveOf[k].completions) :
           Store!Commit(k, n) \/ Store!Lose(k, n)
<1> DEFINE list == job.save.completions
           Backlog(l) == InHand(l) \o saveOf[l].completions
           v == IF success' THEN "saved" ELSE "failed"
<1>1. PICK k \in Keys : k = job.key
  BY DEF TypeOK, Write
<1>2. /\ pc = "saving" /\ pc' = "finish"
      /\ UNCHANGED <<saveOf, job, receipt>>
      /\ \/ success' = TRUE /\ durable' = [durable EXCEPT ![k] = job.save.encoded_state]
         \/ success' = FALSE /\ durable' = durable
  BY <1>1 DEF Write, queueVars
<1>3. /\ list \in Seq(Completion) /\ list # <<>>
      /\ LastState(list) = job.save.encoded_state
      /\ saveOf[k].completions \in Seq(Completion)
  BY <1>2, BacklogType DEF TypeOK, PendingSave, RequestsAreSound
<1>4. InHand(k) = list /\ \A l \in Keys : InHand(l)' = <<>> /\ (l # k => InHand(l) = <<>>)
  BY <1>1, <1>2 DEF InHand
<1> DEFINE n == Len(list)
<1>5. /\ SubSeq(Backlog(k), n + 1, Len(Backlog(k))) = saveOf[k].completions
      /\ \A i \in 1..n : i \in 1..Len(Backlog(k)) /\ Backlog(k)[i] = list[i]
      /\ n \in 1..n
  <2>1. ASSUME NEW hand \in Seq(Completion), NEW rest \in Seq(Completion)
        PROVE  /\ SubSeq(hand \o rest, Len(hand) + 1, Len(hand \o rest)) = rest
               /\ \A i \in 1..Len(hand) : i \in 1..Len(hand \o rest)
                                          /\ (hand \o rest)[i] = hand[i]
    BY ConcatDrop
  <2>2. n \in 1..n
    BY <1>3
  <2> QED BY <2>1, <2>2, <1>3, <1>4, ZenonT(60)
<1>6. \A l \in Keys : Backlog(l)' = IF l = k THEN SubSeq(Backlog(k), n + 1, Len(Backlog(k)))
                                              ELSE Backlog(l)
  <2>1. Backlog(k)' = saveOf[k].completions
    BY <1>2, <1>3, <1>4, ConcatEmptySeq
  <2>2. \A l \in Keys \ {k} : Backlog(l)' = Backlog(l)
    BY <1>2, <1>4
  <2> QED BY <2>1, <2>2, <1>5
<1>7. \A r \in Receipts : r \in {Backlog(k)[i].receipt : i \in 1..n} <=> InList(r, list)
  <2>1. DOMAIN list = 1..n
    BY <1>3
  <2> QED BY <2>1, <1>5 DEF InList
<1>8. \A r \in Receipts : /\ Verdict(r) = receipt[r]
                          /\ Verdict(r)' = IF InList(r, list) THEN v ELSE receipt[r]
  BY <1>2 DEF Verdict
<1>9. ASSUME NEW w \in {"saved", "failed"}, w = v
      PROVE  Store!Settle(k, n, w)
  <2> HIDE DEF Backlog, n, list, v
  <2>1. \A r \in Receipts : Verdict(r)' =
          IF r \in {Backlog(k)[i].receipt : i \in 1..n} THEN w ELSE Verdict(r)
    BY <1>7, <1>8, <1>9
  <2> QED BY <1>6, <2>1 DEF Store!Settle, Backlog
<1>10. Backlog(k)[n].encoded_state = job.save.encoded_state
  BY <1>3, <1>5 DEF LastState
<1>11. CASE success' = TRUE
  <2>1. durable' = [durable EXCEPT ![k] = Backlog(k)[n].encoded_state]
    BY <1>2, <1>10, <1>11
  <2>2. Store!Settle(k, n, "saved")
    BY <1>9, <1>11
  <2>3. Store!Commit(k, n)
    BY <2>1, <2>2 DEF Store!Commit
  <2> QED BY <2>3, <1>5
<1>12. CASE success' = FALSE
  <2>1. durable' = durable
    BY <1>2, <1>12
  <2>2. Store!Settle(k, n, "failed")
    BY <1>9, <1>12
  <2>3. Store!Lose(k, n)
    BY <2>1, <2>2 DEF Store!Lose
  <2> QED BY <2>3, <1>5
<1> QED BY <1>2, <1>11, <1>12

\* Answering, calling back and letting go of an answered job show the store nothing new: the
\* write has decided its verdicts already.
LEMMA AnswersAreInvisible ==
  ASSUME TypeOK, RequestsAreSound, WaitersAreKept, Finish \/ Answer \/ Callback \/ Answered
  PROVE  UNCHANGED Store!storeVars
<1> DEFINE list == job.save.completions
<1>1. list \in Seq(Completion)
  BY DEF TypeOK, PendingSave
<1>2. /\ UNCHANGED <<saveOf, durable>>
      /\ pc \in {"finish", "answer", "callback"} /\ pc' # "saving"
  BY DEF Finish, Answer, Callback, Answered, queueVars
<1>3. \A l \in Keys : (InHand(l) \o saveOf[l].completions)' = InHand(l) \o saveOf[l].completions
  BY <1>2 DEF InHand
<1>4. CASE Finish
  BY <1>2, <1>3, <1>4 DEF Finish, Verdict, Store!storeVars
<1>5. CASE Answer
  <2>1. /\ list # <<>>
        /\ pc' = "callback" /\ UNCHANGED <<job, success>>
        /\ receipt' = [receipt EXCEPT ![Head(list).receipt] = IF success THEN "saved" ELSE "failed"]
    BY <1>5 DEF Answer
  <2>2. InList(Head(list).receipt, list)
    BY <1>1, <2>1, HeadAndTail
  <2>3. \A r \in Receipts : InList(r, list) \/ receipt'[r] = receipt[r]
    BY <2>1, <2>2 DEF TypeOK
  <2>4. \A r \in Receipts : Verdict(r)' = Verdict(r)
    BY <1>2, <2>1, <2>3 DEF Verdict
  <2> QED BY <1>2, <1>3, <2>4 DEF Store!storeVars
<1>6. CASE Callback
  <2>1. list # <<>> /\ pc = "callback" /\ pc' = "answer" /\ UNCHANGED <<success, receipt>>
    BY <1>6 DEF TypeOK, Callback
  <2>2. job'.save.completions = Tail(list)
    BY <1>6 DEF TypeOK, PendingSave, Callback
  <2>3. /\ \A r \in Receipts : InList(r, list)
             => r = Head(list).receipt \/ InList(r, Tail(list))
        /\ \A r \in Receipts : InList(r, Tail(list)) => InList(r, list)
        /\ InList(Head(list).receipt, list)
    <3>1. \A i \in DOMAIN Tail(list) : i + 1 \in DOMAIN list /\ Tail(list)[i] = list[i + 1]
      BY <1>1, <2>1
    <3> QED BY <3>1, <1>1, <2>1, HeadAndTail DEF InList
  <2>4. receipt[Head(list).receipt] = IF success THEN "saved" ELSE "failed"
    BY <2>1 DEF RequestsAreSound
  <2>5. \A r \in Receipts : Verdict(r)' = Verdict(r)
    <3> HIDE DEF list
    <3> SUFFICES ASSUME NEW r \in Receipts PROVE Verdict(r)' = Verdict(r)
      OBVIOUS
    <3>1. Verdict(r) = IF InList(r, list) THEN IF success THEN "saved" ELSE "failed" ELSE receipt[r]
      BY <2>1 DEF Verdict, list
    <3>2. Verdict(r)' = IF InList(r, Tail(list)) THEN IF success THEN "saved" ELSE "failed"
                                                  ELSE receipt[r]
      BY <2>1, <2>2 DEF Verdict
    <3> QED BY <3>1, <3>2, <2>3, <2>4
  <2> QED BY <1>2, <1>3, <2>5 DEF Store!storeVars
<1>7. CASE Answered
  <2>1. pc = "answer" /\ pc' = "loop" /\ list = <<>> /\ receipt' = receipt
    BY <1>7 DEF Answered
  <2>2. \A r \in Receipts : Verdict(r)' = Verdict(r)
    BY <2>1 DEF Verdict, InList
  <2> QED BY <1>2, <1>3, <2>2 DEF Store!storeVars
<1> QED BY <1>4, <1>5, <1>6, <1>7

\* Starting, flushing, shutting down and falling asleep show the store nothing.
LEMMA OthersAreInvisible ==
  ASSUME ThreadLife, UNCHANGED vars \/ Start \/ Main \/ Sleep \/ Exit
  PROVE  UNCHANGED Store!storeVars
<1>1. /\ UNCHANGED <<saveOf, durable, receipt, job, success>>
      /\ pc' = pc \/ {pc, pc'} \subseteq {"unborn", "loop", "asleep", "exited"}
  BY DEF vars, Start, Main, FlushCall, FlushTest, FlushExpires, ShutdownCall, Join, Sleep, Exit,
     queueVars, threadVars, Awake, ThreadLife
<1>2. (\A k \in Keys : InHand(k)' = InHand(k)) /\ \A r \in Receipts : Verdict(r)' = Verdict(r)
  BY <1>1, HandsUnmoved
<1> QED BY <1>1, <1>2 DEF Store!storeVars

\* The writer, with its thread, queue and flags, implements the store that settles the oldest
\* requests of a key with one write: a row never goes back to an older snapshot, and a receipt
\* says "saved" only when its snapshot or a newer one of its key is durable.
THEOREM WriterImplementsStore == Spec => ImplementsStore
<1>1. ASSUME WriterInv, RequestsAreSound, [Next]_vars
      PROVE  [Store!StoreNext]_(Store!storeVars)
  <2> USE <1>1 DEF WriterInv
  <2>1. CASE UNCHANGED vars \/ Start \/ Main
    BY <2>1, OthersAreInvisible
  <2>2. CASE \E r \in Receipts : Forget(r) \/ \E k \in Keys : Reject(k, r)
    BY <2>2, ReceiptsAlone DEF Store!StoreNext
  <2>3. CASE \E k \in Keys : Accepts(k)
    BY <2>3, SubmitAccepts, SubmitSupersedes DEF Accepts, Store!StoreNext
  <2>4. CASE Run
    BY <2>4, TakeIsInvisible, WriteSettles, AnswersAreInvisible, OthersAreInvisible
       DEF Run, Store!StoreNext
  <2> QED BY <2>1, <2>2, <2>3, <2>4 DEF Next, Submit
<1> QED BY <1>1, StoreInitial, RequestsSound, PTL DEF Spec, ImplementsStore, Store!StoreSpec

-------------------------------------------------------------------------------
(* The session's steps, as the writer sees them *)

\* The writer a session is given is in order.
LEMMA ReadyInv == Ready => WriterInv /\ RequestsAreSound
<1> SUFFICES ASSUME Ready PROVE WriterInv /\ RequestsAreSound
  OBVIOUS
<1>1. TypeOK
  <2>1. NoJob \in [key : Keys \cup {NoKey}, save : PendingSave]
    BY EmptySaveType DEF NoJob
  <2>2. QueueCoherent
    BY EmptySaveType DEF Ready, InitWith, QueueCoherent, Pending
  <2>3. order \in Seq(Keys) /\ Len(order) <= PendingKeyLimit
    BY WriterAssumption DEF Ready, InitWith
  <2> QED BY <2>1, <2>2, <2>3, EmptySaveType, WriterAssumption
       DEF Ready, InitWith, TypeOK, ThreadPc, MainPc
<1>2. NewestIsKept
  BY EmptySaveType DEF Ready, InitWith, NewestIsKept, QuietKeyIsSettled, Settled, Pending
<1>3. ThreadLife
  BY DEF Ready, InitWith, ThreadLife
<1>4. WaitersAreKept
  BY EmptySaveType DEF Ready, InitWith, WaitersAreKept, OpenReceiptIsHeld, NoJob
<1>5. RequestsAreSound
  BY EmptySaveType DEF Ready, InitWith, RequestsAreSound, NoJob, Held, InList, Pending
<1> QED BY <1>1, <1>2, <1>3, <1>4, <1>5 DEF WriterInv

\* A step of the session is a step of the writer, or none.
LEMMA StepsOfTheWriter ==
  ASSUME SessionTypeOK, [SessionNext]_allVars
  PROVE  [Next]_vars
<1>1. ASSUME Life PROVE UNCHANGED vars
  BY <1>1 DEF Life, SetPersistedState, Kick, Disconnect, DropPlayer, Change
<1>2. ASSUME NEW t \in Savers, Save(t) PROVE [Next]_vars
  <2>1. CASE \E w \in MayWait(t) : Call(t, w)
    BY <2>1 DEF Call
  <2>2. CASE NoSnapshot(t) \/ Snapshot(t) \/ DecideUnchanged(t) \/ Waited(t)
    BY <2>2 DEF NoSnapshot, Snapshot, DecideUnchanged, Waited
  <2>3. ASSUME NEW r \in Receipts, DecideSubmit(t, r) \/ DecideRejected(t, r) PROVE Next
    <3>1. saver[t].snapshot \in States /\ User \in Keys
      BY SessionAssumption DEF SessionTypeOK
    <3> QED BY <3>1, <2>3 DEF DecideSubmit, DecideRejected, Next, Submit, Accepts
  <2> QED BY <1>2, <2>1, <2>2, <2>3 DEF Save, SaveStep
<1>3. ASSUME WriterStep PROVE Next
  BY <1>3 DEF WriterStep, SessionCallback, Next, Run
<1>4. ASSUME DropReceipt PROVE Next
  BY <1>4 DEF DropReceipt, Next
<1>5. ASSUME Elsewhere PROVE Next
  BY <1>5, WriterAssumption DEF Elsewhere, Next, Main, Submit, Accepts
<1> QED BY <1>1, <1>2, <1>3, <1>4, <1>5 DEF SessionNext, allVars

\* The session's steps keep the writer in order.
LEMMA WriterKept ==
  ASSUME SessionTypeOK, WriterInv, RequestsAreSound, [SessionNext]_allVars
  PROVE  (WriterInv /\ RequestsAreSound)'
<1>1. [Next]_vars
  BY StepsOfTheWriter
<1>2. TypeOK' /\ NewestIsKept' /\ ThreadLife' /\ WaitersAreKept' /\ RequestsAreSound'
  BY <1>1, TypeStep, NewestStep, LifeStep, WaitersStep, RequestsStep DEF WriterInv
<1> QED BY <1>2 DEF WriterInv

-------------------------------------------------------------------------------
(* Type correctness *)

\* A session begins well formed.
LEMMA SessionTypeInit == SessionInit => SessionTypeOK
<1> SUFFICES ASSUME SessionInit PROVE SessionTypeOK
  OBVIOUS
<1>1. Idle \in [pc : SaverPc, wait : BOOLEAN, snapshot : States,
                receipt : Receipts \cup {NoReceipt}]
  BY WriterAssumption DEF Idle, SaverPc
<1> QED BY <1>1 DEF SessionInit, SessionTypeOK, Phases, Results

\* The locals of a thread inside save_if_changed.
Locals == [pc : SaverPc, wait : BOOLEAN, snapshot : States, receipt : Receipts \cup {NoReceipt}]

\* Returning from save_if_changed leaves well-formed locals and a well-formed result.
LEMMA ReturnType ==
  ASSUME SessionTypeOK, NEW t \in Savers, NEW v \in Results, Return(t, v)
  PROVE  /\ saver' \in [Savers -> Locals] /\ phase' \in Phases /\ result' \in Results
<1>1. Idle \in Locals
  BY WriterAssumption DEF Idle, SaverPc, Locals
<1> QED BY <1>1 DEF SessionTypeOK, Return, Locals, Phases

\* Every critical section of save_if_changed.
LEMMA SaveType ==
  ASSUME SessionTypeOK, NEW t \in Savers, Save(t)
  PROVE  SessionTypeOK'
<1> USE DEF bookVars, lifeVars, finalVars
<1>0. saver \in [Savers -> Locals] /\ saver[t] \in Locals
  BY DEF SessionTypeOK, Locals
<1>1. CASE \E w \in MayWait(t) : Call(t, w)
  <2>1. PICK w \in BOOLEAN : Call(t, w)
    BY <1>1 DEF MayWait
  <2>2. [Idle EXCEPT !.pc = "checked", !.wait = w] \in Locals
    BY WriterAssumption DEF Idle, SaverPc, Locals
  <2>3. saver' \in [Savers -> Locals]
    BY <1>0, <2>1, <2>2 DEF Call
  <2> QED BY <2>1, <2>3 DEF Call, SessionTypeOK, Locals
<1>2. CASE NoSnapshot(t)
  <2>1. \E v \in Results : Return(t, v)
    BY <1>2 DEF NoSnapshot, Results
  <2> QED BY <1>2, <2>1, ReturnType DEF NoSnapshot, SessionTypeOK, Locals
<1>3. CASE Snapshot(t)
  <2>1. Idle \in Locals /\ player \in States
    BY WriterAssumption DEF Idle, SaverPc, Locals, SessionTypeOK
  <2>2. saver' \in [Savers -> Locals]
    <3>1. CASE phase = "gone"
      BY <1>0, <1>3, <2>1, <3>1 DEF Snapshot
    <3>2. CASE phase # "gone"
      <4>1. [saver[t] EXCEPT !.pc = "decide", !.snapshot = player] \in Locals
        BY <1>0, <2>1 DEF Locals, SaverPc
      <4>2. saver' = [saver EXCEPT ![t] = [saver[t] EXCEPT !.pc = "decide", !.snapshot = player]]
        BY <1>3, <3>2, <1>0 DEF Snapshot
      <4> QED BY <1>0, <4>1, <4>2
    <3> QED BY <3>1, <3>2
  <2>3. since' \subseteq States /\ overtaken' \in BOOLEAN /\ result' = result
    BY <1>3, <2>1 DEF Snapshot, SessionTypeOK
  <2> QED BY <1>3, <2>2, <2>3 DEF Snapshot, SessionTypeOK, Locals
<1>4. CASE DecideUnchanged(t)
  <2>1. CASE \E v \in Results : Return(t, v)
    BY <1>4, <2>1, ReturnType DEF DecideUnchanged, SessionTypeOK, Locals
  <2>2. CASE ~\E v \in Results : Return(t, v)
    <3>1. /\ last_receipt # NoReceipt
          /\ saver' = [saver EXCEPT ![t].pc = "joining", ![t].receipt = last_receipt]
          /\ UNCHANGED <<phase, result>>
      BY <1>4, <2>2 DEF DecideUnchanged, Results
    <3>2. saver' \in [Savers -> Locals]
      BY <1>0, <3>1 DEF SessionTypeOK, Locals, SaverPc
    <3> QED BY <1>4, <3>1, <3>2 DEF DecideUnchanged, SessionTypeOK, Locals
  <2> QED BY <2>1, <2>2
<1>5. CASE Waited(t)
  <2>1. \E v \in Results : Return(t, v)
    BY <1>5 DEF Waited, Results
  <2> QED BY <1>5, <2>1, ReturnType DEF Waited, SessionTypeOK, Locals
<1>6. ASSUME NEW r \in Receipts, DecideSubmit(t, r) PROVE SessionTypeOK'
  <2>1. saver[t].snapshot \in States
    BY <1>0 DEF Locals
  <2>2. saver' \in [Savers -> Locals] /\ phase' \in Phases /\ result' \in Results
    <3>1. CASE saver[t].wait
      BY <1>0, <1>6, <3>1 DEF DecideSubmit, SessionTypeOK, Locals, SaverPc
    <3>2. CASE ~saver[t].wait
      <4>1. Return(t, "queued") /\ "queued" \in Results
        BY <1>6, <3>2 DEF DecideSubmit, Results
      <4> QED BY <4>1, ReturnType
    <3> QED BY <3>1, <3>2
  <2> QED BY <1>6, <2>1, <2>2 DEF DecideSubmit, SessionTypeOK, Locals
<1>7. ASSUME NEW r \in Receipts, DecideRejected(t, r) PROVE SessionTypeOK'
  <2>1. Return(t, "failed") /\ "failed" \in Results
    BY <1>7 DEF DecideRejected, Results
  <2>2. saver' \in [Savers -> Locals] /\ phase' \in Phases /\ result' \in Results
    BY <2>1, ReturnType
  <2>3. muddled' \in BOOLEAN
    BY <1>7 DEF DecideRejected, SessionTypeOK, Outstanding
  <2> QED BY <1>7, <2>2, <2>3 DEF DecideRejected, SessionTypeOK, Locals
<1> QED BY <1>1, <1>2, <1>3, <1>4, <1>5, <1>6, <1>7 DEF Save, SaveStep

\* Every other step of the session.
LEMMA SessionTypeStep ==
  ASSUME SessionTypeOK, TypeOK, [SessionNext]_allVars
  PROVE  SessionTypeOK'
<1> USE DEF bookVars, lifeVars, finalVars
<1>1. CASE UNCHANGED sessionVars
  BY <1>1 DEF sessionVars, SessionTypeOK
<1>2. CASE Life
  <2>1. CASE SetPersistedState
    <3>1. early' \in BOOLEAN
      BY <2>1 DEF SetPersistedState
    <3> QED BY <2>1, <3>1, WriterAssumption DEF SetPersistedState, SessionTypeOK, Phases
  <2>2. CASE Kick \/ DropPlayer \/ \E s \in States : Change(s)
    BY <2>2 DEF Kick, DropPlayer, Change, SessionTypeOK, Phases
  <2>3. CASE Disconnect
    <3>1. [Idle EXCEPT !.pc = "checked", !.wait = TRUE] \in Locals
      BY WriterAssumption DEF Idle, SaverPc, Locals
    <3>2. saver \in [Savers -> Locals]
      BY DEF SessionTypeOK, Locals
    <3>3. saver' \in [Savers -> Locals]
      BY <2>3, <3>1, <3>2 DEF Disconnect
    <3> QED BY <2>3, <3>3 DEF Disconnect, SessionTypeOK, Locals, Phases
  <2> QED BY <1>2, <2>1, <2>2, <2>3 DEF Life
<1>3. ASSUME NEW t \in Savers, Save(t) PROVE SessionTypeOK'
  BY <1>3, SaveType
<1>4. CASE SessionCallback
  <2>1. Head(job.save.completions).encoded_state \in States
    <3>1. job.save.completions \in Seq(Completion) /\ job.save.completions # <<>>
      BY <1>4 DEF TypeOK, PendingSave, SessionCallback, Callback
    <3> QED BY <3>1, HeadAndTail DEF Completion
  <2>2. {persisted', submitted'} \subseteq States \cup {NoState} /\ muddled' \in BOOLEAN
    BY <1>4, <2>1 DEF SessionCallback, SaveCompleted, SessionTypeOK, Outstanding
  <2> QED BY <1>4, <2>2 DEF SessionCallback, SessionTypeOK
<1> QED BY <1>1, <1>2, <1>3, <1>4
     DEF SessionNext, allVars, WriterStep, DropReceipt, Elsewhere

\* The session's fields and the locals of the threads inside save_if_changed keep their
\* shapes: disconnect's result is one save_if_changed can return.
THEOREM SessionTypeCorrect == SessionSpec => []SessionTypeOK
<1> DEFINE Inv == SessionTypeOK /\ WriterInv /\ RequestsAreSound
<1>1. SessionInit => Inv
  BY SessionTypeInit, ReadyInv DEF SessionInit
<1>2. Inv /\ [SessionNext]_allVars => Inv'
  <2> SUFFICES ASSUME Inv, [SessionNext]_allVars PROVE Inv'
    OBVIOUS
  <2>1. SessionTypeOK'
    BY SessionTypeStep DEF WriterInv
  <2>2. (WriterInv /\ RequestsAreSound)'
    BY WriterKept
  <2> QED BY <2>1, <2>2
<1>3. Inv => SessionTypeOK
  OBVIOUS
<1> QED BY <1>1, <1>2, <1>3, PTL DEF SessionSpec

-------------------------------------------------------------------------------
(* The steps, as far as the requests of this session go *)

\* The writer's thread is not at work.
Resting == {"unborn", "loop", "asleep", "exited"}

\* The queue's entry for this session, the job and the rows are left alone.
HandsOff ==
  /\ UNCHANGED <<job, success, durable>>
  /\ saveOf'[User] = saveOf[User]
  /\ pc' = pc \/ {pc, pc'} \subseteq Resting

\* The session's own books are left alone, and the login has got no further.
BooksKept ==
  /\ UNCHANGED <<persisted, submitted, last_receipt, muddled, early>>
  /\ phase = "registered" <=> phase' = "registered"

\* What can move a request of the session or its books: the rest keeps its hands off both.
LEMMA StepCases ==
  ASSUME SessionTypeOK, TypeOK, [SessionNext]_allVars
  PROVE  \/ SetPersistedState
         \/ \E t \in Savers, r \in Receipts : DecideSubmit(t, r)
         \/ \E t \in Savers, r \in Receipts : DecideRejected(t, r)
         \/ SessionCallback
         \/ job.key # User /\ Callback /\ BooksKept
         \/ (Take \/ Write \/ Finish \/ Answer \/ Answered) /\ BooksKept
         \/ HandsOff /\ BooksKept
<1>1. ASSUME UNCHANGED vars PROVE HandsOff
  BY <1>1 DEF vars, threadVars, queueVars, HandsOff
<1>2. ASSUME UNCHANGED sessionVars PROVE BooksKept
  BY <1>2 DEF sessionVars, bookVars, lifeVars, BooksKept
<1>3. CASE Life
  <2>1. CASE Kick \/ Disconnect \/ DropPlayer \/ \E s \in States : Change(s)
    <3>1. UNCHANGED vars /\ BooksKept
      BY <2>1 DEF Kick, Disconnect, DropPlayer, Change, bookVars, BooksKept
    <3> QED BY <3>1, <1>1
  <2>2. CASE SetPersistedState
    BY <2>2
  <2> QED BY <1>3, <2>1, <2>2 DEF Life
<1>4. ASSUME NEW t \in Savers, Save(t),
             ~\E r \in Receipts : DecideSubmit(t, r) \/ DecideRejected(t, r)
      PROVE  HandsOff /\ BooksKept
  <2>1. UNCHANGED vars /\ UNCHANGED bookVars
    BY <1>4 DEF Save, SaveStep, Call, NoSnapshot, Snapshot, DecideUnchanged, Waited
  <2>2. phase = "registered" <=> phase' = "registered"
    BY <1>4 DEF Save, SaveStep, Call, NoSnapshot, Snapshot, DecideUnchanged, Waited, Return, lifeVars
  <2> QED BY <2>1, <2>2, <1>1 DEF bookVars, BooksKept
<1>5. CASE WriterStep
  <2>1. CASE Sleep \/ Exit
    <3>1. HandsOff
      BY <2>1 DEF Sleep, Exit, HandsOff, Resting, queueVars
    <3>2. ~SessionCallback
      BY <2>1 DEF SessionCallback, Callback, Sleep, Exit
    <3>3. UNCHANGED sessionVars
      BY <1>5, <3>2, <2>1 DEF WriterStep
    <3> QED BY <3>1, <3>3, <1>2
  <2>2. CASE SessionCallback
    BY <2>2
  <2>3. CASE job.key # User /\ Callback /\ UNCHANGED sessionVars
    BY <2>3, <1>2
  <2>4. CASE (Take \/ Write \/ Finish \/ Answer \/ Answered) /\ UNCHANGED sessionVars
    BY <2>4, <1>2
  <2> QED BY <1>5, <2>1, <2>2, <2>3, <2>4 DEF WriterStep
<1>6. CASE DropReceipt
  BY <1>2, <1>6 DEF DropReceipt, Forget, HandsOff, queueVars, threadVars
<1>7. CASE Elsewhere
  <2>1. ASSUME NEW k \in Keys \ {User}, NEW r \in Receipts, Enqueue(k, InitialState, r)
        PROVE  HandsOff
    BY <2>1, SessionAssumption
       DEF Enqueue, AcceptedSubmit, HandsOff, Resting, Awake, TypeOK
  <2>2. ASSUME ShutdownCall PROVE HandsOff
    BY <2>2 DEF ShutdownCall, HandsOff, Resting, Awake, queueVars
  <2> QED BY <1>2, <1>7, <2>1, <2>2 DEF Elsewhere
<1> QED BY <1>1, <1>2, <1>3, <1>4, <1>5, <1>6, <1>7 DEF SessionNext, allVars

\* The thread takes the oldest entry of the queue and leaves nothing of its key there.
LEMMA TakeMoves ==
  ASSUME TypeOK, WaitersAreKept, Take
  PROVE  \E k \in Keys :
           /\ pc = "loop" /\ pc' = "saving"
           /\ job.save.completions = <<>>
           /\ job' = [key |-> k, save |-> saveOf[k]]
           /\ saveOf[k].completions # <<>>
           /\ saveOf'[k].completions = <<>>
           /\ \A l \in Keys \ {k} : saveOf'[l] = saveOf[l]
           /\ UNCHANGED <<success, receipt, durable>>
<1>1. PICK k \in Keys : k = Head(order)
  BY DEF TypeOK, Take
<1>2. k = order[1] /\ 1 \in 1..Len(order)
  BY <1>1 DEF TypeOK, Take
<1>3. saveOf[k].completions # <<>>
  BY <1>2 DEF TypeOK, QueueCoherent, Pending
<1>4. \A l \in Keys : saveOf'[l] = IF l = k THEN EmptySave ELSE saveOf[l]
  BY <1>1 DEF TypeOK, Take
<1> QED BY <1>1, <1>3, <1>4, EmptySaveType DEF Take, WaitersAreKept

\* What is left of a list when its oldest request has been called back.
LEMMA CalledBackList ==
  ASSUME NEW list \in Seq(Completion), list # <<>>
  PROVE  /\ Tail(list) \in Seq(Completion)
         /\ Len(Tail(list)) = Len(list) - 1
         /\ \A i \in 1..Len(Tail(list)) : Tail(list)[i] = list[i + 1] /\ i + 1 \in 1..Len(list)
         /\ Tail(list) # <<>> => LastState(Tail(list)) = LastState(list)
         /\ Tail(list) = <<>> => Head(list).encoded_state = LastState(list) /\ Len(list) = 1
         /\ \A q \in Receipts : InList(q, Tail(list)) => InList(q, list)
<1>1. /\ Tail(list) \in Seq(Completion) /\ Len(Tail(list)) = Len(list) - 1
      /\ \A i \in 1..Len(Tail(list)) : Tail(list)[i] = list[i + 1] /\ i + 1 \in 1..Len(list)
      /\ Len(list) \in Nat \ {0} /\ Head(list) = list[1]
      /\ DOMAIN list = 1..Len(list) /\ DOMAIN Tail(list) = 1..Len(Tail(list))
      /\ (Tail(list) = <<>> <=> Len(Tail(list)) = 0)
  <2>1. Tail(list) \in Seq(Completion) /\ Len(Tail(list)) = Len(list) - 1
        /\ Len(list) \in Nat \ {0} /\ Head(list) = list[1]
    OBVIOUS
  <2>2. \A i \in 1..Len(Tail(list)) : Tail(list)[i] = list[i + 1] /\ i + 1 \in 1..Len(list)
    OBVIOUS
  <2>3. DOMAIN list = 1..Len(list) /\ DOMAIN Tail(list) = 1..Len(Tail(list))
    BY <2>1
  <2>4. Tail(list) = <<>> <=> Len(Tail(list)) = 0
    BY <2>1, EmptySeq
  <2> QED BY <2>1, <2>2, <2>3, <2>4
<1> PICK rest : rest = Tail(list)
  OBVIOUS
<1>2. rest # <<>> => Len(rest) \in 1..Len(rest) /\ Len(rest) + 1 = Len(list)
  BY <1>1
<1>3. rest # <<>> => LastState(rest) = LastState(list)
  BY <1>1, <1>2 DEF LastState
<1>4. rest = <<>> => list[1].encoded_state = LastState(list) /\ Len(list) = 1
  BY <1>1 DEF LastState
<1>5. \A q \in Receipts : InList(q, rest) => InList(q, list)
  BY <1>1 DEF InList
<1> QED BY <1>1, <1>3, <1>4, <1>5

\* The callback of the oldest request in the thread's hands.
LEMMA CallbackMoves ==
  ASSUME TypeOK, Callback
  PROVE  /\ pc = "callback" /\ pc' = "answer"
         /\ job.save.completions \in Seq(Completion) /\ job.save.completions # <<>>
         /\ job'.key = job.key
         /\ job'.save.encoded_state = job.save.encoded_state
         /\ job'.save.completions = Tail(job.save.completions)
         /\ UNCHANGED <<saveOf, success, receipt, durable>>
  BY DEF TypeOK, PendingSave, Callback, queueVars

-------------------------------------------------------------------------------
(* What the session believes of its row *)

\* The job answers for its newest request, and once written successfully it is the row.
JobSound ==
  /\ job.save.completions # <<>> => LastState(job.save.completions) = job.save.encoded_state
  /\ pc \in {"finish", "answer", "callback"} =>
       /\ job.key \in Keys
       /\ success => durable[job.key] = job.save.encoded_state
  /\ pc = "finish" => job.save.completions # <<>>

\* The thread's own steps keep it so; nobody else touches the job.
LEMMA JobStep ==
  ASSUME SessionTypeOK, WriterInv, RequestsAreSound, JobSound, [SessionNext]_allVars
  PROVE  JobSound'
<1> USE DEF WriterInv
<1>1. CASE HandsOff
  BY <1>1 DEF HandsOff, Resting, JobSound
<1>2. CASE UNCHANGED <<job, success, durable, pc>>
  BY <1>2 DEF JobSound
<1>3. CASE SetPersistedState \/ \E t \in Savers, r \in Receipts : DecideRejected(t, r)
  BY <1>2, <1>3 DEF SetPersistedState, DecideRejected, Reject, vars, threadVars
<1>4. ASSUME NEW t \in Savers, NEW r \in Receipts, DecideSubmit(t, r) PROVE JobSound'
  <2>1. UNCHANGED <<job, success, durable>> /\ pc' = Awake(pc)
    BY <1>4 DEF DecideSubmit, Enqueue, Coalesce, AcceptedSubmit
  <2> QED BY <2>1 DEF JobSound, Awake
<1>5. CASE Take
  <2>1. PICK k \in Keys : /\ pc' = "saving"
                          /\ job' = [key |-> k, save |-> saveOf[k]]
                          /\ saveOf[k].completions # <<>>
    BY <1>5, TakeMoves
  <2> QED BY <2>1 DEF JobSound, RequestsAreSound, Pending
<1>6. CASE Write
  <2>1. pc = "saving" /\ pc' = "finish" /\ job' = job /\ job.key \in Keys
        /\ job.save.completions # <<>>
        /\ (success' => durable' = [durable EXCEPT ![job.key] = job.save.encoded_state])
    BY <1>6 DEF TypeOK, Write, RequestsAreSound
  <2>2. success' => durable'[job.key] = job.save.encoded_state
    BY <2>1 DEF TypeOK
  <2>3. LastState(job'.save.completions) = job'.save.encoded_state
    BY <2>1 DEF JobSound
  <2>4. success' => durable'[job'.key] = job'.save.encoded_state
    BY <2>1, <2>2
  <2> QED BY <2>1, <2>3, <2>4 DEF JobSound
<1>7. CASE Finish \/ Answer
  BY <1>7 DEF Finish, Answer, JobSound
<1>8. CASE Callback
  <2>1. Tail(job.save.completions) # <<>>
          => LastState(Tail(job.save.completions)) = LastState(job.save.completions)
    BY <1>8, CallbackMoves, CalledBackList
  <2>2. /\ pc = "callback" /\ pc' = "answer" /\ job'.key = job.key
        /\ job.save.completions # <<>>
        /\ job'.save.encoded_state = job.save.encoded_state
        /\ job'.save.completions = Tail(job.save.completions)
        /\ UNCHANGED <<success, durable>>
    BY <1>8, CallbackMoves
  <2>3. job'.save.completions # <<>>
          => LastState(job'.save.completions) = job'.save.encoded_state
    BY <2>1, <2>2 DEF JobSound
  <2>4. job'.key \in Keys /\ (success' => durable'[job'.key] = job'.save.encoded_state)
    BY <2>2 DEF JobSound
  <2> QED BY <2>2, <2>3, <2>4 DEF JobSound
<1>9. CASE Answered
  BY <1>9, EmptySaveType DEF Answered, JobSound, NoJob
<1> QED BY <1>1, <1>3, <1>4, <1>5, <1>6, <1>7, <1>8, <1>9, StepCases DEF SessionCallback

\* The thread holds a request of this session.
Mine == job.key = User /\ job.save.completions # <<>>

\* Between the write of the session's snapshot and its last callback the session cannot know
\* the row; at every other moment persisted_state_json is the row.
RowInv ==
  ~early /\ phase # "registered" /\ ~(CallbackDue /\ success /\ Mine)
    => persisted = durable[User]

\* The last callback brings the row's own snapshot.
LEMMA RowStep ==
  ASSUME SessionTypeOK, WriterInv, RequestsAreSound, JobSound, RowInv, [SessionNext]_allVars
  PROVE  RowInv'
<1> USE DEF WriterInv
<1>0. User \in Keys
  BY SessionAssumption
<1>1. CASE HandsOff /\ BooksKept
  BY <1>1 DEF HandsOff, Resting, BooksKept, RowInv, CallbackDue, Mine
<1>2. CASE SetPersistedState
  BY <1>2 DEF SetPersistedState, RowInv, vars
<1>3. ASSUME NEW t \in Savers, NEW r \in Receipts, DecideSubmit(t, r) \/ DecideRejected(t, r)
      PROVE  RowInv'
  <2>1. /\ UNCHANGED <<job, success, durable, persisted, early>>
        /\ pc' = Awake(pc) \/ pc' = pc
        /\ phase' = "registered" <=> phase = "registered"
    BY <1>3 DEF DecideSubmit, DecideRejected, Enqueue, Coalesce, AcceptedSubmit, Reject, Return,
       threadVars
  <2> QED BY <2>1 DEF RowInv, CallbackDue, Mine, Awake
<1>4. CASE Take /\ BooksKept
  BY <1>4 DEF Take, BooksKept, RowInv, CallbackDue
<1>5. CASE Write /\ BooksKept
  <2>1. /\ pc = "saving" /\ pc' = "finish" /\ job' = job /\ job.save.completions # <<>>
        /\ \/ durable' = durable
           \/ success' = TRUE /\ durable' = [durable EXCEPT ![job.key] = job.save.encoded_state]
    BY <1>5 DEF Write, RequestsAreSound
  <2>2. durable'[User] = durable[User] \/ (success' /\ job.key = User)
    BY <2>1, <1>0 DEF TypeOK
  <2> QED BY <2>1, <2>2, <1>5 DEF BooksKept, RowInv, CallbackDue, Mine
<1>6. CASE (Finish \/ Answer) /\ BooksKept
  BY <1>6 DEF Finish, Answer, BooksKept, RowInv, CallbackDue, Mine
<1>7. CASE Callback /\ job.key # User /\ BooksKept
  BY <1>7, CallbackMoves DEF BooksKept, RowInv, CallbackDue, Mine
<1>8. CASE SessionCallback
  <2>1. /\ pc = "callback" /\ job.key = User /\ job'.key = User
        /\ Mine /\ (Mine' <=> Tail(job.save.completions) # <<>>)
        /\ pc' = "answer"
        /\ UNCHANGED <<success, durable, early, phase>>
    BY <1>8, CallbackMoves DEF SessionCallback, lifeVars, Mine
  <2>2. CASE success
    <3>1. persisted' = Head(job.save.completions).encoded_state
      BY <1>8, <2>2 DEF SessionCallback, SaveCompleted
    <3>2. ~Mine' => persisted' = job.save.encoded_state
      BY <1>8, <2>1, <3>1, CallbackMoves, CalledBackList DEF SessionCallback, JobSound
    <3>3. durable[User] = job.save.encoded_state
      BY <2>1, <2>2 DEF JobSound
    <3> QED BY <2>1, <2>2, <3>2, <3>3 DEF RowInv, CallbackDue
  <2>3. CASE ~success
    BY <1>8, <2>1, <2>3 DEF SessionCallback, SaveCompleted, RowInv, CallbackDue
  <2> QED BY <2>2, <2>3
<1>9. CASE Answered /\ BooksKept
  BY <1>9 DEF Answered, BooksKept, RowInv, CallbackDue, Mine
<1> QED BY <1>1, <1>2, <1>3, <1>4, <1>5, <1>6, <1>7, <1>8, <1>9, StepCases

\* No request of this session waits in the queue or in the thread's hands.
Quiet2 == ~Pending(User) /\ ~Mine

\* The books can be relied on: nothing was rolled back past an outstanding request, and
\* nobody saved the session before set_persisted_state.
Sure == ~muddled /\ ~early /\ phase # "registered"

\* The newest request of the session is for last_submitted_state_json; when there is none,
\* that is the value a failed save falls back to.
CleanInv ==
  Sure => /\ Pending(User) => saveOf[User].encoded_state = submitted
          /\ ~Pending(User) /\ Mine => job.save.encoded_state = submitted
          /\ Quiet2 => submitted = persisted

\* Outstanding counts the requests of the session in the queue and in the thread's hands.
LEMMA OutstandingCounts ==
  ASSUME TypeOK
  PROVE  /\ ~Outstanding(0) <=> Quiet2
         /\ pc = "callback" /\ job.key = User /\ ~Outstanding(1)
              => ~Pending(User) /\ Len(job.save.completions) = 1
<1>1. /\ saveOf[User].completions \in Seq(Completion)
      /\ job.save.completions \in Seq(Completion)
  BY SessionAssumption DEF TypeOK, PendingSave
<1>0. PICK n \in Nat, m \in Nat : /\ n = Len(saveOf[User].completions)
                                    /\ m = Len(job.save.completions)
  BY <1>1
<1>2. (n = 0 <=> ~Pending(User)) /\ (m = 0 <=> job.save.completions = <<>>)
  BY <1>0, <1>1, EmptySeq DEF Pending
<1>3. ASSUME job.key = User
      PROVE  /\ Outstanding(0) <=> n + m > 0
             /\ Outstanding(1) <=> n + m > 1
  BY <1>0, <1>3 DEF Outstanding
<1>4. ASSUME job.key # User
      PROVE  Outstanding(0) <=> n > 0
  BY <1>0, <1>4 DEF Outstanding
<1>5. ~Outstanding(0) <=> Quiet2
  <2>1. (n + m > 0 <=> n # 0 \/ m # 0) /\ (n > 0 <=> n # 0)
    OBVIOUS
  <2>2. CASE job.key = User
    BY <2>1, <2>2, <1>2, <1>3 DEF Quiet2, Mine
  <2>3. CASE job.key # User
    BY <2>1, <2>3, <1>2, <1>4 DEF Quiet2, Mine
  <2> QED BY <2>2, <2>3
<1>6. ASSUME pc = "callback", job.key = User, ~Outstanding(1)
      PROVE  n = 0 /\ m = 1
  <2>1. ~(n + m > 1)
    BY <1>3, <1>6
  <2>2. m # 0
    BY <1>2, <1>6 DEF TypeOK
  <2> QED BY <2>1, <2>2
<1> QED BY <1>0, <1>2, <1>5, <1>6

\* A rolled-back value is the stored one unless the session is muddled; a submitted one is
\* followed through the queue and the thread's hands to the callback.
LEMMA CleanStep ==
  ASSUME SessionTypeOK, WriterInv, RequestsAreSound, JobSound, CleanInv, [SessionNext]_allVars
  PROVE  CleanInv'
<1> USE DEF WriterInv
<1>0. User \in Keys
  BY SessionAssumption
<1>1. CASE HandsOff /\ BooksKept
  BY <1>1 DEF HandsOff, BooksKept, CleanInv, Sure, Quiet2, Mine, Pending
<1>2. CASE SetPersistedState
  <2>1. /\ early' = (Outstanding(0) \/ durable[User] # InitialState)
        /\ submitted' = persisted' /\ UNCHANGED <<saveOf, job>>
    BY <1>2 DEF SetPersistedState, vars, queueVars, threadVars
  <2>2. ~early' => Quiet2 /\ Quiet2'
    BY <2>1, OutstandingCounts DEF Quiet2, Mine, Pending
  <2> QED BY <2>1, <2>2 DEF CleanInv, Sure, Quiet2
<1>3. ASSUME NEW t \in Savers, NEW r \in Receipts, DecideSubmit(t, r) PROVE CleanInv'
  <2>1. PICK s \in States : s = saver[t].snapshot /\ submitted' = s
                            /\ (Enqueue(User, s, r) \/ Coalesce(User, s, r))
    BY <1>3 DEF DecideSubmit, SessionTypeOK
  <2>2. PICK save \in PendingSave : /\ saveOf' = [saveOf EXCEPT ![User] = save]
                                    /\ save.encoded_state = s
                                    /\ save.completions # <<>>
    BY <1>0, <2>1, AcceptedSave
  <2>3. Pending(User)' /\ saveOf'[User].encoded_state = s
    BY <1>0, <2>2 DEF Pending, TypeOK
  <2> QED BY <2>1, <2>3 DEF CleanInv, Quiet2
<1>4. ASSUME NEW t \in Savers, NEW r \in Receipts, DecideRejected(t, r) PROVE CleanInv'
  <2>1. /\ submitted' = persisted /\ muddled' = (muddled \/ Outstanding(0))
        /\ UNCHANGED <<saveOf, job, persisted>>
    BY <1>4 DEF DecideRejected, Reject, queueVars, threadVars
  <2>2. ~muddled' => Quiet2
    BY <2>1, OutstandingCounts
  <2> QED BY <2>1, <2>2 DEF CleanInv, Sure, Quiet2, Mine, Pending
<1>5. CASE Take /\ BooksKept
  <2>1. PICK k \in Keys :
          /\ job.save.completions = <<>> /\ job' = [key |-> k, save |-> saveOf[k]]
          /\ saveOf[k].completions # <<>>
          /\ saveOf'[k].completions = <<>>
          /\ \A l \in Keys \ {k} : saveOf'[l] = saveOf[l]
    BY <1>5, TakeMoves
  <2>2. CASE k = User
    BY <1>5, <2>1, <2>2 DEF BooksKept, CleanInv, Sure, Quiet2, Mine, Pending
  <2>3. CASE k # User
    <3>1. saveOf'[User] = saveOf[User] /\ ~Mine /\ ~Mine'
      BY <1>0, <2>1, <2>3 DEF Mine
    <3> QED BY <1>5, <3>1 DEF BooksKept, CleanInv, Sure, Quiet2, Pending
  <2> QED BY <2>2, <2>3
<1>6. CASE (Write \/ Finish \/ Answer) /\ BooksKept
  BY <1>6 DEF Write, Finish, Answer, queueVars, BooksKept, CleanInv, Sure, Quiet2, Mine, Pending
<1>7. CASE Callback /\ job.key # User /\ BooksKept
  BY <1>7, CallbackMoves DEF BooksKept, CleanInv, Sure, Quiet2, Mine, Pending
<1>8. CASE SessionCallback
  <2> PICK list \in Seq(Completion) : list = job.save.completions
    BY <1>8, CallbackMoves DEF SessionCallback
  <2>1. /\ list # <<>> /\ Mine
        /\ pc = "callback" /\ job.key = User /\ job'.key = User
        /\ job'.save.encoded_state = job.save.encoded_state
        /\ job'.save.completions = Tail(list)
        /\ saveOf' = saveOf /\ UNCHANGED <<early, phase>>
        /\ SaveCompleted(success, Head(list).encoded_state, Outstanding(1))
    BY <1>8, CallbackMoves DEF SessionCallback, lifeVars, Mine
  <2>2. Tail(list) = <<>> => Head(list).encoded_state = job.save.encoded_state
    BY <2>1, CalledBackList DEF JobSound
  <2>3. /\ Pending(User)' <=> Pending(User)
        /\ Mine' <=> Tail(list) # <<>>
        /\ saveOf'[User].encoded_state = saveOf[User].encoded_state
    BY <2>1 DEF Pending, Mine
  <2>4. ~muddled' => ~muddled
    BY <2>1 DEF SaveCompleted
  <2>5. ASSUME submitted' = submitted, Quiet2' /\ Sure => persisted' = submitted
        PROVE  CleanInv'
    BY <2>1, <2>3, <2>4, <2>5 DEF CleanInv, Sure, Quiet2
  <2>6. CASE success
    <3>1. persisted' = Head(list).encoded_state /\ submitted' = submitted
      BY <2>1, <2>6 DEF SaveCompleted
    <3> QED BY <2>1, <2>2, <2>3, <2>5, <3>1 DEF CleanInv, Quiet2
  <2>7. CASE ~success /\ submitted # Head(list).encoded_state
    <3>1. submitted' = submitted
      BY <2>1, <2>7 DEF SaveCompleted
    <3>2. ~(Quiet2' /\ Sure)
      BY <2>1, <2>2, <2>3, <2>7 DEF CleanInv, Quiet2
    <3> QED BY <2>5, <3>1, <3>2
  <2>8. CASE ~success /\ submitted = Head(list).encoded_state
    <3>1. submitted' = persisted /\ persisted' = persisted
          /\ (~muddled' => ~Outstanding(1))
      BY <2>1, <2>8 DEF SaveCompleted
    <3>2. ~muddled' => Quiet2'
      <4>1. ~muddled' => ~Pending(User) /\ Len(list) = 1
        BY <2>1, <3>1, OutstandingCounts
      <4>2. Len(list) = 1 => Tail(list) = <<>>
        <5>1. Tail(list) \in Seq(Completion) /\ Len(Tail(list)) = Len(list) - 1
          BY <2>1, CalledBackList
        <5>2. Len(list) = 1 => Len(Tail(list)) = 0
          BY <5>1
        <5> QED BY <5>1, <5>2, EmptySeq
      <4> QED BY <4>1, <4>2, <2>3 DEF Quiet2
    <3> QED BY <3>1, <3>2 DEF CleanInv, Sure, Quiet2
  <2> QED BY <2>6, <2>7, <2>8
<1>9. CASE Answered /\ BooksKept
  <2>1. ~Mine /\ ~Mine' /\ saveOf' = saveOf
    BY <1>9, EmptySaveType DEF Answered, Mine, NoJob, queueVars
  <2> QED BY <1>9, <2>1 DEF BooksKept, CleanInv, Sure, Quiet2, Pending
<1> QED BY <1>1, <1>2, <1>3, <1>4, <1>5, <1>6, <1>7, <1>8, <1>9, StepCases

\* Everything the session's belief rests on.
BeliefInv ==
  SessionTypeOK /\ WriterInv /\ RequestsAreSound /\ JobSound /\ RowInv /\ CleanInv

\* A session that begins has submitted nothing.
LEMMA BeliefInit == SessionInit => BeliefInv
<1> SUFFICES ASSUME SessionInit PROVE BeliefInv
  OBVIOUS
<1>1. SessionTypeOK /\ WriterInv /\ RequestsAreSound
  BY SessionTypeInit, ReadyInv DEF SessionInit
<1>2. JobSound
  BY EmptySaveType DEF SessionInit, Ready, InitWith, JobSound, NoJob
<1>3. RowInv /\ CleanInv
  BY DEF SessionInit, RowInv, CleanInv, Sure
<1> QED BY <1>1, <1>2, <1>3 DEF BeliefInv

\* No step of the session or of the writer disturbs it.
LEMMA BeliefStep == BeliefInv /\ [SessionNext]_allVars => BeliefInv'
<1> SUFFICES ASSUME BeliefInv, [SessionNext]_allVars PROVE BeliefInv'
  OBVIOUS
<1> USE DEF BeliefInv
<1>1. SessionTypeOK'
  BY SessionTypeStep DEF WriterInv
<1>2. (WriterInv /\ RequestsAreSound)'
  BY WriterKept
<1>3. JobSound'
  BY JobStep
<1>4. RowInv'
  BY RowStep
<1>5. CleanInv'
  BY CleanStep
<1> QED BY <1>1, <1>2, <1>3, <1>4, <1>5

\* When the books can be relied on and no request is outstanding, a snapshot that is not
\* submitted again is the row.
LEMMA QuietMeansSaved ==
  ASSUME BeliefInv, Sure, Quiet2
  PROVE  submitted = durable[User] /\ persisted = durable[User]
  BY DEF BeliefInv, RowInv, CleanInv, Sure, Quiet2

\* What the session believes of its row is true: persisted_state_json is the row whenever no
\* callback is due, and "unchanged" means saved whenever no request is outstanding, whatever
\* writes failed, were refused or overlapped, for any number of threads, sessions and
\* snapshots and any queue limit.
THEOREM SessionBelief == SessionSpec => []BeliefIsTrue
<1>1. BeliefInv => BeliefIsTrue
  <2> SUFFICES ASSUME BeliefInv PROVE BeliefIsTrue
    OBVIOUS
  <2>1. PersistedIsRow
    BY DEF BeliefInv, RowInv, PersistedIsRow
  <2>2. Quiet => Quiet2
    BY OutstandingCounts DEF BeliefInv, WriterInv, Quiet
  <2>3. CleanMeansSaved
    BY <2>2, QuietMeansSaved DEF CleanMeansSaved, Sure
  <2> QED BY <2>1, <2>3 DEF BeliefIsTrue
<1> QED BY <1>1, BeliefInit, BeliefStep, PTL DEF SessionSpec

-------------------------------------------------------------------------------
(* A request is in one place *)

\* No receipt occurs twice in a list.
Distinct(list) == \A i, j \in DOMAIN list : list[i].receipt = list[j].receipt => i = j

\* Every session submits with a new receipt, so a request is named once, by one list, and is
\* open there until the thread answers it; then only the callback still has it.
OnePlace ==
  /\ \A k \in Keys : Distinct(saveOf[k].completions)
  /\ Distinct(job.save.completions)
  /\ \A r \in Receipts, k \in Keys : InList(r, saveOf[k].completions) =>
       /\ receipt[r] = "open"
       /\ ~InList(r, job.save.completions)
       /\ \A l \in Keys \ {k} : ~InList(r, saveOf[l].completions)
  /\ \A r \in Receipts : InList(r, job.save.completions) =>
       receipt[r] = "open" \/ (pc = "callback" /\ r = Head(job.save.completions).receipt)

\* A new request at the end of a list leaves its receipts distinct.
LEMMA DistinctAppend ==
  ASSUME NEW save \in PendingSave, Distinct(save.completions),
         NEW s \in States, NEW r \in Receipts, ~InList(r, save.completions)
  PROVE  Distinct(Append(save.completions, [receipt |-> r, encoded_state |-> s]))
<1> PICK old : old = save.completions
  OBVIOUS
<1> PICK new : new = Append(old, [receipt |-> r, encoded_state |-> s])
  OBVIOUS
<1>1. /\ new \in Seq(Completion)
      /\ Len(new) = Len(old) + 1
      /\ \A i \in 1..Len(new) : new[i].receipt = IF i = Len(new) THEN r ELSE old[i].receipt
  BY AppendSave DEF PendingSave
<1>2. old \in Seq(Completion) /\ Distinct(old) /\ ~InList(r, old)
  BY DEF PendingSave
<1>3. DOMAIN new = 1..Len(new) /\ DOMAIN old = 1..Len(old) /\ Len(old) \in Nat
  BY <1>1, <1>2
<1>4. \A i \in 1..Len(old) : old[i].receipt # r
  BY <1>2, <1>3 DEF InList
<1>5. \A i, j \in 1..Len(old) : old[i].receipt = old[j].receipt => i = j
  BY <1>2, <1>3 DEF Distinct
<1>6. ASSUME NEW i \in 1..Len(new), NEW j \in 1..Len(new), new[i].receipt = new[j].receipt
      PROVE  i = j
  BY <1>1, <1>3, <1>4, <1>5, <1>6
<1> QED BY <1>3, <1>6 DEF Distinct

\* The receipt that has been called back is in its list no more.
LEMMA DistinctTail ==
  ASSUME NEW list \in Seq(Completion), list # <<>>, Distinct(list)
  PROVE  Distinct(Tail(list)) /\ ~InList(Head(list).receipt, Tail(list))
<1>1. /\ \A i \in 1..Len(Tail(list)) : Tail(list)[i] = list[i + 1] /\ i + 1 \in 1..Len(list)
      /\ Tail(list) \in Seq(Completion)
  BY CalledBackList
<1>2. DOMAIN list = 1..Len(list) /\ DOMAIN Tail(list) = 1..Len(Tail(list))
      /\ Len(Tail(list)) \in Nat
      /\ Head(list) = list[1] /\ 1 \in 1..Len(list)
  BY <1>1
<1> PICK rest : rest = Tail(list)
  OBVIOUS
<1>3. \A i, j \in 1..Len(list) : list[i].receipt = list[j].receipt => i = j
  BY <1>2 DEF Distinct
<1>4. ASSUME NEW i \in 1..Len(rest), NEW j \in 1..Len(rest), rest[i].receipt = rest[j].receipt
      PROVE  i = j
  <2>1. i + 1 = j + 1
    BY <1>1, <1>3, <1>4
  <2> QED BY <2>1, <1>2
<1>5. ASSUME NEW i \in 1..Len(rest), rest[i].receipt = list[1].receipt
      PROVE  FALSE
  <2>1. i + 1 = 1
    BY <1>1, <1>2, <1>3, <1>5
  <2> QED BY <2>1, <1>2
<1> QED BY <1>2, <1>4, <1>5 DEF Distinct, InList

\* The steps of a session, by what they do to the writer's lists and receipts.
LEMMA ListCases ==
  ASSUME SessionTypeOK, [SessionNext]_allVars
  PROVE  \/ UNCHANGED <<saveOf, job, receipt>> /\ (pc' = pc \/ pc # "callback")
         \/ \E k \in Keys, s \in States, r \in Receipts : Enqueue(k, s, r) \/ Coalesce(k, s, r)
         \/ \E r \in Receipts : Forget(r) \/ \E k \in Keys : Reject(k, r)
         \/ Take \/ Answer \/ Callback \/ Answered
<1>0. User \in Keys
  BY SessionAssumption
<1>1. ASSUME UNCHANGED vars
      PROVE  UNCHANGED <<saveOf, job, receipt>> /\ (pc' = pc \/ pc # "callback")
  BY <1>1 DEF vars, queueVars, threadVars
<1>2. CASE Life
  BY <1>1, <1>2 DEF Life, SetPersistedState, Kick, Disconnect, DropPlayer, Change
<1>3. ASSUME NEW t \in Savers, Save(t), ~UNCHANGED vars
      PROVE  \/ \E s \in States, r \in Receipts : Enqueue(User, s, r) \/ Coalesce(User, s, r)
             \/ \E r \in Receipts : Reject(User, r)
  <2>1. saver[t].snapshot \in States
    BY DEF SessionTypeOK
  <2>2. PICK r \in Receipts : DecideSubmit(t, r) \/ DecideRejected(t, r)
    BY <1>3 DEF Save, SaveStep, Call, NoSnapshot, Snapshot, DecideUnchanged, Waited
  <2> QED BY <2>1, <2>2 DEF DecideSubmit, DecideRejected
<1>4. CASE WriterStep
  <2>1. ASSUME Sleep \/ Exit \/ Write \/ Finish
        PROVE  UNCHANGED <<saveOf, job, receipt>> /\ (pc' = pc \/ pc # "callback")
    BY <2>1 DEF Sleep, Exit, Write, Finish, queueVars
  <2> QED BY <1>4, <2>1 DEF WriterStep, SessionCallback
<1>5. CASE DropReceipt
  BY <1>5 DEF DropReceipt
<1>6. CASE Elsewhere
  <2>1. ASSUME ShutdownCall
        PROVE  UNCHANGED <<saveOf, job, receipt>> /\ (pc' = pc \/ pc # "callback")
    BY <2>1 DEF ShutdownCall, queueVars, Awake
  <2> QED BY <1>6, <2>1, WriterAssumption DEF Elsewhere
<1> QED BY <1>0, <1>1, <1>2, <1>3, <1>4, <1>5, <1>6 DEF SessionNext, allVars

\* submit() with a receipt nobody holds.
LEMMA OnePlaceAccepted ==
  ASSUME TypeOK, RequestsAreSound, OnePlace,
         NEW k \in Keys, NEW s \in States, NEW r \in Receipts,
         Enqueue(k, s, r) \/ Coalesce(k, s, r)
  PROVE  OnePlace'
<1>1. PICK save \in PendingSave :
        /\ saveOf' = [saveOf EXCEPT ![k] = save]
        /\ \A q \in Receipts : InList(q, save.completions)
                                <=> q = r \/ InList(q, saveOf[k].completions)
  BY AcceptedSave
<1>2. \A l \in Keys : saveOf'[l] = IF l = k THEN save ELSE saveOf[l]
  BY <1>1 DEF TypeOK
<1>3. /\ receipt[r] = "unused" /\ receipt'[r] = "open" /\ job' = job
      /\ \A q \in Receipts \ {r} : receipt'[q] = receipt[q]
      /\ pc' = pc \/ pc # "callback"
  BY DEF TypeOK, Enqueue, Coalesce, AcceptedSubmit, Awake
<1>4. ~InList(r, job.save.completions) /\ \A l \in Keys : ~InList(r, saveOf[l].completions)
  BY <1>3 DEF RequestsAreSound, Held
<1>5. Distinct(save.completions)
  <2>1. CASE Enqueue(k, s, r)
    <3>1. save.completions = <<[receipt |-> r, encoded_state |-> s]>>
      BY <2>1, <1>1 DEF Enqueue, TypeOK
    <3> QED BY <3>1 DEF Distinct
  <2>2. CASE Coalesce(k, s, r)
    <3>1. save.completions = Append(saveOf[k].completions, [receipt |-> r, encoded_state |-> s])
      BY <2>2, <1>1 DEF Coalesce, TypeOK
    <3> QED BY <3>1, <1>4, DistinctAppend DEF OnePlace, TypeOK
  <2> QED BY <2>1, <2>2
<1>6. \A l \in Keys : Distinct(saveOf'[l].completions)
  BY <1>2, <1>5 DEF OnePlace
<1>7. \A q \in Receipts, l \in Keys : InList(q, saveOf'[l].completions)
        <=> (l = k /\ q = r) \/ InList(q, saveOf[l].completions)
  BY <1>1, <1>2
<1>8. ASSUME NEW q \in Receipts, NEW l \in Keys, InList(q, saveOf'[l].completions)
      PROVE  /\ receipt'[q] = "open"
             /\ ~InList(q, job'.save.completions)
             /\ \A m \in Keys \ {l} : ~InList(q, saveOf'[m].completions)
  <2>1. CASE q = r
    BY <2>1, <1>3, <1>4, <1>7, <1>8
  <2>2. CASE q # r
    BY <2>2, <1>3, <1>7, <1>8 DEF OnePlace
  <2> QED BY <2>1, <2>2
<1>9. ASSUME NEW q \in Receipts, InList(q, job'.save.completions)
      PROVE  receipt'[q] = "open" \/ (pc' = "callback" /\ q = Head(job'.save.completions).receipt)
  BY <1>3, <1>4, <1>9 DEF OnePlace
<1>10. Distinct(job'.save.completions)
  BY <1>3 DEF OnePlace
<1> QED BY <1>6, <1>8, <1>9, <1>10 DEF OnePlace

\* The thread takes an entry with its requests, answers them, and lets go of each.
LEMMA OnePlaceRun ==
  ASSUME TypeOK, WaitersAreKept, RequestsAreSound, OnePlace,
         Take \/ Answer \/ Callback \/ Answered
  PROVE  OnePlace'
<1>1. CASE Take
  <2>1. PICK k \in Keys :
          /\ pc' = "saving"
          /\ job' = [key |-> k, save |-> saveOf[k]]
          /\ saveOf'[k].completions = <<>>
          /\ \A l \in Keys \ {k} : saveOf'[l] = saveOf[l]
          /\ receipt' = receipt
    BY <1>1, TakeMoves
  <2>2. \A q \in Receipts, l \in Keys :
          InList(q, saveOf'[l].completions) <=> l # k /\ InList(q, saveOf[l].completions)
    BY <2>1 DEF InList
  <2>3. \A l \in Keys : Distinct(saveOf'[l].completions)
    <3>1. Distinct(<<>>)
      BY DEF Distinct
    <3> QED BY <2>1, <3>1 DEF OnePlace
  <2>4. Distinct(job'.save.completions)
    BY <2>1 DEF OnePlace
  <2>5. \A q \in Receipts : InList(q, job'.save.completions) <=> InList(q, saveOf[k].completions)
    BY <2>1
  <2>6. ASSUME NEW q \in Receipts, NEW l \in Keys, InList(q, saveOf'[l].completions)
        PROVE  /\ receipt'[q] = "open"
               /\ ~InList(q, job'.save.completions)
               /\ \A m \in Keys \ {l} : ~InList(q, saveOf'[m].completions)
    BY <2>1, <2>2, <2>5, <2>6 DEF OnePlace
  <2>7. \A q \in Receipts : InList(q, job'.save.completions) => receipt'[q] = "open"
    BY <2>1, <2>5 DEF OnePlace
  <2> QED BY <2>3, <2>4, <2>6, <2>7 DEF OnePlace
<1>2. CASE Answer
  <2> PICK list \in Seq(Completion) : list = job.save.completions /\ list # <<>>
    BY <1>2 DEF TypeOK, PendingSave, Answer
  <2>1. /\ pc = "answer" /\ pc' = "callback" /\ UNCHANGED <<saveOf, job>>
        /\ \A q \in Receipts : q # Head(list).receipt => receipt'[q] = receipt[q]
    BY <1>2 DEF Answer, TypeOK, queueVars
  <2>2. InList(Head(list).receipt, list) /\ Head(list).receipt \in Receipts
    BY HeadAndTail DEF Completion
  <2>3. \A q \in Receipts, k \in Keys :
          InList(q, saveOf[k].completions) => q # Head(list).receipt
    BY <2>2 DEF OnePlace
  <2>4. \A q \in Receipts : InList(q, list) => receipt'[q] = "open" \/ q = Head(list).receipt
    BY <2>1 DEF OnePlace
  <2> QED BY <2>1, <2>3, <2>4 DEF OnePlace
<1>3. CASE Callback
  <2> PICK list \in Seq(Completion) : list = job.save.completions /\ list # <<>>
    BY <1>3, CallbackMoves
  <2>1. /\ pc = "callback" /\ pc' = "answer" /\ UNCHANGED <<saveOf, receipt>>
        /\ job'.save.completions = Tail(list)
    BY <1>3, CallbackMoves
  <2>2. /\ \A q \in Receipts : InList(q, Tail(list)) => InList(q, list)
        /\ Distinct(Tail(list)) /\ ~InList(Head(list).receipt, Tail(list))
    BY CalledBackList, DistinctTail DEF OnePlace
  <2>3. \A q \in Receipts : InList(q, Tail(list)) => receipt[q] = "open"
    BY <2>2 DEF OnePlace
  <2> QED BY <2>1, <2>2, <2>3 DEF OnePlace
<1>4. CASE Answered
  <2>1. job.save.completions = <<>> /\ job'.save.completions = <<>>
        /\ UNCHANGED <<saveOf, receipt>>
    BY <1>4, EmptySaveType DEF Answered, NoJob, queueVars
  <2>2. \A q \in Receipts : ~InList(q, <<>>)
    BY DEF InList
  <2> QED BY <2>1, <2>2 DEF OnePlace
<1> QED BY <1>1, <1>2, <1>3, <1>4

\* No step of the session or the writer names a request twice.
LEMMA OnePlaceStep ==
  ASSUME SessionTypeOK, WriterInv, RequestsAreSound, OnePlace, [SessionNext]_allVars
  PROVE  OnePlace'
<1> USE DEF WriterInv
<1>1. CASE UNCHANGED <<saveOf, job, receipt>> /\ (pc' = pc \/ pc # "callback")
  BY <1>1 DEF OnePlace
<1>2. ASSUME NEW r \in Receipts, Forget(r) \/ \E k \in Keys : Reject(k, r)
      PROVE  OnePlace'
  <2>1. /\ UNCHANGED <<saveOf, job, pc>>
        /\ \A q \in Receipts \ {r} : receipt'[q] = receipt[q]
        /\ ~Held(r)
    BY <1>2 DEF TypeOK, Forget, Reject, queueVars, threadVars, RequestsAreSound
  <2>2. \A q \in Receipts : Held(q) => receipt'[q] = receipt[q]
    BY <2>1
  <2> QED BY <2>1, <2>2 DEF OnePlace, Held
<1> QED BY <1>1, <1>2, OnePlaceAccepted, OnePlaceRun, ListCases

-------------------------------------------------------------------------------
(* The request the session asked for last *)

\* A receipt somebody of this session can see stands for a request that was made.
SeenInUse == \A r \in Receipts : Seen(r) => receipt[r] # "unused"

\* A receipt that is seen is neither forgotten nor given to another request: only the answer
\* to its request changes it.
LEMMA SeenKept ==
  ASSUME SessionTypeOK, TypeOK, SeenInUse, [SessionNext]_allVars,
         NEW r \in Receipts, Seen(r)
  PROVE  receipt'[r] = receipt[r] \/ Answer
<1>0. receipt[r] # "unused"
  BY DEF SeenInUse
<1>1. CASE UNCHANGED vars
  BY <1>1 DEF vars
<1>2. CASE Life
  BY <1>1, <1>2 DEF Life, SetPersistedState, Kick, Disconnect, DropPlayer, Change
<1>3. ASSUME NEW t \in Savers, Save(t) PROVE receipt'[r] = receipt[r]
  <2>1. CASE UNCHANGED vars
    BY <2>1 DEF vars
  <2>2. ASSUME NEW q \in Receipts, DecideSubmit(t, q) \/ DecideRejected(t, q)
        PROVE  receipt'[r] = receipt[r]
    BY <2>2, <1>0 DEF DecideSubmit, DecideRejected, Enqueue, Coalesce, Reject, TypeOK
  <2> QED BY <1>3, <2>1, <2>2
       DEF Save, SaveStep, Call, NoSnapshot, Snapshot, DecideUnchanged, Waited
<1>4. CASE WriterStep
  BY <1>4 DEF WriterStep, SessionCallback, Callback, Sleep, Exit, Take, Write, Finish, Answered
<1>5. CASE DropReceipt
  BY <1>5 DEF DropReceipt, Forget, TypeOK
<1>6. CASE Elsewhere
  BY <1>0, <1>6 DEF Elsewhere, ShutdownCall, Enqueue, TypeOK
<1> QED BY <1>1, <1>2, <1>3, <1>4, <1>5, <1>6 DEF SessionNext, allVars

\* A receipt comes into sight with its request.
LEMMA SeenNew ==
  ASSUME SessionTypeOK, TypeOK, [SessionNext]_allVars, NEW r \in Receipts, Seen(r)', ~Seen(r)
  PROVE  receipt'[r] \in {"open", "failed"}
<1>0. NoReceipt \notin Receipts
  BY SessionAssumption
<1>1. ASSUME UNCHANGED <<last_receipt, saver>> PROVE FALSE
  BY <1>1 DEF Seen
<1>2. ASSUME NEW t \in Savers, NEW v, Return(t, v), last_receipt' = last_receipt PROVE FALSE
  BY <1>0, <1>2 DEF Return, Idle, Seen, SessionTypeOK
<1>3. CASE Life
  <2>1. CASE SetPersistedState
    BY <1>0, <2>1 DEF SetPersistedState, Seen
  <2>2. CASE Disconnect
    <3>1. \A u \in Savers : saver'[u].receipt \in {saver[u].receipt, NoReceipt}
      BY <2>2 DEF Disconnect, Idle, SessionTypeOK
    <3>2. last_receipt' = last_receipt
      BY <2>2 DEF Disconnect, bookVars
    <3> QED BY <1>0, <3>1, <3>2 DEF Seen
  <2>3. CASE Kick \/ DropPlayer \/ \E s \in States : Change(s)
    BY <2>3, <1>1 DEF Kick, DropPlayer, Change, bookVars
  <2> QED BY <1>3, <2>1, <2>2, <2>3 DEF Life
<1>4. ASSUME NEW t \in Savers, Save(t) PROVE receipt'[r] \in {"open", "failed"}
  <2>1. CASE \E w \in MayWait(t) : Call(t, w)
    BY <1>0, <2>1 DEF Call, bookVars, Idle, Seen, SessionTypeOK
  <2>2. CASE NoSnapshot(t) \/ Waited(t)
    BY <1>2, <2>2 DEF NoSnapshot, Waited, bookVars
  <2>3. CASE Snapshot(t)
    <3>1. \A u \in Savers : saver'[u].receipt \in {saver[u].receipt, NoReceipt}
      <4>1. CASE phase = "gone"
        BY <2>3, <4>1 DEF Snapshot, Idle, SessionTypeOK
      <4>2. CASE phase # "gone"
        <5>1. saver \in [Savers -> Locals]
          BY DEF SessionTypeOK, Locals
        <5>2. saver' = [saver EXCEPT ![t] = [saver[t] EXCEPT !.pc = "decide", !.snapshot = player]]
          BY <2>3, <4>2, <5>1 DEF Snapshot
        <5> QED BY <5>1, <5>2 DEF Locals
      <4> QED BY <4>1, <4>2
    <3>2. last_receipt' = last_receipt
      BY <2>3 DEF Snapshot, bookVars
    <3> QED BY <1>0, <3>1, <3>2 DEF Seen
  <2>4. CASE DecideUnchanged(t)
    <3>1. CASE saver' = [saver EXCEPT ![t].pc = "joining", ![t].receipt = last_receipt]
      BY <2>4, <3>1 DEF DecideUnchanged, bookVars, Seen, SessionTypeOK
    <3> QED BY <1>2, <2>4, <3>1 DEF DecideUnchanged, bookVars
  <2>5. ASSUME NEW q \in Receipts, DecideSubmit(t, q) \/ DecideRejected(t, q)
        PROVE  receipt'[r] \in {"open", "failed"}
    <3>1. receipt'[q] \in {"open", "failed"} /\ last_receipt' = q
      BY <2>5 DEF DecideSubmit, DecideRejected, Enqueue, Coalesce, Reject, TypeOK
    <3>2. \A u \in Savers : saver'[u].receipt \in {saver[u].receipt, q, NoReceipt}
      BY <2>5 DEF DecideSubmit, DecideRejected, Return, Idle, SessionTypeOK
    <3>3. r = q
      BY <1>0, <3>1, <3>2 DEF Seen
    <3> QED BY <3>1, <3>3
  <2> QED BY <1>4, <2>1, <2>2, <2>3, <2>4, <2>5 DEF Save, SaveStep
<1>5. CASE WriterStep
  BY <1>1, <1>5 DEF WriterStep, SessionCallback, sessionVars, bookVars
<1>6. CASE DropReceipt \/ Elsewhere \/ UNCHANGED allVars
  BY <1>1, <1>6 DEF DropReceipt, Elsewhere, allVars, sessionVars, bookVars
<1> QED BY <1>3, <1>4, <1>5, <1>6 DEF SessionNext

\* So what is seen stays in use.
LEMMA SeenStep ==
  ASSUME SessionTypeOK, TypeOK, SeenInUse, [SessionNext]_allVars
  PROVE  SeenInUse'
<1>1. ASSUME NEW r \in Receipts, Answer, receipt[r] # "unused" PROVE receipt'[r] # "unused"
  BY <1>1 DEF Answer, TypeOK
<1>2. ASSUME NEW r \in Receipts, Seen(r)' PROVE receipt'[r] # "unused"
  <2>1. CASE Seen(r)
    BY <2>1, <1>1, SeenKept DEF SeenInUse
  <2>2. CASE ~Seen(r)
    BY <2>2, <1>2, SeenNew
  <2> QED BY <2>1, <2>2
<1> QED BY <1>2 DEF SeenInUse

\* Where the request of an open receipt is, when it and what came after it ask for states of S.
Asked(r, S) ==
  \/ /\ InList(r, saveOf[User].completions)
     /\ saveOf[User].encoded_state \in S
  \/ /\ job.key = User /\ InList(r, job.save.completions)
     /\ job.save.encoded_state \in S
     /\ Pending(User) => saveOf[User].encoded_state \in S

\* Until it is answered, it stays in the queue or in the thread's hands, whatever states of T
\* are submitted after it.
LEMMA AskedKept ==
  ASSUME SessionTypeOK, WriterInv, RequestsAreSound, OnePlace, [SessionNext]_allVars,
         NEW r \in Receipts, receipt[r] = "open", NEW S, NEW T, S \subseteq T, Asked(r, S),
         \A t \in Savers, q \in Receipts : DecideSubmit(t, q) => saver[t].snapshot \in T
  PROVE  Asked(r, T)'
<1> USE DEF WriterInv
<1>0. User \in Keys /\ Asked(r, T)
  BY SessionAssumption DEF Asked
<1>1. ASSUME saveOf'[User] = saveOf[User], job' = job PROVE Asked(r, T)'
  BY <1>0, <1>1 DEF Asked, Pending
<1>2. CASE HandsOff
  BY <1>1, <1>2 DEF HandsOff
<1>3. CASE SetPersistedState \/ \E t \in Savers, q \in Receipts : DecideRejected(t, q)
  BY <1>1, <1>3 DEF SetPersistedState, DecideRejected, Reject, vars, queueVars, threadVars
<1>4. CASE Write \/ Finish \/ Answer
  BY <1>1, <1>4 DEF Write, Finish, Answer, queueVars
<1>5. ASSUME NEW t \in Savers, NEW q \in Receipts, DecideSubmit(t, q) PROVE Asked(r, T)'
  <2>1. PICK s \in States : s \in T /\ (Enqueue(User, s, q) \/ Coalesce(User, s, q))
    BY <1>5 DEF DecideSubmit, SessionTypeOK
  <2>2. PICK save \in PendingSave :
          /\ saveOf' = [saveOf EXCEPT ![User] = save]
          /\ save.encoded_state = s
          /\ InList(r, saveOf[User].completions) => InList(r, save.completions)
    BY <1>0, <2>1, AcceptedSave
  <2>3. job' = job /\ saveOf'[User] = save
    BY <1>0, <2>1, <2>2 DEF Enqueue, Coalesce, AcceptedSubmit, TypeOK
  <2> QED BY <1>0, <2>1, <2>2, <2>3 DEF Asked
<1>6. CASE Take
  <2>1. PICK k \in Keys :
          /\ job.save.completions = <<>>
          /\ job' = [key |-> k, save |-> saveOf[k]]
          /\ saveOf'[k].completions = <<>>
          /\ \A l \in Keys \ {k} : saveOf'[l] = saveOf[l]
    BY <1>6, TakeMoves
  <2>2. ~InList(r, job.save.completions)
    BY <2>1 DEF InList
  <2>3. InList(r, saveOf[User].completions) /\ saveOf[User].encoded_state \in T
    BY <1>0, <2>2 DEF Asked
  <2>4. CASE k = User
    BY <2>1, <2>3, <2>4 DEF Asked, Pending
  <2>5. CASE k # User
    BY <1>0, <2>1, <2>3, <2>5 DEF Asked
  <2> QED BY <2>4, <2>5
<1>7. CASE Callback
  <2> PICK list \in Seq(Completion) : list = job.save.completions /\ list # <<>>
    BY <1>7, CallbackMoves
  <2>1. /\ pc = "callback" /\ saveOf' = saveOf
        /\ job'.key = job.key /\ job'.save.encoded_state = job.save.encoded_state
        /\ job'.save.completions = Tail(list)
    BY <1>7, CallbackMoves
  <2>2. r # Head(list).receipt
    BY <2>1 DEF WaitersAreKept
  <2>3. InList(r, list) => InList(r, Tail(list))
    BY <2>2, HeadAndTail
  <2> QED BY <1>0, <2>1, <2>3 DEF Asked, Pending
<1>8. CASE Answered
  <2>1. ~InList(r, job.save.completions) /\ saveOf' = saveOf
    BY <1>8 DEF Answered, InList, queueVars
  <2> QED BY <1>0, <2>1 DEF Asked
<1> QED BY <1>2, <1>3, <1>4, <1>5, <1>6, <1>7, <1>8, StepCases DEF SessionCallback

\* The row is what was submitted last, and nothing of this session will write it again.
RowSettled ==
  /\ ~Pending(User)
  /\ durable[User] = submitted
  /\ Mine => success /\ pc \in {"answer", "callback"}

\* What last_save_receipt says is true of last_submitted_state_json: with no receipt nothing
\* is outstanding, an open one stands for the newest request of the session, a saved one for
\* a row that holds it.
LastFacts ==
  /\ last_receipt = NoReceipt => Quiet2
  /\ \A r \in Receipts : r = last_receipt =>
       /\ receipt[r] = "open" =>
            /\ Asked(r, {submitted})
            /\ ~InList(r, saveOf[User].completions) => ~Pending(User)
       /\ receipt[r] = "saved" => RowSettled

LastInv == Sure => LastFacts

\* Whatever the thread does, a quiet session stays quiet and a settled row settled, and an
\* entry that is taken leaves nothing behind.
LEMMA ThreadSettles ==
  ASSUME TypeOK, WaitersAreKept, RequestsAreSound, JobSound, submitted' = submitted,
         HandsOff \/ Take \/ Write \/ Finish \/ Answer \/ Callback \/ Answered
  PROVE  /\ Quiet2 => Quiet2'
         /\ RowSettled => RowSettled'
         /\ saveOf'[User] = saveOf[User] \/ ~Pending(User)'
<1>0. User \in Keys
  BY SessionAssumption
<1>1. CASE HandsOff
  <2>1. pc' = pc \/ ~Mine
    BY <1>1 DEF HandsOff, Resting, WaitersAreKept, Mine
  <2> QED BY <1>1, <2>1 DEF HandsOff, Quiet2, RowSettled, Mine, Pending
<1>2. CASE Take
  <2>1. PICK k \in Keys :
          /\ job.save.completions = <<>>
          /\ job' = [key |-> k, save |-> saveOf[k]]
          /\ saveOf[k].completions # <<>>
          /\ saveOf'[k].completions = <<>>
          /\ \A l \in Keys \ {k} : saveOf'[l] = saveOf[l]
          /\ durable' = durable
    BY <1>2, TakeMoves
  <2>2. CASE k = User
    BY <2>1, <2>2 DEF Quiet2, RowSettled, Pending
  <2>3. CASE k # User
    <3>1. saveOf'[User] = saveOf[User] /\ ~Mine'
      BY <1>0, <2>1, <2>3 DEF Mine
    <3> QED BY <2>1, <3>1 DEF Quiet2, RowSettled, Pending
  <2> QED BY <2>2, <2>3
<1>3. CASE Write
  <2>1. /\ pc = "saving" /\ job.save.completions # <<>> /\ UNCHANGED <<saveOf, job>>
        /\ job.key # User => durable'[User] = durable[User]
    BY <1>0, <1>3 DEF Write, RequestsAreSound, TypeOK, queueVars
  <2>2. job.key = User => Mine
    BY <2>1 DEF Mine
  <2> QED BY <2>1, <2>2 DEF Quiet2, RowSettled, Mine, Pending
<1>4. CASE Finish
  BY <1>4 DEF Finish, queueVars, Quiet2, RowSettled, Mine, Pending
<1>5. CASE Answer
  BY <1>5 DEF Answer, queueVars, Quiet2, RowSettled, Mine, Pending
<1>6. CASE Callback
  <2>1. /\ UNCHANGED <<saveOf, success, durable>> /\ pc' = "answer"
        /\ Mine' => Mine
    BY <1>6, CallbackMoves DEF Mine
  <2> QED BY <2>1 DEF Quiet2, RowSettled, Pending
<1>7. CASE Answered
  <2>1. ~Mine' /\ UNCHANGED <<saveOf, durable>>
    BY <1>7, EmptySaveType DEF Answered, NoJob, Mine, queueVars
  <2> QED BY <2>1 DEF Quiet2, RowSettled, Pending
<1> QED BY <1>1, <1>2, <1>3, <1>4, <1>5, <1>6, <1>7

\* The answer to the last request says what became of its snapshot.
LEMMA AnswerSettles ==
  ASSUME TypeOK, OnePlace, JobSound, Answer, submitted' = submitted,
         NEW r \in Receipts, receipt'[r] # receipt[r], receipt'[r] = "saved"
  PROVE  /\ receipt[r] = "open"
         /\ InList(r, job.save.completions) /\ ~InList(r, saveOf[User].completions)
         /\ Asked(r, {submitted}) /\ ~Pending(User) => RowSettled'
<1>0. User \in Keys
  BY SessionAssumption
<1>1. job.save.completions \in Seq(Completion) /\ job.save.completions # <<>>
  BY DEF Answer, TypeOK, PendingSave
<1>2. /\ pc = "answer" /\ pc' = "callback" /\ UNCHANGED <<saveOf, job, success, durable>>
      /\ r = Head(job.save.completions).receipt /\ success
  BY DEF Answer, TypeOK, queueVars
<1>3. InList(r, job.save.completions)
  BY <1>1, <1>2, HeadAndTail
<1>4. receipt[r] = "open" /\ ~InList(r, saveOf[User].completions)
  BY <1>0, <1>2, <1>3 DEF OnePlace
<1>5. ASSUME Asked(r, {submitted}), ~Pending(User) PROVE RowSettled'
  BY <1>2, <1>4, <1>5 DEF Asked, JobSound, RowSettled, Mine, Pending
<1> QED BY <1>3, <1>4, <1>5

\* Everything LastInv leans on.
LastBase == BeliefInv /\ OnePlace /\ SeenInUse

\* Steps that leave last_save_receipt and last_submitted_state_json alone.
LEMMA LastSame ==
  ASSUME LastBase, LastFacts, [SessionNext]_allVars,
         submitted' = submitted, last_receipt' = last_receipt,
         HandsOff \/ Take \/ Write \/ Finish \/ Answer \/ Callback \/ Answered
  PROVE  LastFacts'
<1> USE DEF LastBase, BeliefInv, WriterInv
<1>0. User \in Keys
  BY SessionAssumption
<1>1. /\ Quiet2 => Quiet2'
      /\ RowSettled => RowSettled'
      /\ saveOf'[User] = saveOf[User] \/ ~Pending(User)'
  BY ThreadSettles
<1>2. ASSUME NEW r \in Receipts, r = last_receipt
      PROVE  receipt'[r] = receipt[r] \/ Answer
  BY <1>2, SeenKept DEF Seen
<1>3. ASSUME NEW r \in Receipts, r = last_receipt, receipt'[r] = "open"
      PROVE  /\ Asked(r, {submitted})'
             /\ ~InList(r, saveOf'[User].completions) => ~Pending(User)'
  <2>1. receipt[r] = "open"
    BY <1>2, <1>3 DEF Answer, TypeOK
  <2>2. PICK s : s = submitted
    OBVIOUS
  <2>3. \A t \in Savers, q \in Receipts : ~DecideSubmit(t, q)
    BY <2>2 DEF DecideSubmit
  <2>4. Asked(r, {s})'
    BY <1>3, <2>1, <2>2, <2>3, AskedKept DEF LastFacts
  <2>5. Asked(r, {submitted})'
    BY <2>2, <2>4 DEF Asked
  <2>6. ~InList(r, saveOf'[User].completions) => ~Pending(User)'
    BY <1>1, <1>3, <2>1 DEF LastFacts, Pending
  <2> QED BY <2>5, <2>6
<1>4. ASSUME NEW r \in Receipts, r = last_receipt, receipt'[r] = "saved"
      PROVE  RowSettled'
  <2>1. CASE receipt'[r] = receipt[r]
    BY <1>1, <1>4, <2>1 DEF LastFacts
  <2>2. CASE receipt'[r] # receipt[r]
    <3>1. Answer
      BY <1>2, <1>4, <2>2
    <3>2. /\ receipt[r] = "open" /\ ~InList(r, saveOf[User].completions)
          /\ Asked(r, {submitted}) /\ ~Pending(User) => RowSettled'
      BY <1>4, <2>2, <3>1, AnswerSettles
    <3> QED BY <1>4, <3>2 DEF LastFacts
  <2> QED BY <2>1, <2>2
<1>5. ASSUME last_receipt = NoReceipt PROVE Quiet2'
  BY <1>1, <1>5 DEF LastFacts
<1>6. ASSUME NEW r \in Receipts, r = last_receipt'
      PROVE  /\ receipt'[r] = "open" =>
                  /\ Asked(r, {submitted})'
                  /\ ~InList(r, saveOf'[User].completions) => ~Pending(User)'
             /\ receipt'[r] = "saved" => RowSettled'
  BY <1>3, <1>4, <1>6
<1>7. last_receipt' = NoReceipt => Quiet2'
  BY <1>5
<1> HIDE DEF LastBase, BeliefInv, WriterInv
<1> QED BY <1>6, <1>7 DEF LastFacts, Asked

\* A new request is the last one, in the queue with its snapshot; a refused one leaves the
\* books with nothing outstanding or muddled; a failed write rolls them back with no open
\* receipt left, or muddles them.
LEMMA LastStep ==
  ASSUME LastBase, LastInv, [SessionNext]_allVars
  PROVE  LastInv'
<1> USE DEF LastBase, BeliefInv, WriterInv
<1>0. User \in Keys /\ NoReceipt \notin Receipts
  BY SessionAssumption
<1>1. CASE BooksKept /\ (HandsOff \/ Take \/ Write \/ Finish \/ Answer \/ Callback \/ Answered)
  <2>1. /\ Sure' => Sure
        /\ submitted' = submitted /\ last_receipt' = last_receipt
    BY <1>1 DEF BooksKept, Sure
  <2>2. LastFacts => LastFacts'
    BY <1>1, <2>1, LastSame
  <2> QED BY <2>1, <2>2 DEF LastInv
<1>2. CASE SetPersistedState
  <2>1. /\ last_receipt' = NoReceipt /\ UNCHANGED <<saveOf, job>>
        /\ ~early' => ~Outstanding(0)
    BY <1>2 DEF SetPersistedState, vars, queueVars, threadVars
  <2>2. ~early' => Quiet2'
    BY <2>1, OutstandingCounts DEF Quiet2, Mine, Pending
  <2> QED BY <1>0, <2>1, <2>2 DEF LastInv, LastFacts, Sure
<1>3. ASSUME NEW t \in Savers, NEW r \in Receipts, DecideSubmit(t, r) PROVE LastInv'
  <2>1. PICK s \in States : s = saver[t].snapshot /\ submitted' = s
                            /\ (Enqueue(User, s, r) \/ Coalesce(User, s, r))
    BY <1>3 DEF DecideSubmit, SessionTypeOK
  <2>2. PICK save \in PendingSave : /\ saveOf' = [saveOf EXCEPT ![User] = save]
                                    /\ save.encoded_state = s
                                    /\ InList(r, save.completions)
    BY <1>0, <2>1, AcceptedSave
  <2>3. /\ saveOf'[User].encoded_state = s /\ InList(r, saveOf'[User].completions)
        /\ receipt'[r] = "open" /\ last_receipt' = r
    BY <1>0, <1>3, <2>1, <2>2 DEF DecideSubmit, Enqueue, Coalesce, TypeOK
  <2> QED BY <1>0, <2>1, <2>3 DEF LastInv, LastFacts, Asked
<1>4. ASSUME NEW t \in Savers, NEW r \in Receipts, DecideRejected(t, r) PROVE LastInv'
  <2>1. receipt'[r] = "failed" /\ last_receipt' = r
    BY <1>4 DEF DecideRejected, Reject, TypeOK
  <2> QED BY <1>0, <2>1 DEF LastInv, LastFacts
<1>5. CASE SessionCallback
  <2> PICK list \in Seq(Completion) : list = job.save.completions /\ list # <<>>
    BY <1>5, CallbackMoves DEF SessionCallback
  <2>1. /\ Callback /\ pc = "callback" /\ job.key = User
        /\ last_receipt' = last_receipt /\ UNCHANGED <<early, phase, receipt, saveOf, success>>
        /\ SaveCompleted(success, Head(list).encoded_state, Outstanding(1))
    BY <1>5, CallbackMoves DEF SessionCallback, lifeVars
  <2>2. Sure' => Sure
    BY <2>1 DEF Sure, SaveCompleted
  <2>3. CASE submitted' = submitted
    <3>1. LastFacts => LastFacts'
      BY <2>1, <2>3, LastSame
    <3> QED BY <2>2, <3>1 DEF LastInv
  <2>4. CASE submitted' # submitted
    <3>1. ~success /\ (~muddled' => ~Outstanding(1))
      BY <2>1, <2>4 DEF SaveCompleted
    <3>2. ASSUME Sure', NEW r \in Receipts, r = last_receipt
          PROVE  receipt[r] # "open" /\ receipt[r] # "saved"
      <4>1. ~Pending(User) /\ Len(list) = 1
        BY <2>1, <3>1, <3>2, OutstandingCounts DEF Sure
      <4>2. receipt[r] # "saved"
        BY <2>1, <2>2, <3>1, <3>2 DEF LastInv, LastFacts, RowSettled, Mine
      <4>3. ASSUME receipt[r] = "open" PROVE FALSE
        <5>1. Asked(r, {submitted})
          BY <2>2, <3>2, <4>3 DEF LastInv, LastFacts
        <5>2. ~InList(r, saveOf[User].completions)
          BY <4>1 DEF Pending, InList
        <5>3. InList(r, list)
          BY <5>1, <5>2 DEF Asked
        <5>4. r = Head(list).receipt
          <6>1. DOMAIN list = {1} /\ Head(list) = list[1]
            BY <4>1
          <6> QED BY <5>3, <6>1 DEF InList
        <5> QED BY <2>1, <4>3, <5>4 DEF WaitersAreKept
      <4> QED BY <4>2, <4>3
    <3>3. Sure' => last_receipt # NoReceipt
      BY <2>1, <2>2 DEF LastInv, LastFacts, Quiet2, Mine
    <3> QED BY <2>1, <3>2, <3>3 DEF LastInv, LastFacts
  <2> QED BY <2>3, <2>4
<1> QED BY <1>1, <1>2, <1>3, <1>4, <1>5, StepCases

-------------------------------------------------------------------------------
(* The final save *)

\* Where the steps outside save_if_changed leave the session's life.
LEMMA SaverCases ==
  ASSUME [SessionNext]_allVars
  PROVE  \/ UNCHANGED <<saver, result, since, overtaken, phase, player>>
         \/ SetPersistedState \/ Disconnect \/ DropPlayer
         \/ \E s \in States : Change(s)
         \/ \E t \in Savers : Save(t)
<1>1. CASE UNCHANGED sessionVars
  BY <1>1 DEF sessionVars, lifeVars, finalVars
<1>2. CASE SessionCallback
  BY <1>2 DEF SessionCallback, lifeVars, finalVars
<1>3. CASE Kick
  BY <1>3 DEF Kick, finalVars
<1> QED BY <1>1, <1>2, <1>3
     DEF SessionNext, allVars, Life, WriterStep, DropReceipt, Elsewhere

\* What a critical section of save_if_changed does to the locals and to the final save.
LEMMA SaveLocals ==
  ASSUME SessionTypeOK, NEW t \in Savers, Save(t)
  PROVE  /\ \A u \in Savers \ {t} : saver'[u] = saver[u]
         /\ player' = player
         /\ saver'[t].pc = "decide" =>
              Snapshot(t) /\ phase # "gone" /\ saver'[t].snapshot = player
         /\ saver'[t].pc = "waiting" =>
              \E r \in Receipts : DecideSubmit(t, r) /\ saver'[t].receipt = r
         /\ saver'[t].pc = "joining" =>
              /\ DecideUnchanged(t) /\ last_receipt \in Receipts
              /\ receipt[last_receipt] = "open" /\ saver'[t].receipt = last_receipt
         /\ t # Own \/ phase # "saving" =>
              UNCHANGED <<phase, result, since, overtaken>>
         /\ ~Snapshot(t) => UNCHANGED <<since, overtaken>>
<1> DEFINE Goal == /\ \A u \in Savers \ {t} : saver'[u] = saver[u]
                   /\ player' = player
                   /\ saver'[t].pc = "decide" =>
                        Snapshot(t) /\ phase # "gone" /\ saver'[t].snapshot = player
                   /\ saver'[t].pc = "waiting" =>
                        \E r \in Receipts : DecideSubmit(t, r) /\ saver'[t].receipt = r
                   /\ saver'[t].pc = "joining" =>
                        /\ DecideUnchanged(t) /\ last_receipt \in Receipts
                        /\ receipt[last_receipt] = "open" /\ saver'[t].receipt = last_receipt
                   /\ t # Own \/ phase # "saving" =>
                        UNCHANGED <<phase, result, since, overtaken>>
                   /\ ~Snapshot(t) => UNCHANGED <<since, overtaken>>
<1> SUFFICES Goal
  OBVIOUS
<1>1. saver \in [Savers -> Locals] /\ saver[t] \in Locals
  BY DEF SessionTypeOK, Locals
<1>2. ASSUME NEW v, Return(t, v), UNCHANGED <<player, since, overtaken>> PROVE Goal
  BY <1>1, <1>2 DEF Return, Idle
<1>3. CASE NoSnapshot(t) \/ Waited(t)
  BY <1>2, <1>3 DEF NoSnapshot, Waited
<1>4. CASE Snapshot(t)
  <2>1. CASE phase = "gone"
    <3>1. saver' = [saver EXCEPT ![t] = Idle] /\ UNCHANGED <<phase, result, since, overtaken, player>>
      BY <1>4, <2>1 DEF Snapshot, finalVars, lifeVars
    <3> QED BY <1>1, <3>1 DEF Idle
  <2>2. CASE phase # "gone"
    <3>1. /\ saver' = [saver EXCEPT ![t] = [saver[t] EXCEPT !.pc = "decide", !.snapshot = player]]
          /\ UNCHANGED <<phase, player, result>>
          /\ t # Own \/ phase # "saving" => UNCHANGED <<since, overtaken>>
      BY <1>1, <1>4, <2>2 DEF Snapshot, finalVars, lifeVars
    <3>2. saver'[t].pc = "decide" /\ saver'[t].snapshot = player
      BY <1>1, <3>1 DEF Locals
    <3> QED BY <1>1, <1>4, <2>2, <3>1, <3>2
  <2> QED BY <2>1, <2>2
<1>5. CASE DecideUnchanged(t)
  <2>1. UNCHANGED <<player, since, overtaken>>
    BY <1>5 DEF DecideUnchanged
  <2>2. CASE \E v : Return(t, v)
    BY <1>2, <2>1, <2>2
  <2>3. CASE ~\E v : Return(t, v)
    <3>1. /\ last_receipt # NoReceipt /\ receipt[last_receipt] = "open"
          /\ saver' = [saver EXCEPT ![t].pc = "joining", ![t].receipt = last_receipt]
          /\ UNCHANGED <<phase, result>>
      BY <1>5, <2>3 DEF DecideUnchanged
    <3>2. saver' = [saver EXCEPT ![t] = [saver[t] EXCEPT !.pc = "joining", !.receipt = last_receipt]]
      BY <1>1, <3>1
    <3>3. saver'[t].pc = "joining" /\ saver'[t].receipt = last_receipt
      BY <1>1, <3>2 DEF Locals
    <3> QED BY <1>1, <1>5, <2>1, <3>1, <3>2, <3>3 DEF SessionTypeOK
  <2> QED BY <2>2, <2>3
<1>6. ASSUME NEW r \in Receipts, DecideSubmit(t, r) PROVE Goal
  <2>1. UNCHANGED <<player, since, overtaken>>
    BY <1>6 DEF DecideSubmit
  <2>2. CASE ~saver[t].wait
    BY <1>2, <1>6, <2>1, <2>2 DEF DecideSubmit
  <2>3. CASE saver[t].wait
    <3>1. /\ saver' = [saver EXCEPT ![t].pc = "waiting", ![t].receipt = r]
          /\ UNCHANGED <<phase, result>>
      BY <1>6, <2>3 DEF DecideSubmit
    <3>2. saver' = [saver EXCEPT ![t] = [saver[t] EXCEPT !.pc = "waiting", !.receipt = r]]
      BY <1>1, <3>1
    <3>3. saver'[t].pc = "waiting" /\ saver'[t].receipt = r
      BY <1>1, <3>2 DEF Locals
    <3> QED BY <1>1, <1>6, <2>1, <3>1, <3>2, <3>3
  <2> QED BY <2>2, <2>3
<1>7. ASSUME NEW r \in Receipts, DecideRejected(t, r) PROVE Goal
  BY <1>2, <1>7 DEF DecideRejected
<1>8. CASE \E w \in MayWait(t) : Call(t, w)
  <2>1. PICK w : Call(t, w)
    BY <1>8
  <2>2. saver' = [saver EXCEPT ![t] = [Idle EXCEPT !.pc = "checked", !.wait = w]]
        /\ UNCHANGED <<phase, result, since, overtaken, player>>
    BY <2>1 DEF Call, finalVars, lifeVars
  <2>3. saver'[t].pc = "checked" /\ \A u \in Savers \ {t} : saver'[u] = saver[u]
    BY <1>1, <2>2 DEF Idle
  <2> QED BY <2>2, <2>3
<1> HIDE DEF Goal
<1> QED BY <1>3, <1>4, <1>5, <1>6, <1>7, <1>8 DEF Save, SaveStep

\* The life of the session: before the final save there is nothing to say of it; disconnect
\* waits inside it, holding a snapshot once since is not empty; when it has returned, the own
\* thread makes no other.
LifeInv ==
  /\ phase \in {"registered", "playing"} => since = {} /\ result = "none"
  /\ phase \in {"registered", "leaving", "gone"} => saver[Own].pc = "idle"
  /\ phase = "saving" => /\ result = "none" /\ saver[Own].pc # "idle" /\ saver[Own].wait
                         /\ saver[Own].pc = "checked" <=> since = {}
  /\ result \in {"queued", "unchanged"} => since # {}
  /\ since # {} /\ phase # "gone" => player \in since

\* The final save is the last call of the own thread.
LEMMA OwnLifeStep ==
  ASSUME SessionTypeOK, LifeInv, [SessionNext]_allVars
  PROVE  LifeInv'
<1>0. Own \in Savers /\ saver \in [Savers -> Locals] /\ saver[Own] \in Locals
  BY DEF SessionTypeOK, Savers, Locals
<1>1. CASE UNCHANGED <<saver, result, since, overtaken, phase, player>>
  BY <1>1 DEF LifeInv
<1>2. CASE SetPersistedState \/ DropPlayer
  BY <1>2 DEF SetPersistedState, DropPlayer, finalVars, LifeInv
<1>3. CASE Disconnect
  <2>1. saver'[Own].pc = "checked" /\ saver'[Own].wait
    BY <1>0, <1>3 DEF Disconnect, Idle
  <2> QED BY <1>3, <2>1 DEF Disconnect, finalVars, LifeInv
<1>4. ASSUME NEW s \in States, Change(s) PROVE LifeInv'
  BY <1>4 DEF Change, LifeInv
<1>5. ASSUME NEW t \in Savers, Save(t) PROVE LifeInv'
  <2>1. CASE t # Own \/ phase # "saving"
    <3>1. UNCHANGED <<phase, result, since, player>> /\ (t # Own => saver'[Own] = saver[Own])
      BY <1>0, <1>5, <2>1, SaveLocals
    <3>2. t = Own => phase = "playing"
      BY <1>5, <2>1 DEF Save, SaveStep, NoSnapshot, Snapshot, DecideUnchanged, Waited,
         DecideSubmit, DecideRejected, Call, LifeInv, SessionTypeOK, Phases
    <3> QED BY <3>1, <3>2 DEF LifeInv
  <2>2. CASE t = Own /\ phase = "saving"
    <3>1. ASSUME NEW v, Return(Own, v), UNCHANGED <<since, player>>,
                 v \in {"queued", "unchanged"} => since # {}
          PROVE  LifeInv'
      BY <1>0, <2>2, <3>1 DEF Return, Idle, LifeInv
    <3>2. saver[Own].wait /\ (saver[Own].pc # "checked" => since # {})
      BY <2>2 DEF LifeInv
    <3>3. CASE NoSnapshot(Own)
      BY <3>1, <3>2, <3>3 DEF NoSnapshot
    <3>4. CASE Waited(Own)
      BY <3>1, <3>2, <3>4 DEF Waited
    <3>5. CASE Snapshot(Own)
      <4>1. /\ saver' = [saver EXCEPT ![Own] = [saver[Own] EXCEPT !.pc = "decide", !.snapshot = player]]
            /\ since' = {player} /\ UNCHANGED <<phase, player, result>>
        BY <1>0, <2>2, <3>5 DEF Snapshot, lifeVars
      <4>2. saver'[Own].pc = "decide" /\ saver'[Own].wait
        BY <1>0, <3>2, <4>1 DEF Locals
      <4> QED BY <2>2, <4>1, <4>2 DEF LifeInv
    <3>6. ASSUME UNCHANGED <<since, player, phase, result>>, since # {},
                 saver'[Own].wait, saver'[Own].pc \in {"waiting", "joining"}
          PROVE  LifeInv'
      BY <2>2, <3>6 DEF LifeInv
    <3>7. CASE DecideUnchanged(Own)
      <4>1. since # {} /\ UNCHANGED <<since, player>>
        BY <3>2, <3>7 DEF DecideUnchanged
      <4>2. CASE \E v : Return(Own, v)
        BY <3>1, <4>1, <4>2
      <4>3. CASE ~\E v : Return(Own, v)
        <5>1. /\ saver' = [saver EXCEPT ![Own].pc = "joining", ![Own].receipt = last_receipt]
              /\ UNCHANGED <<phase, result>>
          BY <3>7, <4>3 DEF DecideUnchanged
        <5>2. saver'[Own] = [saver[Own] EXCEPT !.pc = "joining", !.receipt = last_receipt]
          BY <1>0, <5>1
        <5>3. saver'[Own].pc = "joining" /\ saver'[Own].wait
          BY <1>0, <3>2, <5>2 DEF Locals
        <5> QED BY <3>6, <4>1, <5>1, <5>3
      <4> QED BY <4>2, <4>3
    <3>8. ASSUME NEW r \in Receipts, DecideSubmit(Own, r) PROVE LifeInv'
      <4>1. /\ since # {} /\ UNCHANGED <<since, player, phase, result>>
            /\ saver' = [saver EXCEPT ![Own].pc = "waiting", ![Own].receipt = r]
        BY <3>2, <3>8 DEF DecideSubmit
      <4>2. saver'[Own] = [saver[Own] EXCEPT !.pc = "waiting", !.receipt = r]
        BY <1>0, <4>1
      <4>3. saver'[Own].pc = "waiting" /\ saver'[Own].wait
        BY <1>0, <3>2, <4>2 DEF Locals
      <4> QED BY <3>6, <4>1, <4>3
    <3>9. ASSUME NEW r \in Receipts, DecideRejected(Own, r) PROVE LifeInv'
      BY <3>1, <3>9 DEF DecideRejected
    <3>10. ~\E w \in MayWait(Own) : Call(Own, w)
      BY <2>2 DEF Call
    <3> QED BY <1>5, <2>2, <3>3, <3>4, <3>5, <3>7, <3>8, <3>9, <3>10 DEF Save, SaveStep
  <2> QED BY <2>1, <2>2
<1> QED BY <1>1, <1>2, <1>3, <1>4, <1>5, SaverCases

\* The row holds a state of S, and so does whatever of this session is still to be written.
SafeIn(S) ==
  /\ durable[User] \in S
  /\ Pending(User) => saveOf[User].encoded_state \in S
  /\ pc = "saving" /\ job.key = User => job.save.encoded_state \in S

\* As long as only states of T are submitted, it stays so.
LEMMA SafeKept ==
  ASSUME SessionTypeOK, WriterInv, [SessionNext]_allVars,
         NEW S, NEW T, S \subseteq T, SafeIn(S),
         \A t \in Savers, q \in Receipts : DecideSubmit(t, q) => saver[t].snapshot \in T
  PROVE  SafeIn(T)'
<1> USE DEF WriterInv
<1>0. User \in Keys /\ SafeIn(T)
  BY SessionAssumption DEF SafeIn
<1>1. ASSUME UNCHANGED <<saveOf, job, durable>>, pc' = pc \/ pc' # "saving"
      PROVE  SafeIn(T)'
  BY <1>0, <1>1 DEF SafeIn, Pending
<1>2. CASE HandsOff
  BY <1>0, <1>2 DEF HandsOff, Resting, SafeIn, Pending
<1>3. CASE SetPersistedState \/ \E t \in Savers, q \in Receipts : DecideRejected(t, q)
  BY <1>1, <1>3 DEF SetPersistedState, DecideRejected, Reject, vars, queueVars, threadVars
<1>4. CASE Finish \/ Answer
  BY <1>1, <1>4 DEF Finish, Answer, queueVars
<1>5. CASE Write
  <2>1. /\ pc = "saving" /\ pc' = "finish" /\ UNCHANGED <<saveOf, job>>
        /\ durable'[User] = durable[User] \/ (job.key = User
                                              /\ durable'[User] = job.save.encoded_state)
    BY <1>0, <1>5 DEF Write, TypeOK, queueVars
  <2> QED BY <1>0, <2>1 DEF SafeIn, Pending
<1>6. ASSUME NEW t \in Savers, NEW q \in Receipts, DecideSubmit(t, q) PROVE SafeIn(T)'
  <2>1. PICK s \in States : s \in T /\ (Enqueue(User, s, q) \/ Coalesce(User, s, q))
    BY <1>6 DEF DecideSubmit, SessionTypeOK
  <2>2. saveOf'[User].encoded_state = s
    BY <1>0, <2>1 DEF Enqueue, Coalesce, TypeOK
  <2>3. UNCHANGED <<job, durable>> /\ pc' = Awake(pc)
    BY <2>1 DEF Enqueue, Coalesce, AcceptedSubmit
  <2> QED BY <1>0, <2>1, <2>2, <2>3 DEF SafeIn, Awake
<1>7. CASE Take
  <2>1. PICK k \in Keys :
          /\ job' = [key |-> k, save |-> saveOf[k]]
          /\ saveOf[k].completions # <<>>
          /\ saveOf'[k].completions = <<>>
          /\ \A l \in Keys \ {k} : saveOf'[l] = saveOf[l]
          /\ durable' = durable
    BY <1>7, TakeMoves
  <2> QED BY <1>0, <2>1 DEF SafeIn, Pending
<1>8. CASE Callback
  <2>1. UNCHANGED <<saveOf, durable>> /\ pc' = "answer"
    BY <1>8, CallbackMoves
  <2> QED BY <1>0, <2>1 DEF SafeIn, Pending
<1>9. CASE Answered
  BY <1>0, <1>9 DEF Answered, queueVars, SafeIn, Pending
<1> QED BY <1>2, <1>3, <1>4, <1>5, <1>6, <1>7, <1>8, <1>9, StepCases DEF SessionCallback

\* What a receipt promises a thread that waits for it.
Promise(r, S) ==
  /\ receipt[r] = "open" => Asked(r, S)
  /\ receipt[r] = "saved" => SafeIn(S)

\* A promise outlives every step: the answer "saved" comes when the row holds the request's
\* state or a later one, and only later ones can follow.
LEMMA PromiseKept ==
  ASSUME LastBase, [SessionNext]_allVars,
         NEW r \in Receipts, Seen(r), NEW S, NEW T, S \subseteq T, Promise(r, S),
         \A t \in Savers, q \in Receipts : DecideSubmit(t, q) => saver[t].snapshot \in T
  PROVE  Promise(r, T)'
<1> USE DEF LastBase, BeliefInv, WriterInv
<1>0. User \in Keys
  BY SessionAssumption
<1>1. receipt'[r] = receipt[r] \/ Answer
  BY SeenKept
<1>2. ASSUME receipt'[r] = "open" PROVE Asked(r, T)'
  <2>1. receipt[r] = "open"
    BY <1>1, <1>2 DEF Answer, TypeOK
  <2> QED BY <1>2, <2>1, AskedKept DEF Promise
<1>3. ASSUME receipt'[r] = "saved" PROVE SafeIn(T)'
  <2>1. CASE receipt'[r] = receipt[r]
    BY <1>3, <2>1, SafeKept DEF Promise
  <2>2. CASE receipt'[r] # receipt[r]
    <3>1. /\ pc = "answer" /\ pc' = "callback" /\ UNCHANGED <<saveOf, job, success, durable>>
          /\ r = Head(job.save.completions).receipt /\ success
          /\ job.save.completions \in Seq(Completion) /\ job.save.completions # <<>>
      BY <1>1, <1>3, <2>2 DEF Answer, TypeOK, PendingSave, queueVars
    <3>2. InList(r, job.save.completions)
      BY <3>1, HeadAndTail
    <3>3. receipt[r] = "open" /\ ~InList(r, saveOf[User].completions)
      BY <1>0, <3>1, <3>2 DEF OnePlace
    <3>4. /\ job.key = User /\ job.save.encoded_state \in S
          /\ Pending(User) => saveOf[User].encoded_state \in S
      BY <3>3 DEF Promise, Asked
    <3>5. durable[User] \in S
      BY <3>1, <3>4 DEF JobSound
    <3> QED BY <3>1, <3>4, <3>5 DEF SafeIn, Pending
  <2> QED BY <2>1, <2>2
<1> QED BY <1>2, <1>3 DEF Promise

\* From the final serialization on: every snapshot still to be decided is of that moment or
\* later, the receipt disconnect waits for promises such a state, and once disconnect has
\* reported success the promise is kept.
FinalFacts ==
  /\ \A t \in Savers : saver[t].pc = "decide" => saver[t].snapshot \in since
  /\ saver[Own].pc \in {"waiting", "joining"} =>
       saver[Own].receipt \in Receipts /\ Promise(saver[Own].receipt, since)
  /\ result \in {"queued", "unchanged"} => SafeIn(since)

FinalInv == since # {} /\ ~overtaken /\ ~muddled /\ ~early => FinalFacts

\* The bookkeeping is muddled, or the session saved early, for good.
LEMMA TroubleStays ==
  ASSUME SessionTypeOK, TypeOK, [SessionNext]_allVars
  PROVE  /\ muddled => muddled'
         /\ phase # "registered" => early' = early
<1>1. CASE SetPersistedState
  BY <1>1 DEF SetPersistedState
<1>2. CASE \E t \in Savers, r \in Receipts : DecideSubmit(t, r) \/ DecideRejected(t, r)
  <2>1. ASSUME NEW t \in Savers, NEW r \in Receipts, DecideSubmit(t, r)
        PROVE  muddled' = muddled /\ early' = early
    BY <2>1 DEF DecideSubmit
  <2>2. ASSUME NEW t \in Savers, NEW r \in Receipts, DecideRejected(t, r)
        PROVE  muddled' = (muddled \/ Outstanding(0)) /\ early' = early
    BY <2>2 DEF DecideRejected
  <2> QED BY <1>2, <2>1, <2>2
<1>3. CASE SessionCallback
  <2>1. early' = early
    BY <1>3 DEF SessionCallback
  <2>2. muddled => muddled'
    BY <1>3 DEF SessionCallback, SaveCompleted
  <2> QED BY <2>1, <2>2
<1>4. CASE BooksKept
  BY <1>4 DEF BooksKept
<1> QED BY <1>1, <1>2, <1>3, <1>4, StepCases

\* Everything FinalInv leans on.
FinalBase == LastBase /\ LastInv /\ LifeInv

\* A snapshot found unchanged in the final save is the row, or its request promises it.
LEMMA UnchangedIsSafe ==
  ASSUME FinalBase, Sure, NEW S, submitted \in S, NEW r, r = last_receipt
  PROVE  /\ r = NoReceipt => SafeIn(S)
         /\ r \in Receipts => Promise(r, S)
<1> USE DEF FinalBase, LastBase, BeliefInv
<1>1. LastFacts
  BY DEF LastInv
<1>2. pc = "saving" /\ job.key = User => Mine
  BY DEF RequestsAreSound, Mine
<1>3. ASSUME r = NoReceipt PROVE SafeIn(S)
  <2>1. Quiet2
    BY <1>1, <1>3 DEF LastFacts
  <2>2. durable[User] = submitted
    BY <2>1, QuietMeansSaved
  <2> QED BY <1>2, <2>1, <2>2 DEF SafeIn, Quiet2
<1>4. ASSUME r \in Receipts PROVE Promise(r, S)
  <2>1. receipt[r] = "open" => Asked(r, S)
    <3>1. receipt[r] = "open" => Asked(r, {submitted})
      BY <1>1, <1>4 DEF LastFacts
    <3> QED BY <3>1 DEF Asked
  <2>2. receipt[r] = "saved" => SafeIn(S)
    <3>1. receipt[r] = "saved" => RowSettled
      BY <1>1, <1>4 DEF LastFacts
    <3> QED BY <3>1, <1>2 DEF RowSettled, SafeIn
  <2> QED BY <2>1, <2>2 DEF Promise
<1> QED BY <1>3, <1>4

\* The final serialization is where it starts; whoever decides after it decides for a state
\* of since, and the own thread returns only what the receipt and the books stand for.
LEMMA FinalStep ==
  ASSUME FinalBase, FinalInv, [SessionNext]_allVars
  PROVE  FinalInv'
<1> USE DEF FinalBase, LastBase, BeliefInv
<1>0. /\ Own \in Savers /\ NoReceipt \notin Receipts
      /\ saver \in [Savers -> Locals] /\ \A t \in Savers : saver[t] \in Locals
  BY SessionAssumption DEF SessionTypeOK, Savers, Locals
<1> SUFFICES ASSUME since' # {}, ~overtaken', ~muddled', ~early'
             PROVE  FinalFacts'
  BY DEF FinalInv
<1>1. CASE since = {}
  <2>1. phase = "saving" /\ Snapshot(Own)
    <3>1. ~(SetPersistedState \/ Disconnect \/ DropPlayer \/ \E s \in States : Change(s))
      BY <1>1 DEF SetPersistedState, Disconnect, DropPlayer, Change, finalVars
    <3>2. PICK t \in Savers : Save(t)
      BY <1>1, <3>1, SaverCases
    <3>3. t = Own /\ phase = "saving" /\ Snapshot(t)
      BY <1>1, <3>2, SaveLocals
    <3> QED BY <3>3
  <2>2. /\ since' = {player} /\ result' = result
        /\ overtaken' = \E u \in Savers : saver[u].pc = "decide" /\ saver[u].snapshot # player
        /\ saver' = [saver EXCEPT ![Own] = [saver[Own] EXCEPT !.pc = "decide", !.snapshot = player]]
    BY <1>0, <2>1 DEF Snapshot
  <2>3. saver'[Own].pc = "decide" /\ saver'[Own].snapshot = player
        /\ \A t \in Savers \ {Own} : saver'[t] = saver[t]
    BY <1>0, <2>2 DEF Locals
  <2>4. \A t \in Savers : saver'[t].pc = "decide" => saver'[t].snapshot = player
    BY <2>2, <2>3
  <2>5. result' = "none"
    BY <2>1, <2>2 DEF LifeInv
  <2> QED BY <2>2, <2>3, <2>4, <2>5 DEF FinalFacts
<1>2. CASE since # {}
  <2>1. phase \in {"saving", "leaving", "gone"}
    BY <1>2 DEF LifeInv, SessionTypeOK, Phases
  <2>2. ASSUME NEW t \in Savers, Save(t)
        PROVE  UNCHANGED <<since, overtaken>>
    <3>1. CASE Snapshot(t) /\ t = Own /\ phase = "saving"
      BY <1>2, <3>1 DEF Snapshot, LifeInv
    <3> QED BY <2>2, <3>1, SaveLocals
  <2>3. ~SetPersistedState /\ ~Disconnect
    BY <2>1 DEF SetPersistedState, Disconnect
  <2>4. since \subseteq since' /\ overtaken' = overtaken
    BY <2>2, <2>3, SaverCases DEF DropPlayer, Change, finalVars
  <2>5. ~muddled /\ ~early /\ Sure
    BY <2>1, TroubleStays DEF WriterInv, Sure
  <2>6. FinalFacts
    BY <1>2, <2>4, <2>5 DEF FinalInv
  <2> PICK S : S = since
    OBVIOUS
  <2> PICK T : T = since'
    OBVIOUS
  <2>7. S \subseteq T /\ \A t \in Savers, q \in Receipts : DecideSubmit(t, q) => saver[t].snapshot \in T
    BY <2>4, <2>6 DEF FinalFacts, DecideSubmit
  <2>8. SafeIn(S) => SafeIn(T)'
    BY <2>7, SafeKept
  <2>9. ASSUME NEW r \in Receipts, Seen(r), Promise(r, S) PROVE Promise(r, T)'
    BY <2>7, <2>9, PromiseKept
  <2>10. ASSUME NEW t \in Savers, saver'[t].pc = "decide"
         PROVE  saver'[t].snapshot \in T
    <3>1. CASE saver'[t] = saver[t]
      BY <2>4, <2>6, <2>10, <3>1 DEF FinalFacts
    <3>2. CASE saver'[t] # saver[t]
      <4>1. Save(t)
        <5>1. PICK u \in Savers : Save(u)
          BY <2>3, <3>2, SaverCases DEF DropPlayer, Change
        <5>2. u = t
          BY <3>2, <5>1, SaveLocals
        <5> QED BY <5>1, <5>2
      <4>2. phase # "gone" /\ saver'[t].snapshot = player
        BY <2>10, <4>1, SaveLocals
      <4> QED BY <1>2, <2>4, <4>2 DEF LifeInv
    <3> QED BY <3>1, <3>2
  <2>11. ASSUME saver'[Own].pc \in {"waiting", "joining"}
         PROVE  saver'[Own].receipt \in Receipts /\ Promise(saver[Own].receipt, T)'
    <3> PICK r : r = saver'[Own].receipt
      OBVIOUS
    <3>1. CASE saver'[Own] = saver[Own]
      <4>1. r \in Receipts /\ Promise(r, S) /\ Seen(r)
        BY <1>0, <2>6, <2>11, <3>1 DEF FinalFacts, Seen
      <4>2. Promise(r, T)'
        BY <2>9, <4>1
      <4> QED BY <4>1, <4>2 DEF Promise
    <3>2. CASE saver'[Own] # saver[Own]
      <4>1. Save(Own)
        <5>1. PICK u \in Savers : Save(u)
          BY <2>3, <3>2, SaverCases DEF DropPlayer, Change
        <5>2. u = Own
          BY <1>0, <3>2, <5>1, SaveLocals
        <5> QED BY <5>1, <5>2
      <4>2. CASE saver'[Own].pc = "waiting"
        <5>1. r \in Receipts /\ DecideSubmit(Own, r)
          BY <1>0, <4>1, <4>2, SaveLocals
        <5>2. PICK s \in States : s \in T /\ s = saver[Own].snapshot
                                  /\ (Enqueue(User, s, r) \/ Coalesce(User, s, r))
          BY <1>0, <2>7, <5>1 DEF DecideSubmit, SessionTypeOK
        <5>3. PICK save \in PendingSave :
                /\ saveOf' = [saveOf EXCEPT ![User] = save]
                /\ save.encoded_state = s /\ InList(r, save.completions)
          BY <5>1, <5>2, AcceptedSave, SessionAssumption DEF WriterInv
        <5>4. /\ saveOf'[User] = save /\ receipt'[r] = "open"
          BY <5>1, <5>2, <5>3, SessionAssumption DEF WriterInv, TypeOK, Enqueue, Coalesce
        <5>5. Promise(r, T)'
          BY <5>2, <5>3, <5>4 DEF Promise, Asked
        <5> QED BY <5>1, <5>5 DEF Promise
      <4>3. CASE saver'[Own].pc = "joining"
        <5>1. /\ DecideUnchanged(Own) /\ r = last_receipt /\ r \in Receipts
          BY <1>0, <4>1, <4>3, SaveLocals
        <5>2. submitted \in S
          BY <1>0, <2>6, <5>1 DEF DecideUnchanged, FinalFacts
        <5>3. Promise(r, S) /\ Seen(r)
          BY <2>5, <5>1, <5>2, UnchangedIsSafe DEF Seen
        <5>4. Promise(r, T)'
          BY <2>9, <5>1, <5>3
        <5> QED BY <5>1, <5>4 DEF Promise
      <4> QED BY <2>11, <4>2, <4>3
    <3> QED BY <3>1, <3>2
  <2>12. ASSUME result' \in {"queued", "unchanged"} PROVE SafeIn(T)'
    <3>1. CASE result' = result
      BY <2>6, <2>8, <2>12, <3>1 DEF FinalFacts
    <3>2. CASE result' # result
      <4>1. Save(Own) /\ phase = "saving"
        <5>1. PICK u \in Savers : Save(u)
          BY <2>3, <3>2, SaverCases DEF DropPlayer, Change, finalVars
        <5>2. u = Own /\ phase = "saving"
          BY <1>0, <3>2, <5>1, SaveLocals
        <5> QED BY <5>1, <5>2
      <4>2. saver[Own].wait
        BY <4>1 DEF LifeInv
      <4>3. ~\E q \in Receipts : DecideSubmit(Own, q) \/ DecideRejected(Own, q)
        BY <2>12, <3>2, <4>1, <4>2 DEF DecideSubmit, DecideRejected, Return
      <4>4. ~NoSnapshot(Own) /\ ~Snapshot(Own) /\ ~\E w \in MayWait(Own) : Call(Own, w)
        BY <2>12, <3>2, <4>1, <4>2 DEF NoSnapshot, Snapshot, Call, Return, finalVars
      <4>5. CASE Waited(Own)
        <5> PICK r : r = saver[Own].receipt
          OBVIOUS
        <5>1. saver[Own].pc \in {"waiting", "joining"} /\ receipt[r] = "saved"
          BY <2>12, <4>1, <4>5 DEF Waited, Return
        <5>2. SafeIn(S)
          BY <2>6, <5>1 DEF FinalFacts, Promise
        <5> QED BY <2>8, <5>2
      <4>6. CASE DecideUnchanged(Own)
        <5> PICK r : r = last_receipt
          OBVIOUS
        <5>1. submitted \in S
          BY <1>0, <2>6, <4>6 DEF DecideUnchanged, FinalFacts
        <5>2. r = NoReceipt \/ (r \in Receipts /\ receipt[r] = "saved")
          BY <2>12, <3>2, <4>1, <4>2, <4>6 DEF DecideUnchanged, Return, SessionTypeOK
        <5>3. SafeIn(S)
          BY <2>5, <5>1, <5>2, UnchangedIsSafe DEF Promise
        <5> QED BY <2>8, <5>3
      <4> QED BY <4>1, <4>3, <4>4, <4>5, <4>6 DEF Save, SaveStep
    <3> QED BY <3>1, <3>2
  <2>13. Promise(saver[Own].receipt, T)' <=> Promise(saver[Own].receipt, since)'
    BY DEF Promise, Asked, SafeIn
  <2>14. SafeIn(T)' <=> SafeIn(since)'
    BY DEF SafeIn
  <2> QED BY <2>10, <2>11, <2>12, <2>13, <2>14 DEF FinalFacts
<1> QED BY <1>1, <1>2

\* A session that begins has nothing to promise.
LEMMA FinalInit == SessionInit => FinalBase /\ FinalInv
<1> SUFFICES ASSUME SessionInit PROVE FinalBase /\ FinalInv
  OBVIOUS
<1>1. BeliefInv
  BY BeliefInit
<1>2. OnePlace
  BY EmptySaveType DEF SessionInit, Ready, InitWith, OnePlace, NoJob, Distinct, InList
<1>3. SeenInUse
  BY SessionAssumption DEF SessionInit, SeenInUse, Seen, Idle
<1>4. LastInv
  BY DEF SessionInit, LastInv, Sure
<1>5. LifeInv
  <2>1. saver[Own].pc = "idle"
    BY DEF SessionInit, Savers, Idle
  <2> QED BY <2>1 DEF SessionInit, LifeInv
<1>6. FinalInv
  BY DEF SessionInit, FinalInv
<1> QED BY <1>1, <1>2, <1>3, <1>4, <1>5, <1>6 DEF FinalBase, LastBase

\* A final save that did not report failure stands: once the writer is quiet the row holds
\* the snapshot of that save or a later one, whatever other threads saved meanwhile, unless
\* one of them held an older snapshot when the final one was taken.
THEOREM FinalSaves == SessionSpec => []FinalSaveStands
<1> DEFINE Inv == FinalBase /\ FinalInv
<1>1. Inv /\ [SessionNext]_allVars => Inv'
  <2> SUFFICES ASSUME Inv, [SessionNext]_allVars PROVE Inv'
    OBVIOUS
  <2>1. BeliefInv'
    BY BeliefStep DEF FinalBase, LastBase
  <2>2. OnePlace'
    BY OnePlaceStep DEF FinalBase, LastBase, BeliefInv
  <2>3. SeenInUse'
    BY SeenStep DEF FinalBase, LastBase, BeliefInv, WriterInv
  <2>4. LastInv'
    BY LastStep DEF FinalBase
  <2>5. LifeInv'
    BY OwnLifeStep DEF FinalBase, LastBase, BeliefInv
  <2>6. FinalInv'
    BY FinalStep
  <2> QED BY <2>1, <2>2, <2>3, <2>4, <2>5, <2>6 DEF FinalBase, LastBase
<1>2. Inv => FinalSaveStands
  BY DEF FinalBase, LifeInv, FinalInv, FinalFacts, FinalSaveStands, FinalSaveOK, SafeIn
<1> QED BY <1>1, <1>2, FinalInit, PTL DEF SessionSpec
================================================================================
