------------------------------ MODULE LoginProofs ------------------------------
(***************************************************************************)
(* Proofs about the way from a connection to a session: the pool's places, *)
(* the dialogue and the answers it waits for, the claims of new accounts,  *)
(* the players' places, the registry of sessions, and the state a session  *)
(* begins with.                                                            *)
(*                                                                         *)
(* The pool is looked at as three collections of connections: those with a *)
(* task queued, in hand and answered.  What happens to the pool is one of  *)
(* five moves, and the invariants about it are proved for the moves.       *)
(***************************************************************************)
EXTENDS Login, FiniteSetTheorems, TLAPS

-------------------------------------------------------------------------------
(* Sequences without repetition *)

Values(s) == {s[i] : i \in DOMAIN s}
OneEach(s) == \A i, j \in DOMAIN s : s[i] = s[j] => i = j

\* A new value at the end of a sequence without repetition
LEMMA AppendValues ==
  ASSUME NEW S, NEW s \in Seq(S), NEW x \in S
  PROVE  /\ Values(Append(s, x)) = Values(s) \cup {x}
         /\ OneEach(s) /\ x \notin Values(s) => OneEach(Append(s, x))
<1> DEFINE a == Append(s, x)
<1>1. /\ Len(s) \in Nat /\ DOMAIN s = 1..Len(s) /\ DOMAIN a = 1..(Len(s) + 1)
      /\ a[Len(s) + 1] = x /\ \A i \in 1..Len(s) : a[i] = s[i]
  OBVIOUS
<1> HIDE DEF a
<1>2. Values(a) = Values(s) \cup {x}
  BY <1>1 DEF Values
<1>3. OneEach(s) /\ x \notin Values(s) => OneEach(a)
  BY <1>1 DEF Values, OneEach
<1> QED BY <1>2, <1>3 DEF a

\* What the first value leaves of a sequence
LEMMA TailParts ==
  ASSUME NEW S, NEW s \in Seq(S), s # <<>>
  PROVE  /\ Len(s) \in Nat \ {0} /\ DOMAIN s = 1..Len(s)
         /\ Tail(s) \in Seq(S) /\ DOMAIN Tail(s) = 1..(Len(s) - 1)
         /\ Tail(s) = [i \in 1..(Len(s) - 1) |-> s[i + 1]]
         /\ Head(s) = s[1] /\ Head(s) \in S
<1>1. Len(s) \in Nat \ {0} /\ DOMAIN s = 1..Len(s) /\ Tail(s) \in Seq(S) /\ Head(s) = s[1]
      /\ Len(Tail(s)) = Len(s) - 1
  OBVIOUS
<1>2. \A i \in 1..(Len(s) - 1) : Tail(s)[i] = s[i + 1]
  OBVIOUS
<1>3. Tail(s) = [i \in 1..(Len(s) - 1) |-> Tail(s)[i]]
  <2>1. \A t \in Seq(S) : t = [i \in 1..Len(t) |-> t[i]]
    OBVIOUS
  <2> QED BY <1>1, <2>1
<1>4. Head(s) \in S
  OBVIOUS
<1> QED BY <1>1, <1>2, <1>3, <1>4

\* A sequence without repetition without its first value
LEMMA TailValues ==
  ASSUME NEW S, NEW s \in Seq(S), s # <<>>
  PROVE  /\ Values(s) = Values(Tail(s)) \cup {Head(s)}
         /\ OneEach(s) => OneEach(Tail(s)) /\ Head(s) \notin Values(Tail(s))
<1> DEFINE t == Tail(s)
<1>1. /\ Len(s) \in Nat \ {0} /\ DOMAIN s = 1..Len(s) /\ DOMAIN t = 1..(Len(s) - 1)
      /\ Head(s) = s[1] /\ \A i \in 1..(Len(s) - 1) : t[i] = s[i + 1]
  OBVIOUS
<1> HIDE DEF t
<1>2. \A i \in 2..Len(s) : i - 1 \in 1..(Len(s) - 1) /\ s[i] = t[i - 1]
  BY <1>1
<1>3. Values(s) = Values(t) \cup {s[1]}
  <2>1. \A i \in DOMAIN s : i = 1 \/ i \in 2..Len(s)
    BY <1>1
  <2>2. \A i \in DOMAIN t : i + 1 \in DOMAIN s
    BY <1>1
  <2>3. 1 \in DOMAIN s
    BY <1>1
  <2>4. ASSUME NEW v \in Values(s)
        PROVE  v \in Values(t) \cup {s[1]}
    <3>1. PICK i \in DOMAIN s : v = s[i]
      BY DEF Values
    <3>2. CASE i \in 2..Len(s)
      <4>1. i - 1 \in DOMAIN t /\ v = t[i - 1]
        BY <1>1, <1>2, <3>1, <3>2
      <4> QED BY <4>1 DEF Values
    <3> QED BY <2>1, <3>1, <3>2
  <2>5. \A i \in DOMAIN t : t[i] = s[i + 1]
    BY <1>1
  <2>6. Values(t) \subseteq Values(s) /\ s[1] \in Values(s)
    BY <2>2, <2>3, <2>5 DEF Values
  <2> QED BY <2>4, <2>6
<1>4. ASSUME OneEach(s) PROVE OneEach(t) /\ s[1] \notin Values(t)
  <2>1. ASSUME NEW i \in DOMAIN t
        PROVE  i \in Int /\ i >= 1 /\ i + 1 \in DOMAIN s /\ t[i] = s[i + 1]
    BY <1>1
  <2>2. 1 \in DOMAIN s
    BY <1>1
  <2>3. s[1] \notin Values(t)
    <3> SUFFICES ASSUME NEW i \in DOMAIN t, t[i] = s[1] PROVE FALSE
      BY DEF Values
    <3>1. i + 1 = 1
      BY <1>4, <2>1, <2>2 DEF OneEach
    <3> QED BY <2>1, <3>1
  <2>4. ASSUME NEW i \in DOMAIN t, NEW j \in DOMAIN t, t[i] = t[j] PROVE i = j
    <3>1. i + 1 = j + 1
      BY <1>4, <2>1, <2>4 DEF OneEach
    <3> QED BY <2>1, <3>1
  <2> QED BY <2>3, <2>4 DEF OneEach
<1> QED BY <1>1, <1>3, <1>4 DEF t

\* Two sequences, one after the other
LEMMA ConcatParts ==
  ASSUME NEW S, NEW s \in Seq(S), NEW t \in Seq(S)
  PROVE  /\ s \o t \in Seq(S) /\ Len(s \o t) = Len(s) + Len(t)
         /\ DOMAIN (s \o t) = 1..(Len(s) + Len(t))
         /\ \A i \in 1..Len(s) : (s \o t)[i] = s[i]
         /\ \A i \in (Len(s) + 1)..(Len(s) + Len(t)) : (s \o t)[i] = t[i - Len(s)]
         /\ s \o t = [i \in 1..(Len(s) + Len(t)) |-> (s \o t)[i]]
<1>1. s \o t \in Seq(S) /\ Len(s \o t) = Len(s) + Len(t)
  OBVIOUS
<1>2. /\ Len(s) \in Nat /\ Len(t) \in Nat /\ DOMAIN (s \o t) = 1..(Len(s) + Len(t))
      /\ \A i \in 1..Len(s) : (s \o t)[i] = s[i]
      /\ \A i \in (Len(s) + 1)..(Len(s) + Len(t)) : (s \o t)[i] = t[i - Len(s)]
  OBVIOUS
<1>3. \A q \in Seq(S) : q = [i \in 1..Len(q) |-> q[i]]
  OBVIOUS
<1>4. s \o t = [i \in 1..(Len(s) + Len(t)) |-> (s \o t)[i]]
  BY <1>1, <1>3
<1> QED BY <1>1, <1>2, <1>4

\* Two sequences that have no value in common, one after the other
LEMMA ConcatValues ==
  ASSUME NEW S, NEW s \in Seq(S), NEW t \in Seq(S)
  PROVE  /\ Values(s \o t) = Values(s) \cup Values(t)
         /\ OneEach(s) /\ OneEach(t) /\ Values(s) \cap Values(t) = {} => OneEach(s \o t)
<1> DEFINE a == s \o t
<1>1. /\ Len(s) \in Nat /\ Len(t) \in Nat /\ DOMAIN s = 1..Len(s) /\ DOMAIN t = 1..Len(t)
      /\ DOMAIN a = 1..(Len(s) + Len(t)) /\ \A i \in 1..Len(s) : a[i] = s[i]
      /\ \A i \in (Len(s) + 1)..(Len(s) + Len(t)) : a[i] = t[i - Len(s)]
  OBVIOUS
<1> HIDE DEF a
<1>2. /\ \A i \in DOMAIN a : \/ i \in DOMAIN s /\ a[i] = s[i]
                             \/ i - Len(s) \in DOMAIN t /\ i > Len(s) /\ a[i] = t[i - Len(s)]
      /\ \A i \in DOMAIN s : i \in DOMAIN a /\ a[i] = s[i]
      /\ \A i \in DOMAIN t : i + Len(s) \in DOMAIN a /\ a[i + Len(s)] = t[i]
  BY <1>1
<1>3. Values(a) = Values(s) \cup Values(t)
  BY <1>2 DEF Values
<1>4. OneEach(s) /\ OneEach(t) /\ Values(s) \cap Values(t) = {} => OneEach(a)
  <2> SUFFICES ASSUME OneEach(s), OneEach(t), Values(s) \cap Values(t) = {},
                      NEW i \in DOMAIN a, NEW j \in DOMAIN a, a[i] = a[j]
               PROVE  i = j
    BY DEF OneEach
  <2>1. \A k \in DOMAIN s, l \in DOMAIN t : s[k] # t[l]
    BY DEF Values
  <2> QED BY <1>1, <1>2, <2>1 DEF OneEach
<1> QED BY <1>3, <1>4 DEF a

-------------------------------------------------------------------------------
(* The pool *)

ConnsOf(tasks) == [i \in DOMAIN tasks |-> tasks[i].conn]
AnsweredTo(results) == [i \in DOMAIN results |-> results[i].task.conn]

Waiting == Values(ConnsOf(work))
Held    == {t.conn : t \in running}
Done    == Values(AnsweredTo(completed))

\* Every connection has one task in the pool while its controller is busy, and none otherwise,
\* and the capacity is what they leave.
PoolInv ==
  /\ work \in Seq(Task) /\ running \subseteq Task /\ completed \in Seq(Result)
  /\ capacity \in Nat /\ busy \in [Connections -> BOOLEAN]
  /\ OneEach(ConnsOf(work)) /\ OneEach(AnsweredTo(completed))
  /\ \A t, u \in running : t.conn = u.conn => t = u
  /\ Waiting \cap Held = {} /\ Waiting \cap Done = {} /\ Held \cap Done = {}
  /\ \A c \in Connections : busy[c] <=> c \in Waiting \cup Held \cup Done
  /\ IsFiniteSet(running)
  /\ capacity + Len(work) + Cardinality(running) + Len(completed) = PoolLimit

\* The five moves
Asked(c, op, n, s) ==
  /\ ~busy[c] /\ capacity > 0 /\ capacity' = capacity - 1
  /\ work' = Append(work, [conn |-> c, op |-> op, name |-> n, state |-> s])
  /\ busy' = [busy EXCEPT ![c] = TRUE]
  /\ UNCHANGED <<running, completed>>

Fetched ==
  /\ work # <<>>
  /\ running' = running \cup {Head(work)} /\ work' = Tail(work)
  /\ UNCHANGED <<completed, capacity, busy>>

Performed(t, r) ==
  /\ t \in running /\ r.task.conn = t.conn /\ r.task.op = t.op
  /\ running' = running \ {t} /\ completed' = Append(completed, r)
  /\ UNCHANGED <<work, capacity, busy>>

Drained(c) ==
  /\ completed # <<>> /\ Head(completed).task.conn = c
  /\ completed' = Tail(completed) /\ capacity' = capacity + 1
  /\ busy' = [busy EXCEPT ![c] = FALSE]
  /\ UNCHANGED <<work, running>>

Cancelled == CancelPending /\ UNCHANGED <<running, capacity, busy>>

\* The numbers of the pool
LEMMA ConstantsType ==
  /\ PoolLimit \in Nat /\ FailureLimit \in Nat /\ CreationLimit \in Nat /\ PlayerLimit \in Nat
  /\ FailureLimit >= 1 /\ CreationLimit >= 1 /\ PlayerLimit >= 1
  /\ IsFiniteSet(Connections) /\ InitialState \in States
BY LoginAssumption DEF PoolLimit

\* The connections of tasks and results are connections.
LEMMA ConnsType ==
  /\ \A s \in Seq(Task) : ConnsOf(s) \in Seq(Connections) /\ Len(ConnsOf(s)) = Len(s)
                          /\ DOMAIN ConnsOf(s) = 1..Len(s)
  /\ \A s \in Seq(Result) : AnsweredTo(s) \in Seq(Connections) /\ Len(AnsweredTo(s)) = Len(s)
                            /\ DOMAIN AnsweredTo(s) = 1..Len(s)
<1>1. ASSUME NEW s \in Seq(Task)
      PROVE  ConnsOf(s) \in Seq(Connections) /\ Len(ConnsOf(s)) = Len(s)
             /\ DOMAIN ConnsOf(s) = 1..Len(s)
  <2>1. /\ Len(s) \in Nat /\ DOMAIN s = 1..Len(s)
        /\ \A i \in 1..Len(s) : s[i] \in Task
    OBVIOUS
  <2>2. \A i \in 1..Len(s) : s[i].conn \in Connections
    BY <2>1 DEF Task
  <2> QED BY <2>1, <2>2 DEF ConnsOf
<1>2. ASSUME NEW s \in Seq(Result)
      PROVE  AnsweredTo(s) \in Seq(Connections) /\ Len(AnsweredTo(s)) = Len(s)
             /\ DOMAIN AnsweredTo(s) = 1..Len(s)
  <2>1. /\ Len(s) \in Nat /\ DOMAIN s = 1..Len(s)
        /\ \A i \in 1..Len(s) : s[i] \in Result
    OBVIOUS
  <2>2. \A i \in 1..Len(s) : s[i].task.conn \in Connections
    BY <2>1 DEF Result, Task
  <2> QED BY <2>1, <2>2 DEF AnsweredTo
<1> QED BY <1>1, <1>2

\* How the moves change the connections of tasks and results
LEMMA ConnsMove ==
  /\ \A s \in Seq(Task), t \in Task : ConnsOf(Append(s, t)) = Append(ConnsOf(s), t.conn)
  /\ \A s \in Seq(Result), r \in Result :
       AnsweredTo(Append(s, r)) = Append(AnsweredTo(s), r.task.conn)
  /\ \A s \in Seq(Task) : s # <<>> =>
       /\ ConnsOf(Tail(s)) = Tail(ConnsOf(s)) /\ Head(ConnsOf(s)) = Head(s).conn
       /\ ConnsOf(s) # <<>> /\ Head(s) \in Task /\ Tail(s) \in Seq(Task)
  /\ \A s \in Seq(Result) : s # <<>> =>
       /\ AnsweredTo(Tail(s)) = Tail(AnsweredTo(s)) /\ Head(AnsweredTo(s)) = Head(s).task.conn
       /\ AnsweredTo(s) # <<>> /\ Head(s) \in Result /\ Tail(s) \in Seq(Result)
<1>1. ASSUME NEW s \in Seq(Task), NEW t \in Task
      PROVE  ConnsOf(Append(s, t)) = Append(ConnsOf(s), t.conn)
  <2> DEFINE a == Append(s, t)
             b == Append(ConnsOf(s), t.conn)
  <2>1. /\ Len(s) \in Nat /\ DOMAIN a = 1..(Len(s) + 1) /\ a[Len(s) + 1] = t
        /\ \A i \in 1..Len(s) : a[i] = s[i]
    OBVIOUS
  <2> t.conn \in Connections
    BY DEF Task
  <2>2. /\ ConnsOf(s) \in Seq(Connections) /\ t.conn \in Connections /\ Len(ConnsOf(s)) = Len(s)
        /\ DOMAIN ConnsOf(s) = 1..Len(s)
    BY ConnsType
  <2>3. /\ DOMAIN b = 1..(Len(s) + 1) /\ b[Len(s) + 1] = t.conn
        /\ \A i \in 1..Len(s) : b[i] = ConnsOf(s)[i]
        /\ b = [i \in 1..(Len(s) + 1) |-> b[i]]
    BY <2>2
  <2>4. \A i \in 1..Len(s) : ConnsOf(s)[i] = s[i].conn
    BY DEF ConnsOf
  <2> HIDE DEF a, b
  <2>5. \A i \in 1..(Len(s) + 1) : a[i].conn = b[i]
    <3> TAKE i \in 1..(Len(s) + 1)
    <3>1. i = Len(s) + 1 \/ i \in 1..Len(s)
      BY <2>1
    <3> QED BY <2>1, <2>3, <2>4, <3>1
  <2>6. ConnsOf(a) = b
    BY <2>1, <2>3, <2>5 DEF ConnsOf
  <2> QED BY <2>6 DEF a, b
<1>2. ASSUME NEW s \in Seq(Result), NEW r \in Result
      PROVE  AnsweredTo(Append(s, r)) = Append(AnsweredTo(s), r.task.conn)
  <2> DEFINE a == Append(s, r)
             b == Append(AnsweredTo(s), r.task.conn)
  <2>1. /\ Len(s) \in Nat /\ DOMAIN a = 1..(Len(s) + 1) /\ a[Len(s) + 1] = r
        /\ \A i \in 1..Len(s) : a[i] = s[i]
    OBVIOUS
  <2> r.task.conn \in Connections
    BY DEF Result, Task
  <2>2. /\ AnsweredTo(s) \in Seq(Connections) /\ r.task.conn \in Connections
        /\ Len(AnsweredTo(s)) = Len(s) /\ DOMAIN AnsweredTo(s) = 1..Len(s)
    BY ConnsType
  <2>3. /\ DOMAIN b = 1..(Len(s) + 1) /\ b[Len(s) + 1] = r.task.conn
        /\ \A i \in 1..Len(s) : b[i] = AnsweredTo(s)[i]
        /\ b = [i \in 1..(Len(s) + 1) |-> b[i]]
    BY <2>2
  <2>4. \A i \in 1..Len(s) : AnsweredTo(s)[i] = s[i].task.conn
    BY DEF AnsweredTo
  <2> HIDE DEF a, b
  <2>5. \A i \in 1..(Len(s) + 1) : a[i].task.conn = b[i]
    <3> TAKE i \in 1..(Len(s) + 1)
    <3>1. i = Len(s) + 1 \/ i \in 1..Len(s)
      BY <2>1
    <3> QED BY <2>1, <2>3, <2>4, <3>1
  <2>6. AnsweredTo(a) = b
    BY <2>1, <2>3, <2>5 DEF AnsweredTo
  <2> QED BY <2>6 DEF a, b
<1>3. ASSUME NEW s \in Seq(Task), s # <<>>
      PROVE  /\ ConnsOf(Tail(s)) = Tail(ConnsOf(s)) /\ Head(ConnsOf(s)) = Head(s).conn
             /\ ConnsOf(s) # <<>> /\ Head(s) \in Task /\ Tail(s) \in Seq(Task)
  <2> DEFINE a == Tail(s)
             b == Tail(ConnsOf(s))
  <2>1. /\ Len(s) \in Nat \ {0} /\ DOMAIN a = 1..(Len(s) - 1) /\ Head(s) = s[1]
        /\ Head(s) \in Task /\ a \in Seq(Task) /\ \A i \in 1..(Len(s) - 1) : a[i] = s[i + 1]
    BY <1>3
  <2>2. /\ ConnsOf(s) \in Seq(Connections) /\ Len(ConnsOf(s)) = Len(s)
    BY ConnsType
  <2>3. /\ DOMAIN b = 1..(Len(s) - 1) /\ \A i \in 1..(Len(s) - 1) : b[i] = ConnsOf(s)[i + 1]
        /\ b = [i \in 1..(Len(s) - 1) |-> b[i]] /\ ConnsOf(s) # <<>>
        /\ Head(ConnsOf(s)) = ConnsOf(s)[1]
    <3>1. ConnsOf(s) # <<>>
      BY <2>1, <2>2
    <3> QED BY <2>1, <2>2, <3>1, TailParts
  <2>4. \A i \in 1..Len(s) : ConnsOf(s)[i] = s[i].conn
    BY DEF ConnsOf
  <2> HIDE DEF a, b
  <2>5. /\ 1 \in 1..Len(s) /\ \A i \in 1..(Len(s) - 1) : i + 1 \in 1..Len(s)
    BY <2>1
  <2>6. ConnsOf(a) = b
    BY <2>1, <2>3, <2>4, <2>5, ZenonT(60) DEF ConnsOf
  <2>7. Head(ConnsOf(s)) = Head(s).conn
    BY <2>1, <2>3, <2>4, <2>5
  <2> QED BY <2>1, <2>3, <2>6, <2>7 DEF a, b
<1>4. ASSUME NEW s \in Seq(Result), s # <<>>
      PROVE  /\ AnsweredTo(Tail(s)) = Tail(AnsweredTo(s))
             /\ Head(AnsweredTo(s)) = Head(s).task.conn
             /\ AnsweredTo(s) # <<>> /\ Head(s) \in Result /\ Tail(s) \in Seq(Result)
  <2> DEFINE a == Tail(s)
             b == Tail(AnsweredTo(s))
  <2>1. /\ Len(s) \in Nat \ {0} /\ DOMAIN a = 1..(Len(s) - 1) /\ Head(s) = s[1]
        /\ Head(s) \in Result /\ a \in Seq(Result) /\ \A i \in 1..(Len(s) - 1) : a[i] = s[i + 1]
    BY <1>4
  <2>2. /\ AnsweredTo(s) \in Seq(Connections) /\ Len(AnsweredTo(s)) = Len(s)
    BY ConnsType
  <2>3. /\ DOMAIN b = 1..(Len(s) - 1) /\ \A i \in 1..(Len(s) - 1) : b[i] = AnsweredTo(s)[i + 1]
        /\ b = [i \in 1..(Len(s) - 1) |-> b[i]] /\ AnsweredTo(s) # <<>>
        /\ Head(AnsweredTo(s)) = AnsweredTo(s)[1]
    <3>1. AnsweredTo(s) # <<>>
      BY <2>1, <2>2
    <3> QED BY <2>1, <2>2, <3>1, TailParts
  <2>4. \A i \in 1..Len(s) : AnsweredTo(s)[i] = s[i].task.conn
    BY DEF AnsweredTo
  <2> HIDE DEF a, b
  <2>5. /\ 1 \in 1..Len(s) /\ \A i \in 1..(Len(s) - 1) : i + 1 \in 1..Len(s)
    BY <2>1
  <2>6. AnsweredTo(a) = b
    BY <2>1, <2>3, <2>4, <2>5, ZenonT(60) DEF AnsweredTo
  <2>7. Head(AnsweredTo(s)) = Head(s).task.conn
    BY <2>1, <2>3, <2>4, <2>5
  <2> QED BY <2>1, <2>3, <2>6, <2>7 DEF a, b
<1> QED BY <1>1, <1>2, <1>3, <1>4

-------------------------------------------------------------------------------
(* The invariants *)

\* Somebody is at the prompt d of c.
At(c, d) == link[c] = "open" /\ ~authenticated[c] /\ dialogue[c] = d

\* What the selector keeps of a connection, and what of it a prompt relies on
DeskInv ==
  /\ link \in [Connections -> {"open", "closed"}]
  /\ closing \in [Connections -> BOOLEAN] /\ authenticated \in [Connections -> BOOLEAN]
  /\ has_password \in [Connections -> BOOLEAN]
  /\ dialogue \in [Connections -> Dialogues]
  /\ account \in [Connections -> Record \cup {None}]
  /\ new_name \in [Connections -> Names \cup {None}]
  /\ stopped \in BOOLEAN
  /\ \A c \in Connections :
       /\ link[c] = "closed" => ~authenticated[c] /\ dialogue[c] = "name"
       /\ stopped => link[c] = "closed"
       /\ busy[c] => ~authenticated[c]
       /\ At(c, "password") => account[c] \in Record
       /\ At(c, "new_password") \/ At(c, "confirm_password") \/ (At(c, "new_name") /\ busy[c])
            => new_name[c] \in Names

\* What is asked, and for whom: every task that is queued, in hand or answered
Tasks   == Values(work) \cup running \cup {r.task : r \in Values(completed)}
Awaited == {<<t.conn, t.op>> : t \in Tasks}

\* An answer is awaited at the prompt that asked for it.
Fits == \A p \in Awaited : link[p[1]] = "open" => Question[p[2]] = dialogue[p[1]]

\* Connections whose new account is being made, or was not made and still has its claim
Claimants ==
  {t.conn : t \in {u \in Values(work) \cup running : u.op = "create"}} \cup
  {r.task.conn : r \in {q \in Values(completed) : q.task.op = "create" /\ q.answer # "created"}}

ClaimsInv ==
  /\ failures \in [Names -> 0..FailureLimit]
  /\ claims \in 0..CreationLimit /\ created \in Nat
  /\ created + Cardinality(Claimants) <= claims

\* The tables and the registry
TableInv ==
  /\ exists \subseteq Names
  /\ backlog \in [Names -> Seq(Store!Request)]
  /\ durable \in [Names -> States]

SessionInv ==
  /\ sessions \in [Names -> Connections \cup {None}]
  /\ life \in [Connections -> Lives]
  /\ player \in [Connections -> Record \cup {None}]
  /\ stored \in [Connections -> States]
  /\ receipt \in [Connections -> Receipts \cup {None}]
  /\ \A c \in Connections :
       /\ life[c] # "none" => player[c] \in Record
       /\ life[c] \in Inside => sessions[player[c].name] = c

-------------------------------------------------------------------------------
(* The moves of the pool *)

\* A sequence's values are members of its set, and it has a value when it is not empty.
LEMMA ValuesType ==
  /\ Values(<<>>) = {}
  /\ \A S : \A s \in Seq(S) : Values(s) \subseteq S /\ (s # <<>> => Head(s) \in Values(s))
<1>1. Values(<<>>) = {}
  BY DEF Values
<1>2. ASSUME NEW S, NEW s \in Seq(S)
      PROVE  Values(s) \subseteq S /\ (s # <<>> => Head(s) \in Values(s))
  <2>1. Values(s) \subseteq S
    BY DEF Values
  <2>2. s # <<>> => 1 \in DOMAIN s /\ Head(s) = s[1]
    OBVIOUS
  <2> QED BY <2>1, <2>2 DEF Values
<1> QED BY <1>1, <1>2

\* What the pool holds: at most one task or result of each connection
LEMMA PoolValues ==
  ASSUME PoolInv
  PROVE  /\ Values(work) \subseteq Task /\ Values(completed) \subseteq Result
         /\ Waiting = {t.conn : t \in Values(work)}
         /\ Done = {r.task.conn : r \in Values(completed)}
         /\ \A t, u \in Values(work) : t.conn = u.conn => t = u
         /\ \A q, r \in Values(completed) : q.task.conn = r.task.conn => q = r
<1>1. work \in Seq(Task) /\ completed \in Seq(Result)
  BY DEF PoolInv
<1>2. /\ DOMAIN ConnsOf(work) = DOMAIN work /\ DOMAIN AnsweredTo(completed) = DOMAIN completed
      /\ \A i \in DOMAIN work : ConnsOf(work)[i] = work[i].conn
      /\ \A i \in DOMAIN completed : AnsweredTo(completed)[i] = completed[i].task.conn
  BY DEF ConnsOf, AnsweredTo
<1>3. Values(work) \subseteq Task /\ Values(completed) \subseteq Result
  BY <1>1, ValuesType
<1>4. Waiting = {t.conn : t \in Values(work)}
  BY <1>2 DEF Waiting, Values
<1>5. Done = {r.task.conn : r \in Values(completed)}
  BY <1>2 DEF Done, Values
<1>6. \A t, u \in Values(work) : t.conn = u.conn => t = u
  BY <1>2 DEF Values, PoolInv, OneEach
<1>7. \A q, r \in Values(completed) : q.task.conn = r.task.conn => q = r
  BY <1>2 DEF Values, PoolInv, OneEach
<1> QED BY <1>3, <1>4, <1>5, <1>6, <1>7

\* Only a busy connection awaits an answer or a new account.
LEMMA AwaitedBusy ==
  ASSUME PoolInv
  PROVE  /\ \A p \in Awaited : p \in Connections \X DOMAIN Question /\ busy[p[1]]
         /\ \A t \in Tasks : t \in Task /\ busy[t.conn]
         /\ \A c \in Claimants : c \in Connections /\ busy[c]
         /\ IsFiniteSet(Claimants) /\ Cardinality(Claimants) \in Nat
<1>1. \A t \in Tasks : t \in Task /\ t.conn \in Waiting \cup Held \cup Done
  <2>1. \A t \in Values(work) : t \in Task /\ t.conn \in Waiting
    BY PoolValues
  <2>2. \A t \in running : t \in Task /\ t.conn \in Held
    BY DEF PoolInv, Held
  <2>3. \A r \in Values(completed) : r.task \in Task /\ r.task.conn \in Done
    BY PoolValues DEF Result
  <2> QED BY <2>1, <2>2, <2>3 DEF Tasks
<1>2. \A t \in Tasks : t \in Task /\ t.conn \in Connections /\ t.op \in DOMAIN Question /\ busy[t.conn]
  BY <1>1 DEF PoolInv, Task
<1>3. \A p \in Awaited : p \in Connections \X DOMAIN Question /\ busy[p[1]]
  BY <1>2 DEF Awaited
<1>4. \A c \in Claimants : \E t \in Tasks : c = t.conn
  BY DEF Claimants, Tasks
<1>5. \A c \in Claimants : c \in Connections /\ busy[c]
  BY <1>2, <1>4
<1>6. IsFiniteSet(Claimants) /\ Cardinality(Claimants) \in Nat
  BY <1>5, ConstantsType, FS_Subset, FS_CardinalityType
<1> QED BY <1>2, <1>3, <1>5, <1>6

\* A question is put: the pool awaits one answer more.
LEMMA AskedMove ==
  ASSUME PoolInv, NEW c \in Connections, NEW op \in DOMAIN Question, NEW n \in Names,
         NEW s \in States, Asked(c, op, n, s)
  PROVE  /\ PoolInv'
         /\ Awaited' = Awaited \cup {<<c, op>>}
         /\ Claimants' = IF op = "create" THEN Claimants \cup {c} ELSE Claimants
         /\ Tasks' = Tasks \cup {[conn |-> c, op |-> op, name |-> n, state |-> s]}
         /\ Values(completed') = Values(completed)
<1> DEFINE t == [conn |-> c, op |-> op, name |-> n, state |-> s]
<1>1. t \in Task /\ t.conn = c /\ t.op = op
  BY DEF Task
<1> HIDE DEF t
<1>2. /\ work' = Append(work, t) /\ capacity' = capacity - 1 /\ capacity > 0 /\ ~busy[c]
      /\ busy' = [busy EXCEPT ![c] = TRUE] /\ running' = running /\ completed' = completed
  BY DEF Asked, t
<1>3. /\ work \in Seq(Task) /\ capacity \in Nat /\ c \notin Waiting \cup Held \cup Done
  BY <1>2 DEF PoolInv
<1>4. work' \in Seq(Task) /\ Len(work') = Len(work) + 1 /\ Len(work) \in Nat
  BY <1>1, <1>2, <1>3
<1>5. ConnsOf(work') = Append(ConnsOf(work), c) /\ ConnsOf(work) \in Seq(Connections)
  BY <1>1, <1>2, <1>3, ConnsMove, ConnsType DEF ConnsOf
<1>6. Waiting' = Waiting \cup {c} /\ OneEach(ConnsOf(work'))
  <2>1. Waiting' = Values(ConnsOf(work'))
    BY DEF Waiting, Values, ConnsOf
  <2>2. OneEach(ConnsOf(work)) /\ c \notin Values(ConnsOf(work))
    BY <1>3 DEF PoolInv, Waiting
  <2> QED BY <1>5, <2>1, <2>2, AppendValues DEF Waiting
<1>7. Held' = Held /\ Done' = Done
  BY <1>2 DEF Held, Done, AnsweredTo, Values
<1>8. PoolInv'
  <2>1. \A d \in Connections : busy'[d] <=> d \in Waiting' \cup Held' \cup Done'
    BY <1>2, <1>6, <1>7 DEF PoolInv
  <2>2. capacity' \in Nat
    BY <1>2, <1>3
  <2>3. Cardinality(running) \in Nat /\ PoolLimit \in Nat /\ Len(completed) \in Nat
    BY FS_CardinalityType, ConstantsType DEF PoolInv
  <2>4. capacity' + Len(work') + Cardinality(running') + Len(completed') = PoolLimit
    <3>1. capacity + Len(work) + Cardinality(running) + Len(completed) = PoolLimit
      BY DEF PoolInv
    <3>2. Cardinality(running') = Cardinality(running) /\ Len(completed') = Len(completed)
      BY <1>2
    <3> QED BY <1>2, <1>3, <1>4, <2>3, <3>1, <3>2
  <2>5. busy' \in [Connections -> BOOLEAN]
    BY <1>2 DEF PoolInv
  <2>6. Waiting' \cap Held' = {} /\ Waiting' \cap Done' = {} /\ Held' \cap Done' = {}
    BY <1>3, <1>6, <1>7 DEF PoolInv
  <2>7. OneEach(AnsweredTo(completed')) /\ \A u, v \in running' : u.conn = v.conn => u = v
    BY <1>2 DEF PoolInv, OneEach, AnsweredTo
  <2> QED BY <1>2, <1>4, <1>6, <2>1, <2>2, <2>4, <2>5, <2>6, <2>7 DEF PoolInv
<1>9. Values(work') = Values(work) \cup {t}
  BY <1>1, <1>2, <1>3, AppendValues DEF Values
<1>10. Values(completed') = Values(completed)
  BY <1>2 DEF Values
<1>11. Tasks' = Tasks \cup {t} /\ Awaited' = Awaited \cup {<<c, op>>}
  <2>1. Tasks' = Tasks \cup {t}
    BY <1>2, <1>9, <1>10 DEF Tasks
  <2> QED BY <1>1, <2>1 DEF Awaited
<1>12. Claimants' = IF op = "create" THEN Claimants \cup {c} ELSE Claimants
  BY <1>1, <1>2, <1>9, <1>10 DEF Claimants
<1> QED BY <1>8, <1>10, <1>11, <1>12 DEF t

\* A thread takes a task: it is awaited as before.
LEMMA FetchedMove ==
  ASSUME PoolInv, Fetched
  PROVE  /\ PoolInv' /\ Awaited' = Awaited /\ Tasks' = Tasks /\ Claimants' = Claimants
         /\ Values(completed') = Values(completed)
<1> DEFINE t == Head(work)
<1>1. /\ work # <<>> /\ running' = running \cup {t} /\ work' = Tail(work)
      /\ completed' = completed /\ capacity' = capacity /\ busy' = busy
  BY DEF Fetched
<1>2. /\ work \in Seq(Task) /\ t \in Task /\ work' \in Seq(Task) /\ ConnsOf(work) \in Seq(Connections)
      /\ ConnsOf(work) # <<>> /\ Head(ConnsOf(work)) = t.conn
      /\ ConnsOf(work') = Tail(ConnsOf(work))
  BY <1>1, ConnsMove, ConnsType DEF PoolInv
<1>3. Len(work') = Len(work) - 1 /\ Len(work) \in Nat
  BY <1>1, <1>2
<1> HIDE DEF t
<1>4. /\ Waiting = Waiting' \cup {t.conn} /\ t.conn \notin Waiting' /\ OneEach(ConnsOf(work'))
  <2>1. Waiting' = Values(ConnsOf(work'))
    BY DEF Waiting, Values, ConnsOf
  <2>2. OneEach(ConnsOf(work))
    BY DEF PoolInv
  <2> QED BY <1>2, <2>1, <2>2, TailValues DEF Waiting
<1>5. Held' = Held \cup {t.conn} /\ Done' = Done /\ t.conn \notin Held /\ t.conn \notin Done
  BY <1>1, <1>4 DEF Held, Done, AnsweredTo, Values, PoolInv
<1>6. t \notin running
  BY <1>5 DEF Held
<1>7. Values(work) = Values(work') \cup {t} /\ Values(completed') = Values(completed)
  <2>1. Values(work) = Values(Tail(work)) \cup {t}
    BY <1>1, <1>2, TailValues DEF t
  <2> QED BY <1>1, <2>1 DEF Values
<1>8. PoolInv'
  <2>1. \A d \in Connections : busy'[d] <=> d \in Waiting' \cup Held' \cup Done'
    BY <1>1, <1>4, <1>5 DEF PoolInv
  <2>2. IsFiniteSet(running') /\ Cardinality(running') = Cardinality(running) + 1
    BY <1>1, <1>6, FS_AddElement DEF PoolInv
  <2>3. /\ Cardinality(running) \in Nat /\ PoolLimit \in Nat /\ Len(completed) \in Nat
        /\ capacity \in Nat
    BY FS_CardinalityType, ConstantsType DEF PoolInv
  <2>4. capacity' + Len(work') + Cardinality(running') + Len(completed') = PoolLimit
    <3>1. capacity + Len(work) + Cardinality(running) + Len(completed) = PoolLimit
      BY DEF PoolInv
    <3>2. Len(completed') = Len(completed) /\ capacity' = capacity
      BY <1>1
    <3> QED BY <1>3, <2>2, <2>3, <3>1, <3>2
  <2>6. Waiting' \cap Held' = {} /\ Waiting' \cap Done' = {} /\ Held' \cap Done' = {}
    BY <1>4, <1>5 DEF PoolInv
  <2>7. OneEach(AnsweredTo(completed'))
    BY <1>1 DEF PoolInv, OneEach, AnsweredTo
  <2>8. \A u, v \in running' : u.conn = v.conn => u = v
    <3>1. \A u \in running : u.conn # t.conn
      BY <1>5 DEF Held
    <3> QED BY <1>1, <3>1 DEF PoolInv
  <2>9. running' \subseteq Task /\ completed' \in Seq(Result) /\ capacity' \in Nat
        /\ busy' \in [Connections -> BOOLEAN]
    BY <1>1, <1>2 DEF PoolInv
  <2> QED BY <1>2, <1>4, <2>1, <2>2, <2>4, <2>6, <2>7, <2>8, <2>9 DEF PoolInv
<1>9. Tasks' = Tasks
  BY <1>1, <1>7 DEF Tasks
<1>10. Claimants' = Claimants
  BY <1>1, <1>7 DEF Claimants
<1> QED BY <1>7, <1>8, <1>9, <1>10 DEF Awaited

\* A task is done: its result takes its place.
LEMMA PerformedMove ==
  ASSUME PoolInv, NEW t \in running, NEW r \in Result, Performed(t, r)
  PROVE  /\ PoolInv' /\ Awaited' = Awaited
         /\ Values(work') = Values(work) /\ Values(completed') = Values(completed) \cup {r}
         /\ Claimants' \subseteq Claimants
         /\ t.op = "create" /\ r.answer = "created" => t.conn \in Claimants \ Claimants'
<1>1. /\ t \in Task /\ r.task \in Task /\ r.task.conn = t.conn /\ r.task.op = t.op
      /\ running' = running \ {t} /\ completed' = Append(completed, r)
      /\ work' = work /\ capacity' = capacity /\ busy' = busy /\ completed \in Seq(Result)
  BY DEF Performed, PoolInv, Result
<1>2. completed' \in Seq(Result) /\ Len(completed') = Len(completed) + 1 /\ Len(completed) \in Nat
  BY <1>1
<1>3. /\ AnsweredTo(completed') = Append(AnsweredTo(completed), t.conn)
      /\ AnsweredTo(completed) \in Seq(Connections) /\ t.conn \in Connections
  BY <1>1, ConnsMove, ConnsType DEF Task
<1>4. t.conn \in Held /\ t.conn \notin Waiting /\ t.conn \notin Done
  BY DEF Held, PoolInv
<1>5. Done' = Done \cup {t.conn} /\ OneEach(AnsweredTo(completed'))
  <2>1. Done' = Values(AnsweredTo(completed'))
    BY DEF Done, Values, AnsweredTo
  <2>2. OneEach(AnsweredTo(completed)) /\ t.conn \notin Values(AnsweredTo(completed))
    BY <1>4 DEF PoolInv, Done
  <2> QED BY <1>3, <2>1, <2>2, AppendValues DEF Done
<1>6. Held' = Held \ {t.conn}
  BY <1>1 DEF Held, PoolInv
<1>7. Waiting' = Waiting /\ Values(work') = Values(work)
  BY <1>1 DEF Waiting, ConnsOf, Values
<1>8. Values(completed') = Values(completed) \cup {r}
  <2>1. Values(Append(completed, r)) = Values(completed) \cup {r}
    BY <1>1, AppendValues
  <2> QED BY <1>1, <2>1 DEF Values
<1>9. PoolInv'
  <2>1. \A d \in Connections : busy'[d] <=> d \in Waiting' \cup Held' \cup Done'
    BY <1>1, <1>4, <1>5, <1>6, <1>7 DEF PoolInv
  <2>2. IsFiniteSet(running') /\ Cardinality(running') = Cardinality(running) - 1
    BY <1>1, FS_RemoveElement DEF PoolInv
  <2>3. /\ Cardinality(running) \in Nat /\ PoolLimit \in Nat /\ Len(work) \in Nat
        /\ capacity \in Nat
    BY FS_CardinalityType, ConstantsType DEF PoolInv
  <2>4. capacity' + Len(work') + Cardinality(running') + Len(completed') = PoolLimit
    <3>1. capacity + Len(work) + Cardinality(running) + Len(completed) = PoolLimit
      BY DEF PoolInv
    <3>2. Len(work') = Len(work) /\ capacity' = capacity
      BY <1>1
    <3>3. Cardinality(running') + Len(completed') = Cardinality(running) + Len(completed)
      BY <1>2, <2>2, <2>3
    <3>4. Cardinality(running') \in Int /\ Len(completed') \in Nat
      BY <1>2, <2>2, <2>3
    <3> QED BY <1>2, <2>3, <3>1, <3>2, <3>3, <3>4, SMTT(30)
  <2>5. Waiting' \cap Held' = {} /\ Waiting' \cap Done' = {} /\ Held' \cap Done' = {}
    BY <1>4, <1>5, <1>6, <1>7 DEF PoolInv
  <2>6. OneEach(ConnsOf(work'))
    BY <1>1 DEF PoolInv, OneEach, ConnsOf
  <2>7. \A u, v \in running' : u.conn = v.conn => u = v
    BY <1>1 DEF PoolInv
  <2>8. /\ work' \in Seq(Task) /\ running' \subseteq Task /\ capacity' \in Nat
        /\ busy' \in [Connections -> BOOLEAN]
    BY <1>1 DEF PoolInv
  <2> QED BY <1>2, <1>5, <2>1, <2>2, <2>4, <2>5, <2>6, <2>7, <2>8 DEF PoolInv
<1>10. Awaited' = Awaited
  <2>1. Tasks = Values(work) \cup running' \cup {q.task : q \in Values(completed)} \cup {t}
    BY <1>1 DEF Tasks
  <2>2. Tasks' = Values(work) \cup running' \cup {q.task : q \in Values(completed)} \cup {r.task}
    BY <1>7, <1>8 DEF Tasks
  <2> QED BY <1>1, <2>1, <2>2 DEF Awaited
<1>11. Claimants' \subseteq Claimants
  BY <1>1, <1>7, <1>8 DEF Claimants
<1>12. ASSUME t.op = "create", r.answer = "created"
       PROVE  t.conn \in Claimants \ Claimants'
  <2>1. t.conn \in Claimants
    BY <1>12 DEF Claimants
  <2>2. \A u \in Values(work') \cup running' : u.conn # t.conn
    BY <1>1, <1>4, <1>6, <1>7, PoolValues DEF Held
  <2>3. \A q \in Values(completed') : q.task.conn = t.conn => q.answer = "created"
    BY <1>4, <1>8, <1>12, PoolValues
  <2> QED BY <2>1, <2>2, <2>3 DEF Claimants
<1> QED BY <1>7, <1>8, <1>9, <1>10, <1>11, <1>12

\* The selector takes a result: nothing of its connection is left.
LEMMA DrainedMove ==
  ASSUME PoolInv, NEW c \in Connections, Drained(c)
  PROVE  /\ PoolInv'
         /\ Awaited' = {p \in Awaited : p[1] # c}
         /\ Tasks' \subseteq Tasks /\ Values(completed') \subseteq Values(completed)
         /\ Claimants' = Claimants \ {c}
         /\ Head(completed) \in Values(completed) /\ Head(completed) \in Result
         /\ <<c, Head(completed).task.op>> \in Awaited
         /\ Head(completed).task.op = "create" /\ Head(completed).answer # "created"
              => c \in Claimants
         /\ busy[c]
<1> DEFINE r == Head(completed)
<1>1. /\ completed # <<>> /\ r.task.conn = c /\ completed' = Tail(completed)
      /\ capacity' = capacity + 1 /\ busy' = [busy EXCEPT ![c] = FALSE]
      /\ work' = work /\ running' = running
  BY DEF Drained
<1>2. /\ completed \in Seq(Result) /\ r \in Result /\ completed' \in Seq(Result)
      /\ AnsweredTo(completed) \in Seq(Connections) /\ AnsweredTo(completed) # <<>>
      /\ Head(AnsweredTo(completed)) = c /\ AnsweredTo(completed') = Tail(AnsweredTo(completed))
  BY <1>1, ConnsMove, ConnsType DEF PoolInv
<1>3. Len(completed') = Len(completed) - 1 /\ Len(completed) \in Nat
  BY <1>1, <1>2
<1>4. Values(completed) = Values(completed') \cup {r} /\ r \in Values(completed)
  <2>1. Values(completed) = Values(Tail(completed)) \cup {r}
    BY <1>1, <1>2, TailValues
  <2> QED BY <1>1, <2>1 DEF Values
<1> HIDE DEF r
<1>5. Done = Done' \cup {c} /\ c \notin Done' /\ OneEach(AnsweredTo(completed'))
  <2>1. Done' = Values(AnsweredTo(completed'))
    BY DEF Done, Values, AnsweredTo
  <2>2. OneEach(AnsweredTo(completed))
    BY DEF PoolInv
  <2> QED BY <1>2, <2>1, <2>2, TailValues DEF Done
<1>6. Waiting' = Waiting /\ Values(work') = Values(work) /\ Held' = Held
      /\ c \notin Waiting /\ c \notin Held
  BY <1>1, <1>5 DEF Waiting, ConnsOf, Values, Held, PoolInv
<1>7. PoolInv'
  <2>1. \A d \in Connections : busy'[d] <=> d \in Waiting' \cup Held' \cup Done'
    BY <1>1, <1>5, <1>6 DEF PoolInv
  <2>2. IsFiniteSet(running') /\ Cardinality(running') = Cardinality(running)
    BY <1>1 DEF PoolInv
  <2>3. /\ Cardinality(running) \in Nat /\ PoolLimit \in Nat /\ Len(work) \in Nat
        /\ capacity \in Nat
    BY FS_CardinalityType, ConstantsType DEF PoolInv
  <2>4. capacity' + Len(work') + Cardinality(running') + Len(completed') = PoolLimit
    <3>1. capacity + Len(work) + Cardinality(running) + Len(completed) = PoolLimit
      BY DEF PoolInv
    <3>2. Len(work') = Len(work) /\ capacity' = capacity + 1
      BY <1>1
    <3> QED BY <1>3, <2>2, <2>3, <3>1, <3>2
  <2>5. Waiting' \cap Held' = {} /\ Waiting' \cap Done' = {} /\ Held' \cap Done' = {}
    BY <1>5, <1>6 DEF PoolInv
  <2>6. OneEach(ConnsOf(work'))
    BY <1>1 DEF PoolInv, OneEach, ConnsOf
  <2>7. \A u, v \in running' : u.conn = v.conn => u = v
    BY <1>1 DEF PoolInv
  <2>8. /\ work' \in Seq(Task) /\ running' \subseteq Task /\ capacity' \in Nat
        /\ busy' \in [Connections -> BOOLEAN]
    BY <1>1, <2>3 DEF PoolInv
  <2> QED BY <1>2, <1>5, <2>1, <2>2, <2>4, <2>5, <2>6, <2>7, <2>8 DEF PoolInv
<1>8. Tasks = Tasks' \cup {r.task}
  BY <1>1, <1>4, <1>6 DEF Tasks
<1>9. /\ \A u \in Values(work') \cup running' : u.conn # c
      /\ \A q \in Values(completed') : q.task.conn # c
  <2>1. \A u \in Values(work') \cup running' : u.conn # c
    BY <1>1, <1>6, PoolValues DEF Held
  <2>2. Done' = {q.task.conn : q \in Values(completed')}
    <3>1. \A i \in DOMAIN completed' : AnsweredTo(completed')[i] = completed'[i].task.conn
      BY DEF AnsweredTo
    <3>2. DOMAIN AnsweredTo(completed') = DOMAIN completed'
      BY DEF AnsweredTo
    <3>3. Done' = {AnsweredTo(completed')[i] : i \in DOMAIN AnsweredTo(completed')}
      BY DEF Done, Values, AnsweredTo
    <3> QED BY <3>1, <3>2, <3>3 DEF Values
  <2> QED BY <1>5, <2>1, <2>2
<1>10. \A u \in Tasks' : u.conn # c
  BY <1>9 DEF Tasks
<1>11. Awaited' = {p \in Awaited : p[1] # c}
  <2>1. Awaited = {<<t.conn, t.op>> : t \in Tasks'} \cup {<<c, r.task.op>>}
    <3>1. r.task.conn = c
      BY <1>1 DEF r
    <3> QED BY <1>8, <3>1 DEF Awaited
  <2>2. Awaited' = {<<t.conn, t.op>> : t \in Tasks'}
    BY DEF Awaited
  <2> QED BY <1>10, <2>1, <2>2
<1>12. Claimants' = Claimants \ {c}
  <2>1. r.task.conn = c
    BY <1>1 DEF r
  <2> QED BY <1>1, <1>4, <1>6, <1>9, <2>1 DEF Claimants
<1>13. r.task.op = "create" /\ r.answer # "created" => c \in Claimants
  <2>1. r.task.conn = c
    BY <1>1 DEF r
  <2> QED BY <1>4, <2>1 DEF Claimants
<1>14. <<c, r.task.op>> \in Awaited /\ busy[c]
  <2>1. r.task.conn = c
    BY <1>1 DEF r
  <2>2. c \in Done
    BY <1>5
  <2> QED BY <1>8, <2>1, <2>2 DEF Awaited, PoolInv
<1> QED BY <1>2, <1>4, <1>7, <1>8, <1>11, <1>12, <1>13, <1>14 DEF r

\* The queued tasks are cancelled: each is answered with an error.
LEMMA CancelledMove ==
  ASSUME PoolInv, Cancelled
  PROVE  /\ PoolInv' /\ Awaited' = Awaited /\ Tasks' = Tasks /\ Claimants' = Claimants
         /\ Values(work') = {}
         /\ \A r \in Values(completed') : r \in Values(completed) \/ r.answer = "error"
<1> DEFINE rs == [i \in DOMAIN work |-> [task |-> work[i], answer |-> "error"]]
<1>1. /\ work' = <<>> /\ completed' = completed \o rs /\ running' = running
      /\ capacity' = capacity /\ busy' = busy
  BY DEF Cancelled, CancelPending
<1>2. /\ work \in Seq(Task) /\ completed \in Seq(Result)
      /\ Len(work) \in Nat /\ Len(completed) \in Nat /\ DOMAIN work = 1..Len(work)
      /\ \A i \in 1..Len(work) : work[i] \in Task
  BY DEF PoolInv
<1>3. /\ rs \in Seq(Result) /\ Len(rs) = Len(work) /\ DOMAIN rs = DOMAIN work
      /\ \A i \in DOMAIN work : rs[i].task = work[i] /\ rs[i].answer = "error"
  <2>1. \A i \in 1..Len(work) : [task |-> work[i], answer |-> "error"] \in Result
    BY <1>2 DEF Result, Answers
  <2> QED BY <1>2, <2>1
<1> HIDE DEF rs
<1>4. completed' \in Seq(Result) /\ Len(completed') = Len(completed) + Len(work)
  BY <1>1, <1>2, <1>3, ConcatParts
<1>5. /\ AnsweredTo(rs) = ConnsOf(work) /\ ConnsOf(work) \in Seq(Connections)
      /\ AnsweredTo(completed) \in Seq(Connections)
  <2>1. AnsweredTo(rs) = ConnsOf(work)
    BY <1>3 DEF AnsweredTo, ConnsOf
  <2> QED BY <1>2, <2>1, ConnsType
<1>6. AnsweredTo(completed') = AnsweredTo(completed) \o ConnsOf(work)
  <2>1. PICK a : a = completed \o rs
    OBVIOUS
  <2>2. PICK b : b = AnsweredTo(completed) \o ConnsOf(work)
    OBVIOUS
  <2>3. PICK k : k = Len(completed)
    OBVIOUS
  <2>4. /\ DOMAIN a = 1..(k + Len(work)) /\ \A i \in 1..k : a[i] = completed[i]
        /\ \A i \in (k + 1)..(k + Len(work)) : a[i] = rs[i - k]
    <3>1. /\ DOMAIN a = 1..(Len(completed) + Len(rs))
          /\ \A i \in 1..Len(completed) : a[i] = completed[i]
          /\ \A i \in (Len(completed) + 1)..(Len(completed) + Len(rs)) :
               a[i] = rs[i - Len(completed)]
      BY <1>2, <1>3, <2>1, ConcatParts
    <3> QED BY <1>3, <2>3, <3>1
  <2>5. Len(AnsweredTo(completed)) = k /\ Len(ConnsOf(work)) = Len(work)
    BY <1>2, <2>3, ConnsType
  <2>6. /\ b = [i \in 1..(k + Len(work)) |-> b[i]]
        /\ \A i \in 1..k : b[i] = AnsweredTo(completed)[i]
        /\ \A i \in (k + 1)..(k + Len(work)) : b[i] = ConnsOf(work)[i - k]
    <3>1. \A s, t \in Seq(Connections) :
            /\ \A i \in 1..Len(s) : (s \o t)[i] = s[i]
            /\ \A i \in (Len(s) + 1)..(Len(s) + Len(t)) : (s \o t)[i] = t[i - Len(s)]
            /\ s \o t = [i \in 1..(Len(s) + Len(t)) |-> (s \o t)[i]]
      BY ConcatParts
    <3> QED BY <1>5, <2>2, <2>5, <3>1
  <2>7. /\ \A i \in 1..k : AnsweredTo(completed)[i] = completed[i].task.conn
        /\ \A i \in 1..Len(work) : ConnsOf(work)[i] = rs[i].task.conn
    BY <1>2, <1>3, <2>3 DEF AnsweredTo, ConnsOf
  <2>8. \A i \in 1..(k + Len(work)) :
          \/ i \in 1..k
          \/ i \in (k + 1)..(k + Len(work)) /\ i - k \in 1..Len(work)
    BY <1>2, <2>3
  <2>9. \A i \in 1..(k + Len(work)) : a[i].task.conn = b[i]
    BY <2>4, <2>6, <2>7, <2>8, ZenonT(60)
  <2>10. AnsweredTo(a) = b
    BY <2>4, <2>6, <2>9 DEF AnsweredTo
  <2> QED BY <1>1, <2>1, <2>2, <2>10
<1>7. /\ Done' = Done \cup Waiting /\ OneEach(AnsweredTo(completed'))
  <2>1. Done' = Values(AnsweredTo(completed'))
    BY DEF Done, Values, AnsweredTo
  <2>2. OneEach(AnsweredTo(completed)) /\ OneEach(ConnsOf(work)) /\ Done \cap Waiting = {}
    BY DEF PoolInv
  <2> QED BY <1>5, <1>6, <2>1, <2>2, ConcatValues DEF Done, Waiting
<1>8. Waiting' = {} /\ Held' = Held /\ OneEach(ConnsOf(work'))
  <2>1. ConnsOf(work') = <<>>
    BY <1>1 DEF ConnsOf
  <2>2. Waiting' = Values(ConnsOf(work'))
    BY DEF Waiting, Values, ConnsOf
  <2> QED BY <1>1, <2>1, <2>2, ValuesType DEF Held, OneEach
<1>9. Values(completed') = Values(completed) \cup Values(rs) /\ Values(work') = {}
  <2>1. Values(completed \o rs) = Values(completed) \cup Values(rs)
    BY <1>2, <1>3, ConcatValues
  <2>2. Values(completed') = Values(completed \o rs)
    BY <1>1
  <2> QED BY <1>1, <2>1, <2>2, ValuesType
<1>10. /\ {r.task : r \in Values(rs)} = Values(work)
       /\ \A r \in Values(rs) : r.answer = "error" /\ r.task \in Values(work)
       /\ \A t \in Values(work) : \E r \in Values(rs) : r.task = t /\ r.answer = "error"
  BY <1>3 DEF Values
<1>11. PoolInv'
  <2>1. \A d \in Connections : busy'[d] <=> d \in Waiting' \cup Held' \cup Done'
    BY <1>1, <1>7, <1>8 DEF PoolInv
  <2>2. IsFiniteSet(running') /\ Cardinality(running') = Cardinality(running)
    BY <1>1 DEF PoolInv
  <2>3. Cardinality(running) \in Nat /\ PoolLimit \in Nat /\ capacity \in Nat
    BY FS_CardinalityType, ConstantsType DEF PoolInv
  <2>4. capacity' + Len(work') + Cardinality(running') + Len(completed') = PoolLimit
    <3>1. capacity + Len(work) + Cardinality(running) + Len(completed) = PoolLimit
      BY DEF PoolInv
    <3>2. Len(work') = 0 /\ capacity' = capacity
      BY <1>1
    <3> QED BY <1>2, <1>4, <2>2, <2>3, <3>1, <3>2
  <2>5. Waiting' \cap Held' = {} /\ Waiting' \cap Done' = {} /\ Held' \cap Done' = {}
    BY <1>7, <1>8 DEF PoolInv
  <2>6. \A u, v \in running' : u.conn = v.conn => u = v
    BY <1>1 DEF PoolInv
  <2>7. /\ work' \in Seq(Task) /\ running' \subseteq Task /\ capacity' \in Nat
        /\ busy' \in [Connections -> BOOLEAN]
    BY <1>1 DEF PoolInv
  <2> QED BY <1>4, <1>7, <1>8, <2>1, <2>2, <2>4, <2>5, <2>6, <2>7 DEF PoolInv
<1>12. Tasks' = Tasks
  BY <1>1, <1>9, <1>10 DEF Tasks
<1>13. Claimants' = Claimants
  <2>1. Claimants' \subseteq Claimants
    BY <1>1, <1>9, <1>10 DEF Claimants
  <2>2. Claimants \subseteq Claimants'
    <3>1. ASSUME NEW t \in Values(work), t.op = "create" PROVE t.conn \in Claimants'
      <4>1. PICK r \in Values(rs) : r.task = t /\ r.answer = "error"
        BY <1>10
      <4>2. r \in Values(completed') /\ r.task.op = "create" /\ r.answer # "created"
        BY <1>9, <3>1, <4>1
      <4> QED BY <4>1, <4>2 DEF Claimants
    <3>2. ASSUME NEW t \in running, t.op = "create" PROVE t.conn \in Claimants'
      BY <1>1, <3>2 DEF Claimants
    <3>3. ASSUME NEW q \in Values(completed), q.task.op = "create", q.answer # "created"
          PROVE  q.task.conn \in Claimants'
      BY <1>9, <3>3 DEF Claimants
    <3> QED BY <3>1, <3>2, <3>3 DEF Claimants
  <2> QED BY <2>1, <2>2
<1> QED BY <1>9, <1>10, <1>11, <1>12, <1>13 DEF Awaited

-------------------------------------------------------------------------------
(* The desk: lines and connections *)

FrontInv == PoolInv /\ DeskInv /\ Fits /\ ClaimsInv

\* A step that leaves the pool alone
LEMMA PoolAlone ==
  ASSUME PoolInv, UNCHANGED poolVars
  PROVE  /\ PoolInv' /\ Awaited' = Awaited /\ Tasks' = Tasks /\ Claimants' = Claimants
         /\ Values(work') = Values(work) /\ Values(completed') = Values(completed)
<1>1. /\ work' = work /\ running' = running /\ completed' = completed
      /\ capacity' = capacity /\ busy' = busy
  BY DEF poolVars
<1>2. Values(work') = Values(work) /\ Values(completed') = Values(completed)
  BY <1>1
<1>3. Waiting' = Waiting /\ Held' = Held /\ Done' = Done
  BY <1>1 DEF Waiting, Held, Done, ConnsOf, AnsweredTo, Values
<1>4. Tasks' = Tasks /\ Claimants' = Claimants
  BY <1>1 DEF Tasks, Claimants, Values
<1>5. OneEach(ConnsOf(work')) /\ OneEach(AnsweredTo(completed'))
  BY <1>1 DEF PoolInv, OneEach, ConnsOf, AnsweredTo
<1>6. PoolInv'
  BY <1>1, <1>3, <1>5 DEF PoolInv
<1> QED BY <1>2, <1>4, <1>6 DEF Awaited

\* An awaited answer fits as long as its connection stays at its prompt.
LEMMA FitsKept ==
  ASSUME Fits, Awaited' \subseteq Awaited,
         \A p \in Awaited' : link'[p[1]] = "open" =>
           link[p[1]] = "open" /\ dialogue'[p[1]] = dialogue[p[1]]
  PROVE  Fits'
BY DEF Fits

\* Claims that no step gave up
LEMMA ClaimsKept ==
  ASSUME PoolInv, ClaimsInv, Claimants' \subseteq Claimants, claims' = claims, created' = created,
         failures' \in [Names -> 0..FailureLimit]
  PROVE  ClaimsInv'
<1>1. /\ IsFiniteSet(Claimants) /\ Cardinality(Claimants) \in Nat
      /\ Cardinality(Claimants') \in Nat /\ Cardinality(Claimants') <= Cardinality(Claimants)
  BY AwaitedBusy, FS_Subset, FS_CardinalityType
<1>2. /\ claims \in 0..CreationLimit /\ created \in Nat
      /\ created + Cardinality(Claimants) <= claims /\ CreationLimit \in Nat
  BY ConstantsType DEF ClaimsInv
<1>3. created + Cardinality(Claimants') <= claims
  <2> DEFINE a == Cardinality(Claimants)
             b == Cardinality(Claimants')
  <2>1. a \in Nat /\ b \in Nat /\ b <= a /\ created + a <= claims
    BY <1>1, <1>2
  <2> HIDE DEF a, b
  <2>2. created + b <= claims
    BY <1>2, <2>1
  <2> QED BY <2>2 DEF b
<1> QED BY <1>2, <1>3 DEF ClaimsInv

\* A failure is counted up to the limit.
LEMMA FailuresCounted ==
  ASSUME ClaimsInv, NEW n \in Names, RecordFailure(n)
  PROVE  failures' \in [Names -> 0..FailureLimit]
BY ConstantsType DEF ClaimsInv, RecordFailure, Allowed

\* Connections open and close, and lines that ask nothing move the dialogue on.
LEMMA AcceptKeepsFront ==
  ASSUME FrontInv, NEW c \in Connections, Accept(c)
  PROVE  FrontInv'
<1>1. /\ link[c] = "closed" /\ ~InPool(c) /\ ~stopped /\ link' = [link EXCEPT ![c] = "open"]
      /\ UNCHANGED <<closing, authenticated, dialogue, account, new_name, has_password, stopped>>
      /\ UNCHANGED poolVars /\ claims' = claims /\ failures' = failures /\ created' = created
  BY DEF Accept, dialogueVars, limitVars, histVars
<1>2. c \notin Waiting \cup Held \cup Done
  BY <1>1 DEF InPool, Waiting, Held, Done, ConnsOf, AnsweredTo, Values
<1>3. ~busy[c] /\ busy' = busy
  BY <1>1, <1>2 DEF FrontInv, PoolInv, poolVars
<1>4. PoolInv' /\ Awaited' = Awaited /\ Claimants' = Claimants
  BY <1>1, PoolAlone DEF FrontInv
<1>5. \A p \in Awaited : p[1] # c
  BY <1>3, AwaitedBusy DEF FrontInv
<1>6. Fits'
  BY <1>1, <1>4, <1>5, FitsKept, AwaitedBusy DEF FrontInv, DeskInv
<1>7. ClaimsInv'
  BY <1>1, <1>4, ClaimsKept DEF FrontInv, ClaimsInv
<1>8. DeskInv'
  BY <1>1, <1>3 DEF FrontInv, DeskInv, At
<1> QED BY <1>4, <1>6, <1>7, <1>8 DEF FrontInv

\* MarkClosed keeps the desk in order.
LEMMA MarkClosedDesk ==
  ASSUME DeskInv, NEW S \in SUBSET Connections, MarkClosed(S), busy' = busy, stopped' \in BOOLEAN,
         stopped' => stopped \/ S = Connections
  PROVE  DeskInv' /\ \A d \in Connections : link'[d] = "open" =>
                       link[d] = "open" /\ dialogue'[d] = dialogue[d]
<1>1. /\ link' = [c \in Connections |-> IF c \in S THEN "closed" ELSE link[c]]
      /\ account' = [c \in Connections |-> IF c \in S THEN None ELSE account[c]]
      /\ new_name' = [c \in Connections |-> IF c \in S THEN None ELSE new_name[c]]
      /\ has_password' = [c \in Connections |-> has_password[c] /\ c \notin S]
      /\ closing' = [c \in Connections |-> closing[c] /\ c \notin S]
      /\ authenticated' = [c \in Connections |-> authenticated[c] /\ c \notin S]
      /\ dialogue' = [c \in Connections |-> IF c \in S THEN "name" ELSE dialogue[c]]
  BY DEF MarkClosed, Forgets
<1>2. /\ link' \in [Connections -> {"open", "closed"}]
      /\ account' \in [Connections -> Record \cup {None}]
      /\ new_name' \in [Connections -> Names \cup {None}]
      /\ dialogue' \in [Connections -> Dialogues]
  BY <1>1 DEF DeskInv, Dialogues
<1>3. /\ closing' \in [Connections -> BOOLEAN] /\ authenticated' \in [Connections -> BOOLEAN]
      /\ has_password' \in [Connections -> BOOLEAN]
  BY <1>1 DEF DeskInv
<1>4. \A d \in Connections :
        \/ link'[d] = "closed" /\ ~authenticated'[d] /\ dialogue'[d] = "name"
        \/ /\ d \notin S /\ link'[d] = link[d] /\ authenticated'[d] = authenticated[d]
           /\ dialogue'[d] = dialogue[d] /\ account'[d] = account[d] /\ new_name'[d] = new_name[d]
  BY <1>1 DEF DeskInv
<1>5. ASSUME NEW d \in Connections
      PROVE  /\ link'[d] = "closed" => ~authenticated'[d] /\ dialogue'[d] = "name"
             /\ stopped' => link'[d] = "closed"
             /\ busy'[d] => ~authenticated'[d]
             /\ At(d, "password")' => account'[d] \in Record
             /\ At(d, "new_password")' \/ At(d, "confirm_password")' \/ (At(d, "new_name")' /\ busy'[d])
                  => new_name'[d] \in Names
  BY <1>4 DEF DeskInv, At
<1> QED BY <1>2, <1>3, <1>4, <1>5 DEF DeskInv, At

\* Connections are closed: their answers will be discarded.
LEMMA CloseKeepsFront ==
  ASSUME FrontInv, NEW c \in Connections, Close(c)
  PROVE  FrontInv'
<1>1. /\ MarkClosed({c}) /\ UNCHANGED poolVars /\ busy' = busy /\ claims' = claims
      /\ failures' = failures /\ created' = created /\ stopped' = stopped /\ stopped \in BOOLEAN
  BY DEF Close, limitVars, poolVars, FrontInv, DeskInv
<1>2. DeskInv' /\ \A d \in Connections : link'[d] = "open" =>
                    link[d] = "open" /\ dialogue'[d] = dialogue[d]
  BY <1>1, MarkClosedDesk DEF FrontInv
<1>3. PoolInv' /\ Awaited' = Awaited /\ Claimants' = Claimants
  BY <1>1, PoolAlone DEF FrontInv
<1>4. Fits'
  BY <1>2, <1>3, FitsKept, AwaitedBusy DEF FrontInv
<1>5. ClaimsInv'
  BY <1>1, <1>3, ClaimsKept DEF FrontInv, ClaimsInv
<1> QED BY <1>2, <1>3, <1>4, <1>5 DEF FrontInv

\* The server closes: every connection, and what the pool had queued is cancelled.
LEMMA StopKeepsFront ==
  ASSUME FrontInv, Stop
  PROVE  FrontInv'
<1>1. /\ MarkClosed(Connections) /\ Cancelled /\ busy' = busy /\ claims' = claims
      /\ failures' = failures /\ created' = created /\ stopped' = TRUE
  BY DEF Stop, limitVars, Cancelled
<1>2. DeskInv' /\ \A d \in Connections : link'[d] = "open" =>
                    link[d] = "open" /\ dialogue'[d] = dialogue[d]
  BY <1>1, MarkClosedDesk DEF FrontInv
<1>3. PoolInv' /\ Awaited' = Awaited /\ Claimants' = Claimants
  BY <1>1, CancelledMove DEF FrontInv
<1>4. Fits'
  BY <1>2, <1>3, FitsKept, AwaitedBusy DEF FrontInv
<1>5. ClaimsInv'
  BY <1>1, <1>3, ClaimsKept DEF FrontInv, ClaimsInv
<1> QED BY <1>2, <1>3, <1>4, <1>5 DEF FrontInv

\* A question is put at the prompt it belongs to.
LEMMA AskFits ==
  ASSUME PoolInv, Fits, NEW c \in Connections, NEW op \in DOMAIN Question, NEW n \in Names,
         NEW s \in States, Asked(c, op, n, s), link' = link, dialogue' = dialogue,
         dialogue[c] = Question[op]
  PROVE  PoolInv' /\ Fits'
<1>1. PoolInv' /\ Awaited' = Awaited \cup {<<c, op>>}
  BY AskedMove
<1>2. ASSUME NEW p \in Awaited', link'[p[1]] = "open"
      PROVE  Question[p[2]] = dialogue'[p[1]]
  <2>1. CASE p \in Awaited
    BY <1>2, <2>1 DEF Fits
  <2>2. CASE p = <<c, op>>
    BY <2>2
  <2> QED BY <1>1, <2>1, <2>2
<1> QED BY <1>1, <1>2 DEF Fits

\* Ask puts its question or leaves the pool alone.
LEMMA AskAsks ==
  ASSUME PoolInv, NEW c \in Connections, ~busy[c], NEW op, NEW n, NEW s, Ask(c, op, n, s)
  PROVE  Asked(c, op, n, s) \/ UNCHANGED poolVars
BY DEF Ask, Asked

\* A line whose question makes no account: the claims stand.
LEMMA AskKeepsFront ==
  ASSUME FrontInv, NEW c \in Connections, NEW op \in DOMAIN Question \ {"create"}, NEW n \in Names,
         NEW s \in States, Listens(c, Question[op]), Ask(c, op, n, s), DeskInv',
         link' = link, dialogue' = dialogue, claims' = claims, created' = created,
         failures' = failures
  PROVE  FrontInv'
<1>1. ~busy[c] /\ dialogue[c] = Question[op]
  BY DEF Listens
<1>2. CASE Asked(c, op, n, s)
  <2>1. PoolInv' /\ Fits'
    BY <1>1, <1>2, AskFits DEF FrontInv
  <2>2. Claimants' = Claimants
    BY <1>2, AskedMove DEF FrontInv
  <2>3. ClaimsInv'
    BY <2>2, ClaimsKept DEF FrontInv, ClaimsInv
  <2> QED BY <2>1, <2>3 DEF FrontInv
<1>3. CASE UNCHANGED poolVars
  <2>1. PoolInv' /\ Awaited' = Awaited /\ Claimants' = Claimants
    BY <1>3, PoolAlone DEF FrontInv
  <2>2. Fits' /\ ClaimsInv'
    BY <2>1, FitsKept, ClaimsKept DEF FrontInv, ClaimsInv
  <2> QED BY <2>1, <2>2 DEF FrontInv
<1> QED BY <1>1, <1>2, <1>3, AskAsks DEF FrontInv

\* A line that asks nothing of the pool
LEMMA LineKeepsFront ==
  ASSUME FrontInv, NEW c \in Connections, ~busy[c], UNCHANGED poolVars, DeskInv', link' = link,
         \A d \in Connections \ {c} : dialogue'[d] = dialogue[d],
         claims' = claims, created' = created, failures' \in [Names -> 0..FailureLimit]
  PROVE  FrontInv'
<1>1. PoolInv' /\ Awaited' = Awaited /\ Claimants' = Claimants
  BY PoolAlone DEF FrontInv
<1>2. \A p \in Awaited : p[1] \in Connections \ {c}
  BY AwaitedBusy DEF FrontInv
<1>3. Fits' /\ ClaimsInv'
  BY <1>1, <1>2, FitsKept, ClaimsKept DEF FrontInv
<1> QED BY <1>1, <1>3 DEF FrontInv

\* The lines of the dialogue
LEMMA NameLineKeepsFront ==
  ASSUME FrontInv, NEW c \in Connections, NEW n \in Names, NameLine(c, n)
  PROVE  FrontInv'
<1>1. /\ Listens(c, "name") /\ ~busy[c] /\ UNCHANGED <<link, authenticated, dialogue, account>>
      /\ UNCHANGED <<new_name, has_password, stopped, claims, failures, created>>
  BY DEF NameLine, Listens, dialogueVars, limitVars, histVars
<1>2. CASE Allowed(n)
  <2>1. Ask(c, "load", n, InitialState) /\ closing' = closing
    BY <1>2 DEF NameLine
  <2>2. busy'[c] \in BOOLEAN /\ \A d \in Connections \ {c} : busy'[d] = busy[d]
    BY <2>1 DEF Ask, FrontInv, PoolInv, poolVars
  <2>3. DeskInv'
    BY <1>1, <2>1, <2>2 DEF FrontInv, DeskInv, At, Listens
  <2> QED BY <1>1, <2>1, <2>3, AskKeepsFront, ConstantsType DEF Question
<1>3. CASE ~Allowed(n)
  <2>1. closing' = [closing EXCEPT ![c] = TRUE] /\ UNCHANGED poolVars /\ busy' = busy
    BY <1>3 DEF NameLine, CloseAfterOutput, poolVars
  <2>2. DeskInv'
    BY <1>1, <2>1 DEF FrontInv, DeskInv, At
  <2> QED BY <1>1, <2>1, <2>2, LineKeepsFront DEF FrontInv, ClaimsInv
<1> QED BY <1>2, <1>3

\* A line that asks nothing: the visitor wants a new account.
LEMMA NewUserLineKeepsFront ==
  ASSUME FrontInv, NEW c \in Connections, NewUserLine(c)
  PROVE  FrontInv'
<1>1. /\ Listens(c, "name") /\ ~busy[c] /\ UNCHANGED poolVars /\ busy' = busy
      /\ dialogue' = [dialogue EXCEPT ![c] = "new_name"]
      /\ UNCHANGED <<link, authenticated, closing, account, new_name, has_password, stopped>>
      /\ UNCHANGED <<claims, failures, created>>
  BY DEF NewUserLine, Listens, Prompts, linkVars, limitVars, histVars, poolVars
<1>2. DeskInv'
  BY <1>1 DEF FrontInv, DeskInv, At, Dialogues, Listens
<1> QED BY <1>1, <1>2, LineKeepsFront DEF FrontInv, ClaimsInv, DeskInv

\* A password is asked about, or an attempt is counted.
LEMMA PasswordLineKeepsFront ==
  ASSUME FrontInv, NEW c \in Connections, PasswordLine(c)
  PROVE  FrontInv'
<1> DEFINE n == account[c].name
           s == account[c].state
<1>1. /\ Listens(c, "password") /\ ~busy[c] /\ UNCHANGED <<link, authenticated, dialogue, account>>
      /\ UNCHANGED <<new_name, has_password, stopped, claims, created>>
  BY DEF PasswordLine, Listens, dialogueVars, histVars
<1>2. n \in Names /\ s \in States
  BY <1>1 DEF FrontInv, DeskInv, Listens, At, Record
<1>3. CASE Ask(c, "authenticate", n, s) /\ UNCHANGED <<closing, failures>>
  <2>1. busy'[c] \in BOOLEAN /\ \A d \in Connections \ {c} : busy'[d] = busy[d]
    BY <1>3 DEF Ask, FrontInv, PoolInv, poolVars
  <2>2. DeskInv'
    BY <1>1, <1>3, <2>1 DEF FrontInv, DeskInv, At, Listens
  <2> QED BY <1>1, <1>2, <1>3, <2>2, AskKeepsFront DEF Question
<1>4. CASE CountFailure(c, n) /\ UNCHANGED poolVars
  <2>1. /\ closing' \in [Connections -> BOOLEAN] /\ busy' = busy
        /\ failures' \in [Names -> 0..FailureLimit]
    <3>1. closing' \in [Connections -> BOOLEAN]
      BY <1>4 DEF CountFailure, CloseAfterOutput, FrontInv, DeskInv
    <3> QED BY <1>2, <1>4, <3>1, FailuresCounted DEF CountFailure, poolVars, FrontInv
  <2>2. DeskInv'
    BY <1>1, <2>1 DEF FrontInv, DeskInv, At
  <2> QED BY <1>1, <1>4, <2>1, <2>2, LineKeepsFront
<1> QED BY <1>3, <1>4 DEF PasswordLine

\* The wanted name is kept, and asked about.
LEMMA NewNameLineKeepsFront ==
  ASSUME FrontInv, NEW c \in Connections, NEW n \in Names, NewNameLine(c, n)
  PROVE  FrontInv'
<1>1. /\ Listens(c, "new_name") /\ ~busy[c] /\ UNCHANGED <<link, closing, authenticated, dialogue>>
      /\ UNCHANGED <<account, has_password, stopped, claims, failures, created>>
      /\ new_name' = [new_name EXCEPT ![c] = n] /\ Ask(c, "check", n, InitialState)
  BY DEF NewNameLine, Listens, linkVars, limitVars, histVars
<1>2. busy'[c] \in BOOLEAN /\ \A d \in Connections \ {c} : busy'[d] = busy[d]
  BY <1>1 DEF Ask, FrontInv, PoolInv, poolVars
<1>3. DeskInv'
  BY <1>1, <1>2 DEF FrontInv, DeskInv, At, Listens
<1> QED BY <1>1, <1>3, AskKeepsFront, ConstantsType DEF Question

\* A password was chosen: it is to be confirmed.
LEMMA NewPasswordLineKeepsFront ==
  ASSUME FrontInv, NEW c \in Connections, NewPasswordLine(c)
  PROVE  FrontInv'
<1>1. /\ Listens(c, "new_password") /\ ~busy[c] /\ UNCHANGED poolVars /\ busy' = busy
      /\ dialogue' = [dialogue EXCEPT ![c] = "confirm_password"]
      /\ has_password' = [has_password EXCEPT ![c] = TRUE]
      /\ UNCHANGED <<link, authenticated, closing, account, new_name, stopped>>
      /\ UNCHANGED <<claims, failures, created>>
  BY DEF NewPasswordLine, Listens, Prompts, linkVars, limitVars, histVars, poolVars
<1>2. DeskInv'
  BY <1>1 DEF FrontInv, DeskInv, At, Dialogues, Listens
<1> QED BY <1>1, <1>2, LineKeepsFront DEF FrontInv, ClaimsInv, DeskInv

\* The confirmation differs: the password is chosen again.
LEMMA MismatchLineKeepsFront ==
  ASSUME FrontInv, NEW c \in Connections, MismatchLine(c)
  PROVE  FrontInv'
<1>1. /\ Listens(c, "confirm_password") /\ ~busy[c] /\ UNCHANGED poolVars /\ busy' = busy
      /\ dialogue' = [dialogue EXCEPT ![c] = "new_password"]
      /\ has_password' = [has_password EXCEPT ![c] = FALSE]
      /\ UNCHANGED <<link, authenticated, closing, account, new_name, stopped>>
      /\ UNCHANGED <<claims, failures, created>>
  BY DEF MismatchLine, Listens, Prompts, linkVars, limitVars, histVars, poolVars
<1>2. DeskInv'
  BY <1>1 DEF FrontInv, DeskInv, At, Dialogues, Listens
<1> QED BY <1>1, <1>2, LineKeepsFront DEF FrontInv, ClaimsInv, DeskInv

\* The confirmation takes a claim before the account is asked for.
LEMMA MatchLineKeepsFront ==
  ASSUME FrontInv, NEW c \in Connections, MatchLine(c)
  PROVE  FrontInv'
<1>1. /\ Listens(c, "confirm_password") /\ ~busy[c] /\ dialogue[c] = "confirm_password"
      /\ has_password' = [has_password EXCEPT ![c] = FALSE]
      /\ UNCHANGED <<link, authenticated, dialogue, account, new_name, stopped, failures, created>>
  BY DEF MatchLine, Listens, histVars
<1>2. CASE MayCreate
  <2>1. /\ Ask(c, "create", new_name[c], InitialState) /\ claims' = claims + 1 /\ closing' = closing
    BY <1>2 DEF MatchLine
  <2>2. new_name[c] \in Names /\ InitialState \in States
    BY <1>1, ConstantsType DEF FrontInv, DeskInv, At, Listens
  <2>3. busy'[c] \in BOOLEAN /\ \A d \in Connections \ {c} : busy'[d] = busy[d]
    BY <2>1 DEF Ask, FrontInv, PoolInv, poolVars
  <2>4. DeskInv'
    BY <1>1, <2>1, <2>3 DEF FrontInv, DeskInv, At, Listens
  <2>5. PoolInv' /\ Fits' /\ Claimants' \subseteq Claimants \cup {c}
    <3>1. CASE Asked(c, "create", new_name[c], InitialState)
      <4>1. Claimants' = Claimants \cup {c}
        BY <2>2, <3>1, AskedMove DEF FrontInv, Question
      <4> QED BY <1>1, <2>2, <3>1, <4>1, AskFits DEF FrontInv, Question
    <3>2. CASE UNCHANGED poolVars
      <4>1. PoolInv' /\ Awaited' = Awaited /\ Claimants' = Claimants
        BY <3>2, PoolAlone DEF FrontInv
      <4> QED BY <1>1, <4>1, FitsKept DEF FrontInv
    <3> QED BY <1>1, <2>1, <3>1, <3>2, AskAsks DEF FrontInv
  <2>6. ClaimsInv'
    <3>1. /\ Cardinality(Claimants') \in Nat /\ Cardinality(Claimants) \in Nat
          /\ Cardinality(Claimants') <= Cardinality(Claimants) + 1
      <4>1. IsFiniteSet(Claimants) /\ Cardinality(Claimants) \in Nat
        BY AwaitedBusy DEF FrontInv
      <4>2. /\ IsFiniteSet(Claimants \cup {c})
            /\ Cardinality(Claimants \cup {c}) <= Cardinality(Claimants) + 1
            /\ Cardinality(Claimants \cup {c}) \in Nat
        BY <4>1, FS_AddElement, FS_CardinalityType
      <4>3. /\ Cardinality(Claimants') \in Nat
            /\ Cardinality(Claimants') <= Cardinality(Claimants \cup {c})
        BY <2>5, <4>2, FS_Subset, FS_CardinalityType
      <4> QED BY <4>1, <4>2, <4>3
    <3>2. PICK a, b : a = Cardinality(Claimants) /\ b = Cardinality(Claimants')
      OBVIOUS
    <3>3. /\ claims \in 0..CreationLimit /\ claims < CreationLimit /\ CreationLimit \in Nat
          /\ created \in Nat /\ created + a <= claims /\ a \in Nat /\ b \in Nat /\ b <= a + 1
      BY <1>2, <3>1, <3>2, ConstantsType DEF MayCreate, FrontInv, ClaimsInv
    <3>4. claims' \in 0..CreationLimit /\ created' + b <= claims' /\ created' \in Nat
      BY <1>1, <2>1, <3>3
    <3> QED BY <1>1, <3>2, <3>4 DEF ClaimsInv, FrontInv
  <2> QED BY <2>4, <2>5, <2>6 DEF FrontInv
<1>3. CASE ~MayCreate
  <2>1. closing' = [closing EXCEPT ![c] = TRUE] /\ UNCHANGED poolVars /\ busy' = busy /\ claims' = claims
    BY <1>3 DEF MatchLine, CloseAfterOutput, poolVars
  <2>2. DeskInv'
    BY <1>1, <2>1 DEF FrontInv, DeskInv, At
  <2> QED BY <1>1, <2>1, <2>2, LineKeepsFront DEF FrontInv, ClaimsInv
<1> QED BY <1>2, <1>3

-------------------------------------------------------------------------------
(* The desk: the pool's threads *)

\* A thread of the pool takes a task in hand.
LEMMA FetchKeepsFront ==
  ASSUME FrontInv, Fetch
  PROVE  FrontInv'
<1>1. /\ Fetched /\ UNCHANGED <<link, closing, authenticated, dialogue, account, new_name>>
      /\ UNCHANGED <<has_password, stopped, claims, failures, created, busy>>
  BY DEF Fetch, Fetched, linkVars, dialogueVars, limitVars, histVars
<1>2. PoolInv' /\ Awaited' = Awaited /\ Claimants' = Claimants
  BY <1>1, FetchedMove DEF FrontInv
<1>3. Fits' /\ ClaimsInv'
  BY <1>1, <1>2, FitsKept, ClaimsKept DEF FrontInv, ClaimsInv
<1>4. DeskInv'
  BY <1>1 DEF FrontInv, DeskInv, At
<1> QED BY <1>2, <1>3, <1>4 DEF FrontInv

\* What a thread answers, and to which question
LEMMA AnswersKnown ==
  ASSUME NEW t \in Task, NEW a \in AnswersTo(t)
  PROVE  /\ a \in Answers
         /\ a \in {"found", "unknown"} => t.op = "load"
         /\ a \in {"free", "right", "wrong"} => t.op \in {"check", "authenticate"}
         /\ a = "created" => t.op = "create" /\ t.name \notin exists
         /\ a = "found" => t.name \in exists
<1>1. t.op \in {"load", "authenticate", "check", "create"}
  BY DEF Task, Question
<1>2. CASE t.op = "load"
  BY <1>2 DEF AnswersTo, Answers
<1>3. CASE t.op = "authenticate"
  BY <1>3 DEF AnswersTo, Answers
<1>4. CASE t.op = "check"
  BY <1>4 DEF AnswersTo, Answers
<1>5. CASE t.op = "create"
  BY <1>5 DEF AnswersTo, Answers
<1> QED BY <1>1, <1>2, <1>3, <1>4, <1>5

\* The result of a task
LEMMA PerformPerforms ==
  ASSUME PoolInv, TableInv, NEW t \in running, Perform(t)
  PROVE  \E a \in AnswersTo(t), r \in Result :
           /\ Performed(t, r) /\ r.answer = a /\ t \in Task
           /\ r.task = IF a = "found" THEN LoadUser(t) ELSE t
           /\ r.task.op = t.op /\ r.task.conn = t.conn /\ r.task.name = t.name
           /\ a = "created" => CreateUser(t.name)
           /\ a # "created" => UNCHANGED <<exists, durable, created>>
           /\ fresh' = IF a \notin {"found", "created"} THEN fresh
                       ELSE {p \in fresh : p[1] # t.conn} \cup
                            {p \in {<<t.conn, t.name>>} :
                               link[p[1]] = "open" /\ sessions[p[2]] = None /\ row_known[p[2]]}
<1>1. PICK a \in AnswersTo(t) :
        /\ completed' = Append(completed,
             [task |-> IF a = "found" THEN LoadUser(t) ELSE t, answer |-> a])
        /\ IF a = "created" THEN CreateUser(t.name) ELSE UNCHANGED <<exists, durable, created>>
        /\ fresh' = IF a \notin {"found", "created"} THEN fresh
                    ELSE {p \in fresh : p[1] # t.conn} \cup
                         {p \in {<<t.conn, t.name>>} :
                            link[p[1]] = "open" /\ sessions[p[2]] = None /\ row_known[p[2]]}
  BY DEF Perform
<1>2. PICK u : u = IF a = "found" THEN LoadUser(t) ELSE t
  OBVIOUS
<1>3. PICK r : r = [task |-> u, answer |-> a]
  OBVIOUS
<1>4. t \in Task /\ t.name \in Names /\ durable[t.name] \in States
  BY DEF PoolInv, Task, TableInv
<1>5. u \in Task /\ u.op = t.op /\ u.conn = t.conn /\ u.name = t.name
  BY <1>2, <1>4 DEF LoadUser, Task
<1>6. r \in Result /\ r.task = u /\ r.answer = a
  BY <1>3, <1>4, <1>5, AnswersKnown DEF Result
<1>7. Performed(t, r)
  <2>1. running' = running \ {t} /\ UNCHANGED <<work, capacity, busy>>
    BY DEF Perform
  <2>2. completed' = Append(completed, r)
    BY <1>1, <1>2, <1>3
  <2> QED BY <1>5, <1>6, <2>1, <2>2 DEF Performed
<1> QED BY <1>1, <1>2, <1>4, <1>5, <1>6, <1>7

\* An account made is no longer being made.
LEMMA PerformKeepsFront ==
  ASSUME FrontInv, TableInv, NEW t \in running, Perform(t)
  PROVE  FrontInv'
<1>1. PICK a \in AnswersTo(t), r \in Result :
        /\ Performed(t, r) /\ r.answer = a /\ t \in Task
        /\ a = "created" => CreateUser(t.name)
        /\ a # "created" => UNCHANGED <<exists, durable, created>>
  BY PerformPerforms DEF FrontInv
<1>2. /\ UNCHANGED <<link, closing, authenticated, dialogue, account, new_name>>
      /\ UNCHANGED <<has_password, stopped, claims, failures, busy>>
  BY DEF Perform, linkVars, dialogueVars, limitVars
<1>3. /\ PoolInv' /\ Awaited' = Awaited /\ Claimants' \subseteq Claimants
      /\ a = "created" => t.conn \in Claimants \ Claimants'
  BY <1>1, PerformedMove, AnswersKnown DEF FrontInv
<1>4. Fits'
  BY <1>2, <1>3, FitsKept DEF FrontInv
<1>5. DeskInv'
  BY <1>2 DEF FrontInv, DeskInv, At
<1>6. ClaimsInv'
  <2>1. CASE a # "created"
    BY <1>1, <1>2, <1>3, <2>1, ClaimsKept DEF FrontInv, ClaimsInv
  <2>2. CASE a = "created"
    <3>1. /\ Cardinality(Claimants') \in Nat /\ Cardinality(Claimants) \in Nat
          /\ Cardinality(Claimants') < Cardinality(Claimants)
      <4>1. IsFiniteSet(Claimants) /\ Cardinality(Claimants) \in Nat
        BY AwaitedBusy DEF FrontInv
      <4>2. /\ Cardinality(Claimants') \in Nat /\ Cardinality(Claimants') <= Cardinality(Claimants)
            /\ Cardinality(Claimants') # Cardinality(Claimants)
        BY <1>3, <2>2, <4>1, FS_Subset, FS_CardinalityType
      <4> QED BY <4>1, <4>2
    <3>2. PICK x, y : x = Cardinality(Claimants) /\ y = Cardinality(Claimants')
      OBVIOUS
    <3>3. /\ claims \in 0..CreationLimit /\ created \in Nat /\ created + x <= claims
          /\ x \in Nat /\ y \in Nat /\ y < x /\ created' = created + 1 /\ CreationLimit \in Nat
      BY <1>1, <2>2, <3>1, <3>2, ConstantsType DEF CreateUser, FrontInv, ClaimsInv
    <3>4. created' + y <= claims /\ created' \in Nat
      BY <3>3
    <3> QED BY <1>2, <3>2, <3>4 DEF ClaimsInv, FrontInv
  <2> QED BY <2>1, <2>2
<1> QED BY <1>3, <1>4, <1>5, <1>6 DEF FrontInv

-------------------------------------------------------------------------------
(* The desk: results *)

\* A result drained is that of a connection of the pool.
LEMMA DrainsDrain ==
  ASSUME NEW c, NEW op, NEW answers, Drains(c, op, answers)
  PROVE  /\ Drained(c) /\ Head(completed).task.op = op /\ Head(completed).answer \in answers
         /\ UNCHANGED <<exists, backlog, durable, verdict>>
BY DEF Drains, Drained, Answered, tableVars

\* After a result is drained, what fitted fits as long as only its connection moves.
LEMMA DrainFits ==
  ASSUME FrontInv, NEW c \in Connections, Drained(c), link' = link,
         \A d \in Connections \ {c} : dialogue'[d] = dialogue[d]
  PROVE  PoolInv' /\ Fits'
<1>1. PoolInv' /\ Awaited' = {p \in Awaited : p[1] # c}
  BY DrainedMove DEF FrontInv
<1>2. \A p \in Awaited : p[1] \in Connections
  BY AwaitedBusy DEF FrontInv
<1>3. Fits'
  BY <1>1, <1>2, FitsKept DEF FrontInv
<1> QED BY <1>1, <1>3

\* The claims when a result is drained that gives none back
LEMMA DrainClaims ==
  ASSUME FrontInv, NEW c \in Connections, Drained(c), claims' = claims, created' = created,
         failures' \in [Names -> 0..FailureLimit]
  PROVE  ClaimsInv'
<1>1. Claimants' = Claimants \ {c}
  BY DrainedMove DEF FrontInv
<1> QED BY <1>1, ClaimsKept DEF FrontInv

\* The answer awaited by an open connection belongs to its prompt.
LEMMA AnswerInPlace ==
  ASSUME FrontInv, NEW c \in Connections, Drained(c), link[c] = "open"
  PROVE  /\ dialogue[c] = Question[Head(completed).task.op] /\ busy[c] /\ ~authenticated[c]
         /\ Head(completed) \in Result
         /\ busy' = [busy EXCEPT ![c] = FALSE]
<1>1. <<c, Head(completed).task.op>> \in Awaited /\ busy[c] /\ Head(completed) \in Result
  BY DrainedMove DEF FrontInv
<1>2. dialogue[c] = Question[Head(completed).task.op]
  BY <1>1 DEF FrontInv, Fits
<1> QED BY <1>1, <1>2 DEF FrontInv, DeskInv, Drained

\* A result of a closed connection is discarded; a failure leaves the prompt where it is.
LEMMA DiscardKeepsFront ==
  ASSUME FrontInv, NEW c \in Connections, Discard(c) \/ Failed(c)
  PROVE  FrontInv'
<1>1. /\ Drained(c) /\ UNCHANGED <<link, closing, authenticated, dialogue, account, new_name>>
      /\ UNCHANGED <<has_password, stopped, claims, failures, created>>
  BY DrainsDrain DEF Discard, Failed, Calls, linkVars, dialogueVars, limitVars, histVars
<1>2. PoolInv' /\ Fits' /\ ClaimsInv'
  BY <1>1, DrainFits, DrainClaims DEF FrontInv, ClaimsInv
<1>3. \A d \in Connections : busy'[d] => busy[d]
  BY <1>1 DEF Drained, FrontInv, PoolInv
<1>4. DeskInv'
  BY <1>1, <1>3 DEF FrontInv, DeskInv, At
<1> QED BY <1>2, <1>4 DEF FrontInv

\* The account is found, or an attempt is counted.
LEMMA AccountLoadedKeepsFront ==
  ASSUME FrontInv, NEW c \in Connections, AccountLoaded(c)
  PROVE  FrontInv'
<1> DEFINE r == Head(completed)
           n == r.task.name
           s == r.task.state
<1>1. /\ link[c] = "open" /\ Drained(c) /\ UNCHANGED <<link, authenticated, new_name>>
      /\ UNCHANGED <<has_password, stopped, claims, created>>
  BY DrainsDrain DEF AccountLoaded, Calls, histVars
<1>2. r \in Result /\ busy' = [busy EXCEPT ![c] = FALSE]
  BY <1>1, AnswerInPlace
<1>3. n \in Names /\ [name |-> n, state |-> s] \in Record
  BY <1>2 DEF Result, Task, Record
<1>4. CASE r.answer = "found"
  <2>1. /\ account' = [account EXCEPT ![c] = [name |-> n, state |-> s]]
        /\ dialogue' = [dialogue EXCEPT ![c] = "password"] /\ UNCHANGED <<closing, failures>>
    BY <1>4 DEF AccountLoaded, Prompts
  <2>2. DeskInv'
    <3> HIDE DEF n, s
    <3> QED BY <1>1, <1>2, <1>3, <2>1 DEF FrontInv, DeskInv, At, Dialogues, PoolInv
  <2> QED BY <1>1, <2>1, <2>2, DrainFits, DrainClaims DEF FrontInv, ClaimsInv, DeskInv
<1>5. CASE r.answer # "found"
  <2>1. CountFailure(c, n) /\ UNCHANGED <<account, dialogue>>
    BY <1>5 DEF AccountLoaded
  <2>2. closing' \in [Connections -> BOOLEAN] /\ failures' \in [Names -> 0..FailureLimit]
    <3>1. closing' \in [Connections -> BOOLEAN]
      BY <2>1 DEF CountFailure, CloseAfterOutput, FrontInv, DeskInv
    <3> QED BY <1>3, <2>1, <3>1, FailuresCounted DEF CountFailure, FrontInv
  <2>3. DeskInv'
    BY <1>1, <1>2, <2>1, <2>2 DEF FrontInv, DeskInv, At, PoolInv
  <2> QED BY <1>1, <2>1, <2>2, <2>3, DrainFits, DrainClaims DEF FrontInv
<1> QED BY <1>4, <1>5

\* The password is wrong: an attempt is counted.
LEMMA WrongPasswordKeepsFront ==
  ASSUME FrontInv, NEW c \in Connections, WrongPassword(c)
  PROVE  FrontInv'
<1> DEFINE n == account[c].name
<1>1. /\ link[c] = "open" /\ Drained(c) /\ Head(completed).task.op = "authenticate"
      /\ UNCHANGED <<link, authenticated, dialogue, account, new_name>>
      /\ UNCHANGED <<has_password, stopped, claims, created>> /\ CountFailure(c, n)
  BY DrainsDrain DEF WrongPassword, Calls, dialogueVars, histVars
<1>2. /\ dialogue[c] = "password" /\ ~authenticated[c]
      /\ busy' = [busy EXCEPT ![c] = FALSE]
  BY <1>1, AnswerInPlace DEF Question
<1>3. n \in Names
  BY <1>1, <1>2 DEF FrontInv, DeskInv, At, Record
<1>4. closing' \in [Connections -> BOOLEAN] /\ failures' \in [Names -> 0..FailureLimit]
  <2>1. closing' \in [Connections -> BOOLEAN]
    BY <1>1 DEF CountFailure, CloseAfterOutput, FrontInv, DeskInv
  <2> QED BY <1>1, <1>3, <2>1, FailuresCounted DEF CountFailure, FrontInv
<1>5. DeskInv'
  BY <1>1, <1>2, <1>4 DEF FrontInv, DeskInv, At, PoolInv
<1> QED BY <1>1, <1>4, <1>5, DrainFits, DrainClaims DEF FrontInv

\* The wanted name is free, or not.
LEMMA NewNameCheckedKeepsFront ==
  ASSUME FrontInv, NEW c \in Connections, NewNameChecked(c)
  PROVE  FrontInv'
<1>1. /\ link[c] = "open" /\ Drained(c) /\ Head(completed).task.op = "check"
      /\ UNCHANGED <<link, closing, authenticated, account, new_name>>
      /\ UNCHANGED <<has_password, stopped, claims, failures, created>>
  BY DrainsDrain DEF NewNameChecked, Calls, linkVars, limitVars, histVars
<1>2. PICK x \in {"new_password", "new_name"} : dialogue' = [dialogue EXCEPT ![c] = x]
  BY DEF NewNameChecked, Prompts
<1>3. /\ dialogue[c] = "new_name" /\ busy[c] /\ ~authenticated[c]
      /\ busy' = [busy EXCEPT ![c] = FALSE]
  BY <1>1, AnswerInPlace DEF Question
<1>4. new_name[c] \in Names
  BY <1>1, <1>3 DEF FrontInv, DeskInv, At
<1>5. DeskInv'
  BY <1>1, <1>2, <1>3, <1>4 DEF FrontInv, DeskInv, At, Dialogues, PoolInv
<1> QED BY <1>1, <1>2, <1>5, DrainFits, DrainClaims DEF FrontInv, ClaimsInv, DeskInv

\* The claim of an account that was not made is given back.
LEMMA CreationFailedKeepsFront ==
  ASSUME FrontInv, NEW c \in Connections, CreationFailed(c)
  PROVE  FrontInv'
<1>1. /\ link[c] = "open" /\ Drained(c) /\ Head(completed).task.op = "create"
      /\ Head(completed).answer # "created"
      /\ dialogue' = [dialogue EXCEPT ![c] = "new_name"] /\ claims' = claims - 1
      /\ UNCHANGED <<link, closing, authenticated, account, new_name>>
      /\ UNCHANGED <<has_password, stopped, failures, created>>
  BY DrainsDrain DEF CreationFailed, Calls, Prompts, ReleaseCreation, linkVars, histVars
<1>2. /\ dialogue[c] = "confirm_password" /\ busy[c] /\ ~authenticated[c]
      /\ busy' = [busy EXCEPT ![c] = FALSE]
  BY <1>1, AnswerInPlace DEF Question
<1>3. DeskInv'
  BY <1>1, <1>2 DEF FrontInv, DeskInv, At, Dialogues, PoolInv
<1>4. PoolInv' /\ Fits'
  BY <1>1, DrainFits DEF FrontInv, DeskInv
<1>5. ClaimsInv'
  <2>1. c \in Claimants /\ Claimants' = Claimants \ {c} /\ IsFiniteSet(Claimants)
    BY <1>1, DrainedMove, AwaitedBusy DEF FrontInv
  <2>2. PICK x, y : x = Cardinality(Claimants) /\ y = Cardinality(Claimants')
    OBVIOUS
  <2>3. x \in Nat /\ y = x - 1 /\ y \in Nat
    BY <2>1, <2>2, FS_RemoveElement, FS_CardinalityType, FS_Subset
  <2>4. /\ claims \in 0..CreationLimit /\ created \in Nat /\ created + x <= claims
        /\ CreationLimit \in Nat
    BY <2>2, ConstantsType DEF FrontInv, ClaimsInv
  <2>5. claims' \in 0..CreationLimit /\ created + y <= claims'
    BY <1>1, <2>3, <2>4
  <2> QED BY <1>1, <2>2, <2>5 DEF ClaimsInv, FrontInv
<1> QED BY <1>3, <1>4, <1>5 DEF FrontInv

\* The end of the dialogue: offline, refused or promoted
LEMMA FinishKeepsDesk ==
  ASSUME FrontInv, NEW c \in Connections, NEW n \in Names, NEW s \in States, Drained(c),
         link[c] = "open", FinishAuthenticated(c, n, s), UNCHANGED <<has_password, claims, stopped>>
  PROVE  FrontInv'
<1>1. busy' = [busy EXCEPT ![c] = FALSE]
  BY DEF Drained
<1>2. CASE ~Offline(n)
  <2>1. /\ dialogue' = [dialogue EXCEPT ![c] = "name"] /\ account' = [account EXCEPT ![c] = None]
        /\ UNCHANGED <<link, closing, authenticated, new_name, failures, created>>
    BY <1>2 DEF FinishAuthenticated, Prompts, linkVars, histVars
  <2>2. DeskInv'
    BY <1>1, <2>1 DEF FrontInv, DeskInv, At, Dialogues, PoolInv
  <2> QED BY <2>1, <2>2, DrainFits, DrainClaims DEF FrontInv, ClaimsInv, DeskInv
<1>3. CASE Offline(n) /\ ~CanPromote(c)
  <2>1. /\ closing' = [closing EXCEPT ![c] = TRUE]
        /\ UNCHANGED <<link, authenticated, dialogue, account, new_name, failures, created>>
    BY <1>3 DEF FinishAuthenticated, CloseAfterOutput, histVars
  <2>2. DeskInv'
    BY <1>1, <2>1 DEF FrontInv, DeskInv, At, PoolInv
  <2> QED BY <2>1, <2>2, DrainFits, DrainClaims DEF FrontInv, ClaimsInv
<1>4. CASE Offline(n) /\ CanPromote(c)
  <2>1. /\ authenticated' = [authenticated EXCEPT ![c] = TRUE]
        /\ account' = [account EXCEPT ![c] = None] /\ new_name' = [new_name EXCEPT ![c] = None]
        /\ failures' = [failures EXCEPT ![n] = 0]
        /\ UNCHANGED <<link, closing, dialogue, created>>
    BY <1>4 DEF FinishAuthenticated, ClearFailures
  <2>2. DeskInv'
    BY <1>1, <2>1 DEF FrontInv, DeskInv, At, PoolInv
  <2>3. failures' \in [Names -> 0..FailureLimit]
    BY <2>1, ConstantsType DEF FrontInv, ClaimsInv
  <2> QED BY <2>1, <2>2, <2>3, DrainFits, DrainClaims DEF FrontInv
<1> QED BY <1>2, <1>3, <1>4

\* Who logs in, and with what: a record of the tables
LEMMA PasswordFinishes ==
  ASSUME FrontInv, NEW c \in Connections, RightPassword(c)
  PROVE  \E n \in Names, s \in States :
           /\ n = Head(completed).task.name /\ s = Head(completed).task.state
           /\ Drained(c) /\ link[c] = "open" /\ FinishAuthenticated(c, n, s)
           /\ Head(completed).task.op = "authenticate"
           /\ UNCHANGED <<has_password, claims, stopped, exists, backlog, durable, verdict>>
<1>1. /\ Drained(c) /\ link[c] = "open"
      /\ Head(completed).task.op = "authenticate"
      /\ FinishAuthenticated(c, Head(completed).task.name, Head(completed).task.state)
      /\ UNCHANGED <<has_password, claims, stopped, exists, backlog, durable, verdict>>
  BY DrainsDrain DEF RightPassword, Calls
<1>2. Head(completed).task.name \in Names /\ Head(completed).task.state \in States
  BY <1>1, AnswerInPlace DEF Result, Task
<1> QED BY <1>1, <1>2

\* A created account finishes the login with the new name and a blank document.
LEMMA CreationFinishes ==
  ASSUME FrontInv, NEW c \in Connections, AccountCreated(c)
  PROVE  /\ new_name[c] \in Names /\ InitialState \in States
         /\ Drained(c) /\ link[c] = "open" /\ FinishAuthenticated(c, new_name[c], InitialState)
         /\ Head(completed).task.op = "create" /\ Head(completed).answer = "created"
         /\ UNCHANGED <<has_password, claims, stopped, exists, backlog, durable, verdict>>
<1>1. /\ Drained(c) /\ link[c] = "open"
      /\ Head(completed).task.op = "create" /\ Head(completed).answer = "created"
      /\ FinishAuthenticated(c, new_name[c], InitialState)
      /\ UNCHANGED <<has_password, claims, stopped, exists, backlog, durable, verdict>>
  BY DrainsDrain DEF AccountCreated, Calls
<1>2. dialogue[c] = "confirm_password" /\ ~authenticated[c]
  BY <1>1, AnswerInPlace DEF Question
<1>3. new_name[c] \in Names
  BY <1>1, <1>2 DEF FrontInv, DeskInv, At
<1> QED BY <1>1, <1>3, ConstantsType

\* Both ways to log in keep the desk in order.
LEMMA LoginKeepsFront ==
  ASSUME FrontInv, NEW c \in Connections, RightPassword(c) \/ AccountCreated(c)
  PROVE  FrontInv'
BY PasswordFinishes, CreationFinishes, FinishKeepsDesk

\* What the session and the store do is behind the desk's back.
LEMMA SessionKeepsFront ==
  ASSUME FrontInv, UNCHANGED <<linkVars, dialogueVars, poolVars, limitVars, created, stopped>>
  PROVE  FrontInv'
<1>1. /\ UNCHANGED <<link, closing, authenticated, dialogue, account, new_name, has_password>>
      /\ UNCHANGED <<stopped, claims, failures, created, busy>> /\ UNCHANGED poolVars
  BY DEF linkVars, dialogueVars, limitVars, poolVars
<1>2. PoolInv' /\ Awaited' = Awaited /\ Claimants' = Claimants
  BY <1>1, PoolAlone DEF FrontInv
<1>3. Fits' /\ ClaimsInv'
  BY <1>1, <1>2, FitsKept, ClaimsKept DEF FrontInv, ClaimsInv
<1>4. DeskInv'
  BY <1>1 DEF FrontInv, DeskInv, At
<1> QED BY <1>2, <1>3, <1>4 DEF FrontInv

-------------------------------------------------------------------------------
(* The registry, the sessions and the players' places *)

BackInv == TableInv /\ SessionInv /\ PlayersWithinLimit

\* A step that leaves sessions and tables alone
LEMMA SessionsAlone ==
  ASSUME TableInv, SessionInv, UNCHANGED <<tableVars, sessionVars>>
  PROVE  TableInv' /\ SessionInv'
<1>1. /\ UNCHANGED <<exists, backlog, durable, sessions, life, player, stored, receipt>>
  BY DEF tableVars, sessionVars
<1> QED BY <1>1 DEF TableInv, SessionInv, Inside

\* The players' places are finite in number, and one more at most is taken.
LEMMA PlayersFinite ==
  /\ IsFiniteSet(Players) /\ Cardinality(Players) \in Nat
  /\ \A c \in Connections : /\ IsFiniteSet(Players \ {c}) /\ Cardinality(Players \ {c}) \in Nat
                            /\ Cardinality((Players \ {c}) \cup {c}) = Cardinality(Players \ {c}) + 1
<1>1. Players \subseteq Connections /\ IsFiniteSet(Connections)
  BY ConstantsType DEF Players
<1>2. IsFiniteSet(Players) /\ Cardinality(Players) \in Nat
  BY <1>1, FS_Subset, FS_CardinalityType
<1>3. ASSUME NEW c \in Connections
      PROVE  /\ IsFiniteSet(Players \ {c}) /\ Cardinality(Players \ {c}) \in Nat
             /\ Cardinality((Players \ {c}) \cup {c}) = Cardinality(Players \ {c}) + 1
  <2>1. IsFiniteSet(Players \ {c}) /\ Cardinality(Players \ {c}) \in Nat
    BY <1>1, FS_Subset, FS_CardinalityType
  <2> QED BY <2>1, FS_AddElement
<1> QED BY <1>2, <1>3

\* Nobody new is promoted.
LEMMA PlayersAlone ==
  ASSUME PlayersWithinLimit, Players' \subseteq Players
  PROVE  PlayersWithinLimit'
<1>1. Cardinality(Players') \in Nat /\ Cardinality(Players') <= Cardinality(Players)
  BY PlayersFinite, FS_Subset, FS_CardinalityType
<1>2. PICK x, y : x = Cardinality(Players) /\ y = Cardinality(Players')
  OBVIOUS
<1>3. x \in Nat /\ y \in Nat /\ PlayerLimit \in Nat /\ y <= x /\ x <= PlayerLimit
  BY <1>1, <1>2, PlayersFinite, ConstantsType DEF PlayersWithinLimit
<1>4. y <= PlayerLimit
  BY <1>3
<1> QED BY <1>2, <1>4 DEF PlayersWithinLimit

\* Connections, lines and results that promote nobody
LEMMA DeskKeepsBack ==
  ASSUME FrontInv, BackInv, UNCHANGED <<tableVars, sessionVars>>,
         \A d \in Connections : link'[d] = "open" /\ authenticated'[d] => link[d] = "open" /\ authenticated[d]
  PROVE  BackInv'
<1>1. Players' \subseteq Players
  BY DEF Players
<1> QED BY <1>1, SessionsAlone, PlayersAlone DEF BackInv

\* The login: the session is registered, and takes its player's place.
LEMMA FinishKeepsBack ==
  ASSUME FrontInv, BackInv, NEW c \in Connections, NEW n \in Names, NEW s \in States,
         FinishAuthenticated(c, n, s), UNCHANGED tableVars
  PROVE  BackInv'
<1>1. TableInv'
  BY DEF BackInv, TableInv, tableVars
<1>2. CASE ~Offline(n)
  <2>1. UNCHANGED <<linkVars, sessionVars>>
    BY <1>2 DEF FinishAuthenticated
  <2> QED BY <2>1, DeskKeepsBack DEF linkVars, tableVars
<1>3. CASE Offline(n) /\ ~CanPromote(c)
  <2>1. UNCHANGED <<link, authenticated, sessionVars>>
    BY <1>3 DEF FinishAuthenticated
  <2> QED BY <2>1, DeskKeepsBack DEF tableVars
<1>4. CASE Offline(n) /\ CanPromote(c)
  <2>1. /\ authenticated' = [authenticated EXCEPT ![c] = TRUE]
        /\ sessions' = [sessions EXCEPT ![n] = c]
        /\ player' = [player EXCEPT ![c] = [name |-> n, state |-> s]]
        /\ stored' = [stored EXCEPT ![c] = s]
        /\ life' = [life EXCEPT ![c] = "playing"]
        /\ UNCHANGED <<link, receipt>>
    BY <1>4 DEF FinishAuthenticated
  <2>2. [name |-> n, state |-> s] \in Record /\ [name |-> n, state |-> s].name = n
    BY DEF Record
  <2>3. sessions[n] = None /\ None \notin Connections
    BY <1>4, LoginAssumption DEF Offline
  <2>4. SessionInv'
    <3> DEFINE rec == [name |-> n, state |-> s]
    <3> HIDE DEF rec
    <3>1. /\ rec \in Record /\ rec.name = n /\ player' = [player EXCEPT ![c] = rec]
      BY <2>1, <2>2 DEF rec
    <3>2. /\ sessions' \in [Names -> Connections \cup {None}] /\ life' \in [Connections -> Lives]
          /\ player' \in [Connections -> Record \cup {None}] /\ stored' \in [Connections -> States]
          /\ receipt' \in [Connections -> Receipts \cup {None}]
      BY <2>1, <3>1 DEF BackInv, SessionInv, Lives
    <3>3. ASSUME NEW d \in Connections
          PROVE  /\ life'[d] # "none" => player'[d] \in Record
                 /\ life'[d] \in Inside => sessions'[player'[d].name] = d
      <4>1. CASE d = c
        BY <2>1, <3>1, <4>1 DEF BackInv, SessionInv
      <4>2. CASE d # c
        <5>1. life'[d] = life[d] /\ player'[d] = player[d]
          BY <2>1, <4>2 DEF BackInv, SessionInv
        <5>2. ASSUME life[d] \in Inside
              PROVE  sessions'[player[d].name] = d
          <6>1. sessions[player[d].name] = d /\ player[d].name \in Names
            BY <5>2 DEF BackInv, SessionInv, Inside, Record
          <6>2. player[d].name # n
            BY <2>3, <6>1
          <6> QED BY <2>1, <6>1, <6>2 DEF BackInv, SessionInv
        <5> QED BY <5>1, <5>2 DEF BackInv, SessionInv
      <4> QED BY <4>1, <4>2
    <3> QED BY <3>2, <3>3 DEF SessionInv, Inside
  <2>5. PlayersWithinLimit'
    <3>1. Players' \subseteq (Players \ {c}) \cup {c}
      BY <2>1 DEF Players, FrontInv, DeskInv
    <3>2. Cardinality(Players \ {c}) \in Nat /\ Cardinality(Players \ {c}) < PlayerLimit
      BY <1>4, PlayersFinite DEF CanPromote
    <3>3. /\ IsFiniteSet((Players \ {c}) \cup {c})
          /\ Cardinality((Players \ {c}) \cup {c}) = Cardinality(Players \ {c}) + 1
      BY PlayersFinite, FS_AddElement
    <3>4. /\ Cardinality(Players') \in Nat
          /\ Cardinality(Players') <= Cardinality((Players \ {c}) \cup {c})
      BY <3>1, <3>3, FS_Subset, FS_CardinalityType
    <3>5. PICK x, y : x = Cardinality(Players \ {c}) /\ y = Cardinality(Players')
      OBVIOUS
    <3>6. x \in Nat /\ y \in Nat /\ PlayerLimit \in Nat /\ x < PlayerLimit /\ y <= x + 1
      BY <3>2, <3>3, <3>4, <3>5, ConstantsType
    <3>7. y <= PlayerLimit
      BY <3>6
    <3> QED BY <3>5, <3>7 DEF PlayersWithinLimit
  <2> QED BY <1>1, <2>4, <2>5 DEF BackInv
<1> QED BY <1>2, <1>3, <1>4

\* Both ways to log in keep the registry and the places in order.
LEMMA LoginKeepsBack ==
  ASSUME FrontInv, BackInv, NEW c \in Connections, RightPassword(c) \/ AccountCreated(c)
  PROVE  BackInv'
<1>1. UNCHANGED tableVars
  BY PasswordFinishes, CreationFinishes DEF tableVars
<1> QED BY <1>1, PasswordFinishes, CreationFinishes, FinishKeepsBack

\* A thread reads a row or makes an account.
LEMMA PerformKeepsBack ==
  ASSUME FrontInv, BackInv, NEW t \in running, Perform(t)
  PROVE  BackInv'
<1>1. /\ UNCHANGED <<link, authenticated, backlog, sessions, life, player, stored, receipt>>
  BY DEF Perform, linkVars, sessionVars
<1>2. \/ CreateUser(t.name) /\ t.name \in Names
      \/ UNCHANGED <<exists, durable>>
  <2>1. t \in Task
    BY DEF FrontInv, PoolInv
  <2> QED BY <2>1 DEF Perform, Task
<1>3. TableInv'
  BY <1>1, <1>2, ConstantsType DEF BackInv, TableInv, CreateUser
<1>4. SessionInv'
  BY <1>1 DEF BackInv, SessionInv, Inside
<1>5. PlayersWithinLimit'
  BY <1>1 DEF BackInv, PlayersWithinLimit, Players
<1> QED BY <1>3, <1>4, <1>5 DEF BackInv

\* The steps of a session
LEMMA PlayKeepsBack ==
  ASSUME BackInv, NEW c \in Connections, NEW s \in States, Play(c, s)
  PROVE  BackInv'
<1>1. /\ life[c] = "playing" /\ player' = [player EXCEPT ![c].state = s]
      /\ UNCHANGED <<link, authenticated, exists, backlog, durable, sessions, life, stored, receipt>>
  BY DEF Play, linkVars, tableVars
<1>2. player[c] \in Record /\ player'[c] = [player[c] EXCEPT !.state = s]
  BY <1>1 DEF BackInv, SessionInv
<1>3. player'[c] \in Record /\ player'[c].name = player[c].name
  BY <1>2 DEF Record
<1>4. \A d \in Connections \ {c} : player'[d] = player[d]
  BY <1>1 DEF BackInv, SessionInv
<1>5. player' \in [Connections -> Record \cup {None}]
  <2>1. DOMAIN player' = Connections /\ player' = [d \in Connections |-> player'[d]]
    BY <1>1 DEF BackInv, SessionInv
  <2> QED BY <1>3, <1>4, <2>1 DEF BackInv, SessionInv
<1>6. SessionInv'
  BY <1>1, <1>3, <1>4, <1>5 DEF BackInv, SessionInv, Inside
<1> QED BY <1>1, <1>6 DEF BackInv, TableInv, PlayersWithinLimit, Players

\* The final save asks the store, or has nothing to ask.
LEMMA FinalSaveKeepsBack ==
  ASSUME BackInv, NEW c \in Connections, FinalSave(c)
  PROVE  BackInv'
<1> DEFINE n == player[c].name
<1>1. /\ life[c] = "playing"
      /\ UNCHANGED <<link, authenticated, exists, sessions, player, stored>>
  BY DEF FinalSave, linkVars
<1>2. player[c] \in Record /\ n \in Names /\ player[c].state \in States
  BY <1>1 DEF BackInv, SessionInv, Record
<1>3. PICK x \in {"leaving", "saving"} : life' = [life EXCEPT ![c] = x]
  BY DEF FinalSave
<1>4. receipt' \in [Connections -> Receipts \cup {None}] /\ TableInv'
  <2>1. CASE player[c].state = stored[c]
    BY <1>1, <2>1 DEF FinalSave, BackInv, TableInv, SessionInv
  <2>2. CASE player[c].state # stored[c]
    <3>1. PICK r \in Receipts : /\ receipt' = [receipt EXCEPT ![c] = r]
                                /\ Store!Accept(n, player[c].state, r) \/ Store!Refuse(r)
      BY <2>2 DEF FinalSave
    <3>2. receipt' \in [Connections -> Receipts \cup {None}]
      BY <3>1 DEF BackInv, SessionInv
    <3>3. CASE Store!Accept(n, player[c].state, r)
      <4>1. PICK q : q = [receipt |-> r, encoded_state |-> player[c].state]
        OBVIOUS
      <4>2. /\ backlog' = [backlog EXCEPT ![n] = Append(@, q)] /\ durable' = durable
            /\ q \in Store!Request
        BY <1>2, <3>3, <4>1 DEF Store!Accept, Store!Request
      <4>3. backlog[n] \in Seq(Store!Request)
        BY <1>2 DEF BackInv, TableInv
      <4>4. Append(backlog[n], q) \in Seq(Store!Request)
        BY <4>2, <4>3
      <4>5. backlog' \in [Names -> Seq(Store!Request)]
        BY <1>2, <4>2, <4>4 DEF BackInv, TableInv
      <4> QED BY <1>1, <3>2, <4>2, <4>5 DEF BackInv, TableInv
    <3>4. CASE Store!Refuse(r)
      <4>1. backlog' = backlog /\ durable' = durable
        BY <3>4 DEF Store!Refuse
      <4> QED BY <1>1, <3>2, <4>1 DEF BackInv, TableInv
    <3> QED BY <3>1, <3>3, <3>4
  <2> QED BY <2>1, <2>2
<1>5. SessionInv'
  BY <1>1, <1>3, <1>4 DEF BackInv, SessionInv, Inside, Lives
<1> QED BY <1>1, <1>4, <1>5 DEF BackInv, PlayersWithinLimit, Players

\* The wait for the final save ends.
LEMMA SaveEndsKeepsBack ==
  ASSUME BackInv, NEW c \in Connections, SaveEnds(c)
  PROVE  BackInv'
<1>1. /\ life[c] = "saving" /\ life' = [life EXCEPT ![c] = "leaving"]
      /\ receipt' = [receipt EXCEPT ![c] = None]
      /\ UNCHANGED <<link, authenticated, exists, backlog, durable, sessions, player, stored>>
  BY DEF SaveEnds, linkVars, tableVars
<1>2. SessionInv'
  BY <1>1 DEF BackInv, SessionInv, Inside, Lives
<1> QED BY <1>1, <1>2 DEF BackInv, TableInv, PlayersWithinLimit, Players

\* The session takes its own entry out of the registry.
LEMMA UnlistKeepsBack ==
  ASSUME BackInv, NEW c \in Connections, Unlist(c)
  PROVE  BackInv'
<1> DEFINE n == player[c].name
<1>1. /\ life[c] = "leaving" /\ life' = [life EXCEPT ![c] = "unlisted"]
      /\ sessions' = [sessions EXCEPT ![n] = IF sessions[n] = c THEN None ELSE sessions[n]]
      /\ UNCHANGED <<link, authenticated, exists, backlog, durable, player, stored, receipt>>
  BY DEF Unlist, linkVars, tableVars
<1>2. n \in Names /\ sessions[n] = c
  BY <1>1 DEF BackInv, SessionInv, Record, Inside
<1>3. sessions' = [sessions EXCEPT ![n] = None]
  BY <1>1, <1>2
<1> HIDE DEF n
<1>4. ASSUME NEW d \in Connections, life'[d] \in Inside
      PROVE  sessions'[player'[d].name] = d
  <2>1. d # c /\ life[d] = life'[d]
    BY <1>1, <1>4 DEF BackInv, SessionInv, Inside
  <2>2. sessions[player[d].name] = d /\ player[d].name \in Names
    BY <1>4, <2>1 DEF BackInv, SessionInv, Record, Inside
  <2>3. player[d].name # n
    BY <1>2, <2>1, <2>2
  <2> QED BY <1>1, <1>2, <1>3, <2>2, <2>3 DEF BackInv, SessionInv
<1>5. SessionInv'
  BY <1>1, <1>2, <1>3, <1>4 DEF BackInv, SessionInv, Inside, Lives
<1> QED BY <1>1, <1>5 DEF BackInv, TableInv, PlayersWithinLimit, Players

\* The session drops its player.
LEMMA DropPlayerKeepsBack ==
  ASSUME BackInv, NEW c \in Connections, DropPlayer(c)
  PROVE  BackInv'
<1>1. /\ life' = [life EXCEPT ![c] = "none"] /\ player' = [player EXCEPT ![c] = None]
      /\ stored' = [stored EXCEPT ![c] = InitialState]
      /\ UNCHANGED <<link, authenticated, exists, backlog, durable, sessions, receipt>>
  BY DEF DropPlayer, linkVars, tableVars
<1>2. SessionInv'
  BY <1>1, ConstantsType DEF BackInv, SessionInv, Inside, Lives
<1> QED BY <1>1, <1>2 DEF BackInv, TableInv, PlayersWithinLimit, Players

\* The writer writes a snapshot that some session gave it.
LEMMA SettleKeepsBack ==
  ASSUME BackInv, Settle
  PROVE  BackInv'
<1>1. /\ UNCHANGED <<link, authenticated, exists, sessions, life, player, stored, receipt>>
  BY DEF Settle, linkVars, sessionVars
<1>2. backlog' \in [Names -> Seq(Store!Request)] /\ durable' \in [Names -> States]
  <2>1. ASSUME NEW n \in Names, NEW i \in 1..Len(backlog[n]), Store!Commit(n, i) \/ Store!Lose(n, i)
        PROVE  backlog' \in [Names -> Seq(Store!Request)] /\ durable' \in [Names -> States]
    <3>1. backlog[n] \in Seq(Store!Request) /\ Len(backlog[n]) \in Nat
      BY DEF BackInv, TableInv
    <3>2. SubSeq(backlog[n], i + 1, Len(backlog[n])) \in Seq(Store!Request)
      BY <3>1
    <3>3. backlog' = [backlog EXCEPT ![n] = SubSeq(backlog[n], i + 1, Len(backlog[n]))]
      BY <2>1 DEF Store!Commit, Store!Lose, Store!Settle
    <3>4. backlog' \in [Names -> Seq(Store!Request)]
      BY <3>2, <3>3 DEF BackInv, TableInv
    <3>5. backlog[n][i].encoded_state \in States
      <4>1. backlog[n][i] \in Store!Request
        BY <3>1
      <4> QED BY <4>1 DEF Store!Request
    <3>6. durable' = durable \/ durable' = [durable EXCEPT ![n] = backlog[n][i].encoded_state]
      BY <2>1 DEF Store!Commit, Store!Lose
    <3> QED BY <3>4, <3>5, <3>6 DEF BackInv, TableInv
  <2>2. ASSUME NEW r \in Receipts, Store!Forget(r)
        PROVE  backlog' \in [Names -> Seq(Store!Request)] /\ durable' \in [Names -> States]
    BY <2>2 DEF Store!Forget, BackInv, TableInv
  <2> QED BY <2>1, <2>2 DEF Settle
<1> QED BY <1>1, <1>2 DEF BackInv, TableInv, SessionInv, Inside, PlayersWithinLimit, Players

-------------------------------------------------------------------------------
(* The theorems *)

LoginInv == FrontInv /\ BackInv

\* At the start nobody is connected.
LEMMA LoginInitial == Init => LoginInv
<1> SUFFICES ASSUME Init PROVE LoginInv
  OBVIOUS
<1>1. Values(<<>>) = {} /\ ConnsOf(<<>>) = <<>> /\ AnsweredTo(<<>>) = <<>>
  BY ValuesType DEF ConnsOf, AnsweredTo
<1>2. /\ work = <<>> /\ running = {} /\ completed = <<>>
      /\ Waiting = {} /\ Held = {} /\ Done = {} /\ Tasks = {} /\ Claimants = {}
  BY <1>1 DEF Init, Waiting, Held, Done, Tasks, Claimants
<1>3. IsFiniteSet({}) /\ Cardinality({}) = 0
  BY FS_EmptySet
<1>4. PoolInv
  <2>1. capacity + Len(work) + Cardinality(running) + Len(completed) = PoolLimit
    BY <1>2, <1>3, ConstantsType DEF Init
  <2>2. /\ capacity \in Nat /\ busy = [c \in Connections |-> FALSE]
        /\ OneEach(ConnsOf(work)) /\ OneEach(AnsweredTo(completed))
    BY <1>1, <1>2, ConstantsType DEF Init, OneEach
  <2> QED BY <1>2, <1>3, <2>1, <2>2 DEF PoolInv
<1>5. DeskInv
  BY DEF Init, DeskInv, At, Dialogues
<1>6. Fits /\ ClaimsInv
  <2>1. Fits
    BY <1>2 DEF Fits, Awaited
  <2> QED BY <1>2, <1>3, <2>1, ConstantsType DEF Init, ClaimsInv
<1>7. TableInv
  BY LoginAssumption DEF Init, TableInv, Store!StoreInit, Store!Request
<1>8. SessionInv
  BY ConstantsType DEF Init, SessionInv, Lives, Inside
<1>9. PlayersWithinLimit
  <2>1. Players = {}
    BY DEF Init, Players
  <2> QED BY <1>3, <2>1, ConstantsType DEF PlayersWithinLimit
<1> QED BY <1>4, <1>5, <1>6, <1>7, <1>8, <1>9 DEF LoginInv, FrontInv, BackInv

\* Every step keeps the desk, the pool, the claims, the registry and the places in order.
LEMMA LoginStep == LoginInv /\ [Next]_vars => LoginInv'
<1> SUFFICES ASSUME FrontInv, BackInv, [Next]_vars PROVE FrontInv' /\ BackInv'
  BY DEF LoginInv
<1>1. ASSUME NEW c \in Connections, Accept(c) \/ Close(c) PROVE FrontInv' /\ BackInv'
  <2>1. UNCHANGED <<tableVars, sessionVars>>
    BY <1>1 DEF Accept, Close
  <2>2. \A d \in Connections : link'[d] = "open" /\ authenticated'[d]
                                 => link[d] = "open" /\ authenticated[d]
    BY <1>1 DEF Accept, Close, MarkClosed, FrontInv, DeskInv
  <2> QED BY <1>1, <2>1, <2>2, AcceptKeepsFront, CloseKeepsFront, DeskKeepsBack
<1>2. ASSUME NEW c \in Connections, Line(c) PROVE FrontInv' /\ BackInv'
  <2>1. FrontInv'
    BY <1>2, NameLineKeepsFront, NewNameLineKeepsFront, NewUserLineKeepsFront,
       PasswordLineKeepsFront, NewPasswordLineKeepsFront, MismatchLineKeepsFront,
       MatchLineKeepsFront DEF Line
  <2>2. UNCHANGED <<link, authenticated, tableVars, sessionVars>>
    BY <1>2 DEF Line, NameLine, NewNameLine, NewUserLine, PasswordLine, NewPasswordLine,
       MismatchLine, MatchLine, linkVars
  <2> QED BY <2>1, <2>2, DeskKeepsBack
<1>3. ASSUME NEW c \in Connections, Session(c) PROVE FrontInv' /\ BackInv'
  <2>1. UNCHANGED <<linkVars, dialogueVars, poolVars, limitVars, created, stopped>>
    BY <1>3 DEF Session, FinalSave, SaveEnds, Unlist, DropPlayer, Play, histVars
  <2>2. BackInv'
    BY <1>3, FinalSaveKeepsBack, SaveEndsKeepsBack, UnlistKeepsBack, DropPlayerKeepsBack,
       PlayKeepsBack DEF Session
  <2> QED BY <2>1, <2>2, SessionKeepsFront
<1>4. ASSUME Stop PROVE FrontInv' /\ BackInv'
  <2>1. UNCHANGED <<tableVars, sessionVars>>
    BY <1>4 DEF Stop
  <2>2. \A d \in Connections : link'[d] = "open" /\ authenticated'[d]
                                 => link[d] = "open" /\ authenticated[d]
    BY <1>4 DEF Stop, MarkClosed
  <2> QED BY <1>4, <2>1, <2>2, StopKeepsFront, DeskKeepsBack
<1>5. ASSUME Pool PROVE FrontInv' /\ BackInv'
  <2>1. CASE Fetch
    <3>1. UNCHANGED <<link, authenticated, tableVars, sessionVars>>
      BY <2>1 DEF Fetch, linkVars
    <3> QED BY <2>1, <3>1, FetchKeepsFront, DeskKeepsBack
  <2>2. ASSUME NEW t \in running, Perform(t) PROVE FrontInv' /\ BackInv'
    BY <2>2, PerformKeepsFront, PerformKeepsBack DEF BackInv
  <2> QED BY <1>5, <2>1, <2>2 DEF Pool
<1>6. ASSUME Drain PROVE FrontInv' /\ BackInv'
  <2>1. PICK c \in Connections :
          \/ Discard(c) \/ Failed(c) \/ AccountLoaded(c) \/ WrongPassword(c) \/ RightPassword(c)
          \/ NewNameChecked(c) \/ CreationFailed(c) \/ AccountCreated(c)
    BY <1>6 DEF Drain
  <2>2. CASE RightPassword(c) \/ AccountCreated(c)
    BY <2>2, LoginKeepsFront, LoginKeepsBack
  <2>3. CASE \/ Discard(c) \/ Failed(c) \/ AccountLoaded(c) \/ WrongPassword(c)
             \/ NewNameChecked(c) \/ CreationFailed(c)
    <3>1. FrontInv'
      BY <2>3, DiscardKeepsFront, AccountLoadedKeepsFront, WrongPasswordKeepsFront,
         NewNameCheckedKeepsFront, CreationFailedKeepsFront
    <3>2. UNCHANGED <<link, authenticated, tableVars, sessionVars>>
      BY <2>3 DEF Discard, Failed, AccountLoaded, WrongPassword, NewNameChecked, CreationFailed,
         Calls, Drains, linkVars
    <3> QED BY <3>1, <3>2, DeskKeepsBack
  <2> QED BY <2>1, <2>2, <2>3
<1>7. ASSUME Settle PROVE FrontInv' /\ BackInv'
  <2>1. UNCHANGED <<linkVars, dialogueVars, poolVars, limitVars, created, stopped>>
    BY <1>7 DEF Settle, histVars
  <2> QED BY <1>7, <2>1, SessionKeepsFront, SettleKeepsBack
<1>8. ASSUME UNCHANGED vars PROVE FrontInv' /\ BackInv'
  <2>1. /\ UNCHANGED <<linkVars, dialogueVars, poolVars, limitVars, created, stopped>>
        /\ UNCHANGED <<link, authenticated, tableVars, sessionVars>>
    BY <1>8 DEF vars, linkVars, histVars
  <2> QED BY <2>1, SessionKeepsFront, DeskKeepsBack
<1> QED BY <1>1, <1>2, <1>3, <1>4, <1>5, <1>6, <1>7, <1>8 DEF Next

\* The desk, the pool, the claims, the registry and the places stay in order.
LEMMA LoginInvariant == Spec => []LoginInv
BY LoginInitial, LoginStep, PTL DEF Spec

\* Every variable keeps its type, and a password is only asked for once an account was found.
THEOREM LoginTypeCorrect == Spec => []LoginTypeOK
<1>1. LoginInv => LoginTypeOK
  <2> SUFFICES ASSUME LoginInv PROVE LoginTypeOK
    OBVIOUS
  <2>1. capacity \in 0..PoolLimit
    <3>1. /\ capacity \in Nat /\ Len(work) \in Nat /\ Len(completed) \in Nat
          /\ Cardinality(running) \in Nat /\ PoolLimit \in Nat
          /\ capacity + Len(work) + Cardinality(running) + Len(completed) = PoolLimit
      BY FS_CardinalityType, ConstantsType DEF LoginInv, FrontInv, PoolInv
    <3> QED BY <3>1
  <2>2. \A c \in Connections : Listens(c, "password") => account[c] # None
    BY LoginAssumption DEF LoginInv, FrontInv, DeskInv, At, Listens, Record
  <2> QED BY <2>1, <2>2 DEF LoginTypeOK, LoginInv, FrontInv, BackInv, PoolInv, DeskInv, ClaimsInv,
             TableInv, SessionInv
<1> QED BY <1>1, LoginInvariant, PTL

\* Places of the pool, claims of new accounts, players' places and the registry say what is in use.
THEOREM ResourcesAccounted == Spec => []ResourcesAreAccounted
<1>1. LoginInv => ResourcesAreAccounted
  <2> SUFFICES ASSUME LoginInv PROVE ResourcesAreAccounted
    OBVIOUS
  <2>1. CapacityIsAccounted /\ PlayersWithinLimit /\ SessionIsListed
    BY DEF LoginInv, FrontInv, BackInv, PoolInv, CapacityIsAccounted, SessionInv, SessionIsListed
  <2>2. CreationsAreClaimed
    <3> DEFINE f == [t \in Creating |-> t.conn]
    <3>1. PoolInv /\ ClaimsInv
      BY DEF LoginInv, FrontInv
    <3>2. Creating = {t \in running \cup Values(work) : t.op = "create"}
      BY DEF Creating, Values
    <3>3. \A t, u \in Creating : t.conn = u.conn => t = u
      <4>1. \A t \in running, u \in Values(work) : t.conn # u.conn
        <5>1. \A t \in running, u \in Values(work) : t.conn \in Held /\ u.conn \in Waiting
          BY <3>1, PoolValues DEF Held
        <5> QED BY <3>1, <5>1 DEF PoolInv
      <4>2. /\ \A t, u \in running : t.conn = u.conn => t = u
            /\ \A t, u \in Values(work) : t.conn = u.conn => t = u
        BY <3>1, PoolValues DEF PoolInv
      <4> QED BY <3>2, <4>1, <4>2
    <3>4. f \in [Creating -> Claimants]
      BY <3>2 DEF Claimants
    <3>5. IsInjective(f)
      BY <3>3 DEF IsInjective
    <3> HIDE DEF f
    <3>6. IsFiniteSet(Claimants) /\ Cardinality(Claimants) \in Nat
      BY <3>1, AwaitedBusy
    <3>7. IsFiniteSet(Creating) /\ Cardinality(Creating) <= Cardinality(Claimants)
      BY <3>4, <3>5, <3>6, FS_Injection DEF Injection
    <3>8. Cardinality(Creating) \in Nat
      BY <3>7, FS_CardinalityType
    <3>9. PICK x, y : x = Cardinality(Claimants) /\ y = Cardinality(Creating)
      OBVIOUS
    <3>10. /\ x \in Nat /\ y \in Nat /\ y <= x /\ created \in Nat /\ claims \in Int
           /\ created + x <= claims
      BY <3>1, <3>6, <3>7, <3>8, <3>9, ConstantsType DEF ClaimsInv
    <3>11. created + y <= claims
      BY <3>10
    <3> QED BY <3>9, <3>11 DEF CreationsAreClaimed
  <2> QED BY <2>1, <2>2 DEF ResourcesAreAccounted
<1> QED BY <1>1, LoginInvariant, PTL

\* A busy controller awaits one answer, to the question its dialogue asks.
THEOREM AnswersFitQuestions == Spec => []AnswerFitsQuestion
<1>1. LoginInv => AnswerFitsQuestion
  <2> SUFFICES ASSUME PoolInv, Fits, NEW c \in Connections
               PROVE  LET tasks == [i \in DOMAIN completed |-> completed[i].task] \o work
                          mine  == {i \in DOMAIN tasks : tasks[i].conn = c}
                          held  == {t \in running : t.conn = c}
                      IN /\ Cardinality(mine) + Cardinality(held) = IF busy[c] THEN 1 ELSE 0
                         /\ link[c] = "open" =>
                              \A t \in {tasks[i] : i \in mine} \cup held : Question[t.op] = dialogue[c]
    BY DEF LoginInv, FrontInv, AnswerFitsQuestion
  <2>1. PICK tasks : tasks = [i \in DOMAIN completed |-> completed[i].task] \o work
    OBVIOUS
  <2>2. PICK mine : mine = {i \in DOMAIN tasks : tasks[i].conn = c}
    OBVIOUS
  <2>3. PICK held : held = {t \in running : t.conn = c}
    OBVIOUS
  <2>4. PICK done : done = [i \in DOMAIN completed |-> completed[i].task]
    OBVIOUS
  <2>5. /\ done \in Seq(Task) /\ work \in Seq(Task) /\ tasks = done \o work
        /\ Len(done) = Len(completed) /\ Len(done) \in Nat /\ Len(work) \in Nat
        /\ \A i \in 1..Len(done) : done[i] = completed[i].task
        /\ DOMAIN completed = 1..Len(done) /\ DOMAIN work = 1..Len(work)
    <3>1. /\ completed \in Seq(Result) /\ work \in Seq(Task) /\ Len(completed) \in Nat
          /\ DOMAIN completed = 1..Len(completed) /\ Len(work) \in Nat /\ DOMAIN work = 1..Len(work)
          /\ \A i \in 1..Len(completed) : completed[i] \in Result
      BY DEF PoolInv
    <3>2. \A i \in 1..Len(completed) : completed[i].task \in Task
      BY <3>1 DEF Result
    <3>3. done \in Seq(Task) /\ Len(done) = Len(completed)
      BY <2>4, <3>1, <3>2
    <3> QED BY <2>1, <2>4, <3>1, <3>3
  <2>6. /\ DOMAIN tasks = 1..(Len(done) + Len(work))
        /\ \A i \in 1..Len(done) : tasks[i] = completed[i].task
        /\ \A i \in (Len(done) + 1)..(Len(done) + Len(work)) : tasks[i] = work[i - Len(done)]
    <3>1. \A s, t \in Seq(Task) :
            /\ DOMAIN (s \o t) = 1..(Len(s) + Len(t))
            /\ \A i \in 1..Len(s) : (s \o t)[i] = s[i]
            /\ \A i \in (Len(s) + 1)..(Len(s) + Len(t)) : (s \o t)[i] = t[i - Len(s)]
      BY ConcatParts
    <3>2. /\ DOMAIN tasks = 1..(Len(done) + Len(work))
          /\ \A i \in 1..Len(done) : tasks[i] = done[i]
          /\ \A i \in (Len(done) + 1)..(Len(done) + Len(work)) : tasks[i] = work[i - Len(done)]
      BY <2>5, <3>1
    <3> QED BY <2>5, <3>2
  <2>7. \A i \in DOMAIN tasks :
          \/ i \in DOMAIN completed /\ tasks[i] = completed[i].task
          \/ i - Len(done) \in DOMAIN work /\ tasks[i] = work[i - Len(done)] /\ i > Len(done)
             /\ i \in Int /\ Len(done) \in Int
    BY <2>5, <2>6
  <2>8. /\ \A i \in DOMAIN completed : i \in DOMAIN tasks /\ tasks[i] = completed[i].task
        /\ \A i \in DOMAIN work : i + Len(done) \in DOMAIN tasks /\ tasks[i + Len(done)] = work[i]
    BY <2>5, <2>6
  <2>9. /\ (\E i \in DOMAIN completed : completed[i].task.conn = c) <=> c \in Done
        /\ (\E i \in DOMAIN work : work[i].conn = c) <=> c \in Waiting
        /\ held # {} <=> c \in Held
    BY <2>3 DEF Done, Waiting, Held, AnsweredTo, ConnsOf, Values
  <2>10. /\ \A i, j \in DOMAIN completed : completed[i].task.conn = completed[j].task.conn => i = j
         /\ \A i, j \in DOMAIN work : work[i].conn = work[j].conn => i = j
    BY DEF PoolInv, OneEach, AnsweredTo, ConnsOf
  <2>11. ASSUME NEW i \in mine, NEW j \in mine PROVE i = j
    <3>1. i \in DOMAIN tasks /\ j \in DOMAIN tasks /\ tasks[i].conn = c /\ tasks[j].conn = c
      BY <2>2
    <3>2. ~(c \in Done /\ c \in Waiting)
      BY DEF PoolInv
    <3>3. CASE c \in Done
      <4>1. i \in DOMAIN completed /\ j \in DOMAIN completed
        BY <2>7, <2>9, <3>1, <3>2, <3>3
      <4> QED BY <2>8, <2>10, <3>1, <4>1
    <3>4. CASE c \notin Done
      <4>1. /\ i - Len(done) \in DOMAIN work /\ j - Len(done) \in DOMAIN work
            /\ work[i - Len(done)].conn = c /\ work[j - Len(done)].conn = c
            /\ i \in Int /\ j \in Int /\ Len(done) \in Int
        BY <2>7, <2>9, <3>1, <3>4
      <4>2. i - Len(done) = j - Len(done)
        BY <2>10, <4>1
      <4> QED BY <4>1, <4>2
    <3> QED BY <3>3, <3>4
  <2>12. mine # {} <=> c \in Done \cup Waiting
    <3>1. ASSUME c \in Done \cup Waiting PROVE mine # {}
      BY <2>2, <2>8, <2>9, <3>1
    <3>2. ASSUME NEW i \in mine PROVE c \in Done \cup Waiting
      <4>1. i \in DOMAIN tasks /\ tasks[i].conn = c
        BY <2>2
      <4> QED BY <2>7, <2>9, <4>1
    <3> QED BY <3>1, <3>2
  <2>13. \A t, u \in held : t = u
    BY <2>3 DEF PoolInv
  <2>14. /\ mine = {} \/ \E i : mine = {i}
         /\ held = {} \/ \E t : held = {t}
    BY <2>11, <2>13
  <2>15. /\ Cardinality(mine) = IF mine = {} THEN 0 ELSE 1
         /\ Cardinality(held) = IF held = {} THEN 0 ELSE 1
    BY <2>14, FS_EmptySet, FS_Singleton
  <2>16. /\ busy[c] <=> mine # {} \/ held # {}
         /\ ~(mine # {} /\ held # {})
    BY <2>9, <2>12 DEF PoolInv
  <2>17. Cardinality(mine) + Cardinality(held) = IF busy[c] THEN 1 ELSE 0
    BY <2>15, <2>16
  <2>18. \A t \in {tasks[i] : i \in mine} \cup held : t \in Tasks /\ t.conn = c
    <3>1. \A i \in mine : i \in DOMAIN tasks /\ tasks[i].conn = c
      BY <2>2
    <3>2. \A i \in DOMAIN tasks : tasks[i] \in Tasks
      BY <2>7 DEF Tasks, Values
    <3> QED BY <2>3, <3>1, <3>2 DEF Tasks
  <2>19. link[c] = "open" =>
           \A t \in {tasks[i] : i \in mine} \cup held : Question[t.op] = dialogue[c]
    <3>1. \A t \in Tasks : <<t.conn, t.op>> \in Awaited
      BY DEF Awaited
    <3>2. \A t \in Tasks : t.conn = c /\ link[c] = "open" => Question[t.op] = dialogue[c]
      BY <3>1 DEF Fits
    <3> QED BY <2>18, <3>2
  <2> QED BY <2>1, <2>2, <2>3, <2>17, <2>19
<1> QED BY <1>1, LoginInvariant, PTL

-------------------------------------------------------------------------------
(* What a session begins with *)

\* Requests of the store have receipts of their own, with an open verdict.
Requests ==
  /\ verdict \in [Receipts -> {"unused", "open", "saved", "failed"}]
  /\ \A n \in Names : \A i \in DOMAIN backlog[n] : verdict[backlog[n][i].receipt] = "open"
  /\ \A m, n \in Names : \A i \in DOMAIN backlog[m], j \in DOMAIN backlog[n] :
       backlog[m][i].receipt = backlog[n][j].receipt => m = n /\ i = j

Settled(n, s) == durable[n] = s /\ backlog[n] = <<>>

\* The session of c waits for the verdict on its last state.
Waits(c) ==
  LET n == player[c].name
      q == backlog[n]
  IN /\ receipt[c] \in Receipts
     /\ verdict[receipt[c]] # "unused"
     /\ verdict[receipt[c]] = "open" =>
          q # <<>> /\ q[Len(q)] = [receipt |-> receipt[c], encoded_state |-> player[c].state]
     /\ verdict[receipt[c]] = "saved" => Settled(n, player[c].state)

\* Sessions are those of accounts; a character whose last save was confirmed has its newest state
\* in its row, and what nobody has made is blank.
RowInv ==
  /\ newest \in [Names -> States] /\ row_known \in [Names -> BOOLEAN]
  /\ \A c \in Connections :
       /\ life[c] # "none" => player[c].name \in exists
       /\ link[c] = "open" /\ ~authenticated[c] => life[c] = "none"
       /\ life[c] \in Inside => newest[player[c].name] = player[c].state
       /\ life[c] = "playing" /\ row_known[player[c].name] => Settled(player[c].name, stored[c])
       /\ life[c] = "saving" => Waits(c)
  /\ \A n \in Names :
       row_known[n] /\ (\A c \in Connections : life[c] \in {"playing", "saving"} => player[c].name # n)
         => Settled(n, newest[n])
  /\ \A n \in Names \ exists : Settled(n, InitialState) /\ newest[n] = InitialState

\* A record of n that c holds is that of an account, and the newest one if it is fresh.
Sound(c, n, s) == n \in exists /\ (<<c, n>> \in fresh => s = newest[n])

\* What is fresh, and which records connections, tasks and results hold
FreshInv ==
  /\ \A p \in fresh : /\ p \in Connections \X Names
                      /\ sessions[p[2]] = None /\ row_known[p[2]] /\ p[2] \in exists
  /\ \A c \in Connections : At(c, "password") => Sound(c, account[c].name, account[c].state)
  /\ \A t \in Tasks :
       /\ t.op = "authenticate" => Sound(t.conn, t.name, t.state)
       /\ t.op = "create" /\ link[t.conn] = "open" => t.name = new_name[t.conn]
  /\ \A r \in Values(completed) :
       /\ r.answer = "found" => r.task.op = "load" /\ Sound(r.task.conn, r.task.name, r.task.state)
       /\ r.answer = "created" => r.task.op = "create" /\ Sound(r.task.conn, r.task.name, InitialState)

BeginInv == Requests /\ RowInv /\ FreshInv

\* A step of the desk that begins no session
LEMMA DeskKeepsBegin ==
  ASSUME BeginInv, UNCHANGED <<tableVars, sessionVars, newest, row_known>>, fresh' \subseteq fresh,
         \A c \in Connections : link'[c] = "open" /\ ~authenticated'[c] =>
           (link[c] = "open" /\ ~authenticated[c]) \/ life[c] = "none",
         \A c \in Connections : At(c, "password")' =>
           \/ At(c, "password") /\ account'[c] = account[c]
           \/ Sound(c, account'[c].name, account'[c].state),
         \A t \in Tasks' :
           /\ t.op = "authenticate" => t \in Tasks \/ Sound(t.conn, t.name, t.state)
           /\ t.op = "create" /\ link'[t.conn] = "open" => t.name = new_name'[t.conn],
         \A r \in Values(completed') : r \in Values(completed) \/ r.answer = "error"
  PROVE  BeginInv'
<1>1. /\ UNCHANGED <<exists, backlog, durable, verdict, sessions, life, player, stored, receipt>>
      /\ UNCHANGED <<newest, row_known>>
  BY DEF tableVars, sessionVars
<1>2. Requests'
  BY <1>1 DEF BeginInv, Requests
<1>3. RowInv'
  BY <1>1 DEF BeginInv, RowInv, Waits, Settled, Inside
<1>4. \A c, n, s : Sound(c, n, s) => Sound(c, n, s)'
  BY <1>1 DEF Sound
<1>5. \A p \in fresh' : /\ p \in Connections \X Names
                        /\ sessions'[p[2]] = None /\ row_known'[p[2]] /\ p[2] \in exists'
  BY <1>1 DEF BeginInv, FreshInv
<1>6. \A c \in Connections : At(c, "password")' => Sound(c, account'[c].name, account'[c].state)
  BY DEF BeginInv, FreshInv
<1>7. ASSUME NEW t \in Tasks'
      PROVE  /\ t.op = "authenticate" => Sound(t.conn, t.name, t.state)
             /\ t.op = "create" /\ link'[t.conn] = "open" => t.name = new_name'[t.conn]
  BY <1>7 DEF BeginInv, FreshInv
<1>8. ASSUME NEW r \in Values(completed')
      PROVE  /\ r.answer = "found" =>
                  r.task.op = "load" /\ Sound(r.task.conn, r.task.name, r.task.state)
             /\ r.answer = "created" =>
                  r.task.op = "create" /\ Sound(r.task.conn, r.task.name, InitialState)
  BY <1>8 DEF BeginInv, FreshInv
<1>9. FreshInv'
  BY <1>4, <1>5, <1>6, <1>7, <1>8 DEF FreshInv, Sound
<1> QED BY <1>2, <1>3, <1>9 DEF BeginInv

\* What connections, lines and results do to what a session begins with
LEMMA TasksSound ==
  ASSUME BeginInv
  PROVE  \A t \in Tasks : t.op = "create" /\ link[t.conn] = "open" => t.name = new_name[t.conn]
BY DEF BeginInv, FreshInv

\* A new connection holds no record, and the pool has nothing of it.
LEMMA AcceptKeepsBegin ==
  ASSUME FrontInv, BeginInv, NEW c \in Connections, Accept(c)
  PROVE  BeginInv'
<1>1. /\ link[c] = "closed" /\ life[c] = "none" /\ ~InPool(c)
      /\ link' = [link EXCEPT ![c] = "open"] /\ UNCHANGED poolVars
      /\ UNCHANGED <<authenticated, dialogue, account, new_name, fresh, newest, row_known>>
      /\ UNCHANGED <<tableVars, sessionVars>>
  BY DEF Accept, dialogueVars, histVars
<1>2. Tasks' = Tasks /\ Values(completed') = Values(completed)
  BY <1>1, PoolAlone DEF FrontInv
<1>3. c \notin Waiting \cup Held \cup Done
  BY <1>1 DEF InPool, Waiting, Held, Done, ConnsOf, AnsweredTo, Values
<1>4. \A t \in Tasks : t.conn \in Connections /\ t.conn # c
  BY <1>3, AwaitedBusy DEF FrontInv, PoolInv, Task
<1>5. \A t \in Tasks : t.op = "create" /\ link'[t.conn] = "open" => t.name = new_name'[t.conn]
  BY <1>1, <1>4, TasksSound DEF FrontInv, DeskInv
<1>6. \A d \in Connections : At(d, "password")' => At(d, "password") /\ account'[d] = account[d]
  BY <1>1 DEF At, FrontInv, DeskInv
<1>7. \A d \in Connections : link'[d] = "open" /\ ~authenticated'[d] =>
        (link[d] = "open" /\ ~authenticated[d]) \/ life[d] = "none"
  BY <1>1 DEF FrontInv, DeskInv
<1> QED BY <1>1, <1>2, <1>5, <1>6, <1>7, DeskKeepsBegin

\* Closed connections forget their records, and those are not fresh any more.
LEMMA CloseKeepsBegin ==
  ASSUME FrontInv, BeginInv, NEW S \in SUBSET Connections, MarkClosed(S),
         UNCHANGED <<tableVars, sessionVars, newest, row_known>>,
         \/ UNCHANGED poolVars
         \/ Cancelled
  PROVE  BeginInv'
<1>1. /\ Tasks' = Tasks
      /\ \A r \in Values(completed') : r \in Values(completed) \/ r.answer = "error"
  BY PoolAlone, CancelledMove DEF FrontInv
<1>2. /\ fresh' \subseteq fresh
      /\ \A d \in Connections : link'[d] = "open" =>
           /\ link[d] = "open" /\ authenticated'[d] = authenticated[d]
           /\ dialogue'[d] = dialogue[d] /\ account'[d] = account[d] /\ new_name'[d] = new_name[d]
  BY DEF MarkClosed, Forgets, FrontInv, DeskInv
<1>3. \A t \in Tasks : t.conn \in Connections
  BY AwaitedBusy DEF FrontInv, Task
<1>4. \A t \in Tasks : t.op = "create" /\ link'[t.conn] = "open" => t.name = new_name'[t.conn]
  BY <1>2, <1>3, TasksSound
<1>5. \A d \in Connections : At(d, "password")' => At(d, "password") /\ account'[d] = account[d]
  BY <1>2 DEF At
<1>6. \A d \in Connections : link'[d] = "open" /\ ~authenticated'[d] =>
        (link[d] = "open" /\ ~authenticated[d]) \/ life[d] = "none"
  BY <1>2
<1> QED BY <1>1, <1>2, <1>4, <1>5, <1>6, DeskKeepsBegin

\* Lines that ask nothing
LEMMA LineKeepsBegin ==
  ASSUME FrontInv, BeginInv, NEW c \in Connections, UNCHANGED poolVars,
         UNCHANGED <<link, authenticated, account, tableVars, sessionVars, newest, row_known, fresh>>,
         \A d \in Connections : busy[d] => new_name'[d] = new_name[d],
         \A d \in Connections : dialogue'[d] = "password" => dialogue[d] = "password"
  PROVE  BeginInv'
<1>1. Tasks' = Tasks /\ Values(completed') = Values(completed)
  BY PoolAlone DEF FrontInv
<1>2. \A t \in Tasks : t.conn \in Connections /\ busy[t.conn]
  BY AwaitedBusy DEF FrontInv, Task
<1>3. \A t \in Tasks : t.op = "create" /\ link'[t.conn] = "open" => t.name = new_name'[t.conn]
  BY <1>2, TasksSound
<1>4. \A d \in Connections : At(d, "password")' => At(d, "password") /\ account'[d] = account[d]
  BY DEF At
<1> QED BY <1>1, <1>3, <1>4, DeskKeepsBegin

\* Lines that ask: the password is checked against the record, the new account has the new name.
LEMMA AskKeepsBegin ==
  ASSUME FrontInv, BeginInv, NEW c \in Connections, NEW op \in DOMAIN Question, NEW n \in Names,
         NEW s \in States, ~busy[c], Ask(c, op, n, s),
         UNCHANGED <<link, authenticated, account, dialogue, tableVars, sessionVars>>,
         UNCHANGED <<newest, row_known, fresh>>,
         \A d \in Connections : busy[d] => new_name'[d] = new_name[d],
         op = "authenticate" => Sound(c, n, s),
         op = "create" => n = new_name'[c]
  PROVE  BeginInv'
<1>1. CASE UNCHANGED poolVars
  BY <1>1, LineKeepsBegin
<1>2. CASE Asked(c, op, n, s)
  <2>1. PICK u : u = [conn |-> c, op |-> op, name |-> n, state |-> s]
    OBVIOUS
  <2>2. Tasks' = Tasks \cup {u} /\ Values(completed') = Values(completed)
    BY <1>2, <2>1, AskedMove DEF FrontInv
  <2>3. \A t \in Tasks : t.conn \in Connections /\ busy[t.conn]
    BY AwaitedBusy DEF FrontInv, Task
  <2>4. \A t \in Tasks' : t.op = "create" /\ link'[t.conn] = "open" => t.name = new_name'[t.conn]
    BY <2>1, <2>2, <2>3, TasksSound
  <2>5. \A t \in Tasks' : t.op = "authenticate" => t \in Tasks \/ Sound(t.conn, t.name, t.state)
    BY <2>1, <2>2
  <2>6. \A d \in Connections : At(d, "password")' => At(d, "password") /\ account'[d] = account[d]
    BY DEF At
  <2> QED BY <2>2, <2>4, <2>5, <2>6, DeskKeepsBegin
<1> QED BY <1>1, <1>2, AskAsks DEF FrontInv

\* No line makes a record fresh.
LEMMA LinesKeepBegin ==
  ASSUME FrontInv, BeginInv, NEW c \in Connections, Line(c)
  PROVE  BeginInv'
<1>1. ASSUME NEW n \in Names, NameLine(c, n) PROVE BeginInv'
  <2>1. /\ UNCHANGED <<link, authenticated, account, dialogue, new_name, tableVars, sessionVars>>
        /\ UNCHANGED <<newest, row_known, fresh>> /\ ~busy[c]
    BY <1>1 DEF NameLine, Listens, dialogueVars, histVars
  <2>2. Ask(c, "load", n, InitialState) \/ UNCHANGED poolVars
    BY <1>1 DEF NameLine
  <2>3. CASE Ask(c, "load", n, InitialState)
    BY <2>1, <2>3, AskKeepsBegin, ConstantsType DEF Question
  <2>4. CASE UNCHANGED poolVars
    BY <2>1, <2>4, LineKeepsBegin
  <2> QED BY <2>2, <2>3, <2>4
<1>2. ASSUME NEW n \in Names, NewNameLine(c, n) PROVE BeginInv'
  <2>1. /\ UNCHANGED <<link, authenticated, account, dialogue, tableVars, sessionVars>>
        /\ UNCHANGED <<newest, row_known, fresh>> /\ ~busy[c]
        /\ new_name' = [new_name EXCEPT ![c] = n] /\ Ask(c, "check", n, InitialState)
    BY <1>2 DEF NewNameLine, Listens, linkVars, histVars
  <2>2. \A d \in Connections : busy[d] => new_name'[d] = new_name[d]
    BY <2>1 DEF FrontInv, DeskInv
  <2> QED BY <2>1, <2>2, AskKeepsBegin, ConstantsType DEF Question
<1>3. ASSUME NewUserLine(c) \/ NewPasswordLine(c) \/ MismatchLine(c) PROVE BeginInv'
  <2>1. /\ UNCHANGED poolVars
        /\ UNCHANGED <<link, authenticated, account, new_name, tableVars, sessionVars>>
        /\ UNCHANGED <<newest, row_known, fresh>>
    BY <1>3 DEF NewUserLine, NewPasswordLine, MismatchLine, linkVars, histVars
  <2>2. \A d \in Connections : dialogue'[d] = "password" => dialogue[d] = "password"
    BY <1>3 DEF NewUserLine, NewPasswordLine, MismatchLine, Prompts, FrontInv, DeskInv
  <2> QED BY <2>1, <2>2, LineKeepsBegin
<1>4. ASSUME PasswordLine(c) PROVE BeginInv'
  <2>1. /\ UNCHANGED <<link, authenticated, account, dialogue, new_name, tableVars, sessionVars>>
        /\ UNCHANGED <<newest, row_known, fresh>> /\ ~busy[c] /\ At(c, "password")
    BY <1>4 DEF PasswordLine, Listens, At, dialogueVars, histVars
  <2>2. account[c].name \in Names /\ account[c].state \in States
    BY <2>1 DEF FrontInv, DeskInv, Record
  <2>3. Sound(c, account[c].name, account[c].state)
    BY <2>1 DEF BeginInv, FreshInv
  <2>4. Ask(c, "authenticate", account[c].name, account[c].state) \/ UNCHANGED poolVars
    BY <1>4 DEF PasswordLine
  <2>5. CASE Ask(c, "authenticate", account[c].name, account[c].state)
    BY <2>1, <2>2, <2>3, <2>5, AskKeepsBegin DEF Question
  <2>6. CASE UNCHANGED poolVars
    BY <2>1, <2>6, LineKeepsBegin
  <2> QED BY <2>4, <2>5, <2>6
<1>5. ASSUME MatchLine(c) PROVE BeginInv'
  <2>1. /\ UNCHANGED <<link, authenticated, account, dialogue, new_name, tableVars, sessionVars>>
        /\ UNCHANGED <<newest, row_known, fresh>> /\ ~busy[c] /\ At(c, "confirm_password")
    BY <1>5 DEF MatchLine, Listens, At, histVars
  <2>2. new_name[c] \in Names
    BY <2>1 DEF FrontInv, DeskInv
  <2>3. Ask(c, "create", new_name[c], InitialState) \/ UNCHANGED poolVars
    BY <1>5 DEF MatchLine
  <2>4. CASE Ask(c, "create", new_name[c], InitialState)
    BY <2>1, <2>2, <2>4, AskKeepsBegin, ConstantsType DEF Question
  <2>5. CASE UNCHANGED poolVars
    BY <2>1, <2>5, LineKeepsBegin
  <2> QED BY <2>3, <2>4, <2>5
<1> QED BY <1>1, <1>2, <1>3, <1>4, <1>5 DEF Line

\* A task in hand is the task that was queued.
LEMMA FetchKeepsBegin ==
  ASSUME FrontInv, BeginInv, Fetch
  PROVE  BeginInv'
<1>1. /\ UNCHANGED <<link, authenticated, account, dialogue, new_name, tableVars, sessionVars>>
      /\ UNCHANGED <<newest, row_known, fresh>> /\ Fetched
  BY DEF Fetch, Fetched, linkVars, dialogueVars, histVars
<1>2. Tasks' = Tasks /\ Values(completed') = Values(completed)
  BY <1>1, FetchedMove DEF FrontInv
<1>3. \A d \in Connections : At(d, "password")' => At(d, "password") /\ account'[d] = account[d]
  BY <1>1 DEF At
<1> QED BY <1>1, <1>2, <1>3, TasksSound, DeskKeepsBegin

\* A result that begins no session
LEMMA DrainKeepsBegin ==
  ASSUME FrontInv, BeginInv, NEW c \in Connections, Drained(c),
         UNCHANGED <<link, authenticated, new_name, tableVars, sessionVars, newest, row_known, fresh>>,
         \A d \in Connections : At(d, "password")' =>
           \/ At(d, "password") /\ account'[d] = account[d]
           \/ Sound(d, account'[d].name, account'[d].state)
  PROVE  BeginInv'
<1>1. Tasks' \subseteq Tasks /\ Values(completed') \subseteq Values(completed)
  BY DrainedMove DEF FrontInv
<1> QED BY <1>1, TasksSound, DeskKeepsBegin

\* The answers that begin no session: the record found is the one the pool read.
LEMMA ResultsKeepBegin ==
  ASSUME FrontInv, BeginInv, NEW c \in Connections,
         \/ Discard(c) \/ Failed(c) \/ AccountLoaded(c) \/ WrongPassword(c)
         \/ NewNameChecked(c) \/ CreationFailed(c)
  PROVE  BeginInv'
<1>1. CASE Discard(c) \/ Failed(c) \/ WrongPassword(c)
  <2>1. /\ Drained(c) /\ UNCHANGED <<link, authenticated, new_name, tableVars, sessionVars>>
        /\ UNCHANGED <<newest, row_known, fresh, dialogue, account>>
    BY <1>1, DrainsDrain DEF Discard, Failed, WrongPassword, Calls, linkVars, dialogueVars,
       histVars, tableVars
  <2> QED BY <2>1, DrainKeepsBegin DEF At
<1>2. CASE NewNameChecked(c) \/ CreationFailed(c)
  <2>1. /\ Drained(c) /\ UNCHANGED <<link, authenticated, new_name, tableVars, sessionVars>>
        /\ UNCHANGED <<newest, row_known, fresh, account>>
        /\ \E x \in {"new_password", "new_name"} : dialogue' = [dialogue EXCEPT ![c] = x]
    BY <1>2, DrainsDrain DEF NewNameChecked, CreationFailed, Calls, Prompts, linkVars, histVars,
       tableVars
  <2>2. \A d \in Connections : dialogue'[d] = "password" => dialogue[d] = "password"
    BY <2>1 DEF FrontInv, DeskInv
  <2> QED BY <2>1, <2>2, DrainKeepsBegin DEF At
<1>3. CASE AccountLoaded(c)
  <2>1. /\ link[c] = "open" /\ Drained(c) /\ UNCHANGED <<link, authenticated, new_name>>
        /\ UNCHANGED <<tableVars, sessionVars, newest, row_known, fresh>>
    BY <1>3, DrainsDrain DEF AccountLoaded, Calls, histVars, tableVars
  <2>2. CASE Head(completed).answer = "found"
    <3>1. PICK r : r = Head(completed)
      OBVIOUS
    <3>2. r \in Values(completed) /\ r.task.conn = c /\ r.answer = "found"
      BY <2>1, <2>2, <3>1, DrainedMove DEF Drained, FrontInv
    <3>3. Sound(c, r.task.name, r.task.state)
      BY <3>2 DEF BeginInv, FreshInv
    <3>4. PICK u : u = [name |-> r.task.name, state |-> r.task.state]
      OBVIOUS
    <3>5. account' = [account EXCEPT ![c] = u] /\ dialogue' = [dialogue EXCEPT ![c] = "password"]
      BY <1>3, <2>2, <3>1, <3>4 DEF AccountLoaded, Prompts
    <3>6. \A d \in Connections \ {c} : account'[d] = account[d] /\ dialogue'[d] = dialogue[d]
      BY <3>5 DEF FrontInv, DeskInv
    <3>7. Sound(c, account'[c].name, account'[c].state)
      BY <3>3, <3>4, <3>5 DEF FrontInv, DeskInv
    <3> QED BY <2>1, <3>6, <3>7, DrainKeepsBegin DEF At
  <2>3. CASE Head(completed).answer # "found"
    <3>1. UNCHANGED <<account, dialogue>>
      BY <1>3, <2>3 DEF AccountLoaded
    <3> QED BY <2>1, <3>1, DrainKeepsBegin DEF At
  <2> QED BY <2>2, <2>3
<1> QED BY <1>1, <1>2, <1>3

\* The same of the next state
SettledAfter(n, s) == durable'[n] = s /\ backlog'[n] = <<>>
SoundAfter(c, n, s) == n \in exists' /\ (<<c, n>> \in fresh' => s = newest'[n])

\* A row that no session plays or saves is known to hold the newest state.
LEMMA RowIsNewest ==
  ASSUME BackInv, BeginInv, NEW n \in Names, sessions[n] = None, row_known[n]
  PROVE  Settled(n, newest[n])
<1>1. ASSUME NEW c \in Connections, life[c] \in {"playing", "saving"} PROVE player[c].name # n
  BY <1>1, LoginAssumption DEF BackInv, SessionInv, Inside
<1> QED BY <1>1 DEF BeginInv, RowInv

\* A record read, or made, while nobody plays the character and its row is known, is fresh.
LEMMA PerformKeepsBegin ==
  ASSUME FrontInv, BackInv, BeginInv, NEW t \in running, Perform(t)
  PROVE  BeginInv'
<1>1. PICK a \in AnswersTo(t), r \in Result :
        /\ Performed(t, r) /\ r.answer = a /\ t \in Task
        /\ r.task = IF a = "found" THEN LoadUser(t) ELSE t
        /\ r.task.op = t.op /\ r.task.conn = t.conn /\ r.task.name = t.name
        /\ a = "created" => CreateUser(t.name)
        /\ a # "created" => UNCHANGED <<exists, durable, created>>
        /\ fresh' = IF a \notin {"found", "created"} THEN fresh
                    ELSE {p \in fresh : p[1] # t.conn} \cup
                         {p \in {<<t.conn, t.name>>} :
                            link[p[1]] = "open" /\ sessions[p[2]] = None /\ row_known[p[2]]}
  BY PerformPerforms DEF FrontInv, BackInv
<1>2. /\ UNCHANGED <<link, authenticated, dialogue, account, new_name, backlog, verdict>>
      /\ UNCHANGED <<sessions, life, player, stored, receipt, newest, row_known>>
  BY DEF Perform, linkVars, dialogueVars, sessionVars
<1>3. /\ t.name \in Names /\ t.conn \in Connections /\ t \in Tasks
  BY <1>1 DEF Task, Tasks
<1>4. /\ a = "created" => t.op = "create" /\ t.name \notin exists
      /\ a = "found" => t.op = "load" /\ t.name \in exists
      /\ a \in {"found", "unknown"} => t.op = "load"
  BY <1>1, AnswersKnown
<1>5. /\ durable' = durable /\ exists \subseteq exists' /\ exists' \subseteq Names
      /\ a \in {"found", "created"} => t.name \in exists'
  <2>1. CASE a = "created"
    <3>1. durable[t.name] = InitialState
      BY <1>3, <1>4, <2>1 DEF BeginInv, RowInv, Settled
    <3> QED BY <1>1, <1>3, <2>1, <3>1 DEF CreateUser, BackInv, TableInv
  <2>2. CASE a # "created"
    BY <1>1, <1>4, <2>2 DEF BackInv, TableInv
  <2> QED BY <2>1, <2>2
<1>6. Requests'
  BY <1>2 DEF BeginInv, Requests
<1>7. RowInv'
  <2>1. \A n \in Names \ exists' : n \in Names \ exists
    BY <1>5
  <2>2. \A c \in Connections : life[c] # "none" => player[c].name \in exists'
    BY <1>5 DEF BeginInv, RowInv
  <2> QED BY <1>2, <1>5, <2>1, <2>2 DEF BeginInv, RowInv, Waits, Settled, Inside
<1>8. \A p \in fresh' : p \in fresh \/ (/\ p = <<t.conn, t.name>> /\ a \in {"found", "created"}
                                      /\ link[t.conn] = "open" /\ sessions[t.name] = None
                                      /\ row_known[t.name])
  BY <1>1
<1>9. a \in {"found", "created"} => \A p \in fresh' : p[1] = t.conn => p = <<t.conn, t.name>>
  BY <1>1
<1>10. \A p \in fresh' : /\ p \in Connections \X Names
                         /\ sessions'[p[2]] = None /\ row_known'[p[2]] /\ p[2] \in exists'
  <2>1. ASSUME NEW p \in fresh
        PROVE  /\ p \in Connections \X Names
               /\ sessions[p[2]] = None /\ row_known[p[2]] /\ p[2] \in exists'
    BY <1>5, <2>1 DEF BeginInv, FreshInv
  <2>2. <<t.conn, t.name>> \in Connections \X Names
    BY <1>3
  <2> QED BY <1>2, <1>5, <1>8, <2>1, <2>2
<1>11. \A c, n, s : Sound(c, n, s) /\ c # t.conn => SoundAfter(c, n, s)
  <2>1. ASSUME NEW c, NEW n, NEW s, Sound(c, n, s), c # t.conn, <<c, n>> \in fresh'
        PROVE  <<c, n>> \in fresh
    BY <1>8, <2>1
  <2> QED BY <1>2, <1>5, <2>1 DEF Sound, SoundAfter
<1>12. \A c, n, s : Sound(c, n, s) /\ a \notin {"found", "created"} => SoundAfter(c, n, s)
  BY <1>1, <1>2, <1>5 DEF Sound, SoundAfter
<1>13. /\ a = "found" => SoundAfter(t.conn, t.name, r.task.state)
       /\ a = "created" => SoundAfter(t.conn, t.name, InitialState)
  <2>1. a = "found" => r.task.state = durable[t.name]
    BY <1>1, <1>3 DEF LoadUser, Task
  <2>2. a = "created" => newest[t.name] = InitialState
    BY <1>3, <1>4 DEF BeginInv, RowInv
  <2>3. ASSUME <<t.conn, t.name>> \in fresh' PROVE newest[t.name] = durable[t.name]
    <3>1. sessions[t.name] = None /\ row_known[t.name]
      BY <1>2, <1>10, <2>3
    <3> QED BY <1>3, <3>1, RowIsNewest DEF Settled
  <2> QED BY <1>2, <1>5, <2>1, <2>2, <2>3 DEF SoundAfter
<1>14. Values(completed') = Values(completed) \cup {r} /\ Values(work') = Values(work)
       /\ running' = running \ {t}
  BY <1>1, PerformedMove DEF FrontInv, Performed
<1>15. /\ \A u \in Values(work) \cup (running \ {t}) : u.conn # t.conn
       /\ \A q \in Values(completed) : q.task.conn # t.conn
  <2>1. t.conn \in Held /\ t.conn \notin Waiting /\ t.conn \notin Done
    BY DEF Held, FrontInv, PoolInv
  <2>2. \A u \in Values(work) : u.conn # t.conn
    BY <2>1, PoolValues DEF FrontInv
  <2>3. \A q \in Values(completed) : q.task.conn # t.conn
    BY <2>1, PoolValues DEF FrontInv
  <2>4. \A u \in running : u.conn = t.conn => u = t
    BY DEF FrontInv, PoolInv
  <2> QED BY <2>2, <2>3, <2>4
<1>16. \A u \in Tasks' : (u \in Tasks /\ u.conn # t.conn) \/ u = r.task
  <2>1. Tasks' = Values(work) \cup (running \ {t}) \cup {q.task : q \in Values(completed) \cup {r}}
    BY <1>14 DEF Tasks
  <2> QED BY <1>15, <2>1 DEF Tasks
<1>17. ASSUME NEW c \in Connections, At(c, "password")'
       PROVE  SoundAfter(c, account'[c].name, account'[c].state)
  <2>1. At(c, "password") /\ Sound(c, account[c].name, account[c].state)
    BY <1>2, <1>17 DEF At, BeginInv, FreshInv
  <2>2. CASE a \in {"found", "created"} /\ c = t.conn
    <3>1. Question[t.op] = "password"
      <4>1. <<t.conn, t.op>> \in Awaited
        BY <1>3 DEF Awaited
      <4>2. link[t.conn] = "open" /\ dialogue[t.conn] = "password"
        BY <2>1, <2>2 DEF At
      <4> QED BY <4>1, <4>2 DEF FrontInv, Fits
    <3> QED BY <1>4, <2>2, <3>1 DEF Question
  <2>3. CASE a \notin {"found", "created"} \/ c # t.conn
    <3>1. SoundAfter(c, account[c].name, account[c].state)
      BY <1>11, <1>12, <2>1, <2>3
    <3> QED BY <1>2, <3>1
  <2> QED BY <2>2, <2>3
<1>18. ASSUME NEW u \in Tasks'
       PROVE  /\ u.op = "authenticate" => SoundAfter(u.conn, u.name, u.state)
              /\ u.op = "create" /\ link'[u.conn] = "open" => u.name = new_name'[u.conn]
  <2>1. CASE u \in Tasks /\ u.conn # t.conn
    BY <1>2, <1>11, <2>1 DEF BeginInv, FreshInv
  <2>2. CASE u = r.task
    <3>1. u.op = t.op /\ u.conn = t.conn /\ u.name = t.name
      BY <1>1, <2>2
    <3>2. u.op = "create" /\ link'[u.conn] = "open" => u.name = new_name'[u.conn]
      BY <1>2, <1>3, <3>1, TasksSound
    <3>3. ASSUME u.op = "authenticate" PROVE SoundAfter(u.conn, u.name, u.state)
      <4>1. a \notin {"found", "created"} /\ u = t
        BY <1>1, <1>4, <2>2, <3>1, <3>3
      <4>2. Sound(t.conn, t.name, t.state)
        BY <1>3, <3>3, <4>1 DEF BeginInv, FreshInv
      <4> QED BY <1>12, <4>1, <4>2
    <3> QED BY <3>2, <3>3
  <2> QED BY <1>16, <2>1, <2>2
<1>19. ASSUME NEW q \in Values(completed')
       PROVE  /\ q.answer = "found" =>
                   q.task.op = "load" /\ SoundAfter(q.task.conn, q.task.name, q.task.state)
              /\ q.answer = "created" =>
                   q.task.op = "create" /\ SoundAfter(q.task.conn, q.task.name, InitialState)
  <2>1. CASE q \in Values(completed)
    BY <1>11, <1>15, <2>1 DEF BeginInv, FreshInv
  <2>2. CASE q = r
    BY <1>1, <1>4, <1>13, <2>2
  <2> QED BY <1>14, <2>1, <2>2
<1>20. FreshInv'
  BY <1>10, <1>17, <1>18, <1>19 DEF FreshInv, Sound, SoundAfter
<1> QED BY <1>6, <1>7, <1>20 DEF BeginInv

\* A session begins with a record that is sound for it.
LEMMA FinishKeepsBegin ==
  ASSUME FrontInv, BackInv, BeginInv, NEW c \in Connections, NEW n \in Names, NEW s \in States,
         Drained(c), link[c] = "open", FinishAuthenticated(c, n, s), UNCHANGED tableVars,
         Sound(c, n, s)
  PROVE  /\ BeginInv'
         /\ Begins(c, n) /\ <<c, n>> \in fresh => player'[c].state = newest[n]
         /\ \A d \in Connections, m \in Names : Begins(d, m) => d = c /\ m = n
<1>1. /\ Tasks' \subseteq Tasks /\ Values(completed') \subseteq Values(completed)
      /\ ~authenticated[c]
  BY DrainedMove, AnswerInPlace DEF FrontInv
<1>2. None \notin Connections
  BY LoginAssumption
<1>3. CASE ~Offline(n) \/ ~CanPromote(c)
  <2>1. UNCHANGED <<link, authenticated, new_name, sessionVars, newest, row_known, fresh>>
    BY <1>3 DEF FinishAuthenticated, linkVars, histVars
  <2>2. \/ UNCHANGED <<dialogue, account>>
        \/ dialogue' = [dialogue EXCEPT ![c] = "name"] /\ account' = [account EXCEPT ![c] = None]
    BY <1>3 DEF FinishAuthenticated, Prompts
  <2>3. \A d \in Connections : At(d, "password")' => At(d, "password") /\ account'[d] = account[d]
    BY <2>1, <2>2 DEF At, FrontInv, DeskInv
  <2>4. BeginInv'
    BY <2>1, <2>3, DrainKeepsBegin
  <2>5. \A d \in Connections, m \in Names : ~Begins(d, m)
    BY <1>2, <2>1 DEF Begins, sessionVars
  <2> QED BY <2>4, <2>5
<1>4. CASE Offline(n) /\ CanPromote(c)
  <2>1. PICK u : u = [name |-> n, state |-> s]
    OBVIOUS
  <2>2. /\ authenticated' = [authenticated EXCEPT ![c] = TRUE]
        /\ sessions' = [sessions EXCEPT ![n] = c]
        /\ player' = [player EXCEPT ![c] = u] /\ u.name = n /\ u.state = s /\ sessions[n] = None
        /\ stored' = [stored EXCEPT ![c] = s]
        /\ life' = [life EXCEPT ![c] = "playing"]
        /\ account' = [account EXCEPT ![c] = None] /\ new_name' = [new_name EXCEPT ![c] = None]
        /\ newest' = [newest EXCEPT ![n] = s]
        /\ row_known' = [row_known EXCEPT ![n] = <<c, n>> \in fresh]
        /\ fresh' = {p \in fresh : p[2] # n}
        /\ UNCHANGED <<link, dialogue, receipt>>
    BY <1>4, <2>1 DEF FinishAuthenticated, Offline
  <2>3. UNCHANGED <<exists, backlog, durable, verdict>>
    BY DEF tableVars
  <2>4. /\ player'[c] = u /\ stored'[c] = s /\ life'[c] = "playing" /\ life[c] = "none"
        /\ newest'[n] = s /\ row_known'[n] = (<<c, n>> \in fresh)
        /\ \A d \in Connections \ {c} : /\ player'[d] = player[d] /\ stored'[d] = stored[d]
                                        /\ life'[d] = life[d]
        /\ \A m \in Names \ {n} : newest'[m] = newest[m] /\ row_known'[m] = row_known[m]
    BY <1>1, <2>2 DEF BackInv, SessionInv, BeginInv, RowInv
  <2>5. \A d \in Connections : life[d] \in Inside => player[d].name \in Names \ {n}
    BY <1>2, <2>2 DEF BackInv, SessionInv, Inside, Record
  <2>6. <<c, n>> \in fresh => s = newest[n] /\ Settled(n, newest[n]) /\ n \in exists
    BY <2>2, RowIsNewest DEF Sound, BeginInv, FreshInv
  <2>7. n \in exists
    BY DEF Sound
  <2>8. Requests'
    BY <2>3 DEF BeginInv, Requests
  <2>9. \A m, x : Settled(m, x) => SettledAfter(m, x)
    BY <2>3 DEF Settled, SettledAfter
  <2>10. newest' \in [Names -> States] /\ row_known' \in [Names -> BOOLEAN]
    BY <2>2 DEF BeginInv, RowInv
  <2>11. ASSUME NEW d \in Connections
         PROVE  /\ life'[d] # "none" => player'[d].name \in exists'
                /\ link'[d] = "open" /\ ~authenticated'[d] => life'[d] = "none"
                /\ life'[d] \in Inside => newest'[player'[d].name] = player'[d].state
                /\ life'[d] = "playing" /\ row_known'[player'[d].name]
                     => SettledAfter(player'[d].name, stored'[d])
                /\ life'[d] = "saving" => Waits(d)'
    <3>1. CASE d = c
      <4>1. ~(link'[d] = "open" /\ ~authenticated'[d])
        BY <2>2, <3>1 DEF FrontInv, DeskInv
      <4>2. row_known'[n] => SettledAfter(n, s)
        BY <2>4, <2>6, <2>9
      <4>3. row_known'[player'[d].name] => SettledAfter(player'[d].name, stored'[d])
        BY <2>2, <2>4, <3>1, <4>2
      <4> QED BY <2>2, <2>3, <2>4, <2>7, <3>1, <4>1, <4>3
    <3>2. CASE d # c
      <4>1. /\ life'[d] # "none" => player'[d].name \in exists'
            /\ link'[d] = "open" /\ ~authenticated'[d] => life'[d] = "none"
        BY <2>2, <2>3, <2>4, <3>2 DEF BeginInv, RowInv, FrontInv, DeskInv
      <4>2. life'[d] \in Inside => newest'[player'[d].name] = player'[d].state
        BY <2>4, <2>5, <3>2 DEF BeginInv, RowInv
      <4>3. ASSUME life'[d] = "playing" /\ row_known'[player'[d].name]
            PROVE  SettledAfter(player'[d].name, stored'[d])
        <5>1. life[d] = "playing" /\ row_known[player[d].name]
          BY <2>4, <2>5, <3>2, <4>3 DEF Inside
        <5>2. Settled(player[d].name, stored[d])
          BY <5>1 DEF BeginInv, RowInv
        <5> QED BY <2>4, <2>9, <3>2, <5>2
      <4>4. life'[d] = "saving" => Waits(d)'
        BY <2>2, <2>3, <2>4, <3>2 DEF BeginInv, RowInv, Waits, Settled
      <4> QED BY <4>1, <4>2, <4>3, <4>4
    <3> QED BY <3>1, <3>2
  <2>12. ASSUME NEW m \in Names, row_known'[m],
                \A d \in Connections : life'[d] \in {"playing", "saving"} => player'[d].name # m
         PROVE  SettledAfter(m, newest'[m])
    <3>1. m # n
      BY <2>2, <2>4, <2>12
    <3>2. \A d \in Connections : life[d] \in {"playing", "saving"} => player[d].name # m
      BY <2>4, <2>12
    <3>3. Settled(m, newest[m])
      BY <2>4, <2>12, <3>1, <3>2 DEF BeginInv, RowInv
    <3> QED BY <2>4, <2>9, <3>1, <3>3
  <2>13. ASSUME NEW m \in Names \ exists'
         PROVE  SettledAfter(m, InitialState) /\ newest'[m] = InitialState
    <3>1. m \in Names \ exists /\ m # n
      BY <2>3, <2>7
    <3> QED BY <2>4, <2>9, <3>1 DEF BeginInv, RowInv
  <2>14. RowInv'
    BY <2>10, <2>11, <2>12, <2>13 DEF RowInv, Inside, Settled, SettledAfter
  <2>15. \A d, m, x : Sound(d, m, x) /\ m \in Names => SoundAfter(d, m, x)
    BY <2>2, <2>3, <2>4 DEF Sound, SoundAfter
  <2>16. \A p \in fresh' : /\ p \in Connections \X Names
                           /\ sessions'[p[2]] = None /\ row_known'[p[2]] /\ p[2] \in exists'
    <3>1. \A p \in fresh' : /\ p \in Connections \X Names /\ p[2] # n /\ p[2] \in Names
                            /\ sessions[p[2]] = None /\ row_known[p[2]] /\ p[2] \in exists
      BY <2>2 DEF BeginInv, FreshInv
    <3> QED BY <2>2, <2>3, <2>4, <3>1 DEF BackInv, SessionInv
  <2>17. ASSUME NEW d \in Connections, At(d, "password")'
         PROVE  SoundAfter(d, account'[d].name, account'[d].state)
    <3>1. d # c
      BY <2>2, <2>17 DEF At, FrontInv, DeskInv
    <3>2. At(d, "password") /\ account'[d] = account[d] /\ account[d].name \in Names
      BY <2>2, <2>17, <3>1 DEF At, FrontInv, DeskInv, Record
    <3>3. Sound(d, account[d].name, account[d].state)
      BY <3>2 DEF BeginInv, FreshInv
    <3> QED BY <2>15, <3>2, <3>3
  <2>18. ASSUME NEW t \in Tasks'
         PROVE  /\ t.op = "authenticate" => SoundAfter(t.conn, t.name, t.state)
                /\ t.op = "create" /\ link'[t.conn] = "open" => t.name = new_name'[t.conn]
    <3>1. t \in Tasks /\ t.name \in Names /\ t.conn \in Connections
      BY <1>1, AwaitedBusy DEF FrontInv, Task
    <3>2. t.conn # c
      <4>1. <<t.conn, t.op>> \in Awaited'
        BY <2>18 DEF Awaited
      <4>2. \A p \in Awaited' : p[1] # c
        BY DrainedMove DEF FrontInv
      <4> QED BY <4>1, <4>2
    <3>3. new_name'[t.conn] = new_name[t.conn] /\ link' = link
      BY <2>2, <3>1, <3>2 DEF FrontInv, DeskInv
    <3> QED BY <2>15, <3>1, <3>3 DEF BeginInv, FreshInv
  <2>19. ASSUME NEW r \in Values(completed')
         PROVE  /\ r.answer = "found" =>
                     r.task.op = "load" /\ SoundAfter(r.task.conn, r.task.name, r.task.state)
                /\ r.answer = "created" =>
                     r.task.op = "create" /\ SoundAfter(r.task.conn, r.task.name, InitialState)
    <3>1. r \in Values(completed) /\ r.task.name \in Names
      BY <1>1, PoolValues DEF FrontInv, Result, Task
    <3> QED BY <2>15, <3>1 DEF BeginInv, FreshInv
  <2>20. FreshInv'
    BY <2>16, <2>17, <2>18, <2>19 DEF FreshInv, Sound, SoundAfter
  <2>21. \A d \in Connections, m \in Names : Begins(d, m) => d = c /\ m = n
    BY <1>2, <2>2 DEF Begins, BackInv, SessionInv
  <2> QED BY <2>2, <2>4, <2>6, <2>8, <2>14, <2>20, <2>21 DEF BeginInv
<1> QED BY <1>3, <1>4

\* A session's own steps: nobody else's record is fresh while it is listed.
LEMMA ListedNotFresh ==
  ASSUME BackInv, BeginInv, NEW c \in Connections, life[c] \in Inside
  PROVE  /\ player[c] \in Record /\ player[c].name \in Names /\ player[c].state \in States
         /\ sessions[player[c].name] = c
         /\ player[c].name \in exists
         /\ \A d : <<d, player[c].name>> \notin fresh
         /\ \A d \in Connections : life[d] \in Inside /\ player[d].name = player[c].name => d = c
<1>1. /\ player[c] \in Record /\ sessions[player[c].name] = c /\ player[c].name \in exists
  BY DEF BackInv, SessionInv, BeginInv, RowInv, Inside
<1>2. player[c].name \in Names /\ player[c].state \in States
  BY <1>1 DEF Record
<1>3. None # c
  BY LoginAssumption
<1>4. ASSUME NEW d, <<d, player[c].name>> \in fresh PROVE FALSE
  <2>1. sessions[player[c].name] = None
    BY <1>4 DEF BeginInv, FreshInv
  <2> QED BY <1>1, <1>3, <2>1
<1>5. ASSUME NEW d \in Connections, life[d] \in Inside, player[d].name = player[c].name
      PROVE  d = c
  BY <1>1, <1>5 DEF BackInv, SessionInv
<1> QED BY <1>1, <1>2, <1>4, <1>5

\* The records the desk holds stay what they are, when only the newest state of a played
\* character changes.
LEMMA FreshKept ==
  ASSUME FrontInv, BackInv, BeginInv, NEW S \in SUBSET Names,
         UNCHANGED <<linkVars, dialogueVars, poolVars, exists, fresh>>,
         \A p \in fresh : p[2] \notin S,
         \A n \in Names \ S : /\ newest'[n] = newest[n] /\ row_known'[n] = row_known[n]
                              /\ sessions'[n] = sessions[n]
  PROVE  FreshInv'
<1>1. /\ UNCHANGED <<link, authenticated, dialogue, account, new_name>>
  BY DEF linkVars, dialogueVars
<1>2. Tasks' = Tasks /\ Values(completed') = Values(completed)
  BY PoolAlone DEF FrontInv
<1>3. \A c, n, s : n \in Names /\ Sound(c, n, s) => SoundAfter(c, n, s)
  BY DEF Sound, SoundAfter
<1>4. \A p \in fresh' : /\ p \in Connections \X Names
                        /\ sessions'[p[2]] = None /\ row_known'[p[2]] /\ p[2] \in exists'
  <2>1. \A p \in fresh : /\ p \in Connections \X Names /\ p[2] \in Names \ S
                         /\ sessions[p[2]] = None /\ row_known[p[2]] /\ p[2] \in exists
    BY DEF BeginInv, FreshInv
  <2> QED BY <2>1
<1>5. ASSUME NEW c \in Connections, At(c, "password")'
      PROVE  SoundAfter(c, account'[c].name, account'[c].state)
  <2>1. At(c, "password") /\ account[c].name \in Names
    BY <1>1, <1>5 DEF At, FrontInv, DeskInv, Record
  <2>2. Sound(c, account[c].name, account[c].state)
    BY <2>1 DEF BeginInv, FreshInv
  <2> QED BY <1>1, <1>3, <2>1, <2>2
<1>6. ASSUME NEW t \in Tasks
      PROVE  /\ t.op = "authenticate" => SoundAfter(t.conn, t.name, t.state)
             /\ t.op = "create" /\ link'[t.conn] = "open" => t.name = new_name'[t.conn]
  <2>1. t.name \in Names
    BY AwaitedBusy DEF FrontInv, Task
  <2> QED BY <1>1, <1>3, <2>1 DEF BeginInv, FreshInv
<1>7. ASSUME NEW r \in Values(completed)
      PROVE  /\ r.answer = "found" =>
                  r.task.op = "load" /\ SoundAfter(r.task.conn, r.task.name, r.task.state)
             /\ r.answer = "created" =>
                  r.task.op = "create" /\ SoundAfter(r.task.conn, r.task.name, InitialState)
  <2>1. r.task.name \in Names
    BY PoolValues DEF FrontInv, Result, Task
  <2> QED BY <1>3, <2>1 DEF BeginInv, FreshInv
<1> QED BY <1>2, <1>4, <1>5, <1>6, <1>7 DEF FreshInv, Sound, SoundAfter

\* Playing changes the newest state, of a character that nobody else holds a fresh record of.
LEMMA PlayKeepsBegin ==
  ASSUME FrontInv, BackInv, BeginInv, NEW c \in Connections, NEW s \in States, Play(c, s)
  PROVE  BeginInv'
<1> DEFINE n == player[c].name
<1>1. /\ life[c] = "playing" /\ player' = [player EXCEPT ![c].state = s]
      /\ newest' = [newest EXCEPT ![n] = s]
      /\ UNCHANGED <<link, authenticated, exists, backlog, durable, verdict, sessions, life, stored>>
      /\ UNCHANGED <<receipt, row_known, fresh, linkVars, dialogueVars, poolVars>>
  BY DEF Play, linkVars, tableVars
<1>2. /\ player[c] \in Record /\ n \in Names /\ n \in exists /\ \A d : <<d, n>> \notin fresh
      /\ \A d \in Connections : life[d] \in Inside /\ player[d].name = n => d = c
  BY <1>1, ListedNotFresh DEF Inside
<1>3. /\ player'[c].name = n /\ player'[c].state = s
      /\ \A d \in Connections \ {c} : player'[d] = player[d]
      /\ newest'[n] = s /\ \A m \in Names \ {n} : newest'[m] = newest[m]
      /\ newest' \in [Names -> States]
  BY <1>1, <1>2 DEF BackInv, SessionInv, BeginInv, RowInv, Record
<1> HIDE DEF n
<1>4. Requests'
  BY <1>1 DEF BeginInv, Requests
<1>5. FreshInv'
  <2>1. \A p \in fresh : p[2] \notin {n}
    BY <1>2 DEF BeginInv, FreshInv
  <2>2. \A m \in Names \ {n} : /\ newest'[m] = newest[m] /\ row_known'[m] = row_known[m]
                               /\ sessions'[m] = sessions[m]
    BY <1>1, <1>3
  <2>3. UNCHANGED <<linkVars, dialogueVars, poolVars, exists, fresh>>
    BY <1>1
  <2>4. {n} \in SUBSET Names
    BY <1>2
  <2> QED BY <2>1, <2>2, <2>3, <2>4, FreshKept
<1>6. ASSUME NEW d \in Connections
      PROVE  /\ life'[d] # "none" => player'[d].name \in exists'
             /\ link'[d] = "open" /\ ~authenticated'[d] => life'[d] = "none"
             /\ life'[d] \in Inside => newest'[player'[d].name] = player'[d].state
             /\ life'[d] = "playing" /\ row_known'[player'[d].name]
                  => SettledAfter(player'[d].name, stored'[d])
             /\ life'[d] = "saving" => Waits(d)'
  <2>1. CASE d = c
    <3>1. n = player[c].name
      BY DEF n
    <3>2. row_known[n] => Settled(n, stored[c])
      BY <1>1, <3>1 DEF BeginInv, RowInv
    <3>3. link[c] = "open" => authenticated[c]
      BY <1>1 DEF BeginInv, RowInv
    <3> QED BY <1>1, <1>2, <1>3, <2>1, <3>2, <3>3 DEF Settled, SettledAfter
  <2>2. CASE d # c
    <3>1. player'[d] = player[d] /\ (life[d] \in Inside => player[d].name \in Names \ {n})
      BY <1>2, <1>3, <2>2, ListedNotFresh
    <3>2. life[d] = "saving" => Waits(d)'
      BY <1>1, <3>1 DEF BeginInv, RowInv, Waits, Settled
    <3>3. ASSUME life[d] = "playing", row_known'[player[d].name]
          PROVE  SettledAfter(player[d].name, stored[d])
      BY <1>1, <3>3 DEF BeginInv, RowInv, Settled, SettledAfter
    <3>4. life[d] \in Inside => newest'[player[d].name] = player[d].state
      BY <1>3, <3>1 DEF BeginInv, RowInv
    <3>5. /\ life[d] # "none" => player[d].name \in exists
          /\ link[d] = "open" /\ ~authenticated[d] => life[d] = "none"
      BY DEF BeginInv, RowInv
    <3>6. UNCHANGED <<life, link, authenticated, exists, stored>>
      BY <1>1
    <3> HIDE DEF Waits
    <3> QED BY <3>1, <3>2, <3>3, <3>4, <3>5, <3>6
  <2> QED BY <2>1, <2>2
<1>7. ASSUME NEW m \in Names, row_known'[m],
             \A d \in Connections : life'[d] \in {"playing", "saving"} => player'[d].name # m
      PROVE  SettledAfter(m, newest'[m])
  <2>1. m # n
    BY <1>1, <1>3, <1>7
  <2>2. \A d \in Connections : life[d] \in {"playing", "saving"} => player[d].name # m
    BY <1>1, <1>3, <1>7, <2>1 DEF n
  <2>3. Settled(m, newest[m])
    BY <1>1, <1>7, <2>2 DEF BeginInv, RowInv
  <2> QED BY <1>1, <1>3, <2>1, <2>3 DEF Settled, SettledAfter
<1>8. \A m \in Names \ exists' : SettledAfter(m, InitialState) /\ newest'[m] = InitialState
  BY <1>1, <1>2, <1>3 DEF BeginInv, RowInv, Settled, SettledAfter
<1>9. row_known' \in [Names -> BOOLEAN]
  BY <1>1 DEF BeginInv, RowInv
<1>10. RowInv'
  BY <1>3, <1>6, <1>7, <1>8, <1>9 DEF RowInv, Inside, Settled, SettledAfter
<1> QED BY <1>4, <1>5, <1>10 DEF BeginInv

\* A row's conditions depend on the store and on the sessions that play or save its character.
LEMMA RowKept ==
  ASSUME BackInv, BeginInv, NEW c \in Connections, life[c] \in Inside,
         life' \in [Connections -> Lives],
         UNCHANGED <<link, authenticated, exists, player, stored, newest>>,
         \A d \in Connections \ {c} : life'[d] = life[d] /\ receipt'[d] = receipt[d],
         life'[c] # "none", life'[c] # "playing",
         row_known' \in [Names -> BOOLEAN],
         \A n \in Names \ {player[c].name} :
           /\ row_known'[n] = row_known[n] /\ durable'[n] = durable[n] /\ backlog'[n] = backlog[n],
         \A d \in Connections \ {c} : life[d] = "saving" => verdict'[receipt[d]] = verdict[receipt[d]],
         life'[c] = "saving" => Waits(c)',
         life'[c] # "saving" /\ row_known'[player[c].name] =>
           SettledAfter(player[c].name, player[c].state)
  PROVE  RowInv'
<1> DEFINE n == player[c].name
<1>1. /\ player[c] \in Record /\ n \in Names /\ n \in exists
      /\ \A d \in Connections : life[d] \in Inside /\ player[d].name = n => d = c
      /\ newest[n] = player[c].state /\ (link[c] = "open" => authenticated[c])
  <2>1. newest[n] = player[c].state /\ (link[c] = "open" => authenticated[c])
    BY DEF BeginInv, RowInv, Inside
  <2> QED BY <2>1, ListedNotFresh
<1>2. ASSUME NEW d \in Connections, d # c
      PROVE  /\ life'[d] # "none" => player'[d].name \in exists'
             /\ link'[d] = "open" /\ ~authenticated'[d] => life'[d] = "none"
             /\ life'[d] \in Inside => newest'[player'[d].name] = player'[d].state
             /\ life'[d] = "playing" /\ row_known'[player'[d].name]
                  => SettledAfter(player'[d].name, stored'[d])
             /\ life'[d] = "saving" => Waits(d)'
  <2>1. /\ life'[d] = life[d] /\ receipt'[d] = receipt[d] /\ player'[d] = player[d]
        /\ life[d] \in Inside => player[d].name \in Names \ {n}
    BY <1>1, <1>2, ListedNotFresh
  <2>2. /\ life'[d] # "none" => player'[d].name \in exists'
        /\ link'[d] = "open" /\ ~authenticated'[d] => life'[d] = "none"
        /\ life'[d] \in Inside => newest'[player'[d].name] = player'[d].state
    BY <2>1 DEF BeginInv, RowInv
  <2>3. life[d] = "playing" /\ row_known'[player[d].name] => SettledAfter(player[d].name, stored[d])
    BY <2>1 DEF BeginInv, RowInv, Inside, Settled, SettledAfter
  <2>4. life[d] = "saving" => Waits(d)'
    BY <1>2, <2>1 DEF BeginInv, RowInv, Inside, Waits, Settled
  <2> HIDE DEF Waits
  <2> QED BY <2>1, <2>2, <2>3, <2>4
<1>3. /\ life'[c] # "none" => player'[c].name \in exists'
      /\ link'[c] = "open" /\ ~authenticated'[c] => life'[c] = "none"
      /\ life'[c] \in Inside => newest'[player'[c].name] = player'[c].state
      /\ life'[c] = "playing" /\ row_known'[player'[c].name]
           => SettledAfter(player'[c].name, stored'[c])
      /\ life'[c] = "saving" => Waits(c)'
  BY <1>1
<1>4. ASSUME NEW m \in Names, row_known'[m],
             \A d \in Connections : life'[d] \in {"playing", "saving"} => player'[d].name # m
      PROVE  SettledAfter(m, newest'[m])
  <2>1. CASE m = n
    BY <1>1, <1>4, <2>1
  <2>2. CASE m # n
    <3>1. \A d \in Connections : life[d] \in {"playing", "saving"} => player[d].name # m
      BY <1>4, <2>2
    <3>2. Settled(m, newest[m])
      BY <1>4, <2>2, <3>1 DEF BeginInv, RowInv
    <3> QED BY <2>2, <3>2 DEF Settled, SettledAfter
  <2> QED BY <2>1, <2>2
<1>5. \A m \in Names \ exists' : SettledAfter(m, InitialState) /\ newest'[m] = InitialState
  <2>1. \A m \in Names \ exists : m # n /\ Settled(m, InitialState) /\ newest[m] = InitialState
    BY <1>1 DEF BeginInv, RowInv
  <2> QED BY <2>1 DEF Settled, SettledAfter
<1>6. newest' \in [Names -> States]
  BY DEF BeginInv, RowInv
<1> HIDE DEF n, Waits
<1>7. \A d \in Connections : 
             /\ life'[d] # "none" => player'[d].name \in exists'
             /\ link'[d] = "open" /\ ~authenticated'[d] => life'[d] = "none"
             /\ life'[d] \in Inside => newest'[player'[d].name] = player'[d].state
             /\ life'[d] = "playing" /\ row_known'[player'[d].name]
                  => SettledAfter(player'[d].name, stored'[d])
             /\ life'[d] = "saving" => Waits(d)'
  BY <1>2, <1>3
<1> QED BY <1>4, <1>5, <1>6, <1>7 DEF RowInv, Inside, Settled, SettledAfter

\* The final save: nothing new to save, an accepted request, or a refused one
LEMMA FinalSaveKeepsBegin ==
  ASSUME FrontInv, BackInv, BeginInv, NEW c \in Connections, FinalSave(c)
  PROVE  BeginInv'
<1> DEFINE n == player[c].name
<1>1. /\ life[c] = "playing" /\ life[c] \in Inside
      /\ UNCHANGED <<link, authenticated, exists, sessions, player, stored>>
      /\ UNCHANGED <<newest, row_known, fresh, linkVars, dialogueVars, poolVars>>
  BY DEF FinalSave, linkVars, histVars, Inside
<1>2. /\ player[c] \in Record /\ n \in Names /\ n \in exists
      /\ newest[n] = player[c].state /\ row_known \in [Names -> BOOLEAN]
      /\ row_known[n] => Settled(n, stored[c])
  <2>1. /\ newest[n] = player[c].state /\ row_known \in [Names -> BOOLEAN]
        /\ row_known[n] => Settled(n, stored[c])
    BY <1>1 DEF BeginInv, RowInv
  <2> QED BY <1>1, <2>1, ListedNotFresh
<1>3. FreshInv'
  <2>1. \A p \in fresh : p[2] \notin {}
    OBVIOUS
  <2>2. {} \in SUBSET Names
    OBVIOUS
  <2>3. UNCHANGED <<linkVars, dialogueVars, poolVars, exists, fresh>>
    BY <1>1
  <2>4. \A m \in Names \ {} : /\ newest'[m] = newest[m] /\ row_known'[m] = row_known[m]
                              /\ sessions'[m] = sessions[m]
    BY <1>1
  <2> QED BY <2>1, <2>2, <2>3, <2>4, FreshKept
<1>4. CASE player[c].state = stored[c]
  <2>1. life' = [life EXCEPT ![c] = "leaving"] /\ UNCHANGED <<backlog, durable, verdict, receipt>>
    BY <1>4 DEF FinalSave
  <2>2. /\ life' \in [Connections -> Lives] /\ life'[c] = "leaving"
        /\ \A d \in Connections \ {c} : life'[d] = life[d]
    BY <2>1 DEF BackInv, SessionInv, Lives
  <2>3. row_known'[n] => SettledAfter(n, player[c].state)
    BY <1>1, <1>2, <1>4, <2>1 DEF Settled, SettledAfter
  <2>4. RowInv'
    BY <1>1, <1>2, <2>1, <2>2, <2>3, RowKept
  <2>5. Requests'
    BY <2>1 DEF BeginInv, Requests
  <2> QED BY <1>3, <2>4, <2>5 DEF BeginInv
<1>5. CASE player[c].state # stored[c]
  <2>1. PICK r \in Receipts : /\ life' = [life EXCEPT ![c] = "saving"]
                              /\ receipt' = [receipt EXCEPT ![c] = r]
                              /\ Store!Accept(n, player[c].state, r) \/ Store!Refuse(r)
    BY <1>5 DEF FinalSave
  <2>2. /\ life' \in [Connections -> Lives] /\ life'[c] = "saving" /\ receipt'[c] = r
        /\ \A d \in Connections \ {c} : life'[d] = life[d] /\ receipt'[d] = receipt[d]
    BY <2>1 DEF BackInv, SessionInv, Lives
  <2>3. verdict[r] = "unused"
    BY <2>1 DEF Store!Accept, Store!Refuse
  <2>4. /\ \A d \in Connections : life[d] = "saving" => receipt[d] # r /\ receipt[d] \in Receipts
        /\ \A m \in Names : \A i \in DOMAIN backlog[m] : backlog[m][i].receipt # r
    BY <2>3 DEF BeginInv, RowInv, Waits, Requests
  <2>5. CASE Store!Accept(n, player[c].state, r)
    <3>1. PICK q : q = [receipt |-> r, encoded_state |-> player[c].state]
      OBVIOUS
    <3>2. /\ backlog' = [backlog EXCEPT ![n] = Append(backlog[n], q)] /\ durable' = durable
          /\ verdict' = [verdict EXCEPT ![r] = "open"] /\ q.receipt = r
      BY <2>5, <3>1 DEF Store!Accept
    <3>3. /\ backlog[n] \in Seq(Store!Request) /\ q \in Store!Request
          /\ player[c].state \in States
      BY <1>2, <3>1 DEF BackInv, TableInv, Store!Request, Record
    <3>4. /\ backlog'[n] = Append(backlog[n], q)
          /\ \A m \in Names \ {n} : backlog'[m] = backlog[m]
          /\ verdict'[r] = "open" /\ \A x \in Receipts \ {r} : verdict'[x] = verdict[x]
      BY <1>2, <3>2 DEF BackInv, TableInv, BeginInv, Requests
    <3>5. PICK k \in Nat : /\ k = Len(backlog[n]) /\ DOMAIN backlog[n] = 1..k
                           /\ Len(backlog'[n]) = k + 1 /\ DOMAIN backlog'[n] = 1..(k + 1)
                           /\ backlog'[n][k + 1] = q /\ backlog'[n] # <<>>
                           /\ \A i \in 1..k : backlog'[n][i] = backlog[n][i]
      <4>1. \A s \in Seq(Store!Request) :
              /\ Len(s) \in Nat /\ DOMAIN s = 1..Len(s)
              /\ Len(Append(s, q)) = Len(s) + 1 /\ DOMAIN Append(s, q) = 1..(Len(s) + 1)
              /\ Append(s, q)[Len(s) + 1] = q /\ Append(s, q) # <<>>
              /\ \A i \in 1..Len(s) : Append(s, q)[i] = s[i]
        BY <3>3
      <4>2. PICK k : k = Len(backlog[n])
        OBVIOUS
      <4>3. /\ k \in Nat /\ DOMAIN backlog[n] = 1..k
            /\ Len(backlog'[n]) = k + 1 /\ DOMAIN backlog'[n] = 1..(k + 1)
            /\ backlog'[n][k + 1] = q /\ backlog'[n] # <<>>
            /\ \A i \in 1..k : backlog'[n][i] = backlog[n][i]
        <5> HIDE DEF n
        <5> QED BY <3>3, <3>4, <4>1, <4>2
      <4> QED BY <4>2, <4>3
    <3>6. Waits(c)'
      BY <1>1, <2>2, <3>1, <3>4, <3>5 DEF Waits
    <3>7. RowInv'
      <4>1. \A d \in Connections \ {c} : life[d] = "saving" => verdict'[receipt[d]] = verdict[receipt[d]]
        BY <2>4, <3>4
      <4>2. \A m \in Names \ {n} : /\ row_known'[m] = row_known[m] /\ durable'[m] = durable[m]
                                   /\ backlog'[m] = backlog[m]
        BY <1>1, <3>2, <3>4
      <4> HIDE DEF Waits
      <4> QED BY <1>1, <1>2, <2>2, <3>6, <4>1, <4>2, RowKept
    <3>8. Requests'
      <4> HIDE DEF n
      <4>1. ASSUME NEW m \in Names, NEW i \in DOMAIN backlog'[m]
            PROVE  \/ /\ i \in DOMAIN backlog[m] /\ backlog'[m][i].receipt = backlog[m][i].receipt
                      /\ backlog[m][i].receipt # r /\ backlog[m][i].receipt \in Receipts
                   \/ m = n /\ i = k + 1 /\ backlog'[m][i].receipt = r
        <5>1. CASE m # n
          <6>1. backlog[m] \in Seq(Store!Request) /\ i \in DOMAIN backlog[m]
            BY <3>4, <4>1, <5>1 DEF BackInv, TableInv
          <6>2. backlog[m][i] \in Store!Request
            BY <6>1
          <6> QED BY <2>4, <3>4, <5>1, <6>1, <6>2 DEF Store!Request
        <5>2. CASE m = n
          <6>1. i \in 1..k \/ i = k + 1
            BY <3>5, <4>1, <5>2
          <6>2. ASSUME i \in 1..k PROVE backlog[n][i] \in Store!Request
            BY <3>3, <3>5, <6>2
          <6> QED BY <2>4, <3>2, <3>5, <5>2, <6>1, <6>2 DEF Store!Request
        <5> QED BY <5>1, <5>2
      <4>2. verdict' \in [Receipts -> {"unused", "open", "saved", "failed"}]
        BY <3>2 DEF BeginInv, Requests
      <4>3. \A m \in Names : \A i \in DOMAIN backlog'[m] : verdict'[backlog'[m][i].receipt] = "open"
        BY <3>4, <4>1 DEF BeginInv, Requests
      <4>4. ASSUME NEW l \in Names, NEW m \in Names,
                   NEW i \in DOMAIN backlog'[l], NEW j \in DOMAIN backlog'[m],
                   backlog'[l][i].receipt = backlog'[m][j].receipt
            PROVE  l = m /\ i = j
        BY <4>1, <4>4 DEF BeginInv, Requests
      <4> QED BY <4>2, <4>3, <4>4 DEF Requests
    <3> QED BY <1>3, <3>7, <3>8 DEF BeginInv
  <2>6. CASE Store!Refuse(r)
    <3>1. verdict' = [verdict EXCEPT ![r] = "failed"] /\ UNCHANGED <<backlog, durable>>
      BY <2>6 DEF Store!Refuse
    <3>2. verdict'[r] = "failed" /\ \A x \in Receipts \ {r} : verdict'[x] = verdict[x]
      BY <3>1 DEF BeginInv, Requests
    <3>3. Waits(c)'
      BY <2>2, <3>2 DEF Waits
    <3>4. RowInv'
      <4>1. \A d \in Connections \ {c} : life[d] = "saving" => verdict'[receipt[d]] = verdict[receipt[d]]
        BY <2>4, <3>2
      <4> HIDE DEF Waits
      <4> QED BY <1>1, <1>2, <2>2, <3>1, <3>3, <4>1, RowKept
    <3>5. Requests'
      <4>1. verdict' \in [Receipts -> {"unused", "open", "saved", "failed"}]
        BY <3>1 DEF BeginInv, Requests
      <4>2. \A m \in Names : \A i \in DOMAIN backlog[m] : verdict'[backlog[m][i].receipt] = "open"
        BY <2>4, <3>1, <3>2 DEF BeginInv, Requests
      <4> QED BY <3>1, <4>1, <4>2 DEF BeginInv, Requests
    <3> QED BY <1>3, <3>4, <3>5 DEF BeginInv
  <2> QED BY <2>1, <2>5, <2>6
<1> QED BY <1>4, <1>5

\* The wait for the final save ends: the row is known if it was confirmed.
LEMMA SaveEndsKeepsBegin ==
  ASSUME FrontInv, BackInv, BeginInv, NEW c \in Connections, SaveEnds(c)
  PROVE  BeginInv'
<1> DEFINE n == player[c].name
<1>1. /\ life[c] = "saving" /\ life[c] \in Inside /\ life' = [life EXCEPT ![c] = "leaving"]
      /\ receipt' = [receipt EXCEPT ![c] = None]
      /\ row_known' = [row_known EXCEPT ![n] = verdict[receipt[c]] = "saved"]
      /\ UNCHANGED <<link, authenticated, exists, backlog, durable, verdict, sessions, player>>
      /\ UNCHANGED <<stored, newest, fresh, linkVars, dialogueVars, poolVars>>
  BY DEF SaveEnds, linkVars, tableVars, Inside
<1>2. /\ n \in Names /\ \A d : <<d, n>> \notin fresh
  BY <1>1, ListedNotFresh
<1>3. /\ life' \in [Connections -> Lives] /\ life'[c] = "leaving"
      /\ \A d \in Connections \ {c} : life'[d] = life[d] /\ receipt'[d] = receipt[d]
      /\ row_known' \in [Names -> BOOLEAN]
      /\ row_known'[n] = (verdict[receipt[c]] = "saved")
      /\ \A m \in Names \ {n} : row_known'[m] = row_known[m]
  BY <1>1, <1>2 DEF BackInv, SessionInv, Lives, BeginInv, RowInv
<1>4. verdict[receipt[c]] = "saved" => SettledAfter(n, player[c].state)
  BY <1>1 DEF BeginInv, RowInv, Waits, Settled, SettledAfter
<1>5. RowInv'
  BY <1>1, <1>3, <1>4, RowKept
<1>6. Requests'
  BY <1>1 DEF BeginInv, Requests
<1> HIDE DEF n
<1>7. FreshInv'
  <2>1. \A p \in fresh : p[2] \notin {n}
    BY <1>2 DEF BeginInv, FreshInv
  <2>2. \A m \in Names \ {n} : /\ newest'[m] = newest[m] /\ row_known'[m] = row_known[m]
                               /\ sessions'[m] = sessions[m]
    BY <1>1, <1>3
  <2>3. UNCHANGED <<linkVars, dialogueVars, poolVars, exists, fresh>>
    BY <1>1
  <2>4. {n} \in SUBSET Names
    BY <1>2
  <2> QED BY <2>1, <2>2, <2>3, <2>4, FreshKept
<1> QED BY <1>5, <1>6, <1>7 DEF BeginInv

\* The session leaves the registry: its character is offline again.
LEMMA UnlistKeepsBegin ==
  ASSUME FrontInv, BackInv, BeginInv, NEW c \in Connections, Unlist(c)
  PROVE  BeginInv' /\ \A n \in Names : sessions'[n] \in {None, sessions[n]}
<1> DEFINE n == player[c].name
<1>1. /\ life[c] = "leaving" /\ life[c] \in Inside /\ life' = [life EXCEPT ![c] = "unlisted"]
      /\ sessions' = [sessions EXCEPT ![n] = IF sessions[n] = c THEN None ELSE sessions[n]]
      /\ UNCHANGED <<link, authenticated, exists, backlog, durable, verdict, player>>
      /\ UNCHANGED <<stored, receipt, newest, row_known, fresh, linkVars, dialogueVars, poolVars>>
  BY DEF Unlist, linkVars, tableVars, histVars, Inside
<1>2. /\ n \in Names /\ \A d : <<d, n>> \notin fresh
      /\ row_known \in [Names -> BOOLEAN] /\ newest[n] = player[c].state
      /\ \A d \in Connections : life[d] \in Inside /\ player[d].name = n => d = c
  BY <1>1, ListedNotFresh DEF BeginInv, RowInv
<1>3. /\ life' \in [Connections -> Lives] /\ life'[c] = "unlisted"
      /\ \A d \in Connections \ {c} : life'[d] = life[d]
      /\ \A m \in Names \ {n} : sessions'[m] = sessions[m]
      /\ sessions'[n] \in {None, sessions[n]}
  BY <1>1, <1>2 DEF BackInv, SessionInv, Lives
<1>4. row_known'[n] => SettledAfter(n, player[c].state)
  <2>1. \A d \in Connections : life[d] \in {"playing", "saving"} => player[d].name # n
    BY <1>1, <1>2 DEF Inside
  <2>2. row_known[n] => Settled(n, newest[n])
    BY <1>2, <2>1 DEF BeginInv, RowInv
  <2> QED BY <1>1, <1>2, <2>2 DEF Settled, SettledAfter
<1>5. RowInv'
  BY <1>1, <1>2, <1>3, <1>4, RowKept
<1>6. Requests'
  BY <1>1 DEF BeginInv, Requests
<1> HIDE DEF n
<1>7. FreshInv'
  <2>1. \A p \in fresh : p[2] \notin {n}
    BY <1>2 DEF BeginInv, FreshInv
  <2>2. \A m \in Names \ {n} : /\ newest'[m] = newest[m] /\ row_known'[m] = row_known[m]
                               /\ sessions'[m] = sessions[m]
    BY <1>1, <1>3
  <2>3. UNCHANGED <<linkVars, dialogueVars, poolVars, exists, fresh>>
    BY <1>1
  <2>4. {n} \in SUBSET Names
    BY <1>2
  <2> QED BY <2>1, <2>2, <2>3, <2>4, FreshKept
<1>8. \A m \in Names : sessions'[m] \in {None, sessions[m]}
  BY <1>3
<1> QED BY <1>5, <1>6, <1>7, <1>8 DEF BeginInv

\* Nobody's record or row changes while the registry and the newest states stay.
LEMMA FreshStays ==
  ASSUME FrontInv, BackInv, BeginInv, UNCHANGED <<newest, row_known, sessions>>,
         UNCHANGED <<linkVars, dialogueVars, poolVars, exists, fresh>>
  PROVE  FreshInv'
<1>1. \A p \in fresh : p[2] \notin {}
  OBVIOUS
<1>2. {} \in SUBSET Names
  OBVIOUS
<1>3. \A m \in Names \ {} : /\ newest'[m] = newest[m] /\ row_known'[m] = row_known[m]
                            /\ sessions'[m] = sessions[m]
  OBVIOUS
<1> QED BY <1>1, <1>2, <1>3, FreshKept

\* Without a player the session has no say in any row.
LEMMA DropPlayerKeepsBegin ==
  ASSUME FrontInv, BackInv, BeginInv, NEW c \in Connections, DropPlayer(c)
  PROVE  BeginInv'
<1>1. /\ life[c] = "unlisted" /\ life' = [life EXCEPT ![c] = "none"]
      /\ player' = [player EXCEPT ![c] = None] /\ stored' = [stored EXCEPT ![c] = InitialState]
      /\ UNCHANGED <<link, authenticated, exists, backlog, durable, verdict, sessions, receipt>>
      /\ UNCHANGED <<newest, row_known, fresh, linkVars, dialogueVars, poolVars>>
  BY DEF DropPlayer, linkVars, tableVars, histVars
<1>2. /\ life'[c] = "none"
      /\ \A d \in Connections \ {c} : /\ life'[d] = life[d] /\ player'[d] = player[d]
                                      /\ stored'[d] = stored[d]
  BY <1>1 DEF BackInv, SessionInv
<1>3. ASSUME NEW d \in Connections
      PROVE  /\ life'[d] # "none" => player'[d].name \in exists'
             /\ link'[d] = "open" /\ ~authenticated'[d] => life'[d] = "none"
             /\ life'[d] \in Inside => newest'[player'[d].name] = player'[d].state
             /\ life'[d] = "playing" /\ row_known'[player'[d].name]
                  => SettledAfter(player'[d].name, stored'[d])
             /\ life'[d] = "saving" => Waits(d)'
  <2>1. CASE d = c
    BY <1>2, <2>1 DEF Inside
  <2>2. CASE d # c
    <3>1. ASSUME life[d] = "saving"
          PROVE  Waits(d)'
      <4>1. Waits(d)
        BY <3>1 DEF BeginInv, RowInv
      <4>2. UNCHANGED <<receipt, verdict, backlog, durable>> /\ player'[d] = player[d]
        BY <1>1, <1>2, <2>2
      <4> QED BY <4>1, <4>2 DEF Waits, Settled
    <3>2. life[d] = "playing" /\ row_known[player[d].name] => SettledAfter(player[d].name, stored[d])
      BY <1>1 DEF BeginInv, RowInv, Settled, SettledAfter
    <3> HIDE DEF Waits
    <3> QED BY <1>1, <1>2, <2>2, <3>1, <3>2 DEF BeginInv, RowInv
  <2> QED BY <2>1, <2>2
<1>4. ASSUME NEW m \in Names, row_known'[m],
             \A d \in Connections : life'[d] \in {"playing", "saving"} => player'[d].name # m
      PROVE  SettledAfter(m, newest'[m])
  <2>1. \A d \in Connections : life[d] \in {"playing", "saving"} => player[d].name # m
    BY <1>1, <1>2, <1>4
  <2>2. Settled(m, newest[m])
    BY <1>1, <1>4, <2>1 DEF BeginInv, RowInv
  <2> QED BY <1>1, <2>2 DEF Settled, SettledAfter
<1>5. /\ \A m \in Names \ exists' : SettledAfter(m, InitialState) /\ newest'[m] = InitialState
      /\ newest' \in [Names -> States] /\ row_known' \in [Names -> BOOLEAN]
  BY <1>1 DEF BeginInv, RowInv, Settled, SettledAfter
<1>6. RowInv'
  <2> HIDE DEF Waits
  <2> QED BY <1>3, <1>4, <1>5 DEF RowInv, Inside, Settled, SettledAfter
<1>7. FreshInv' /\ Requests'
  BY <1>1, FreshStays DEF BeginInv, Requests
<1> QED BY <1>6, <1>7 DEF BeginInv

\* What is left of a sequence without its first i values
LEMMA RestParts ==
  ASSUME NEW S, NEW s \in Seq(S), NEW i \in 1..Len(s)
  PROVE  LET q == SubSeq(s, i + 1, Len(s)) IN
         /\ DOMAIN q = 1..(Len(s) - i) /\ Len(q) = Len(s) - i /\ (i = Len(s) => q = <<>>)
         /\ \A j \in 1..(Len(s) - i) : q[j] = s[j + i]
OBVIOUS

\* Settling the oldest i requests of n: their receipts have one verdict, the others are still open.
LEMMA SettleKeepsRequests ==
  ASSUME BackInv, Requests, NEW n \in Names, NEW i \in 1..Len(backlog[n]),
         NEW v \in {"saved", "failed"}, Store!Settle(n, i, v)
  PROVE  /\ Requests'
         /\ \A m \in Names \ {n} : backlog'[m] = backlog[m]
         /\ i = Len(backlog[n]) => backlog'[n] = <<>>
         /\ i # Len(backlog[n]) => /\ backlog'[n] # <<>>
                                   /\ backlog'[n][Len(backlog'[n])] = backlog[n][Len(backlog[n])]
         /\ \A j \in 1..i : verdict'[backlog[n][j].receipt] = v
         /\ \A r \in Receipts : \/ verdict'[r] = verdict[r]
                                \/ /\ verdict'[r] = v
                                   /\ \E j \in 1..i : r = backlog[n][j].receipt
<1>1. PICK k : k = Len(backlog[n])
  OBVIOUS
<1>2. PICK settled : settled = {backlog[n][j].receipt : j \in 1..i}
  OBVIOUS
<1>3. /\ backlog' = [backlog EXCEPT ![n] = SubSeq(backlog[n], i + 1, Len(backlog[n]))]
      /\ verdict' = [r \in Receipts |-> IF r \in settled THEN v ELSE verdict[r]]
  BY <1>2 DEF Store!Settle
<1>4. /\ backlog[n] \in Seq(Store!Request) /\ k \in Nat /\ i \in 1..k
      /\ DOMAIN backlog[n] = 1..k
      /\ \A j \in 1..k : backlog[n][j].receipt \in Receipts
      /\ \A m \in Names : \A j \in DOMAIN backlog[m] : backlog[m][j].receipt \in Receipts
  <2>1. \A m \in Names : backlog[m] \in Seq(Store!Request)
    BY DEF BackInv, TableInv
  <2>2. \A m \in Names : \A j \in DOMAIN backlog[m] : backlog[m][j] \in Store!Request
    BY <2>1
  <2>3. \A m \in Names : \A j \in DOMAIN backlog[m] : backlog[m][j].receipt \in Receipts
    BY <2>2 DEF Store!Request
  <2>4. DOMAIN backlog[n] = 1..k /\ k \in Nat
    BY <1>1, <2>1
  <2> QED BY <1>1, <2>1, <2>3, <2>4
<1>5. /\ \A m \in Names \ {n} : backlog'[m] = backlog[m]
      /\ backlog'[n] = SubSeq(backlog[n], i + 1, Len(backlog[n]))
  BY <1>3 DEF BackInv, TableInv
<1>6. /\ DOMAIN backlog'[n] = 1..(k - i) /\ Len(backlog'[n]) = k - i
      /\ i = k => backlog'[n] = <<>>
      /\ \A j \in 1..(k - i) : backlog'[n][j] = backlog[n][j + i]
  BY <1>1, <1>4, <1>5, RestParts
<1>7. i # k => backlog'[n] # <<>> /\ backlog'[n][k - i] = backlog[n][k]
  <2>1. CASE i # k
    <3>1. k - i \in 1..(k - i) /\ (k - i) + i = k
      BY <1>4, <2>1
    <3>2. backlog'[n][k - i] = backlog[n][(k - i) + i]
      BY <1>6, <3>1
    <3>3. backlog'[n] # <<>>
      BY <1>4, <1>6, <2>1
    <3> QED BY <3>1, <3>2, <3>3
  <2> QED BY <2>1
<1>8. /\ \A j \in 1..i : verdict'[backlog[n][j].receipt] = v
      /\ \A r \in Receipts : \/ verdict'[r] = verdict[r]
                             \/ verdict'[r] = v /\ \E j \in 1..i : r = backlog[n][j].receipt
  <2>1. \A j \in 1..i : backlog[n][j].receipt \in settled /\ backlog[n][j].receipt \in Receipts
    BY <1>2, <1>4
  <2> QED BY <1>2, <1>3, <2>1
<1>9. ASSUME NEW m \in Names, NEW j \in DOMAIN backlog'[m]
      PROVE  \E l \in DOMAIN backlog[m] :
               /\ l = (IF m = n THEN j + i ELSE j)
               /\ backlog'[m][j] = backlog[m][l] /\ backlog[m][l].receipt \in Receipts \ settled
  <2>1. CASE m = n
    <3>1. j \in 1..(k - i) /\ j + i \in 1..k /\ j + i > i
      BY <1>4, <1>6, <1>9, <2>1
    <3>2. backlog'[m][j] = backlog[m][j + i] /\ backlog[m][j + i].receipt \in Receipts
      BY <1>4, <1>6, <2>1, <3>1
    <3>3. \A x \in 1..i : x \in DOMAIN backlog[n] /\ x # j + i
      BY <1>4, <3>1
    <3>4. backlog[m][j + i].receipt \notin settled
      BY <1>2, <1>4, <2>1, <3>1, <3>3, SMTT(30) DEF Requests
    <3> QED BY <1>4, <2>1, <3>1, <3>2, <3>4
  <2>2. CASE m # n
    <3>1. j \in DOMAIN backlog[m] /\ backlog'[m][j] = backlog[m][j]
      BY <1>5, <1>9, <2>2
    <3>2. \A x \in 1..i : x \in DOMAIN backlog[n]
      BY <1>4
    <3>3. backlog[m][j].receipt \notin settled
      BY <1>2, <2>2, <3>1, <3>2 DEF Requests
    <3> QED BY <1>4, <2>2, <3>1, <3>3
  <2> QED BY <2>1, <2>2
<1>10. Requests'
  <2>1. verdict' \in [Receipts -> {"unused", "open", "saved", "failed"}]
    BY <1>3 DEF Requests
  <2>2. \A m \in Names : \A j \in DOMAIN backlog'[m] : verdict'[backlog'[m][j].receipt] = "open"
    BY <1>3, <1>9 DEF Requests
  <2>3. ASSUME NEW l \in Names, NEW m \in Names, NEW x \in DOMAIN backlog'[l],
               NEW y \in DOMAIN backlog'[m], backlog'[l][x].receipt = backlog'[m][y].receipt
        PROVE  l = m /\ x = y
    <3>1. PICK x1 \in DOMAIN backlog[l] : /\ x1 = (IF l = n THEN x + i ELSE x)
                                          /\ backlog'[l][x] = backlog[l][x1]
      BY <1>9
    <3>2. PICK y1 \in DOMAIN backlog[m] : /\ y1 = (IF m = n THEN y + i ELSE y)
                                          /\ backlog'[m][y] = backlog[m][y1]
      BY <1>9
    <3>3. l = m /\ x1 = y1
      BY <2>3, <3>1, <3>2 DEF Requests
    <3>4. CASE l = n
      <4>1. x \in 1..(k - i) /\ y \in 1..(k - i)
        BY <1>6, <3>3, <3>4
      <4> QED BY <1>4, <3>1, <3>2, <3>3, <3>4, <4>1
    <3>5. CASE l # n
      BY <3>1, <3>2, <3>3, <3>5
    <3> QED BY <3>4, <3>5
  <2> QED BY <2>1, <2>2, <2>3 DEF Requests
<1> QED BY <1>1, <1>5, <1>6, <1>7, <1>8, <1>10

\* The writer's steps: a row with requests is nobody's known row, and the request that settles the
\* last of them writes what the session waits for.
LEMMA SettleKeepsBegin ==
  ASSUME FrontInv, BackInv, BeginInv, Settle
  PROVE  BeginInv'
<1>1. /\ UNCHANGED <<link, authenticated, exists, sessions, life, player, stored, receipt>>
      /\ UNCHANGED <<newest, row_known, fresh, linkVars, dialogueVars, poolVars>>
  BY DEF Settle, linkVars, sessionVars, histVars
<1>2. FreshInv'
  BY <1>1, FreshStays
<1>3. ASSUME Requests', \A m, x : m \in Names /\ Settled(m, x) => SettledAfter(m, x),
             \A c \in Connections : life[c] = "saving" => Waits(c)'
      PROVE  BeginInv'
  <2>1. ASSUME NEW c \in Connections
        PROVE  /\ life'[c] # "none" => player'[c].name \in exists'
               /\ link'[c] = "open" /\ ~authenticated'[c] => life'[c] = "none"
               /\ life'[c] \in Inside => newest'[player'[c].name] = player'[c].state
               /\ life'[c] = "playing" /\ row_known'[player'[c].name]
                    => SettledAfter(player'[c].name, stored'[c])
               /\ life'[c] = "saving" => Waits(c)'
    <3>1. life[c] = "playing" => player[c].name \in Names
      BY DEF BackInv, SessionInv, Record
    <3>2. life[c] = "playing" /\ row_known[player[c].name] => SettledAfter(player[c].name, stored[c])
      BY <1>3, <3>1 DEF BeginInv, RowInv
    <3>3. /\ life[c] # "none" => player[c].name \in exists
          /\ link[c] = "open" /\ ~authenticated[c] => life[c] = "none"
          /\ life[c] \in Inside => newest[player[c].name] = player[c].state
      BY DEF BeginInv, RowInv
    <3> HIDE DEF Waits
    <3> QED BY <1>1, <1>3, <3>2, <3>3
  <2>2. \A m \in Names :
          row_known'[m] /\ (\A c \in Connections : life'[c] \in {"playing", "saving"} =>
                              player'[c].name # m)
            => SettledAfter(m, newest'[m])
    BY <1>1, <1>3 DEF BeginInv, RowInv
  <2>3. \A m \in Names \ exists' : SettledAfter(m, InitialState) /\ newest'[m] = InitialState
    BY <1>1, <1>3 DEF BeginInv, RowInv
  <2>4. newest' \in [Names -> States] /\ row_known' \in [Names -> BOOLEAN]
    BY <1>1 DEF BeginInv, RowInv
  <2>5. RowInv'
    <3> HIDE DEF Waits
    <3> QED BY <2>1, <2>2, <2>3, <2>4 DEF RowInv, Inside, Settled, SettledAfter
  <2> QED BY <1>2, <1>3, <2>5 DEF BeginInv
<1>4. ASSUME NEW n \in Names, NEW i \in 1..Len(backlog[n]), Store!Commit(n, i) \/ Store!Lose(n, i)
      PROVE  BeginInv'
  <2>1. PICK v \in {"saved", "failed"} :
          /\ Store!Settle(n, i, v)
          /\ v = "failed" => durable' = durable
          /\ v = "saved" => durable' = [durable EXCEPT ![n] = backlog[n][i].encoded_state]
    BY <1>4 DEF Store!Commit, Store!Lose
  <2>2. /\ Requests'
        /\ \A m \in Names \ {n} : backlog'[m] = backlog[m]
        /\ i = Len(backlog[n]) => backlog'[n] = <<>>
        /\ i # Len(backlog[n]) => /\ backlog'[n] # <<>>
                                  /\ backlog'[n][Len(backlog'[n])] = backlog[n][Len(backlog[n])]
        /\ \A j \in 1..i : verdict'[backlog[n][j].receipt] = v
        /\ \A r \in Receipts : \/ verdict'[r] = verdict[r]
                               \/ verdict'[r] = v /\ \E j \in 1..i : r = backlog[n][j].receipt
    BY <2>1, SettleKeepsRequests DEF BeginInv
  <2>3. /\ \A m \in Names \ {n} : durable'[m] = durable[m]
        /\ v = "saved" => durable'[n] = backlog[n][i].encoded_state
    BY <2>1 DEF BackInv, TableInv
  <2>4. /\ backlog[n] # <<>> /\ DOMAIN backlog[n] = 1..Len(backlog[n]) /\ Len(backlog[n]) \in Nat
        /\ \A m \in Names : backlog[m] # <<>> =>
             Len(backlog[m]) \in DOMAIN backlog[m]
    <3>1. \A m \in Names : backlog[m] \in Seq(Store!Request)
      BY DEF BackInv, TableInv
    <3>2. \A s \in Seq(Store!Request) : /\ DOMAIN s = 1..Len(s) /\ Len(s) \in Nat
                                        /\ s # <<>> => Len(s) \in DOMAIN s
                                        /\ s = <<>> => Len(s) = 0
      OBVIOUS
    <3>3. Len(backlog[n]) # 0
      BY <3>1, <3>2
    <3> QED BY <3>1, <3>2, <3>3
  <2>5. \A m, x : m \in Names /\ Settled(m, x) => SettledAfter(m, x)
    BY <2>2, <2>3, <2>4 DEF Settled, SettledAfter
  <2>6. ASSUME NEW c \in Connections, life[c] = "saving"
        PROVE  Waits(c)'
    <3>1. PICK m \in Names : m = player[c].name
      BY <2>6 DEF BackInv, SessionInv, Record
    <3>2. PICK r \in Receipts : r = receipt[c]
      BY <2>6 DEF BeginInv, RowInv, Waits
    <3>3. PICK s : s = player[c].state
      OBVIOUS
    <3>4. /\ verdict[r] # "unused"
          /\ verdict[r] = "open" => /\ backlog[m] # <<>>
                                    /\ backlog[m][Len(backlog[m])].receipt = r
                                    /\ backlog[m][Len(backlog[m])].encoded_state = s
                                    /\ backlog[m][Len(backlog[m])] = [receipt |-> r, encoded_state |-> s]
          /\ verdict[r] = "saved" => Settled(m, s)
      BY <2>6, <3>1, <3>2, <3>3 DEF BeginInv, RowInv, Waits
    <3>5. /\ verdict'[r] # "unused"
          /\ verdict'[r] = "open" => /\ backlog'[m] # <<>>
                                     /\ backlog'[m][Len(backlog'[m])] = [receipt |-> r, encoded_state |-> s]
          /\ verdict'[r] = "saved" => SettledAfter(m, s)
      <4>1. CASE verdict[r] = "open"
        <5>1. Len(backlog[m]) \in DOMAIN backlog[m]
          BY <2>4, <3>4, <4>1
        <5>2. ASSUME NEW j \in 1..i, r = backlog[n][j].receipt
              PROVE  m = n /\ j = Len(backlog[n]) /\ i = j
          <6>1. j \in DOMAIN backlog[n]
            BY <2>4
          <6>2. m = n /\ Len(backlog[m]) = j
            BY <3>4, <4>1, <5>1, <5>2, <6>1 DEF BeginInv, Requests
          <6> QED BY <2>4, <6>2
        <5>3. CASE \E j \in 1..i : r = backlog[n][j].receipt
          <6>1. m = n /\ i = Len(backlog[n]) /\ r = backlog[n][i].receipt
            BY <5>2, <5>3
          <6>2. verdict'[r] = v
            BY <2>2, <5>3
          <6>3. v = "saved" => SettledAfter(m, s)
            BY <2>2, <2>3, <3>4, <4>1, <6>1 DEF SettledAfter
          <6> QED BY <6>2, <6>3
        <5>4. CASE ~\E j \in 1..i : r = backlog[n][j].receipt
          <6>1. verdict'[r] = "open"
            BY <2>2, <4>1, <5>4
          <6>2. CASE m # n
            BY <2>2, <3>4, <4>1, <6>1, <6>2
          <6>3. CASE m = n
            <7>1. i # Len(backlog[n])
              BY <2>4, <3>4, <4>1, <5>4, <6>3
            <7> QED BY <2>2, <3>4, <4>1, <6>1, <6>3, <7>1
          <6> QED BY <6>2, <6>3
        <5> QED BY <5>3, <5>4
      <4>2. CASE verdict[r] # "open"
        <5>1. \A j \in 1..i : verdict[backlog[n][j].receipt] = "open"
          BY <2>4 DEF BeginInv, Requests
        <5>2. verdict'[r] = verdict[r]
          BY <2>2, <4>2, <5>1
        <5> QED BY <2>5, <3>4, <4>2, <5>2
      <4> QED BY <4>1, <4>2
    <3> QED BY <1>1, <3>1, <3>2, <3>3, <3>5 DEF Waits, Settled, SettledAfter
  <2> HIDE DEF Waits
  <2> QED BY <1>3, <2>2, <2>5, <2>6
<1>5. ASSUME NEW r \in Receipts, \A c \in Connections : receipt[c] # r, Store!Forget(r)
      PROVE  BeginInv'
  <2>1. /\ verdict[r] # "open" /\ verdict' = [verdict EXCEPT ![r] = "unused"]
        /\ UNCHANGED <<backlog, durable>>
    BY <1>5 DEF Store!Forget
  <2>2. \A x \in Receipts \ {r} : verdict'[x] = verdict[x]
    BY <2>1 DEF BeginInv, Requests
  <2>3. Requests'
    <3>1. verdict' \in [Receipts -> {"unused", "open", "saved", "failed"}]
      BY <2>1 DEF BeginInv, Requests
    <3>2. \A m \in Names : \A j \in DOMAIN backlog[m] : backlog[m][j].receipt \in Receipts
      <4>1. \A m \in Names : backlog[m] \in Seq(Store!Request)
        BY DEF BackInv, TableInv
      <4>2. \A m \in Names : \A j \in DOMAIN backlog[m] : backlog[m][j] \in Store!Request
        BY <4>1
      <4> QED BY <4>2 DEF Store!Request
    <3>3. \A m \in Names : \A j \in DOMAIN backlog[m] : verdict'[backlog[m][j].receipt] = "open"
      BY <2>1, <2>2, <3>2 DEF BeginInv, Requests
    <3> QED BY <2>1, <3>1, <3>3 DEF BeginInv, Requests
  <2>4. \A m, x : m \in Names /\ Settled(m, x) => SettledAfter(m, x)
    BY <2>1 DEF Settled, SettledAfter
  <2>5. \A c \in Connections : life[c] = "saving" => Waits(c)'
    BY <1>1, <1>5, <2>1, <2>2 DEF BeginInv, RowInv, Waits, Settled
  <2> HIDE DEF Waits
  <2> QED BY <1>3, <2>3, <2>4, <2>5
<1> QED BY <1>4, <1>5 DEF Settle

\* At the start every row is known and blank.
LEMMA BeginInitial == Init => BeginInv
<1> SUFFICES ASSUME Init PROVE BeginInv
  OBVIOUS
<1>1. /\ \A n \in Names : backlog[n] = <<>> /\ durable[n] = InitialState
      /\ newest = durable /\ newest \in [Names -> States]
      /\ verdict \in [Receipts -> {"unused", "open", "saved", "failed"}]
      /\ row_known = [n \in Names |-> TRUE] /\ fresh = {}
      /\ \A c \in Connections : life[c] = "none" /\ link[c] = "closed"
  BY ConstantsType DEF Init, Store!StoreInit
<1>2. Requests
  BY <1>1 DEF Requests
<1>3. RowInv
  <2> HIDE DEF Waits
  <2> QED BY <1>1 DEF RowInv, Settled, Inside
<1>4. Tasks = {} /\ Values(completed) = {}
  BY ValuesType DEF Init, Tasks
<1>5. FreshInv
  BY <1>1, <1>4 DEF FreshInv, At
<1> QED BY <1>2, <1>3, <1>5 DEF BeginInv

\* A step in which no character's place in the registry is taken
LEMMA NobodyBegins ==
  ASSUME \A n \in Names : sessions'[n] \in {None, sessions[n]}
  PROVE  \A c \in Connections, n \in Names : ~Begins(c, n)
<1>1. \A c \in Connections : c # None
  BY LoginAssumption
<1> QED BY <1>1 DEF Begins

BeginsRight ==
  \A c \in Connections, n \in Names : Begins(c, n) =>
    /\ <<c, n>> \in fresh => player'[c].state = newest[n]
    /\ ~stopped

\* The two answers a session begins with
LEMMA LoginKeepsBegin ==
  ASSUME FrontInv, BackInv, BeginInv, NEW c \in Connections, RightPassword(c) \/ AccountCreated(c)
  PROVE  BeginInv' /\ BeginsRight
<1>1. PICK n \in Names, s \in States :
        /\ Drained(c) /\ link[c] = "open" /\ FinishAuthenticated(c, n, s) /\ UNCHANGED tableVars
        /\ Sound(c, n, s)
  <2>1. CASE RightPassword(c)
    <3>1. PICK n \in Names, s \in States :
            /\ n = Head(completed).task.name /\ s = Head(completed).task.state
            /\ Drained(c) /\ link[c] = "open" /\ FinishAuthenticated(c, n, s)
            /\ Head(completed).task.op = "authenticate"
            /\ UNCHANGED <<exists, backlog, durable, verdict>>
      BY <2>1, PasswordFinishes
    <3>2. PICK r : r = Head(completed)
      OBVIOUS
    <3>3. r \in Values(completed) /\ r.task.conn = c
      BY <3>1, <3>2, DrainedMove DEF Drained, FrontInv
    <3>4. r.task \in Tasks
      BY <3>3 DEF Tasks
    <3>5. Sound(c, n, s)
      BY <3>1, <3>2, <3>3, <3>4 DEF BeginInv, FreshInv
    <3> QED BY <3>1, <3>5 DEF tableVars
  <2>2. CASE AccountCreated(c)
    <3>1. /\ new_name[c] \in Names /\ InitialState \in States
          /\ Drained(c) /\ link[c] = "open" /\ FinishAuthenticated(c, new_name[c], InitialState)
          /\ Head(completed).task.op = "create" /\ Head(completed).answer = "created"
          /\ UNCHANGED <<exists, backlog, durable, verdict>>
      BY <2>2, CreationFinishes
    <3>2. PICK r : r = Head(completed)
      OBVIOUS
    <3>3. r \in Values(completed) /\ r.task.conn = c
      BY <3>1, <3>2, DrainedMove DEF Drained, FrontInv
    <3>4. r.task \in Tasks
      BY <3>3 DEF Tasks
    <3>5. r.task.name = new_name[c]
      BY <3>1, <3>2, <3>3, <3>4, TasksSound
    <3>6. Sound(c, new_name[c], InitialState)
      BY <3>1, <3>2, <3>3, <3>5 DEF BeginInv, FreshInv
    <3> QED BY <3>1, <3>6 DEF tableVars
  <2> QED BY <2>1, <2>2
<1>2. /\ BeginInv'
      /\ Begins(c, n) /\ <<c, n>> \in fresh => player'[c].state = newest[n]
      /\ \A d \in Connections, m \in Names : Begins(d, m) => d = c /\ m = n
  BY <1>1, FinishKeepsBegin
<1>3. ~stopped
  BY <1>1 DEF FrontInv, DeskInv
<1> QED BY <1>2, <1>3 DEF BeginsRight

\* Every step keeps what a session begins with.
LEMMA BeginStep ==
  ASSUME FrontInv, BackInv, BeginInv, [Next]_vars
  PROVE  BeginInv' /\ BeginsRight
<1>1. ASSUME BeginInv', \A n \in Names : sessions'[n] \in {None, sessions[n]}
      PROVE  BeginInv' /\ BeginsRight
  BY <1>1, NobodyBegins DEF BeginsRight
<1>2. ASSUME NEW c \in Connections, Accept(c) \/ Close(c) PROVE BeginInv' /\ BeginsRight
  <2>1. UNCHANGED sessions
    BY <1>2 DEF Accept, Close, sessionVars
  <2>2. ASSUME Close(c) PROVE BeginInv'
    <3>1. /\ MarkClosed({c}) /\ {c} \in SUBSET Connections /\ UNCHANGED poolVars
          /\ UNCHANGED <<tableVars, sessionVars, newest, row_known>>
      BY <2>2 DEF Close
    <3> QED BY <3>1, CloseKeepsBegin
  <2> QED BY <1>1, <1>2, <2>1, <2>2, AcceptKeepsBegin
<1>3. ASSUME NEW c \in Connections, Line(c) PROVE BeginInv' /\ BeginsRight
  <2>1. UNCHANGED sessions
    BY <1>3 DEF Line, NameLine, NewNameLine, NewUserLine, PasswordLine, NewPasswordLine,
       MismatchLine, MatchLine, sessionVars
  <2> QED BY <1>1, <1>3, <2>1, LinesKeepBegin
<1>4. ASSUME NEW c \in Connections, Session(c) PROVE BeginInv' /\ BeginsRight
  <2>1. ASSUME ~Unlist(c) PROVE UNCHANGED sessions
    BY <1>4, <2>1 DEF Session, FinalSave, SaveEnds, DropPlayer, Play
  <2>2. BeginInv'
    BY <1>4, FinalSaveKeepsBegin, SaveEndsKeepsBegin, UnlistKeepsBegin, DropPlayerKeepsBegin,
       PlayKeepsBegin DEF Session
  <2>3. \A n \in Names : sessions'[n] \in {None, sessions[n]}
    BY <2>1, UnlistKeepsBegin
  <2> QED BY <1>1, <2>2, <2>3
<1>5. ASSUME Stop PROVE BeginInv' /\ BeginsRight
  <2>1. /\ MarkClosed(Connections) /\ Connections \in SUBSET Connections /\ Cancelled
        /\ UNCHANGED <<tableVars, sessionVars, newest, row_known>> /\ UNCHANGED sessions
    BY <1>5 DEF Stop, Cancelled, sessionVars
  <2> QED BY <1>1, <2>1, CloseKeepsBegin
<1>6. ASSUME Pool PROVE BeginInv' /\ BeginsRight
  <2>1. UNCHANGED sessions
    BY <1>6 DEF Pool, Fetch, Perform, sessionVars
  <2> QED BY <1>1, <1>6, <2>1, FetchKeepsBegin, PerformKeepsBegin DEF Pool
<1>7. ASSUME Drain PROVE BeginInv' /\ BeginsRight
  <2>1. PICK c \in Connections :
          \/ Discard(c) \/ Failed(c) \/ AccountLoaded(c) \/ WrongPassword(c) \/ RightPassword(c)
          \/ NewNameChecked(c) \/ CreationFailed(c) \/ AccountCreated(c)
    BY <1>7 DEF Drain
  <2>2. CASE RightPassword(c) \/ AccountCreated(c)
    BY <2>2, LoginKeepsBegin
  <2>3. CASE \/ Discard(c) \/ Failed(c) \/ AccountLoaded(c) \/ WrongPassword(c)
             \/ NewNameChecked(c) \/ CreationFailed(c)
    <3>1. UNCHANGED sessions
      BY <2>3 DEF Discard, Failed, AccountLoaded, WrongPassword, NewNameChecked, CreationFailed,
         sessionVars
    <3> QED BY <1>1, <2>3, <3>1, ResultsKeepBegin
  <2> QED BY <2>1, <2>2, <2>3
<1>8. ASSUME Settle PROVE BeginInv' /\ BeginsRight
  <2>1. UNCHANGED sessions
    BY <1>8 DEF Settle, sessionVars
  <2> QED BY <1>1, <1>8, <2>1, SettleKeepsBegin
<1>9. ASSUME UNCHANGED vars PROVE BeginInv' /\ BeginsRight
  <2>1. /\ UNCHANGED <<link, authenticated, account, dialogue, new_name, poolVars>>
        /\ UNCHANGED <<tableVars, sessionVars, newest, row_known, fresh, sessions>>
    BY <1>9 DEF vars, linkVars, dialogueVars, histVars, sessionVars
  <2>2. Tasks' = Tasks /\ Values(completed') = Values(completed)
    BY <2>1, PoolAlone DEF FrontInv
  <2>3. BeginInv'
    BY <2>1, <2>2, TasksSound, DeskKeepsBegin DEF At
  <2> QED BY <1>1, <2>1, <2>3
<1> QED BY <1>2, <1>3, <1>4, <1>5, <1>6, <1>7, <1>8, <1>9 DEF Next

\* A session begins with the newest state of its character, when its record was read or made after
\* the last session had left with a confirmed save; and no session begins once the server has closed
\* its connections.
THEOREM SessionsBegin == Spec => SessionsBeginRight
<1>1. Init => BeginInv
  BY BeginInitial
<1>2. LoginInv /\ BeginInv /\ [Next]_vars => BeginInv' /\ BeginsRight
  BY BeginStep DEF LoginInv
<1>3. LoginInv /\ BeginInv /\ [Next]_vars =>
        [\A c \in Connections, n \in Names : Begins(c, n) =>
           /\ <<c, n>> \in fresh => player'[c].state = newest[n]
           /\ ~stopped]_vars
  BY <1>2 DEF BeginsRight
<1> QED BY <1>1, <1>2, <1>3, LoginInvariant, PTL DEF Spec, SessionsBeginRight
===============================================================================
