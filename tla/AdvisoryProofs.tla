----------------------------- MODULE AdvisoryProofs -----------------------------
(***************************************************************************)
(* Proofs about the remote voice of one NPC, for any numbers of utterances *)
(* and threads and any limits: nothing is answered twice, and what was     *)
(* switched off is not spoken.                                             *)
(*                                                                         *)
(* An answer is followed through the places it passes: in the hands of the *)
(* actor or withheld or being asked for, among the outputs, taken by a     *)
(* tick, decided, heard.  It leaves one when it comes to the next.         *)
(***************************************************************************)
EXTENDS Advisory, SequenceTheorems, FiniteSetTheorems, WellFoundedInduction, TLAPS

-------------------------------------------------------------------------------
(* The invariant *)

ActorPc == {"idle", "deciding", "observing", "queueing", "displacing", "ticking"}
WorkerPc == {"idle", "asking", "storing", "open", "stale", "stored"}
Answers == [u : Utterances, text : {"local", "remote"}]
Outputs == [u : Utterances, remote : BOOLEAN, withheld : BOOLEAN]
Jobs == [u : Utterances, live : BOOLEAN, score : Scores]

AdvisoryShape ==
  /\ actor \in [pc : ActorPc, u : Utterances, live : BOOLEAN, outputs : Seq(SUBSET Answers)]
  /\ actor.pc # "ticking" => actor.outputs = <<>>
  /\ pending \in SUBSET Utterances /\ due \in SUBSET pending
  /\ IsFiniteSet(pending) /\ Cardinality(pending) <= PendingLimit
  /\ outputs \in Seq(Outputs) /\ Len(outputs) <= OutputLimit
  /\ decided \in SUBSET Answers
  /\ queue \in Seq(Jobs) /\ Len(queue) <= QueueLimit
  /\ worker \in [Workers -> [pc : WorkerPc, u : Utterances, live : BOOLEAN, good : BOOLEAN]]
  /\ said \in [Utterances -> {"no", "live", "local"}]
  /\ heard \in [Utterances -> [local : Nat, remote : Nat]]

\* Where an utterance or an answer to it can be
InHand == IF actor.pc \in {"deciding", "observing", "queueing", "displacing"} THEN {actor.u} ELSE {}
Queued == {queue[i].u : i \in 1..Len(queue)}
Busy == {w \in Workers : worker[w].pc # "idle"}
Working == {worker[w].u : w \in Busy}
Outgoing == {outputs[i].u : i \in 1..Len(outputs)}
TakenNow == UNION ToSet(actor.outputs)

\* The threads that may still bring a good answer
Asking == {w \in Workers : \/ worker[w].pc = "asking"
                           \/ worker[w].pc \in {"storing", "open"} /\ worker[w].good}
Asked == Queued \cup {worker[w].u : w \in Asking}

\* The frame of an utterance is in one place only, and knows how it was said.
JobsInv ==
  /\ \A i, j \in 1..Len(queue) : queue[i].u = queue[j].u => i = j
  /\ \A v, w \in Busy : worker[v].u = worker[w].u => v = w
  /\ Queued \cap Working = {}
  /\ InHand \cap (Queued \cup Working) = {}
  /\ \A i \in 1..Len(queue) : said[queue[i].u] = IF queue[i].live THEN "live" ELSE "local"
  /\ \A w \in Busy : said[worker[w].u] = IF worker[w].live THEN "live" ELSE "local"
  /\ InHand # {} => said[actor.u] = IF actor.live THEN "live" ELSE "local"

\* What is waited for: a local answer that is withheld, or else the provider's
Waiting == InHand \cup pending \cup {u \in Asked : said[u] # "live"}

\* The answers that count: to live speech any, to other speech the provider's
Counts(a) == a.text = "remote" \/ said[a.u] = "live"
Heard(u) == heard[u].remote + (IF said[u] = "live" THEN heard[u].local ELSE 0)

OnceInv ==
  /\ \A u \in pending : said[u] = "live"
  /\ actor.pc = "deciding" => actor.u \notin pending
  /\ \A i, j \in 1..Len(outputs) : outputs[i].u = outputs[j].u => i = j
  /\ \A i \in 1..Len(outputs) :
       /\ said[outputs[i].u] # "no"
       /\ said[outputs[i].u] = "local" => outputs[i].remote /\ ~outputs[i].withheld
  /\ \A a \in TakenNow \cup decided : said[a.u] # "no"
  /\ \A a \in TakenNow : Counts(a)
  /\ \A a, b \in TakenNow \cup decided : Counts(a) /\ Counts(b) /\ a.u = b.u => a = b
  /\ \A a \in TakenNow : a \notin decided
  /\ \A i, j \in 1..Len(actor.outputs) : i # j => actor.outputs[i] \cap actor.outputs[j] = {}
  /\ Waiting \cap Outgoing = {}
  /\ \A a \in TakenNow \cup decided : Counts(a) => a.u \notin Waiting \cup Outgoing
  /\ \A u \in Waiting \cup Outgoing : Heard(u) = 0
  /\ \A a \in TakenNow \cup decided : Counts(a) => Heard(a.u) = 0
  /\ \A u \in Utterances : Heard(u) <= 1 /\ (said[u] = "no" => Heard(u) = 0)

\* Speech answered locally at once
LocalInv ==
  \A u \in Utterances : said[u] # "live" =>
    /\ u \in InHand => Answer(u, "local") \notin decided /\ heard[u].local = 0
    /\ Answer(u, "local") \in decided => heard[u].local = 0
    /\ heard[u].local <= 1
    /\ said[u] = "no" => heard[u].local = 0

AdvisoryInv == AdvisoryShape /\ JobsInv /\ OnceInv /\ LocalInv

-------------------------------------------------------------------------------
(* Sequences *)

\* A set of natural numbers has a least member.
LEMMA LeastNatural ==
  ASSUME NEW S, S \subseteq Nat, S # {}
  PROVE  \E i \in S : \A j \in S : i <= j
<1>1. PICK i \in S : \A j \in S : ~(<<j, i>> \in OpToRel(<, Nat))
  BY NatLessThanWellFounded, WFMin
<1>2. \A j \in S : ~(j < i)
  BY <1>1 DEF OpToRel
<1> QED BY <1>2

\* Of the positions of a sequence of numbers that hold x, one is the first.
LEMMA FirstOf ==
  ASSUME NEW n \in Nat, NEW f, NEW x, \E i \in 1..n : f[i] = x
  PROVE  \E i \in 1..n : f[i] = x /\ \A j \in 1..n : f[j] = x => i <= j
<1> DEFINE S == {i \in 1..n : f[i] = x}
<1>1. S # {} /\ S \subseteq Nat
  OBVIOUS
<1>2. PICK i \in S : \A j \in S : i <= j
  BY <1>1, LeastNatural
<1> QED BY <1>2

\* Numbers in finitely many positions have a least ...
LEMMA LeastOf ==
  ASSUME NEW n \in Nat \ {0}, NEW f, \A i \in 1..n : f[i] \in Nat
  PROVE  \E i \in 1..n : \A j \in 1..n : f[i] <= f[j]
<1> DEFINE S == {f[i] : i \in 1..n}
<1>1. S # {} /\ S \subseteq Nat
  <2>1. f[1] \in S
    OBVIOUS
  <2> QED BY <2>1
<1>2. PICK x \in S : \A y \in S : x <= y
  BY <1>1, LeastNatural
<1>3. PICK i \in 1..n : x = f[i]
  BY <1>2
<1> QED BY <1>2, <1>3

\* ... and a greatest: of the sets of positions that exceed a position, one is the smallest.
LEMMA GreatestOf ==
  ASSUME NEW n \in Nat \ {0}, NEW f, \A i \in 1..n : f[i] \in Nat
  PROVE  \E i \in 1..n : \A j \in 1..n : f[j] <= f[i]
<1> DEFINE Above(i) == {j \in 1..n : f[j] > f[i]}
           g == [i \in 1..n |-> Cardinality(Above(i))]
<1>1. ASSUME NEW i \in 1..n
      PROVE  IsFiniteSet(Above(i)) /\ Cardinality(Above(i)) \in Nat
  <2>1. IsFiniteSet(1..n)
    BY FS_Interval
  <2>2. Above(i) \in SUBSET (1..n)
    OBVIOUS
  <2>3. IsFiniteSet(Above(i))
    BY <2>1, <2>2, FS_Subset
  <2> QED BY <2>3, FS_CardinalityType
<1>2. PICK i \in 1..n : \A j \in 1..n : Cardinality(Above(i)) <= Cardinality(Above(j))
  <2>1. \A i \in 1..n : g[i] = Cardinality(Above(i))
    OBVIOUS
  <2>2. \A i \in 1..n : g[i] \in Nat
    BY <1>1, <2>1
  <2> HIDE DEF g
  <2>3. PICK i \in 1..n : \A j \in 1..n : g[i] <= g[j]
    BY <2>2, LeastOf
  <2> QED BY <2>1, <2>3
<1>3. ASSUME NEW j \in 1..n, f[j] > f[i]
      PROVE  FALSE
  <2> HIDE DEF Above
  <2>1. Above(j) \in SUBSET Above(i)
    BY <1>3 DEF Above
  <2>2. Cardinality(Above(j)) <= Cardinality(Above(i))
        /\ (Cardinality(Above(i)) = Cardinality(Above(j)) => Above(i) = Above(j))
    BY <1>1, <2>1, FS_Subset
  <2>3. Cardinality(Above(i)) <= Cardinality(Above(j))
    BY <1>2
  <2>4. Above(i) = Above(j)
    <3>1. Cardinality(Above(i)) \in Nat /\ Cardinality(Above(j)) \in Nat
      BY <1>1
    <3> QED BY <2>2, <2>3, <3>1
  <2>5. j \in Above(i) /\ j \notin Above(j)
    BY <1>3 DEF Above
  <2> QED BY <2>4, <2>5
<1>4. \A j \in 1..n : f[j] <= f[i]
  BY <1>3
<1> QED BY <1>4

\* What is left of a sequence without one of its elements.
LEMMA Removed ==
  ASSUME NEW S, NEW s \in Seq(S), NEW i \in 1..Len(s)
  PROVE  /\ RemoveAt(s, i) \in Seq(S)
         /\ Len(RemoveAt(s, i)) = Len(s) - 1
         /\ \A j \in 1..(Len(s) - 1) : RemoveAt(s, i)[j] = s[IF j < i THEN j ELSE j + 1]
<1> DEFINE a == SubSeq(s, 1, i - 1)
           b == SubSeq(s, i + 1, Len(s))
<1>0. Len(s) \in Nat /\ i \in Nat /\ 1 <= i /\ i <= Len(s)
  BY LenProperties
<1>1. a \in Seq(S) /\ Len(a) = i - 1 /\ \A j \in 1..(i - 1) : a[j] = s[j]
  BY <1>0, SubSeqProperties
<1>2. b \in Seq(S) /\ Len(b) = Len(s) - i /\ \A j \in 1..(Len(s) - i) : b[j] = s[i + j]
  BY <1>0, SubSeqProperties
<1>3. RemoveAt(s, i) = a \o b
  BY DEF RemoveAt
<1> HIDE DEF a, b
<1>4. /\ a \o b \in Seq(S) /\ Len(a \o b) = Len(a) + Len(b)
      /\ \A j \in 1..(Len(a) + Len(b)) : (a \o b)[j] = IF j <= Len(a) THEN a[j] ELSE b[j - Len(a)]
  BY <1>1, <1>2, ConcatProperties
<1>5. Len(a) + Len(b) = Len(s) - 1
  BY <1>0, <1>1, <1>2
<1>6. ASSUME NEW j \in 1..(Len(s) - 1)
      PROVE  (a \o b)[j] = s[IF j < i THEN j ELSE j + 1]
  <2>0. j \in Nat /\ 1 <= j /\ j <= Len(s) - 1
    BY <1>0
  <2>1. CASE j < i
    <3>1. j <= Len(a) /\ j \in 1..(i - 1) /\ j \in 1..(Len(a) + Len(b))
      BY <1>0, <1>1, <1>5, <2>0, <2>1
    <3>2. (a \o b)[j] = a[j] /\ a[j] = s[j]
      BY <1>1, <1>4, <3>1
    <3> QED BY <2>1, <3>2
  <2>2. CASE ~(j < i)
    <3>1. ~(j <= Len(a)) /\ j - Len(a) \in 1..(Len(s) - i) /\ j \in 1..(Len(a) + Len(b))
      BY <1>0, <1>1, <1>5, <2>0, <2>2
    <3>2. (a \o b)[j] = b[j - Len(a)] /\ b[j - Len(a)] = s[i + (j - Len(a))]
      BY <1>2, <1>4, <3>1
    <3>3. i + (j - Len(a)) = j + 1
      BY <1>0, <1>1, <2>0
    <3> QED BY <2>2, <3>2, <3>3
  <2> QED BY <2>1, <2>2
<1> QED BY <1>3, <1>4, <1>5, <1>6

\* The answers a bounded deque keeps are the last ones it was given, in their order.
LEMMA NewestKept ==
  ASSUME NEW s \in Seq(Outputs)
  PROVE  /\ Newest(s) \in Seq(Outputs) /\ Len(Newest(s)) <= OutputLimit
         /\ \E k \in Nat : \A i \in 1..Len(Newest(s)) :
              i + k \in 1..Len(s) /\ Newest(s)[i] = s[i + k]
<1>1. OutputLimit \in Nat /\ OutputLimit > 0 /\ Len(s) \in Nat
  BY AdvisoryAssumption
<1>2. CASE Len(s) <= OutputLimit
  <2>1. Newest(s) = s
    BY <1>1, <1>2 DEF Newest
  <2>2. \A i \in 1..Len(s) : i + 0 \in 1..Len(s) /\ s[i] = s[i + 0]
    BY <1>1
  <2> QED BY <1>1, <1>2, <2>1, <2>2
<1>3. CASE Len(s) > OutputLimit
  <2> DEFINE k == Len(s) - OutputLimit
  <2>1. Newest(s) = SubSeq(s, k + 1, Len(s))
    BY <1>1, <1>3 DEF Newest
  <2>4. k \in Nat /\ Len(s) = k + OutputLimit
    BY <1>1, <1>3
  <2>2. /\ SubSeq(s, k + 1, Len(s)) \in Seq(Outputs)
        /\ Len(SubSeq(s, k + 1, Len(s))) = OutputLimit
        /\ \A i \in 1..OutputLimit : SubSeq(s, k + 1, Len(s))[i] = s[i + k]
    BY <1>1, <1>3, SubSeqProperties
  <2>3. k \in Nat /\ \A i \in 1..OutputLimit : i + k \in 1..Len(s)
    BY <1>1, <1>3
  <2> HIDE DEF k
  <2>5. Newest(s) \in Seq(Outputs) /\ Len(Newest(s)) = OutputLimit
    BY <2>1, <2>2
  <2>6. \A i \in 1..Len(Newest(s)) : i + k \in 1..Len(s) /\ Newest(s)[i] = s[i + k]
    BY <2>1, <2>2, <2>3, <2>5
  <2>7. Len(Newest(s)) <= OutputLimit
    BY <1>1, <2>5
  <2> QED BY <2>3, <2>5, <2>6, <2>7
<1> QED BY <1>1, <1>2, <1>3

\* The answers of a finite set, in some order, each once.
LEMMA SetInOrder ==
  ASSUME NEW S, IsFiniteSet(S)
  PROVE  /\ SetToSeq(S) \in Seq(S) /\ Len(SetToSeq(S)) = Cardinality(S)
         /\ \A i, j \in 1..Len(SetToSeq(S)) : SetToSeq(S)[i] = SetToSeq(S)[j] => i = j
<1> DEFINE n == Cardinality(S)
<1>1. n \in Nat /\ ExistsBijection(1..n, S)
  BY FS_CardinalityType
<1>2. \E f \in [1..n -> S] : IsInjective(f)
  BY <1>1 DEF ExistsBijection, Bijection, Injection
<1>3. SetToSeq(S) \in [1..n -> S] /\ IsInjective(SetToSeq(S))
  BY <1>2 DEF SetToSeq
<1> HIDE DEF n
<1>4. SetToSeq(S) \in Seq(S) /\ Len(SetToSeq(S)) = n
  BY <1>1, <1>3, IsASeq
<1>5. \A i, j \in 1..n : SetToSeq(S)[i] = SetToSeq(S)[j] => i = j
  BY <1>3 DEF IsInjective
<1> QED BY <1>4, <1>5 DEF n

-------------------------------------------------------------------------------
(* The queue of frames and the outputs *)

\* A queue that is not empty has a frame to give up and one to take.
LEMMA WorstAndBest ==
  ASSUME AdvisoryShape, queue # <<>>
  PROVE  Worst \in Positions /\ Best \in Positions
<1> DEFINE f == [i \in Positions |-> queue[i].score]
<1>1. Len(queue) \in Nat \ {0} /\ Positions = 1..Len(queue)
  <2>1. queue \in Seq(Jobs)
    BY DEF AdvisoryShape
  <2> QED BY <2>1, EmptySeq, LenProperties DEF Positions
<1>2. \A i \in Positions : queue[i].score \in Nat
  <2>1. \A i \in Positions : queue[i] \in Jobs
    BY <1>1, ElementOfSeq DEF AdvisoryShape
  <2>2. \A job \in Jobs : job.score \in Nat
    BY AdvisoryAssumption DEF Jobs
  <2> QED BY <2>1, <2>2
<1>3. \A i \in Positions : f[i] = queue[i].score /\ f[i] \in Nat
  BY <1>2
<1> HIDE DEF f
<1>4. \E i \in Positions : \A j \in Positions :
        f[i] < f[j] \/ (f[i] = f[j] /\ i <= j)
  <2>1. PICK k \in Positions : \A j \in Positions : f[k] <= f[j]
    BY <1>1, <1>3, LeastOf
  <2>2. PICK i \in Positions : f[i] = f[k] /\ \A j \in Positions : f[j] = f[k] => i <= j
    <3>1. Len(queue) \in Nat /\ \E i \in 1..Len(queue) : f[i] = f[k]
      BY <1>1
    <3> DEFINE x == f[k]
    <3>2. \E i \in 1..Len(queue) : f[i] = x
      BY <3>1
    <3> HIDE DEF x
    <3>3. \E i \in 1..Len(queue) : f[i] = x /\ \A j \in 1..Len(queue) : f[j] = x => i <= j
      BY <3>1, <3>2, FirstOf
    <3> QED BY <1>1, <3>3 DEF x
  <2> QED BY <1>3, <2>1, <2>2
<1>5. \E i \in Positions : \A j \in Positions :
        f[i] > f[j] \/ (f[i] = f[j] /\ i <= j)
  <2>1. PICK k \in Positions : \A j \in Positions : f[j] <= f[k]
    BY <1>1, <1>3, GreatestOf
  <2>2. PICK i \in Positions : f[i] = f[k] /\ \A j \in Positions : f[j] = f[k] => i <= j
    <3>1. Len(queue) \in Nat /\ \E i \in 1..Len(queue) : f[i] = f[k]
      BY <1>1
    <3> DEFINE x == f[k]
    <3>2. \E i \in 1..Len(queue) : f[i] = x
      BY <3>1
    <3> HIDE DEF x
    <3>3. \E i \in 1..Len(queue) : f[i] = x /\ \A j \in 1..Len(queue) : f[j] = x => i <= j
      BY <3>1, <3>2, FirstOf
    <3> QED BY <1>1, <3>3 DEF x
  <2> QED BY <1>3, <2>1, <2>2
<1>6. Worst \in Positions
  BY <1>3, <1>4 DEF Worst
<1>7. Best \in Positions
  BY <1>3, <1>5 DEF Best
<1> QED BY <1>6, <1>7

\* An output is spoken in one way, or not at all.
LEMMA SpokenOnce ==
  ASSUME NEW o \in Outputs
  PROVE  /\ Spoken(o) \in SUBSET Answers
         /\ \A a \in Spoken(o) : /\ a.u = o.u
                                 /\ a.text = "local" => ~o.remote \/ o.withheld
                                 /\ a.text = "remote" => ~Blocked
         /\ \A a, b \in Spoken(o) : a = b
  BY DEF Outputs, Answers, Spoken, Local, Answer

\* What a tick finds due: withheld answers, each once.
LEMMA ExpiredInOrder ==
  ASSUME AdvisoryShape
  PROVE  LET s == SetToSeq({Fallback(u) : u \in Expired})
         IN /\ s \in Seq(Outputs)
            /\ \A i \in 1..Len(s) : s[i].u \in Expired /\ s[i] = Fallback(s[i].u)
            /\ \A i, j \in 1..Len(s) : s[i].u = s[j].u => i = j
<1> DEFINE T == {Fallback(u) : u \in Expired}
           f == [u \in Expired |-> Fallback(u)]
<1>1. Expired \in SUBSET pending /\ pending \in SUBSET Utterances
  BY DEF Expired, AdvisoryShape
<1>2. IsFiniteSet(T)
  <2>1. IsFiniteSet(Expired)
    BY <1>1, FS_Subset DEF AdvisoryShape
  <2>2. f \in Surjection(Expired, T)
    BY DEF Surjection
  <2> QED BY <2>1, <2>2, FS_Surjection
<1>3. T \in SUBSET Outputs
  <2>1. \A u \in Utterances : Fallback(u) \in Outputs
    BY DEF Fallback, Outputs
  <2> QED BY <1>1, <2>1
<1>4. \A o \in T : o.u \in Expired /\ o = Fallback(o.u)
  BY <1>1 DEF Fallback
<1> DEFINE s == SetToSeq(T)
<1> HIDE DEF T
<1>5. /\ s \in Seq(T)
      /\ \A i, j \in 1..Len(s) : s[i] = s[j] => i = j
  BY <1>2, SetInOrder
<1>6. \A i \in 1..Len(s) : s[i] \in T
  BY <1>5, ElementOfSeq
<1> HIDE DEF s
<1>7. s \in Seq(Outputs)
  BY <1>3, <1>5, SeqMonotonic
<1>8. \A i \in 1..Len(s) : s[i].u \in Expired /\ s[i] = Fallback(s[i].u)
  BY <1>4, <1>6
<1>9. \A i, j \in 1..Len(s) : s[i].u = s[j].u => i = j
  BY <1>5, <1>8
<1> QED BY <1>7, <1>8, <1>9 DEF s, T

\* What it takes is an output of before or an answer withheld till now, and nothing twice.
LEMMA OverdueOnce ==
  ASSUME AdvisoryShape, JobsInv, OnceInv
  PROVE  /\ Overdue \in Seq(Outputs)
         /\ \A i \in 1..Len(Overdue) :
              \/ \E j \in 1..Len(outputs) : Overdue[i] = outputs[j]
              \/ Overdue[i].u \in Expired /\ Overdue[i] = Fallback(Overdue[i].u)
         /\ \A i, j \in 1..Len(Overdue) : Overdue[i].u = Overdue[j].u => i = j
<1> DEFINE s == SetToSeq({Fallback(u) : u \in Expired})
<1>1. /\ s \in Seq(Outputs)
      /\ \A i \in 1..Len(s) : s[i].u \in Expired /\ s[i] = Fallback(s[i].u)
      /\ \A i, j \in 1..Len(s) : s[i].u = s[j].u => i = j
  BY ExpiredInOrder
<1>2. outputs \in Seq(Outputs) /\ Overdue = outputs \o s
  BY DEF AdvisoryShape, Overdue
<1> HIDE DEF s
<1>3. /\ Overdue \in Seq(Outputs)
      /\ Len(Overdue) = Len(outputs) + Len(s)
      /\ \A i \in 1..(Len(outputs) + Len(s)) :
           Overdue[i] = IF i <= Len(outputs) THEN outputs[i] ELSE s[i - Len(outputs)]
  BY <1>1, <1>2, ConcatProperties
<1>4. Len(outputs) \in Nat /\ Len(s) \in Nat
  BY <1>1, <1>2, LenProperties
<1>5. ASSUME NEW i \in 1..Len(Overdue)
      PROVE  \/ i \in 1..Len(outputs) /\ Overdue[i] = outputs[i]
             \/ /\ i - Len(outputs) \in 1..Len(s) /\ Overdue[i] = s[i - Len(outputs)]
                /\ i \in Nat
  BY <1>3, <1>4
<1>6. \A i \in 1..Len(outputs), j \in 1..Len(s) : outputs[i].u # s[j].u
  BY <1>1 DEF OnceInv, Waiting, Outgoing, Expired
<1>7. \A i, j \in 1..Len(outputs) : outputs[i].u = outputs[j].u => i = j
  BY DEF OnceInv
<1>8. ASSUME NEW i \in 1..Len(Overdue), NEW j \in 1..Len(Overdue), Overdue[i].u = Overdue[j].u
      PROVE  i = j
  <2>1. CASE i \in 1..Len(outputs) /\ Overdue[i] = outputs[i]
    <3>1. ~(j - Len(outputs) \in 1..Len(s) /\ Overdue[j] = s[j - Len(outputs)])
      BY <1>6, <1>8, <2>1
    <3>2. j \in 1..Len(outputs) /\ Overdue[j] = outputs[j]
      BY <1>5, <3>1
    <3> QED BY <1>7, <1>8, <2>1, <3>2
  <2>2. CASE i - Len(outputs) \in 1..Len(s) /\ Overdue[i] = s[i - Len(outputs)] /\ i \in Nat
    <3>1. ~(j \in 1..Len(outputs) /\ Overdue[j] = outputs[j])
      BY <1>6, <1>8, <2>2
    <3>2. j - Len(outputs) \in 1..Len(s) /\ Overdue[j] = s[j - Len(outputs)] /\ j \in Nat
      BY <1>5, <3>1
    <3>3. i - Len(outputs) = j - Len(outputs)
      BY <1>1, <1>8, <2>2, <3>2
    <3> QED BY <1>4, <2>2, <3>2, <3>3
  <2> QED BY <1>5, <2>1, <2>2
<1>9. \A i \in 1..Len(Overdue) :
        \/ \E j \in 1..Len(outputs) : Overdue[i] = outputs[j]
        \/ Overdue[i].u \in Expired /\ Overdue[i] = Fallback(Overdue[i].u)
  BY <1>1, <1>5
<1> QED BY <1>3, <1>8, <1>9

\* Of it the tick takes, for each output, one answer at most, and says which is which by it.
LEMMA TickTakes ==
  ASSUME AdvisoryShape, JobsInv, OnceInv, Tick
  PROVE  /\ actor'.outputs \in Seq(SUBSET Answers)
         /\ \A i \in 1..Len(actor'.outputs) : \A a \in actor'.outputs[i] :
              /\ a \in Answers
              /\ a.text = "remote" => ~Blocked
              /\ \/ \E j \in 1..Len(outputs) : /\ a.u = outputs[j].u
                                               /\ a.text = "local" => ~outputs[j].remote \/ outputs[j].withheld
                 \/ a.u \in Expired
         /\ \A i, j \in 1..Len(actor'.outputs) :
              \A a \in actor'.outputs[i], b \in actor'.outputs[j] : a.u = b.u => i = j /\ a = b
<1> DEFINE s == Newest(Overdue)
<1>1. s \in Seq(Outputs) /\ \E k \in Nat : \A i \in 1..Len(s) :
        i + k \in 1..Len(Overdue) /\ s[i] = Overdue[i + k]
  BY OverdueOnce, NewestKept
<1>2. actor'.outputs = [i \in 1..Len(s) |-> Spoken(s[i])]
  BY DEF Tick, AdvisoryShape
<1> HIDE DEF s
<1>3. Len(s) \in Nat /\ \A i \in 1..Len(s) : s[i] \in Outputs
  BY <1>1, LenProperties, ElementOfSeq
<1>4. \A i \in 1..Len(s) : Spoken(s[i]) \in SUBSET Answers
  BY <1>3, SpokenOnce
<1>5. actor'.outputs \in Seq(SUBSET Answers) /\ Len(actor'.outputs) = Len(s)
  BY <1>2, <1>3, <1>4, IsASeq
<1>6. \A i \in 1..Len(s) : actor'.outputs[i] = Spoken(s[i])
  BY <1>2
<1>7. \A i \in 1..Len(s) :
        \/ \E j \in 1..Len(outputs) : s[i] = outputs[j]
        \/ s[i].u \in Expired /\ s[i] = Fallback(s[i].u)
  BY <1>1, OverdueOnce
<1>8. \A i, j \in 1..Len(s) : s[i].u = s[j].u => i = j
  <2>1. PICK k \in Nat : \A i \in 1..Len(s) : i + k \in 1..Len(Overdue) /\ s[i] = Overdue[i + k]
    BY <1>1
  <2>2. ASSUME NEW i \in 1..Len(s), NEW j \in 1..Len(s), s[i].u = s[j].u
        PROVE  i = j
    <3>1. /\ i + k \in 1..Len(Overdue) /\ s[i] = Overdue[i + k]
          /\ j + k \in 1..Len(Overdue) /\ s[j] = Overdue[j + k]
      BY <2>1
    <3>2. \A m, n \in 1..Len(Overdue) : Overdue[m].u = Overdue[n].u => m = n
      BY OverdueOnce
    <3>3. i + k = j + k
      BY <2>2, <3>1, <3>2
    <3> QED BY <1>3, <3>3
  <2> QED BY <2>2
<1>9. ASSUME NEW i \in 1..Len(s), NEW a \in Spoken(s[i])
      PROVE  /\ a \in Answers
             /\ a.text = "remote" => ~Blocked
             /\ \/ \E j \in 1..Len(outputs) : /\ a.u = outputs[j].u
                                              /\ a.text = "local" => ~outputs[j].remote \/ outputs[j].withheld
                \/ a.u \in Expired
  <2>1. /\ a \in Answers /\ a.u = s[i].u
        /\ a.text = "local" => ~s[i].remote \/ s[i].withheld
        /\ a.text = "remote" => ~Blocked
    BY <1>3, SpokenOnce
  <2> QED BY <1>7, <2>1
<1>10. ASSUME NEW i \in 1..Len(s), NEW j \in 1..Len(s), NEW a \in Spoken(s[i]), NEW b \in Spoken(s[j]),
              a.u = b.u
       PROVE  i = j /\ a = b
  <2>1. a.u = s[i].u /\ b.u = s[j].u
    BY <1>3, SpokenOnce
  <2>2. i = j
    BY <1>8, <1>10, <2>1
  <2> QED BY <1>3, <2>2, SpokenOnce
<1> QED BY <1>5, <1>6, <1>9, <1>10

-------------------------------------------------------------------------------
(* Type correctness *)

\* A thread or an actor with nothing to do is of the right shape.
LEMMA IdleShape ==
  /\ Ready \in [pc : ActorPc, u : Utterances, live : BOOLEAN, outputs : Seq(SUBSET Answers)]
  /\ Ready.pc = "idle" /\ Ready.outputs = <<>>
  /\ NoJob \in [pc : WorkerPc, u : Utterances, live : BOOLEAN, good : BOOLEAN]
  /\ NoJob.pc = "idle"
<1>1. (CHOOSE u \in Utterances : TRUE) \in Utterances
  BY AdvisoryAssumption
<1>2. <<>> \in Seq(SUBSET Answers)
  BY EmptySeq
<1> QED BY <1>1, <1>2 DEF Ready, NoJob, ActorPc, WorkerPc

\* The first state is of the right shape.
LEMMA InitShape == Init => AdvisoryShape
<1> SUFFICES ASSUME Init PROVE AdvisoryShape
  OBVIOUS
<1>1. IsFiniteSet(pending) /\ Cardinality(pending) = 0
  BY FS_EmptySet DEF Init
<1>2. 0 <= PendingLimit /\ 0 <= OutputLimit /\ 0 <= QueueLimit
  BY AdvisoryAssumption
<1>3. outputs \in Seq(Outputs) /\ Len(outputs) = 0 /\ queue \in Seq(Jobs) /\ Len(queue) = 0
  BY EmptySeq DEF Init
<1> QED BY <1>1, <1>2, <1>3, IdleShape DEF Init, AdvisoryShape

\* The actor goes on with the same utterance.
LEMMA ActorGoesOn ==
  ASSUME AdvisoryShape, actor.pc \notin {"idle", "ticking"},
         NEW pc \in ActorPc, actor' = [actor EXCEPT !.pc = pc]
  PROVE  /\ actor' \in [pc : ActorPc, u : Utterances, live : BOOLEAN, outputs : Seq(SUBSET Answers)]
         /\ actor'.pc = pc /\ actor'.u = actor.u /\ actor'.live = actor.live
         /\ actor'.outputs = <<>> /\ actor.outputs = <<>>
  BY DEF AdvisoryShape

\* Withdrawn answers leave fewer withheld.
LEMMA WithdrawShape ==
  ASSUME AdvisoryShape, NEW U, Withdraw(U)
  PROVE  /\ pending' \in SUBSET pending /\ pending' \in SUBSET Utterances /\ due' \in SUBSET pending'
         /\ IsFiniteSet(pending') /\ Cardinality(pending') <= PendingLimit
         /\ pending' = pending \ U
<1>1. pending' = pending \ U /\ due' = due \ U /\ due \in SUBSET pending /\ pending \in SUBSET Utterances
  BY DEF Withdraw, AdvisoryShape
<1>2. pending' \in SUBSET pending
  BY <1>1
<1>3. IsFiniteSet(pending) /\ Cardinality(pending) <= PendingLimit
  BY DEF AdvisoryShape
<1>4. IsFiniteSet(pending') /\ Cardinality(pending') <= Cardinality(pending)
  BY <1>2, <1>3, FS_Subset
<1>5. Cardinality(pending') <= PendingLimit
  <2>1. Cardinality(pending') \in Nat /\ Cardinality(pending) \in Nat /\ PendingLimit \in Nat
    BY <1>3, <1>4, FS_CardinalityType, AdvisoryAssumption
  <2> QED BY <1>3, <1>4, <2>1
<1> QED BY <1>1, <1>4, <1>5

\* What the handler makes of a thread's record.
LEMMA HandledShape ==
  ASSUME AdvisoryShape, NEW w \in Workers, NEW b \in BOOLEAN, Handled(w, b)
  PROVE  /\ worker' \in [Workers -> [pc : WorkerPc, u : Utterances, live : BOOLEAN, good : BOOLEAN]]
         /\ \A v \in Workers : v # w => worker'[v] = worker[v]
         /\ IF worker[w].good
            THEN /\ worker'[w].pc = (IF b THEN "stored" ELSE "stale")
                 /\ worker'[w].u = worker[w].u /\ worker'[w].live = worker[w].live
            ELSE worker'[w].pc = "idle"
<1> DEFINE r == IF ~worker[w].good THEN NoJob
                ELSE [worker[w] EXCEPT !.pc = IF b THEN "stored" ELSE "stale"]
<1>1. worker \in [Workers -> [pc : WorkerPc, u : Utterances, live : BOOLEAN, good : BOOLEAN]]
  BY DEF AdvisoryShape
<1>2. worker' = [worker EXCEPT ![w] = r]
  BY DEF Handled
<1>3. /\ r \in [pc : WorkerPc, u : Utterances, live : BOOLEAN, good : BOOLEAN]
      /\ IF worker[w].good
         THEN /\ r.pc = (IF b THEN "stored" ELSE "stale")
              /\ r.u = worker[w].u /\ r.live = worker[w].live
         ELSE r.pc = "idle"
  BY <1>1, IdleShape DEF WorkerPc
<1> HIDE DEF r
<1> QED BY <1>1, <1>2, <1>3

\* A thread's other steps, with the same frame.
LEMMA WorkerGoesOn ==
  ASSUME AdvisoryShape, NEW w \in Workers, NEW pc \in WorkerPc, NEW good \in BOOLEAN,
         \/ worker' = [worker EXCEPT ![w].pc = pc, ![w].good = good]
         \/ worker' = [worker EXCEPT ![w].pc = pc] /\ good = worker[w].good
  PROVE  /\ worker' \in [Workers -> [pc : WorkerPc, u : Utterances, live : BOOLEAN, good : BOOLEAN]]
         /\ \A v \in Workers : v # w => worker'[v] = worker[v]
         /\ worker'[w].pc = pc /\ worker'[w].good = good
         /\ worker'[w].u = worker[w].u /\ worker'[w].live = worker[w].live
<1> DEFINE r == [pc |-> pc, u |-> worker[w].u, live |-> worker[w].live, good |-> good]
<1>1. worker \in [Workers -> [pc : WorkerPc, u : Utterances, live : BOOLEAN, good : BOOLEAN]]
  BY DEF AdvisoryShape
<1>2. worker[w] \in [pc : WorkerPc, u : Utterances, live : BOOLEAN, good : BOOLEAN]
  BY <1>1
<1>3. r \in [pc : WorkerPc, u : Utterances, live : BOOLEAN, good : BOOLEAN]
  BY <1>2
<1>4. r.pc = pc /\ r.u = worker[w].u /\ r.live = worker[w].live /\ r.good = good
  OBVIOUS
<1>5. worker' = [worker EXCEPT ![w] = r]
  <2>1. CASE worker' = [worker EXCEPT ![w].pc = pc, ![w].good = good]
    <3>1. r = [worker[w] EXCEPT !.pc = pc, !.good = good]
      <4> DEFINE e == [worker[w] EXCEPT !.pc = pc, !.good = good]
      <4>1. e \in [pc : WorkerPc, u : Utterances, live : BOOLEAN, good : BOOLEAN]
        BY <1>2
      <4>2. e.pc = pc /\ e.good = good /\ e.u = worker[w].u /\ e.live = worker[w].live
        BY <1>2
      <4>3. \A x, y \in [pc : WorkerPc, u : Utterances, live : BOOLEAN, good : BOOLEAN] :
              x.pc = y.pc /\ x.u = y.u /\ x.live = y.live /\ x.good = y.good => x = y
        OBVIOUS
      <4> HIDE DEF e, r
      <4>4. r = e
        BY <1>3, <1>4, <4>1, <4>2, <4>3
      <4> QED BY <4>4 DEF e
    <3>2. worker' = [worker EXCEPT ![w] = [worker[w] EXCEPT !.pc = pc, !.good = good]]
      BY <1>1, <2>1
    <3> QED BY <3>1, <3>2
  <2>2. CASE worker' = [worker EXCEPT ![w].pc = pc] /\ good = worker[w].good
    <3>1. r = [worker[w] EXCEPT !.pc = pc]
      BY <1>2, <2>2
    <3> QED BY <1>1, <2>2, <3>1
  <2> QED BY <2>1, <2>2
<1> HIDE DEF r
<1> QED BY <1>1, <1>3, <1>4, <1>5

\* An answer put to speak, or none, finds room.
LEMMA PutShape ==
  ASSUME AdvisoryShape, NEW s \in Seq(Outputs), Put(s)
  PROVE  outputs' \in Seq(Outputs) /\ Len(outputs') <= OutputLimit
<1>1. outputs \o s \in Seq(Outputs)
  BY ConcatProperties DEF AdvisoryShape
<1> QED BY <1>1, NewestKept DEF Put

\* A frame that is queued finds room, in the place of a worse one if need be.
LEMMA QueueShape ==
  ASSUME AdvisoryShape, NEW score \in Scores, QueueAs(score),
         \/ actor.pc = "queueing" /\ ~Full
         \/ actor.pc = "displacing" /\ queue # <<>>
  PROVE  /\ queue' \in Seq(Jobs) /\ Len(queue') <= QueueLimit
         /\ \E n \in Nat : \E g \in [1..n -> 1..Len(queue)] :
              /\ Len(queue') = n + 1 /\ \A i, j \in 1..n : g[i] = g[j] => i = j
              /\ \A i \in 1..n : queue'[i] = queue[g[i]]
              /\ queue'[n + 1] = Job(actor.u, actor.live, score)
<1> DEFINE job == Job(actor.u, actor.live, score)
           s == IF actor.pc = "displacing" THEN RemoveAt(queue, Worst) ELSE queue
<1>1. job \in Jobs
  BY DEF Job, Jobs, AdvisoryShape
<1>2. queue \in Seq(Jobs) /\ Len(queue) \in Nat /\ Len(queue) <= QueueLimit /\ QueueLimit \in Nat
  BY LenProperties, AdvisoryAssumption DEF AdvisoryShape
<1>3. s \in Seq(Jobs) /\ Len(s) < QueueLimit /\
      \E g \in [1..Len(s) -> 1..Len(queue)] :
        /\ \A i, j \in 1..Len(s) : g[i] = g[j] => i = j
        /\ \A i \in 1..Len(s) : s[i] = queue[g[i]]
  <2>1. CASE actor.pc = "queueing" /\ ~Full
    <3> DEFINE g == [i \in 1..Len(queue) |-> i]
    <3>1. s = queue /\ Len(queue) < QueueLimit
      BY <1>2, <2>1 DEF Full
    <3>2. /\ g \in [1..Len(queue) -> 1..Len(queue)]
          /\ \A i, j \in 1..Len(queue) : g[i] = g[j] => i = j
          /\ \A i \in 1..Len(queue) : queue[i] = queue[g[i]]
      OBVIOUS
    <3> HIDE DEF g, s
    <3> QED BY <1>2, <3>1, <3>2
  <2>2. CASE actor.pc = "displacing" /\ queue # <<>>
    <3> DEFINE k == Worst
               g == [i \in 1..(Len(queue) - 1) |-> IF i < k THEN i ELSE i + 1]
    <3>1. k \in 1..Len(queue)
      BY <2>2, WorstAndBest DEF Positions
    <3> HIDE DEF k
    <3>2. /\ s = RemoveAt(queue, k) /\ s \in Seq(Jobs) /\ Len(s) = Len(queue) - 1
          /\ \A i \in 1..(Len(queue) - 1) : s[i] = queue[IF i < k THEN i ELSE i + 1]
      <4>1. s = RemoveAt(queue, k)
        BY <2>2 DEF k
      <4> HIDE DEF s
      <4> QED BY <1>2, <3>1, <4>1, Removed
    <3> HIDE DEF s
    <3>3. g \in [1..(Len(queue) - 1) -> 1..Len(queue)]
      BY <1>2, <3>1
    <3>4. \A i, j \in 1..(Len(queue) - 1) : g[i] = g[j] => i = j
      BY <1>2, <3>1
    <3>5. \A i \in 1..(Len(queue) - 1) : s[i] = queue[g[i]]
      BY <3>2
    <3> HIDE DEF g
    <3> QED BY <1>2, <3>2, <3>3, <3>4, <3>5
  <2> QED BY <2>1, <2>2
<1>4. queue' = Append(s, job)
  BY DEF QueueAs, Enqueued
<1> HIDE DEF s, job
<1>5. /\ queue' \in Seq(Jobs) /\ Len(queue') = Len(s) + 1 /\ queue'[Len(s) + 1] = job
      /\ \A i \in 1..Len(s) : queue'[i] = s[i]
  BY <1>1, <1>3, <1>4, AppendProperties
<1>6. Len(s) \in Nat
  BY <1>3, LenProperties
<1>7. PICK g \in [1..Len(s) -> 1..Len(queue)] :
        /\ \A i, j \in 1..Len(s) : g[i] = g[j] => i = j
        /\ \A i \in 1..Len(s) : s[i] = queue[g[i]]
  BY <1>3
<1>8. Len(queue') <= QueueLimit
  BY <1>2, <1>3, <1>5, <1>6
<1>9. \A i \in 1..Len(s) : queue'[i] = queue[g[i]]
  BY <1>5, <1>7
<1> QED BY <1>5, <1>6, <1>7, <1>8, <1>9 DEF job

\* An answer spoken is heard once more, as what it is.
LEMMA SpeakAdds ==
  ASSUME AdvisoryShape, NEW a \in decided, Speak(a)
  PROVE  /\ a \in Answers /\ a.u \in Utterances /\ a.text \in {"local", "remote"}
         /\ heard' \in [Utterances -> [local : Nat, remote : Nat]]
         /\ \A u \in Utterances : u # a.u => heard'[u] = heard[u]
         /\ heard'[a.u].local = heard[a.u].local + (IF a.text = "local" THEN 1 ELSE 0)
         /\ heard'[a.u].remote = heard[a.u].remote + (IF a.text = "remote" THEN 1 ELSE 0)
<1> DEFINE n == [heard[a.u] EXCEPT ![a.text] = @ + 1]
<1>1. a \in Answers /\ a.u \in Utterances /\ a.text \in {"local", "remote"}
  BY DEF AdvisoryShape, Answers
<1>2. heard \in [Utterances -> [local : Nat, remote : Nat]]
  BY DEF AdvisoryShape
<1>3. heard' = [heard EXCEPT ![a.u] = n]
  BY <1>1, <1>2 DEF Speak
<1>4. /\ n \in [local : Nat, remote : Nat]
      /\ n.local = heard[a.u].local + (IF a.text = "local" THEN 1 ELSE 0)
      /\ n.remote = heard[a.u].remote + (IF a.text = "remote" THEN 1 ELSE 0)
  <2>1. heard[a.u] \in [local : Nat, remote : Nat]
    BY <1>1, <1>2
  <2>2. CASE a.text = "local"
    <3>1. n = [heard[a.u] EXCEPT !.local = @ + 1]
      BY <2>2
    <3> HIDE DEF n
    <3> QED BY <2>1, <2>2, <3>1
  <2>3. CASE a.text = "remote"
    <3>1. n = [heard[a.u] EXCEPT !.remote = @ + 1]
      BY <2>3
    <3> HIDE DEF n
    <3> QED BY <2>1, <2>3, <3>1
  <2> QED BY <1>1, <2>2, <2>3
<1> HIDE DEF n
<1> QED BY <1>1, <1>2, <1>3, <1>4

\* Every step keeps the shape.
LEMMA ShapeStep == AdvisoryShape /\ [Next]_vars => AdvisoryShape'
<1> SUFFICES ASSUME AdvisoryShape, [Next]_vars PROVE AdvisoryShape'
  OBVIOUS
<1> USE DEF behaviour, runtime, history
<1>1. ASSUME NEW u \in Utterances, OnSay(u)
      PROVE  AdvisoryShape'
  <2>1. Live \in BOOLEAN
    BY DEF Live
  <2>2. /\ actor' \in [pc : ActorPc, u : Utterances, live : BOOLEAN, outputs : Seq(SUBSET Answers)]
        /\ actor'.outputs = <<>>
    BY <1>1, <2>1 DEF OnSay, AdvisoryShape, ActorPc
  <2>3. said' \in [Utterances -> {"no", "live", "local"}]
    BY <1>1 DEF OnSay, AdvisoryShape
  <2> QED BY <1>1, <2>2, <2>3 DEF OnSay, AdvisoryShape
<1>2. ASSUME NEW u \in Utterances, DeadlinePasses(u)
      PROVE  AdvisoryShape'
  BY <1>2 DEF DeadlinePasses, AdvisoryShape
<1>3. actor.pc \notin {"idle", "ticking"} /\ ReturnLocal =>
        /\ actor' \in [pc : ActorPc, u : Utterances, live : BOOLEAN, outputs : Seq(SUBSET Answers)]
        /\ (actor.pc # "ticking" => actor.outputs = <<>>)'
        /\ decided' \in SUBSET Answers
  BY IdleShape DEF ReturnLocal, Local, Answer, Answers, AdvisoryShape
<1>4. CASE StayLocal
  BY <1>3, <1>4 DEF StayLocal, AdvisoryShape
<1>5. CASE Withhold
  <2>1. "observing" \in ActorPc /\ actor.u \in Utterances
    BY DEF ActorPc, AdvisoryShape
  <2>2. /\ pending' \in SUBSET Utterances /\ due \in SUBSET pending'
        /\ IsFiniteSet(pending') /\ Cardinality(pending') <= PendingLimit
    <3>1. IsFiniteSet(pending) /\ Cardinality(pending) \in Nat /\ PendingLimit \in Nat
          /\ Cardinality(pending) <= PendingLimit
      BY FS_CardinalityType, AdvisoryAssumption DEF AdvisoryShape
    <3>2. CASE actor.live
      <4>1. pending' = pending \cup {actor.u} /\ Cardinality(pending) < PendingLimit
        BY <1>5, <3>2 DEF Withhold
      <4>2. IsFiniteSet(pending') /\ Cardinality(pending') <= Cardinality(pending) + 1
        BY <3>1, <4>1, FS_AddElement
      <4>3. Cardinality(pending') \in Nat
        BY <4>2, FS_CardinalityType
      <4>4. Cardinality(pending') <= PendingLimit
        BY <3>1, <4>1, <4>2, <4>3
      <4> QED BY <2>1, <4>1, <4>2, <4>4 DEF AdvisoryShape
    <3>3. CASE ~actor.live
      BY <1>5, <3>1, <3>3 DEF Withhold, AdvisoryShape
    <3> QED BY <3>2, <3>3
  <2>3. actor.pc \notin {"idle", "ticking"} /\ actor' = [actor EXCEPT !.pc = "observing"]
    BY <1>5 DEF Withhold
  <2> QED BY <1>5, <2>1, <2>2, <2>3, ActorGoesOn DEF Withhold, AdvisoryShape
<1>6. CASE Admit
  <2>1. "queueing" \in ActorPc
    BY DEF ActorPc
  <2>2. actor.pc \notin {"idle", "ticking"} /\ actor' = [actor EXCEPT !.pc = "queueing"]
    BY <1>6 DEF Admit
  <2> QED BY <1>6, <2>1, <2>2, ActorGoesOn DEF Admit, AdvisoryShape
<1>7. CASE Refuse \/ QueueRefuses
  <2>1. Withdraw({actor.u}) /\ ReturnLocal /\ actor.pc \notin {"idle", "ticking"}
        /\ UNCHANGED <<outputs, local_only, runtime, occupied, history>>
    BY <1>7 DEF Refuse, QueueRefuses
  <2> QED BY <1>3, <2>1, WithdrawShape DEF AdvisoryShape
<1>8. CASE Queue \/ Displace
  <2>1. PICK score \in Scores :
          /\ QueueAs(score)
          /\ \/ actor.pc = "queueing" /\ ~Full
             \/ actor.pc = "displacing" /\ queue # <<>>
          /\ UNCHANGED <<pending, due, outputs, local_only, worker, enabled, closed, ready, occupied, history>>
    BY <1>8 DEF Queue, Displace
  <2>2. queue' \in Seq(Jobs) /\ Len(queue') <= QueueLimit
    BY <2>1, QueueShape
  <2>3. actor' = Ready /\ decided' \in SUBSET Answers
    BY <2>1 DEF QueueAs, Local, Answer, Answers, AdvisoryShape
  <2> QED BY <2>1, <2>2, <2>3, IdleShape DEF AdvisoryShape
<1>9. CASE FindFull
  <2>1. "displacing" \in ActorPc
    BY DEF ActorPc
  <2>2. actor.pc \notin {"idle", "ticking"} /\ actor' = [actor EXCEPT !.pc = "displacing"]
    BY <1>9 DEF FindFull
  <2> QED BY <1>9, <2>1, <2>2, ActorGoesOn DEF FindFull, AdvisoryShape
<1>11. CASE TickReturns
  <2>1. UNION ToSet(actor.outputs) \in SUBSET Answers
    <3>1. actor.outputs \in Seq(SUBSET Answers)
      BY DEF AdvisoryShape
    <3>2. \A i \in DOMAIN actor.outputs : actor.outputs[i] \in SUBSET Answers
      BY <3>1, ElementOfSeq, LenProperties
    <3> QED BY <3>2 DEF ToSet
  <2>2. decided' \in SUBSET Answers /\ actor' = Ready
    BY <1>11, <2>1 DEF TickReturns, AdvisoryShape
  <2> QED BY <1>11, <2>2, IdleShape DEF TickReturns, AdvisoryShape
<1>12. ASSUME NEW a \in decided, Speak(a)
       PROVE  AdvisoryShape'
  <2>2. heard' \in [Utterances -> [local : Nat, remote : Nat]]
    BY <1>12, SpeakAdds
  <2>3. decided' \in SUBSET Answers
    BY <1>12 DEF Speak, AdvisoryShape
  <2> QED BY <1>12, <2>2, <2>3 DEF Speak, AdvisoryShape
<1>13. ASSUME NEW w \in Workers, Worker(w)
       PROVE  AdvisoryShape'
  <2> DEFINE WorkerType == [Workers -> [pc : WorkerPc, u : Utterances, live : BOOLEAN, good : BOOLEAN]]
  <2>0. worker[w].u \in Utterances /\ worker[w].live \in BOOLEAN /\ worker[w].good \in BOOLEAN
    BY DEF AdvisoryShape
  <2>1. CASE Take(w)
    <3>1. Best \in Positions /\ Best \in 1..Len(queue)
      BY <2>1, WorstAndBest DEF Take, Positions
    <3>2. queue \in Seq(Jobs) /\ Len(queue) \in Nat /\ Len(queue) <= QueueLimit /\ QueueLimit \in Nat
      BY LenProperties, AdvisoryAssumption DEF AdvisoryShape
    <3>3. queue' \in Seq(Jobs) /\ Len(queue') = Len(queue) - 1
      BY <2>1, <3>1, <3>2, Removed DEF Take
    <3>4. queue[Best] \in Jobs
      BY <3>1, <3>2, ElementOfSeq
    <3>5. worker' \in WorkerType
      BY <2>1, <3>4 DEF Take, Jobs, WorkerPc, AdvisoryShape
    <3> QED BY <2>1, <3>2, <3>3, <3>5 DEF Take, AdvisoryShape
  <2>2. CASE Good(w)
    <3>1. "storing" \in WorkerPc
      BY DEF WorkerPc
    <3>2. worker' \in WorkerType
      BY <2>2, <3>1, WorkerGoesOn DEF Good
    <3> QED BY <2>2, <3>2 DEF Good, AdvisoryShape
  <2>3. CASE Fails(w)
    <3>1. "storing" \in WorkerPc
      BY DEF WorkerPc
    <3>2. worker' \in WorkerType
      BY <2>3, <3>1, WorkerGoesOn DEF Fails
    <3> QED BY <2>3, <3>2 DEF Fails, AdvisoryShape
  <2>4. CASE StoreDeserted(w)
    <3>1. worker' \in WorkerType
      BY <2>4, HandledShape DEF StoreDeserted
    <3> QED BY <2>4, <3>1, WithdrawShape DEF StoreDeserted, AdvisoryShape
  <2>5. \A s \in Seq(Outputs) : Put(s) => outputs' \in Seq(Outputs) /\ Len(outputs') <= OutputLimit
    BY PutShape
  <2>6. /\ <<>> \in Seq(Outputs) /\ <<Fallback(worker[w].u)>> \in Seq(Outputs)
        /\ <<Remote(worker[w].u, worker[w].live)>> \in Seq(Outputs)
    BY <2>0 DEF Fallback, Remote, Outputs
  <2>7. CASE StoreBlocked(w)
    <3>1. worker' \in WorkerType
      BY <2>7, HandledShape DEF StoreBlocked
    <3>2. outputs' \in Seq(Outputs) /\ Len(outputs') <= OutputLimit
      BY <2>5, <2>6, <2>7 DEF StoreBlocked
    <3> QED BY <2>7, <3>1, <3>2, WithdrawShape DEF StoreBlocked, AdvisoryShape
  <2>8. CASE StoreOpen(w)
    <3>1. "open" \in WorkerPc
      BY DEF WorkerPc
    <3>2. worker' \in WorkerType
      BY <2>0, <2>8, <3>1, WorkerGoesOn DEF StoreOpen, Goto
    <3> QED BY <2>8, <3>2 DEF StoreOpen, AdvisoryShape
  <2>9. CASE StoreFailure(w)
    <3>1. worker' \in WorkerType
      BY <2>9, HandledShape DEF StoreFailure
    <3>2. outputs' \in Seq(Outputs) /\ Len(outputs') <= OutputLimit
      BY <2>5, <2>6, <2>9 DEF StoreFailure
    <3> QED BY <2>9, <3>1, <3>2, WithdrawShape DEF StoreFailure, AdvisoryShape
  <2>10. CASE StoreLate(w)
    <3>1. worker' \in WorkerType
      BY <2>10, HandledShape DEF StoreLate
    <3> QED BY <2>10, <3>1 DEF StoreLate, AdvisoryShape
  <2>11. CASE StoreAnswer(w)
    <3>1. worker' \in WorkerType
      BY <2>11, HandledShape DEF StoreAnswer
    <3>2. outputs' \in Seq(Outputs) /\ Len(outputs') <= OutputLimit
      BY <2>5, <2>6, <2>11 DEF StoreAnswer
    <3> QED BY <2>11, <3>1, <3>2, WithdrawShape DEF StoreAnswer, AdvisoryShape
  <2>12. CASE Stored(w)
    <3>1. worker' \in WorkerType
      BY <2>12, IdleShape DEF Stored, AdvisoryShape
    <3> QED BY <2>12, <3>1 DEF Stored, AdvisoryShape
  <2> QED BY <1>13, <2>1, <2>2, <2>3, <2>4, <2>7, <2>8, <2>9, <2>10, <2>11, <2>12 DEF Worker
<1>14. CASE \E b \in BOOLEAN : SetEnabled(b) \/ SetLocalOnly(b)
  BY <1>14 DEF SetEnabled, SetLocalOnly, AdvisoryShape
<1>15. CASE Shutdown
  <2>1. queue' \in Seq(Jobs) /\ Len(queue') = 0 /\ 0 <= QueueLimit
    BY <1>15, AdvisoryAssumption DEF Shutdown
  <2> QED BY <1>15, <2>1 DEF Shutdown, AdvisoryShape
<1>16. CASE ComeAndGo \/ UNCHANGED vars
  BY <1>16 DEF ComeAndGo, vars, AdvisoryShape
<1>10. CASE Tick
  <2>1. /\ actor.pc = "idle" /\ Withdraw(Expired) /\ outputs' = <<>>
        /\ actor' = [actor EXCEPT !.pc = IF Overdue = <<>> THEN "idle" ELSE "ticking",
                       !.outputs = [i \in 1..Len(Newest(Overdue)) |-> Spoken(Newest(Overdue)[i])]]
        /\ UNCHANGED <<decided, local_only, runtime, occupied, said, heard>>
    BY <1>10 DEF Tick
  <2>2. Overdue \in Seq(Outputs)
    <3>1. SetToSeq({Fallback(u) : u \in Expired}) \in Seq(Outputs)
      BY ExpiredInOrder
    <3> QED BY <3>1, ConcatProperties DEF Overdue, AdvisoryShape
  <2> DEFINE s == Newest(Overdue)
             spoken == [i \in 1..Len(s) |-> Spoken(s[i])]
  <2>3. s \in Seq(Outputs)
    BY <2>2, NewestKept
  <2>4. Overdue = <<>> => Len(s) = 0
    BY <2>2, AdvisoryAssumption DEF Newest
  <2>5. spoken \in Seq(SUBSET Answers) /\ Len(spoken) = Len(s)
    <3>1. Len(s) \in Nat /\ \A i \in 1..Len(s) : Spoken(s[i]) \in SUBSET Answers
      BY <2>3, LenProperties, ElementOfSeq, SpokenOnce
    <3> HIDE DEF s
    <3> QED BY <3>1, IsASeq
  <2>6. Overdue = <<>> => spoken = <<>>
    BY <2>4, <2>5, EmptySeq
  <2> HIDE DEF spoken
  <2>7. actor' = [actor EXCEPT !.pc = IF Overdue = <<>> THEN "idle" ELSE "ticking", !.outputs = spoken]
    BY <2>1 DEF spoken
  <2>8. /\ actor' \in [pc : ActorPc, u : Utterances, live : BOOLEAN, outputs : Seq(SUBSET Answers)]
        /\ actor'.outputs = spoken
        /\ actor'.pc = IF Overdue = <<>> THEN "idle" ELSE "ticking"
    BY <2>5, <2>7 DEF ActorPc, AdvisoryShape
  <2>9. (actor.pc # "ticking" => actor.outputs = <<>>)'
    BY <2>6, <2>8
  <2>10. outputs' \in Seq(Outputs) /\ Len(outputs') <= OutputLimit
    BY <2>1, EmptySeq, AdvisoryAssumption
  <2> QED BY <2>1, <2>8, <2>9, <2>10, WithdrawShape DEF AdvisoryShape
<1> QED BY <1>1, <1>2, <1>4, <1>5, <1>6, <1>7, <1>8, <1>9, <1>10, <1>11, <1>12, <1>13, <1>14, <1>15, <1>16
     DEF Next, Actor

-------------------------------------------------------------------------------
(* One frame for an utterance *)

\* With the queue and the threads left alone, and the actor's utterance the same or out of hand
LEMMA FramesStay ==
  ASSUME JobsInv, UNCHANGED <<queue, worker, said>>,
         \/ InHand' = {}
         \/ InHand' = InHand /\ actor'.u = actor.u /\ actor'.live = actor.live
  PROVE  JobsInv'
<1>1. Queued' = Queued /\ Busy' = Busy /\ Working' = Working
  BY DEF Queued, Busy, Working
<1> QED BY <1>1 DEF JobsInv

\* With one thread gone on with its frame, or done with it
LEMMA ThreadGoesOn ==
  ASSUME AdvisoryShape, JobsInv, UNCHANGED <<queue, actor, said>>, NEW w \in Workers,
         \A v \in Workers : v # w => worker'[v] = worker[v],
         \/ worker'[w].pc = "idle"
         \/ /\ worker[w].pc # "idle"
            /\ worker'[w].u = worker[w].u /\ worker'[w].live = worker[w].live
  PROVE  JobsInv'
<1>1. Queued' = Queued /\ InHand' = InHand
  BY DEF Queued, InHand
<1>2. Busy' \subseteq Busy
  BY DEF Busy
<1>3. \A v \in Busy' : worker'[v].u = worker[v].u /\ worker'[v].live = worker[v].live
  BY DEF Busy
<1>4. Working' \subseteq Working
  BY <1>2, <1>3 DEF Working
<1> QED BY <1>1, <1>2, <1>3, <1>4 DEF JobsInv

\* Every step of a thread that has taken a frame goes on with it.
LEMMA ThreadSteps ==
  ASSUME AdvisoryShape, NEW w \in Workers, Worker(w), ~Take(w)
  PROVE  /\ UNCHANGED <<queue, actor, said>>
         /\ \A v \in Workers : v # w => worker'[v] = worker[v]
         /\ \/ worker'[w].pc = "idle"
            \/ /\ worker[w].pc # "idle"
               /\ worker'[w].u = worker[w].u /\ worker'[w].live = worker[w].live
<1> USE DEF behaviour, history
<1>1. {"storing", "open"} \subseteq WorkerPc /\ worker[w].good \in BOOLEAN
  BY DEF WorkerPc, AdvisoryShape
<1>2. CASE Good(w)
  BY <1>1, <1>2, WorkerGoesOn DEF Good
<1>3. CASE Fails(w)
  BY <1>1, <1>3, WorkerGoesOn DEF Fails
<1>4. CASE StoreOpen(w)
  BY <1>1, <1>4, WorkerGoesOn DEF StoreOpen, Goto
<1>5. CASE Stored(w)
  BY <1>5, IdleShape DEF Stored, AdvisoryShape
<1>6. ASSUME NEW b \in BOOLEAN, Handled(w, b), worker[w].pc # "idle", UNCHANGED <<queue, actor, said>>
      PROVE  /\ UNCHANGED <<queue, actor, said>>
             /\ \A v \in Workers : v # w => worker'[v] = worker[v]
             /\ \/ worker'[w].pc = "idle"
                \/ /\ worker[w].pc # "idle"
                   /\ worker'[w].u = worker[w].u /\ worker'[w].live = worker[w].live
  BY <1>6, HandledShape
<1>7. CASE StoreDeserted(w) \/ StoreBlocked(w) \/ StoreFailure(w) \/ StoreLate(w) \/ StoreAnswer(w)
  <2>1. \E b \in BOOLEAN : Handled(w, b) /\ worker[w].pc # "idle" /\ UNCHANGED <<queue, actor, said>>
    BY <1>7 DEF StoreDeserted, StoreBlocked, StoreFailure, StoreLate, StoreAnswer
  <2> QED BY <1>6, <2>1
<1> QED BY <1>2, <1>3, <1>4, <1>5, <1>7 DEF Worker

\* The actor's frame comes into the queue, by Queue or Displace.
LEMMA FrameIsQueued ==
  ASSUME AdvisoryShape, JobsInv, NEW score \in Scores, QueueAs(score),
         \/ actor.pc = "queueing" /\ ~Full
         \/ actor.pc = "displacing" /\ queue # <<>>,
         UNCHANGED <<worker, said>>
  PROVE  /\ InHand = {actor.u} /\ InHand' = {}
         /\ Queued' \subseteq Queued \cup {actor.u} /\ UNCHANGED <<Busy, Working>>
         /\ JobsInv'
<1>1. InHand = {actor.u}
  BY DEF InHand
<1>2. InHand' = {}
  BY IdleShape DEF QueueAs, InHand
<1>3. Busy' = Busy /\ Working' = Working
  BY DEF Busy, Working
<1>4. PICK n \in Nat : \E g \in [1..n -> 1..Len(queue)] :
        /\ Len(queue') = n + 1 /\ \A i, j \in 1..n : g[i] = g[j] => i = j
        /\ \A i \in 1..n : queue'[i] = queue[g[i]]
        /\ queue'[n + 1] = Job(actor.u, actor.live, score)
  BY QueueShape
<1>5. PICK g \in [1..n -> 1..Len(queue)] :
        /\ Len(queue') = n + 1 /\ \A i, j \in 1..n : g[i] = g[j] => i = j
        /\ \A i \in 1..n : queue'[i] = queue[g[i]]
        /\ queue'[n + 1] = Job(actor.u, actor.live, score)
  BY <1>4
<1>6. queue'[n + 1].u = actor.u /\ queue'[n + 1].live = actor.live
  BY <1>5 DEF Job
<1>7. \A i \in 1..n : g[i] \in 1..Len(queue) /\ queue'[i] = queue[g[i]] /\ queue[g[i]].u \in Queued
  BY <1>5 DEF Queued
<1>8. \A i \in 1..Len(queue') : i \in 1..n \/ i = n + 1
  BY <1>5
<1>9. Queued' \subseteq Queued \cup {actor.u}
  BY <1>6, <1>7, <1>8 DEF Queued
<1>10. actor.u \notin Queued \cup Working
  BY <1>1 DEF JobsInv
<1>11. ASSUME NEW i \in 1..Len(queue'), NEW j \in 1..Len(queue'), queue'[i].u = queue'[j].u
       PROVE  i = j
  <2>1. CASE i = n + 1
    BY <1>6, <1>7, <1>8, <1>10, <1>11, <2>1
  <2>2. CASE j = n + 1
    BY <1>6, <1>7, <1>8, <1>10, <1>11, <2>2
  <2>3. CASE i \in 1..n /\ j \in 1..n
    <3>1. queue[g[i]].u = queue[g[j]].u /\ g[i] \in 1..Len(queue) /\ g[j] \in 1..Len(queue)
      BY <1>7, <1>11, <2>3
    <3>2. g[i] = g[j]
      BY <3>1 DEF JobsInv
    <3> QED BY <1>5, <2>3, <3>2
  <2> QED BY <1>8, <2>1, <2>2, <2>3
<1>12. ASSUME NEW i \in 1..Len(queue')
       PROVE  said[queue'[i].u] = IF queue'[i].live THEN "live" ELSE "local"
  <2>1. CASE i = n + 1
    <3>1. said[actor.u] = IF actor.live THEN "live" ELSE "local"
      BY <1>1 DEF JobsInv
    <3> QED BY <1>6, <2>1, <3>1
  <2>2. CASE i \in 1..n
    <3>1. \A j \in 1..Len(queue) : said[queue[j].u] = IF queue[j].live THEN "live" ELSE "local"
      BY DEF JobsInv
    <3> QED BY <1>7, <2>2, <3>1
  <2> QED BY <1>8, <2>1, <2>2
<1>13. Queued' \cap Working' = {}
  BY <1>3, <1>9, <1>10 DEF JobsInv
<1>14. JobsInv'
  BY <1>2, <1>3, <1>11, <1>12, <1>13 DEF JobsInv
<1> QED BY <1>1, <1>2, <1>3, <1>9, <1>14

\* A thread takes a frame.
LEMMA FrameIsTaken ==
  ASSUME AdvisoryShape, JobsInv, NEW w \in Workers, Take(w)
  PROVE  JobsInv' /\ Asked' \subseteq Asked /\ InHand' = InHand
<1>1. /\ worker[w].pc = "idle" /\ queue # <<>> /\ queue' = RemoveAt(queue, Best)
      /\ worker' = [worker EXCEPT ![w] =
            [pc |-> "asking", u |-> queue[Best].u, live |-> queue[Best].live, good |-> FALSE]]
      /\ UNCHANGED <<actor, said>>
  BY DEF Take, behaviour, history
<1>2. Best \in 1..Len(queue) /\ queue \in Seq(Jobs) /\ Len(queue) \in Nat
  BY <1>1, WorstAndBest, LenProperties DEF Positions, AdvisoryShape
<1> DEFINE k == Best
<1>3. /\ Len(queue') = Len(queue) - 1
      /\ \A i \in 1..(Len(queue) - 1) : queue'[i] = queue[IF i < k THEN i ELSE i + 1]
  BY <1>1, <1>2, Removed
<1>4. /\ \A v \in Workers : v # w => worker'[v] = worker[v]
      /\ worker'[w].pc = "asking" /\ worker'[w].u = queue[k].u /\ worker'[w].live = queue[k].live
  BY <1>1 DEF AdvisoryShape
<1> DEFINE g == [i \in 1..(Len(queue) - 1) |-> IF i < k THEN i ELSE i + 1]
<1>5. k \in 1..Len(queue)
  BY <1>2
<1> HIDE DEF k
<1>6. \A i \in 1..(Len(queue) - 1) : g[i] \in 1..Len(queue) /\ g[i] # k /\ queue'[i] = queue[g[i]]
  BY <1>2, <1>3, <1>5
<1>7. \A i, j \in 1..(Len(queue) - 1) : g[i] = g[j] => i = j
  BY <1>2, <1>5
<1> HIDE DEF g
<1>8. \A i \in 1..Len(queue') : g[i] \in 1..Len(queue) /\ g[i] # k /\ queue'[i] = queue[g[i]]
  BY <1>3, <1>6
<1>9. Queued' \subseteq Queued \ {queue[k].u}
  <2>1. \A i \in 1..Len(queue) : i # k => queue[i].u # queue[k].u /\ queue[i].u \in Queued
    BY <1>5 DEF JobsInv, Queued
  <2>2. \A i \in 1..Len(queue') : queue'[i].u \in Queued \ {queue[k].u}
    BY <1>8, <2>1
  <2> QED BY <2>2 DEF Queued
<1>10. queue[k].u \in Queued /\ queue[k].u \notin Working /\ queue[k].u \notin InHand
  <2>1. queue[k].u \in Queued
    BY <1>5 DEF Queued
  <2> QED BY <2>1 DEF JobsInv
<1>11. Busy' = Busy \cup {w} /\ w \notin Busy
  BY <1>1, <1>4 DEF Busy
<1>12. Working' = Working \cup {queue[k].u}
  BY <1>4, <1>11 DEF Working, Busy
<1>13. InHand' = InHand /\ actor' = actor /\ said' = said
  BY <1>1 DEF InHand
<1>14. \A i, j \in 1..Len(queue') : queue'[i].u = queue'[j].u => i = j
  <2> SUFFICES ASSUME NEW i \in 1..Len(queue'), NEW j \in 1..Len(queue'), queue'[i].u = queue'[j].u
               PROVE  i = j
    OBVIOUS
  <2>1. g[i] = g[j]
    BY <1>8 DEF JobsInv
  <2> QED BY <1>3, <1>7, <2>1
<1>15. \A u, v \in Busy' : worker'[u].u = worker'[v].u => u = v
  <2>1. \A v \in Busy : worker'[v] = worker[v] /\ worker[v].u \in Working
    BY <1>4, <1>11 DEF Busy, Working
  <2> QED BY <1>4, <1>10, <1>11, <2>1 DEF JobsInv
<1>16. \A i \in 1..Len(queue') : said'[queue'[i].u] = IF queue'[i].live THEN "live" ELSE "local"
  BY <1>8, <1>13 DEF JobsInv
<1>17. \A v \in Busy' : said'[worker'[v].u] = IF worker'[v].live THEN "live" ELSE "local"
  <2>1. said[queue[k].u] = IF queue[k].live THEN "live" ELSE "local"
    BY <1>5 DEF JobsInv
  <2>2. \A v \in Busy : v \in Workers /\ v # w
    BY <1>11 DEF Busy
  <2>3. \A v \in Busy : said[worker[v].u] = IF worker[v].live THEN "live" ELSE "local"
    BY DEF JobsInv
  <2> QED BY <1>4, <1>11, <1>13, <2>1, <2>2, <2>3
<1>18. JobsInv'
  <2>1. Queued' \cap Working' = {} /\ InHand' \cap (Queued' \cup Working') = {}
    BY <1>9, <1>10, <1>12, <1>13 DEF JobsInv
  <2>2. InHand' # {} => said'[actor'.u] = IF actor'.live THEN "live" ELSE "local"
    BY <1>13 DEF JobsInv
  <2> QED BY <1>14, <1>15, <1>16, <1>17, <2>1, <2>2 DEF JobsInv
<1>19. Asked' \subseteq Asked
  <2>1. {worker'[v].u : v \in Asking'} \subseteq {worker[v].u : v \in Asking} \cup {queue[k].u}
    <3>1. \A v \in Asking' : v = w \/ (v \in Asking /\ worker'[v] = worker[v])
      BY <1>4 DEF Asking
    <3> QED BY <1>4, <3>1
  <2> QED BY <1>9, <1>10, <2>1 DEF Asked
<1> QED BY <1>13, <1>18, <1>19

\* A step of the actor or of others that touches no frame
Plain == \/ StayLocal \/ Withhold \/ Admit \/ Refuse \/ FindFull \/ QueueRefuses \/ TickReturns \/ Tick
         \/ \E u \in Utterances : DeadlinePasses(u)
         \/ \E a \in decided : Speak(a)
         \/ \E b \in BOOLEAN : SetEnabled(b) \/ SetLocalOnly(b)
         \/ ComeAndGo \/ UNCHANGED vars

\* It leaves the frames where they are, and the actor's utterance in hand or done with.
LEMMA PlainFrames ==
  ASSUME AdvisoryShape, Plain
  PROVE  /\ UNCHANGED <<queue, worker, said>>
         /\ \/ InHand' = {}
            \/ InHand' = InHand /\ actor'.u = actor.u /\ actor'.live = actor.live
<1> USE DEF behaviour, runtime, history
<1>1. CASE StayLocal \/ Refuse \/ QueueRefuses \/ TickReturns
  <2>1. actor' = Ready /\ UNCHANGED <<queue, worker, said>>
    BY <1>1 DEF StayLocal, Refuse, QueueRefuses, TickReturns, ReturnLocal
  <2> QED BY <2>1, IdleShape DEF InHand
<1>2. CASE Withhold \/ Admit \/ FindFull
  <2>1. PICK pc \in {"observing", "queueing", "displacing"} :
          /\ actor.pc \in {"deciding", "observing", "queueing"} /\ actor' = [actor EXCEPT !.pc = pc]
          /\ UNCHANGED <<queue, worker, said>>
    BY <1>2 DEF Withhold, Admit, FindFull
  <2>2. pc \in ActorPc
    BY DEF ActorPc
  <2>3. actor'.pc = pc /\ actor'.u = actor.u /\ actor'.live = actor.live
    BY <2>1, <2>2, ActorGoesOn
  <2>4. InHand' = InHand
    BY <2>1, <2>3 DEF InHand
  <2> QED BY <2>1, <2>3, <2>4
<1>3. CASE Tick
  <2>1. actor'.pc \in {"idle", "ticking"}
    BY <1>3 DEF Tick, AdvisoryShape
  <2> QED BY <1>3, <2>1 DEF Tick, InHand
<1>4. ASSUME UNCHANGED <<actor, queue, worker, said>>
      PROVE  /\ UNCHANGED <<queue, worker, said>>
             /\ InHand' = InHand /\ actor'.u = actor.u /\ actor'.live = actor.live
  BY <1>4 DEF InHand
<1>5. CASE \/ \E u \in Utterances : DeadlinePasses(u)
           \/ \E a \in decided : Speak(a)
           \/ \E b \in BOOLEAN : SetEnabled(b) \/ SetLocalOnly(b)
           \/ ComeAndGo \/ UNCHANGED vars
  <2>1. UNCHANGED <<actor, queue, worker, said>>
    BY <1>5 DEF DeadlinePasses, Speak, SetEnabled, SetLocalOnly, ComeAndGo, vars
  <2> QED BY <1>4, <2>1
<1> QED BY <1>1, <1>2, <1>3, <1>5 DEF Plain

\* What is said is not said yet: of a new utterance nothing is anywhere.
LEMMA SaidIsNew ==
  ASSUME AdvisoryShape, JobsInv, NEW u \in Utterances, OnSay(u)
  PROVE  /\ UNCHANGED <<queue, worker>> /\ InHand = {} /\ InHand' = {u} /\ u \notin Queued \cup Working
         /\ actor'.pc = "deciding" /\ actor'.u = u /\ actor'.outputs = actor.outputs
         /\ said' \in [Utterances -> {"no", "live", "local"}]
         /\ said[u] = "no" /\ said'[u] = (IF actor'.live THEN "live" ELSE "local")
         /\ \A v \in Utterances : v # u => said'[v] = said[v]
<1>1. Live \in BOOLEAN
  BY DEF Live
<1>2. /\ actor'.pc = "deciding" /\ actor'.u = u /\ actor'.live = Live /\ actor'.outputs = actor.outputs
      /\ actor.pc = "idle" /\ UNCHANGED <<queue, worker>>
  BY <1>1 DEF OnSay, AdvisoryShape, runtime
<1>3. /\ said' \in [Utterances -> {"no", "live", "local"}]
      /\ said[u] = "no" /\ said'[u] = (IF Live THEN "live" ELSE "local")
      /\ \A v \in Utterances : v # u => said'[v] = said[v]
  BY DEF OnSay, AdvisoryShape
<1>4. \A i \in 1..Len(queue) : queue[i].u # u
  BY <1>3 DEF JobsInv
<1>5. \A w \in Busy : worker[w].u # u
  BY <1>3 DEF JobsInv
<1>6. u \notin Queued \cup Working
  BY <1>4, <1>5 DEF Queued, Working
<1>7. InHand = {} /\ InHand' = {u}
  BY <1>2 DEF InHand
<1> QED BY <1>2, <1>3, <1>6, <1>7

\* The frames stay in one place each.
LEMMA JobsStep == AdvisoryShape /\ JobsInv /\ [Next]_vars => JobsInv'
<1> SUFFICES ASSUME AdvisoryShape, JobsInv, [Next]_vars PROVE JobsInv'
  OBVIOUS
<1>1. CASE Plain
  BY <1>1, PlainFrames, FramesStay
<1>2. ASSUME NEW u \in Utterances, OnSay(u)
      PROVE  JobsInv'
  <2>1. Queued' = Queued /\ Busy' = Busy /\ Working' = Working /\ UNCHANGED <<queue, worker>>
    BY <1>2, SaidIsNew DEF Queued, Busy, Working
  <2>2. \A i \in 1..Len(queue) : queue[i].u \in Utterances /\ queue[i].u # u
    <3>1. \A i \in 1..Len(queue) : queue[i].u \in Utterances
      <4>1. \A i \in 1..Len(queue) : queue[i] \in Jobs
        BY ElementOfSeq DEF AdvisoryShape
      <4> QED BY <4>1 DEF Jobs
    <3>2. \A i \in 1..Len(queue) : queue[i].u # u
      BY <1>2, SaidIsNew DEF Queued
    <3> QED BY <3>1, <3>2
  <2>3. \A w \in Busy : worker[w].u \in Utterances /\ worker[w].u # u
    <3>1. \A w \in Busy : worker[w].u \in Utterances
      BY DEF AdvisoryShape, Busy
    <3>2. \A w \in Busy : worker[w].u # u
      BY <1>2, SaidIsNew DEF Working
    <3> QED BY <3>1, <3>2
  <2>4. \A i \in 1..Len(queue') : said'[queue'[i].u] = IF queue'[i].live THEN "live" ELSE "local"
    BY <1>2, <2>1, <2>2, SaidIsNew DEF JobsInv
  <2>5. \A w \in Busy' : said'[worker'[w].u] = IF worker'[w].live THEN "live" ELSE "local"
    BY <1>2, <2>1, <2>3, SaidIsNew DEF JobsInv
  <2>6. InHand' = {u} /\ actor'.u = u /\ said'[u] = (IF actor'.live THEN "live" ELSE "local")
        /\ u \notin Queued \cup Working
    BY <1>2, SaidIsNew
  <2> QED BY <2>1, <2>4, <2>5, <2>6 DEF JobsInv
<1>3. CASE Queue \/ Displace
  <2>1. PICK score \in Scores :
          /\ QueueAs(score)
          /\ \/ actor.pc = "queueing" /\ ~Full
             \/ actor.pc = "displacing" /\ queue # <<>>
          /\ UNCHANGED <<worker, said>>
    BY <1>3 DEF Queue, Displace, history
  <2> QED BY <2>1, FrameIsQueued
<1>4. ASSUME NEW w \in Workers, Worker(w)
      PROVE  JobsInv'
  <2>1. CASE Take(w)
    BY <2>1, FrameIsTaken
  <2>2. CASE ~Take(w)
    BY <1>4, <2>2, ThreadSteps, ThreadGoesOn
  <2> QED BY <2>1, <2>2
<1>5. CASE Shutdown
  <2>1. Queued' = {} /\ InHand' = InHand /\ Busy' = Busy /\ Working' = Working /\ Len(queue') = 0
        /\ UNCHANGED <<actor, worker, said>>
    BY <1>5 DEF Shutdown, behaviour, history, Queued, InHand, Busy, Working
  <2> QED BY <2>1 DEF JobsInv
<1> QED BY <1>1, <1>2, <1>3, <1>4, <1>5 DEF Next, Actor, Plain

-------------------------------------------------------------------------------
(* Every answer in one place *)

\* What the views of a state are made of.
LEMMA Views ==
  /\ UNCHANGED <<queue, worker>> => Asked' = Asked
  /\ UNCHANGED actor => InHand' = InHand /\ TakenNow' = TakenNow
  /\ UNCHANGED outputs => Outgoing' = Outgoing
  /\ UNCHANGED <<said, heard>> => \A u : Heard(u)' = Heard(u)
  /\ UNCHANGED said => \A a : Counts(a)' = Counts(a)
  BY DEF Asked, Queued, Asking, InHand, TakenNow, Outgoing, Heard, Counts

\* Who waits for an answer is an utterance.
LEMMA WaitingType ==
  ASSUME AdvisoryShape
  PROVE  Waiting \in SUBSET Utterances /\ Outgoing \in SUBSET Utterances
         /\ TakenNow \in SUBSET Answers /\ decided \in SUBSET Answers
<1>1. InHand \in SUBSET Utterances /\ pending \in SUBSET Utterances
  BY DEF AdvisoryShape, InHand
<1>2. Asked \in SUBSET Utterances
  <2>1. \A i \in 1..Len(queue) : queue[i] \in Jobs
    BY ElementOfSeq DEF AdvisoryShape
  <2>2. Queued \in SUBSET Utterances
    BY <2>1 DEF Queued, Jobs
  <2>3. {worker[w].u : w \in Asking} \in SUBSET Utterances
    BY DEF Asking, AdvisoryShape
  <2> QED BY <2>2, <2>3 DEF Asked
<1>3. Outgoing \in SUBSET Utterances
  <2>1. \A i \in 1..Len(outputs) : outputs[i] \in Outputs
    BY ElementOfSeq DEF AdvisoryShape
  <2> QED BY <2>1 DEF Outgoing, Outputs
<1>4. TakenNow \in SUBSET Answers
  <2>1. actor.outputs \in Seq(SUBSET Answers)
    BY DEF AdvisoryShape
  <2>2. \A i \in DOMAIN actor.outputs : actor.outputs[i] \in SUBSET Answers
    BY <2>1, ElementOfSeq, LenProperties
  <2> QED BY <2>2 DEF TakenNow, ToSet
<1> QED BY <1>1, <1>2, <1>3, <1>4 DEF Waiting, AdvisoryShape

\* Less is waited for, and what is decided besides does not count: so much for most steps.
LEMMA WaitsLess ==
  ASSUME AdvisoryShape, OnceInv, UNCHANGED <<outputs, said, heard>>,
         actor'.outputs = actor.outputs,
         Waiting' \subseteq Waiting, \A u \in pending' : said[u] = "live",
         actor'.pc = "deciding" => actor'.u \notin pending',
         decided \subseteq decided',
         \A a \in decided' : a \in decided \/ (~Counts(a) /\ said[a.u] # "no")
  PROVE  OnceInv'
<1>1. TakenNow' = TakenNow /\ Outgoing' = Outgoing
  BY DEF TakenNow, Outgoing
<1>2. (\A u : Heard(u)' = Heard(u)) /\ (\A a : Counts(a)' = Counts(a))
  BY Views
<1>3. \A a \in TakenNow' \cup decided' : Counts(a) => a \in TakenNow \cup decided
  BY <1>1
<1>4. \A a \in TakenNow : a \notin decided'
  BY DEF OnceInv
<1>5. \A a \in TakenNow' \cup decided' : said'[a.u] # "no"
  BY <1>1 DEF OnceInv
<1> QED BY <1>1, <1>2, <1>3, <1>4, <1>5 DEF OnceInv

\* An answer waited for is decided.
LEMMA WaitIsOver ==
  ASSUME AdvisoryShape, OnceInv, UNCHANGED <<outputs, said, heard>>,
         actor.outputs = <<>>, actor'.outputs = <<>>, actor'.pc # "deciding",
         NEW x \in Utterances, x \in Waiting, x \notin Waiting', Waiting' \subseteq Waiting,
         \A u \in pending' : said[u] = "live",
         said[x] # "no",
         NEW a, a.u = x, decided' = decided \cup {a}
  PROVE  OnceInv'
<1>1. TakenNow' = {} /\ TakenNow = {} /\ Outgoing' = Outgoing
  BY DEF TakenNow, Outgoing, ToSet
<1>2. (\A u : Heard(u)' = Heard(u)) /\ (\A b : Counts(b)' = Counts(b))
  BY Views
<1>3. x \notin Outgoing /\ Heard(x) = 0 /\ \A b \in decided : Counts(b) => b.u # x
  BY DEF OnceInv
<1>4. \A b, c \in decided' : Counts(b) /\ Counts(c) /\ b.u = c.u => b = c
  BY <1>3 DEF OnceInv
<1>5. \A b \in decided' : Counts(b) => b.u \notin Waiting' \cup Outgoing' /\ Heard(b.u) = 0
  BY <1>1, <1>3 DEF OnceInv
<1>6. \A b \in decided' : said'[b.u] # "no"
  BY DEF OnceInv
<1>7. \A i, j \in 1..Len(actor'.outputs) : i # j => actor'.outputs[i] \cap actor'.outputs[j] = {}
  OBVIOUS
<1> QED BY <1>1, <1>2, <1>4, <1>5, <1>6, <1>7 DEF OnceInv

\* An answer waited for is put to speak.
LEMMA WaitIsPut ==
  ASSUME AdvisoryShape, OnceInv, UNCHANGED <<actor, decided, said, heard>>,
         NEW o \in Outputs, o.u \in Waiting, o.u \notin Waiting', Waiting' \subseteq Waiting,
         \A u \in pending' : u \in pending,
         said[o.u] # "no", said[o.u] = "local" => o.remote /\ ~o.withheld,
         Put(<<o>>)
  PROVE  OnceInv'
<1> DEFINE s == outputs \o <<o>>
<1>1. TakenNow' = TakenNow /\ (\A u : Heard(u)' = Heard(u)) /\ (\A a : Counts(a)' = Counts(a))
  BY Views
<1>2. s \in Seq(Outputs) /\ Len(s) = Len(outputs) + 1 /\ Len(outputs) \in Nat
      /\ s[Len(outputs) + 1] = o /\ \A i \in 1..Len(outputs) : s[i] = outputs[i]
  BY DEF AdvisoryShape
<1>3. outputs' = Newest(s)
  BY DEF Put
<1> HIDE DEF s
<1>4. PICK k \in Nat : \A i \in 1..Len(outputs') : i + k \in 1..Len(s) /\ outputs'[i] = s[i + k]
  <2>1. \E k \in Nat : \A i \in 1..Len(Newest(s)) : i + k \in 1..Len(s) /\ Newest(s)[i] = s[i + k]
    BY <1>2, NewestKept
  <2> QED BY <1>3, <2>1
<1>5. \A i \in 1..Len(s) : i \in 1..Len(outputs) \/ (i = Len(outputs) + 1 /\ s[i] = o)
  BY <1>2
<1>6. o.u \notin Outgoing /\ Heard(o.u) = 0 /\ \A a \in TakenNow \cup decided : Counts(a) => a.u # o.u
  BY DEF OnceInv
<1>7. \A i \in 1..Len(outputs) : outputs[i].u \in Outgoing
  BY DEF Outgoing
<1>8. \A i, j \in 1..Len(s) : s[i].u = s[j].u => i = j
  <2> SUFFICES ASSUME NEW i \in 1..Len(s), NEW j \in 1..Len(s), s[i].u = s[j].u PROVE i = j
    OBVIOUS
  <2>1. CASE i \in 1..Len(outputs) /\ j \in 1..Len(outputs)
    BY <1>2, <2>1 DEF OnceInv
  <2>2. CASE s[i] = o /\ j \in 1..Len(outputs)
    BY <1>2, <1>6, <1>7, <2>2
  <2>3. CASE s[j] = o /\ i \in 1..Len(outputs)
    BY <1>2, <1>6, <1>7, <2>3
  <2> QED BY <1>5, <2>1, <2>2, <2>3
<1>9. \A i \in 1..Len(s) : /\ said[s[i].u] # "no"
                           /\ said[s[i].u] = "local" => s[i].remote /\ ~s[i].withheld
                           /\ s[i].u \in Outgoing \cup {o.u}
  BY <1>2, <1>5, <1>7 DEF OnceInv
<1>10. Outgoing' \subseteq Outgoing \cup {o.u}
  <2>1. \A i \in 1..Len(outputs') : outputs'[i].u \in Outgoing \cup {o.u}
    BY <1>4, <1>9
  <2> QED BY <2>1 DEF Outgoing
<1>11. \A i, j \in 1..Len(outputs') : outputs'[i].u = outputs'[j].u => i = j
  <2> SUFFICES ASSUME NEW i \in 1..Len(outputs'), NEW j \in 1..Len(outputs'), outputs'[i].u = outputs'[j].u
               PROVE  i = j
    OBVIOUS
  <2>0. /\ i + k \in 1..Len(s) /\ outputs'[i] = s[i + k]
        /\ j + k \in 1..Len(s) /\ outputs'[j] = s[j + k]
    BY <1>4
  <2>1. i + k = j + k
    BY <1>8, <2>0
  <2>2. i \in Int /\ j \in Int
    OBVIOUS
  <2> QED BY <2>1, <2>2
<1>12. \A i \in 1..Len(outputs') :
         /\ said[outputs'[i].u] # "no"
         /\ said[outputs'[i].u] = "local" => outputs'[i].remote /\ ~outputs'[i].withheld
  BY <1>4, <1>9
<1>13. Waiting' \cap Outgoing' = {}
  BY <1>10 DEF OnceInv
<1>14. /\ \A a \in TakenNow \cup decided : Counts(a) => a.u \notin Waiting' \cup Outgoing'
       /\ \A u \in Waiting' \cup Outgoing' : Heard(u) = 0
  BY <1>6, <1>10 DEF OnceInv
<1>15. /\ \A u \in pending' : said'[u] = "live"
       /\ actor'.pc = "deciding" => actor'.u \notin pending'
  BY DEF OnceInv
<1> QED BY <1>1, <1>11, <1>12, <1>13, <1>14, <1>15 DEF OnceInv

\* A thread that goes on with its frame asks no more than before; one the handler has answered
\* to asks no more for its utterance, and nobody else does.
LEMMA ThreadAsks ==
  ASSUME AdvisoryShape, JobsInv, NEW w \in Workers, Worker(w), ~Take(w)
  PROVE  /\ Asked' \subseteq Asked
         /\ (\E b \in BOOLEAN : Handled(w, b)) /\ worker[w].pc # "idle" => worker[w].u \notin Asked'
<1>1. Queued' = Queued
  BY ThreadSteps DEF Queued
<1>2. \A v \in Workers : v # w => worker'[v] = worker[v]
  BY ThreadSteps
<1>3. (\E b \in BOOLEAN : Handled(w, b)) => w \notin Asking'
  <2>1. ASSUME NEW b \in BOOLEAN, Handled(w, b)
        PROVE  worker'[w].pc \in {"idle", "stored", "stale"}
    BY <2>1, HandledShape
  <2> QED BY <2>1 DEF Asking
<1>4. w \in Asking' => w \in Asking /\ worker'[w].u = worker[w].u
  <2>0. {"storing", "open"} \subseteq WorkerPc /\ worker[w].good \in BOOLEAN
    BY DEF WorkerPc, AdvisoryShape
  <2>1. CASE Good(w)
    BY <2>0, <2>1, WorkerGoesOn DEF Good, Asking
  <2>2. CASE Fails(w)
    <3>1. worker'[w].pc = "storing" /\ worker'[w].good = FALSE
      BY <2>0, <2>2, WorkerGoesOn DEF Fails
    <3> QED BY <3>1 DEF Asking
  <2>3. CASE StoreOpen(w)
    <3>1. worker'[w].pc = "open" /\ worker'[w].good = worker[w].good /\ worker'[w].u = worker[w].u
          /\ worker[w].pc = "storing"
      BY <2>0, <2>3, WorkerGoesOn DEF StoreOpen, Goto
    <3> QED BY <3>1 DEF Asking
  <2>4. CASE Stored(w)
    <3>1. worker'[w].pc = "idle"
      BY <2>4, IdleShape DEF Stored, AdvisoryShape
    <3> QED BY <3>1 DEF Asking
  <2>5. CASE StoreDeserted(w) \/ StoreBlocked(w) \/ StoreFailure(w) \/ StoreLate(w) \/ StoreAnswer(w)
    BY <1>3, <2>5 DEF StoreDeserted, StoreBlocked, StoreFailure, StoreLate, StoreAnswer
  <2> QED BY <2>1, <2>2, <2>3, <2>4, <2>5 DEF Worker
<1>5. \A v \in Asking' : v \in Asking /\ worker'[v].u = worker[v].u
  BY <1>2, <1>4 DEF Asking
<1>6. Asked' \subseteq Asked
  BY <1>1, <1>5 DEF Asked
<1>7. ASSUME \E b \in BOOLEAN : Handled(w, b), worker[w].pc # "idle"
      PROVE  worker[w].u \notin Asked'
  <2>1. w \in Busy /\ w \notin Asking'
    BY <1>3, <1>7 DEF Busy
  <2>2. worker[w].u \notin Queued
    BY <2>1 DEF JobsInv, Working
  <2>3. \A v \in Asking' : v \in Busy /\ worker'[v].u = worker[v].u /\ v # w
    BY <1>5, <2>1 DEF Asking, Busy
  <2>4. \A v \in Asking' : worker'[v].u # worker[w].u
    BY <2>1, <2>3 DEF JobsInv
  <2> QED BY <1>1, <2>2, <2>4 DEF Asked
<1> QED BY <1>6, <1>7

\* Nothing put to speak leaves the outputs as they are.
LEMMA PutNothing == AdvisoryShape /\ Put(<<>>) => UNCHANGED outputs
<1> SUFFICES ASSUME AdvisoryShape, Put(<<>>) PROVE UNCHANGED outputs
  OBVIOUS
<1>1. outputs \in Seq(Outputs) /\ outputs \o <<>> = outputs
  BY ConcatEmptySeq DEF AdvisoryShape
<1>2. Newest(outputs) = outputs
  BY LenProperties, AdvisoryAssumption DEF Newest, AdvisoryShape
<1> QED BY <1>1, <1>2 DEF Put

\* The threads' steps
LEMMA ThreadOnce ==
  ASSUME AdvisoryShape, JobsInv, OnceInv, NEW w \in Workers, Worker(w)
  PROVE  OnceInv'
<1> USE DEF behaviour, history
<1> DEFINE u == worker[w].u
<1>1. ASSUME UNCHANGED <<actor, outputs, decided, said, heard>>, pending' \subseteq pending,
             Asked' \subseteq Asked
      PROVE  OnceInv'
  <2>1. InHand' = InHand
    BY <1>1, Views
  <2>2. Waiting' \subseteq Waiting
    BY <1>1, <2>1 DEF Waiting
  <2>3. /\ \A v \in pending' : said[v] = "live"
        /\ actor'.pc = "deciding" => actor'.u \notin pending'
    BY <1>1 DEF OnceInv
  <2> QED BY <1>1, <2>2, <2>3, WaitsLess
<1>2. CASE Take(w)
  BY <1>1, <1>2, FrameIsTaken DEF Take
<1>3. ~Take(w) => Asked' \subseteq Asked
  BY ThreadAsks
<1>4. CASE Good(w) \/ Fails(w) \/ StoreOpen(w) \/ StoreLate(w) \/ Stored(w)
  <2>1. ~Take(w)
    BY <1>4 DEF Take, Good, Fails, StoreOpen, StoreLate, Stored
  <2> QED BY <1>1, <1>3, <1>4, <2>1 DEF Good, Fails, StoreOpen, StoreLate, Stored
<1>5. CASE StoreDeserted(w)
  <2>1. ~Take(w)
    BY <1>5 DEF Take, StoreDeserted
  <2>2. pending' \subseteq pending
    BY <1>5 DEF StoreDeserted, Withdraw
  <2> QED BY <1>1, <1>3, <1>5, <2>1, <2>2 DEF StoreDeserted
\* From here on the thread is handled, and the utterance's answer withdrawn.
<1>6. ASSUME worker[w].pc # "idle", ~Take(w), \E b \in BOOLEAN : Handled(w, b), Withdraw({u}),
             UNCHANGED <<actor, decided, said, heard>>
      PROVE  /\ u \notin Waiting' /\ Waiting' \subseteq Waiting
             /\ pending' \subseteq pending /\ Asked' \subseteq Asked
  <2>1. Asked' \subseteq Asked /\ u \notin Asked'
    BY <1>6, ThreadAsks
  <2>2. InHand' = InHand /\ u \notin InHand
    <3>1. u \in Working
      BY <1>6 DEF Working, Busy
    <3> QED BY <1>6, <3>1, Views DEF JobsInv
  <2>3. pending' \subseteq pending /\ u \notin pending'
    BY <1>6 DEF Withdraw
  <2> QED BY <1>6, <2>1, <2>2, <2>3 DEF Waiting
<1>7. CASE StoreBlocked(w) \/ StoreFailure(w)
  <2>1. /\ worker[w].pc # "idle" /\ ~Take(w) /\ (\E b \in BOOLEAN : Handled(w, b)) /\ Withdraw({u})
        /\ UNCHANGED <<actor, decided, said, heard>>
        /\ Put(IF u \in pending THEN <<Fallback(u)>> ELSE <<>>)
    BY <1>7 DEF StoreBlocked, StoreFailure, Take
  <2>2. CASE u \in pending
    <3>1. Fallback(u) \in Outputs /\ Fallback(u).u = u
      BY DEF Fallback, Outputs, AdvisoryShape
    <3>2. u \in Waiting /\ said[u] = "live"
      BY <2>2 DEF Waiting, OnceInv
    <3> QED BY <1>6, <2>1, <2>2, <3>1, <3>2, WaitIsPut
  <2>3. CASE u \notin pending
    <3>1. UNCHANGED outputs
      BY <2>1, <2>3, PutNothing
    <3> QED BY <1>1, <1>6, <2>1, <3>1
  <2> QED BY <2>2, <2>3
<1>8. CASE StoreAnswer(w)
  <2> DEFINE o == Remote(u, worker[w].live)
  <2>1. /\ worker[w].pc = "open" /\ worker[w].good /\ ~Take(w) /\ Handled(w, TRUE) /\ Withdraw({u})
        /\ worker[w].live => u \in pending
        /\ UNCHANGED <<actor, decided, said, heard>>
        /\ Put(<<o>>)
    BY <1>8 DEF StoreAnswer, Take
  <2>2. o \in Outputs /\ o.u = u /\ o.remote /\ o.withheld = worker[w].live
    BY DEF Remote, Outputs, AdvisoryShape
  <2>3. said[u] = IF worker[w].live THEN "live" ELSE "local"
    BY <2>1 DEF JobsInv, Busy
  <2>4. u \in Asked
    BY <2>1 DEF Asked, Asking
  <2>5. u \in Waiting
    BY <2>1, <2>3, <2>4 DEF Waiting
  <2>6. said[u] = "local" => ~worker[w].live
    BY <2>3
  <2> HIDE DEF o
  <2>7. u \notin Waiting' /\ Waiting' \subseteq Waiting /\ pending' \subseteq pending
    BY <1>6, <2>1
  <2> QED BY <2>1, <2>2, <2>3, <2>5, <2>6, <2>7, WaitIsPut
<1> QED BY <1>2, <1>4, <1>5, <1>7, <1>8 DEF Worker

\* The actor returns a local answer: to live speech it is what was waited for, to other speech
\* it does not count.
LEMMA ReturnOnce ==
  ASSUME AdvisoryShape, JobsInv, OnceInv, UNCHANGED <<outputs, queue, worker, said, heard>>,
         actor.u \in InHand, ReturnLocal, pending' \subseteq pending, actor.u \notin pending'
  PROVE  OnceInv'
<1> DEFINE u == actor.u
           a == Answer(u, "local")
<1>1. actor' = Ready /\ decided' = decided \cup {a}
  BY DEF ReturnLocal, Local
<1>2. actor'.pc = "idle" /\ actor'.outputs = <<>> /\ InHand' = {}
  BY <1>1, IdleShape DEF InHand
<1>3. InHand = {u} /\ actor.outputs = <<>>
  BY DEF InHand, AdvisoryShape
<1>4. said[u] = IF actor.live THEN "live" ELSE "local"
  BY <1>3 DEF JobsInv
<1>5. Asked' = Asked
  BY Views
<1>6. Waiting' \subseteq Waiting
  BY <1>2, <1>5 DEF Waiting
<1>7. \A v \in pending' : said[v] = "live"
  BY DEF OnceInv
<1>8. CASE actor.live
  <2>1. u \notin Waiting'
    BY <1>2, <1>4, <1>8 DEF Waiting
  <2>2. u \in Waiting /\ u \in Utterances /\ a.u = u /\ said[u] # "no"
    BY <1>4, <1>8 DEF Waiting, Answer, AdvisoryShape
  <2> HIDE DEF a
  <2> QED BY <1>1, <1>2, <1>3, <1>6, <1>7, <2>1, <2>2, WaitIsOver
<1>9. CASE ~actor.live
  <2>1. ~Counts(a) /\ said[a.u] # "no"
    BY <1>4, <1>9 DEF Counts, Answer
  <2> HIDE DEF a
  <2> QED BY <1>1, <1>2, <1>3, <1>6, <1>7, <2>1, WaitsLess
<1> QED BY <1>8, <1>9

\* The actor's steps that return or queue
LEMMA ActorOnce ==
  ASSUME AdvisoryShape, JobsInv, OnceInv,
         \/ StayLocal \/ Withhold \/ Admit \/ Refuse \/ Queue \/ FindFull \/ Displace \/ QueueRefuses
  PROVE  OnceInv'
<1> USE DEF runtime, history
<1>1. CASE StayLocal
  <2>1. actor.pc = "deciding" /\ ReturnLocal
        /\ UNCHANGED <<pending, outputs, queue, worker, said, heard>>
    BY <1>1 DEF StayLocal
  <2>2. actor.u \in InHand /\ actor.u \notin pending
    BY <2>1 DEF InHand, OnceInv
  <2> QED BY <2>1, <2>2, ReturnOnce
<1>2. CASE Refuse \/ QueueRefuses
  <2>1. actor.pc \in {"observing", "displacing"} /\ ReturnLocal /\ Withdraw({actor.u})
        /\ UNCHANGED <<outputs, queue, worker, said, heard>>
    BY <1>2 DEF Refuse, QueueRefuses
  <2>2. actor.u \in InHand /\ pending' \subseteq pending /\ actor.u \notin pending'
    BY <2>1 DEF InHand, Withdraw
  <2> QED BY <2>1, <2>2, ReturnOnce
<1>3. CASE Withhold \/ Admit \/ FindFull
  <2>1. PICK pc \in {"observing", "queueing", "displacing"} :
          /\ actor.pc \in {"deciding", "observing", "queueing"} /\ actor' = [actor EXCEPT !.pc = pc]
          /\ pending' = pending \/ (actor.live /\ pending' = pending \cup {actor.u})
          /\ UNCHANGED <<queue, worker, outputs, decided, said, heard>>
    BY <1>3 DEF Withhold, Admit, FindFull
  <2>2. pc \in ActorPc
    BY DEF ActorPc
  <2>3. /\ actor'.pc = pc /\ actor'.u = actor.u /\ actor'.live = actor.live
        /\ actor'.outputs = actor.outputs
    BY <2>1, <2>2, ActorGoesOn
  <2>4. InHand' = InHand /\ InHand = {actor.u} /\ Asked' = Asked
    BY <2>1, <2>3, Views DEF InHand
  <2>5. Waiting' \subseteq Waiting
    BY <2>1, <2>4 DEF Waiting
  <2>6. \A u \in pending' : said[u] = "live"
    BY <2>1, <2>4 DEF OnceInv, JobsInv
  <2>7. actor'.pc # "deciding"
    BY <2>3
  <2> QED BY <2>1, <2>3, <2>5, <2>6, <2>7, WaitsLess
<1>4. CASE Queue \/ Displace
  <2>1. PICK score \in Scores :
          /\ QueueAs(score)
          /\ \/ actor.pc = "queueing" /\ ~Full
             \/ actor.pc = "displacing" /\ queue # <<>>
          /\ UNCHANGED <<worker, pending, outputs, said, heard>>
    BY <1>4 DEF Queue, Displace
  <2>2. /\ InHand = {actor.u} /\ InHand' = {}
        /\ Queued' \subseteq Queued \cup {actor.u}
    BY <2>1, FrameIsQueued
  <2>3. Asking' = Asking /\ {worker'[w].u : w \in Asking'} = {worker[w].u : w \in Asking}
    BY <2>1 DEF Asking
  <2>4. Asked' \subseteq Asked \cup {actor.u}
    BY <2>2, <2>3 DEF Asked
  <2>5. Waiting' \subseteq Waiting
    BY <2>1, <2>2, <2>4 DEF Waiting
  <2>6. actor.outputs = <<>> /\ actor'.outputs = <<>> /\ actor'.pc = "idle"
    BY <2>1, IdleShape DEF AdvisoryShape, QueueAs
  <2>7. \A u \in pending' : said[u] = "live"
    BY <2>1 DEF OnceInv
  <2>8. decided \subseteq decided'
        /\ \A a \in decided' : a \in decided \/ (a = Answer(actor.u, "local") /\ ~actor.live)
    BY <2>1 DEF QueueAs, Local
  <2>9. ~actor.live => ~Counts(Answer(actor.u, "local")) /\ said[Answer(actor.u, "local").u] # "no"
    BY <2>2 DEF JobsInv, Counts, Answer
  <2> QED BY <2>1, <2>5, <2>6, <2>7, <2>8, <2>9, WaitsLess
<1> QED BY <1>1, <1>2, <1>3, <1>4

\* A tick takes what is out, and what is due.
LEMMA TickOnce ==
  ASSUME AdvisoryShape, JobsInv, OnceInv, Tick
  PROVE  OnceInv'
<1>1. /\ actor.pc = "idle" /\ pending' = pending \ Expired /\ outputs' = <<>>
      /\ UNCHANGED <<decided, queue, worker, said, heard>>
  BY DEF Tick, Withdraw, runtime
<1>2. InHand = {} /\ InHand' = {} /\ actor'.pc # "deciding"
  <2>1. actor'.pc \in {"idle", "ticking"}
    BY DEF Tick, AdvisoryShape
  <2> QED BY <1>1, <2>1 DEF InHand
<1>3. Waiting' \subseteq Waiting
  BY <1>1, <1>2, Views DEF Waiting
<1>4. Outgoing' = {}
  BY <1>1 DEF Outgoing
<1> DEFINE s == actor'.outputs
<1>5. /\ s \in Seq(SUBSET Answers)
      /\ \A i \in 1..Len(s) : \A a \in s[i] :
           /\ a \in Answers
           /\ \/ \E j \in 1..Len(outputs) : /\ a.u = outputs[j].u
                                            /\ a.text = "local" => ~outputs[j].remote \/ outputs[j].withheld
              \/ a.u \in Expired
      /\ \A i, j \in 1..Len(s) :
           \A a \in s[i], b \in s[j] : a.u = b.u => i = j /\ a = b
  BY TickTakes
<1>6. \A a \in TakenNow' : \E i \in 1..Len(s) : a \in s[i]
  <2>1. DOMAIN s = 1..Len(s)
    BY <1>5, LenProperties
  <2> QED BY <2>1 DEF TakenNow, ToSet
<1> HIDE DEF s
<1>7. ASSUME NEW a \in TakenNow'
      PROVE  /\ a.u \in Outgoing \cup Expired
             /\ said[a.u] # "no" /\ Counts(a) /\ a.u \notin Waiting'
             /\ Heard(a.u) = 0 /\ \A b \in decided : Counts(b) => b.u # a.u
  <2>1. PICK i \in 1..Len(s) : a \in s[i]
    BY <1>6
  <2>2. a.text \in {"local", "remote"}
    BY <1>5, <2>1 DEF Answers
  <2>3. Expired \subseteq pending
    BY DEF Expired
  <2>4. CASE \E j \in 1..Len(outputs) : /\ a.u = outputs[j].u
                                        /\ a.text = "local" => ~outputs[j].remote \/ outputs[j].withheld
    <3>1. PICK j \in 1..Len(outputs) : /\ a.u = outputs[j].u
                                       /\ a.text = "local" => ~outputs[j].remote \/ outputs[j].withheld
      BY <2>4
    <3>2. /\ said[a.u] # "no"
          /\ said[a.u] = "local" => outputs[j].remote /\ ~outputs[j].withheld
      BY <3>1 DEF OnceInv
    <3>3. outputs[j] \in Outputs
      BY ElementOfSeq DEF AdvisoryShape
    <3>4. a.u \in Outgoing /\ a.u \in Utterances
      BY <3>1, <3>3 DEF Outgoing, Outputs
    <3>5. said[a.u] \in {"no", "live", "local"}
      BY <3>4 DEF AdvisoryShape
    <3>6. Counts(a)
      BY <2>2, <3>1, <3>2, <3>5 DEF Counts
    <3> QED BY <1>3, <3>2, <3>4, <3>6 DEF OnceInv
  <2>5. CASE a.u \in Expired
    <3>1. a.u \in pending /\ a.u \in Waiting /\ said[a.u] = "live"
      BY <2>3, <2>5 DEF Waiting, OnceInv
    <3>2. a.u \notin Waiting'
      BY <1>1, <1>2, <2>5, <3>1 DEF Waiting
    <3> QED BY <2>5, <3>1, <3>2 DEF Counts, OnceInv
  <2> QED BY <1>5, <2>1, <2>4, <2>5
<1>8. \A u : Heard(u)' = Heard(u)
  BY <1>1, Views
<1>9. \A a : Counts(a)' = Counts(a)
  BY <1>1, Views
<1>10. \A a, b \in TakenNow' : a.u = b.u => a = b
  BY <1>5, <1>6
<1>11. \A i, j \in 1..Len(s) : i # j => s[i] \cap s[j] = {}
  BY <1>5
<1>12. \A i, j \in 1..Len(outputs') : FALSE
  BY <1>1
<1>13. /\ \A a \in TakenNow' \cup decided' : said'[a.u] # "no"
       /\ \A a \in TakenNow' : Counts(a)' /\ a \notin decided'
  BY <1>1, <1>7, <1>9 DEF OnceInv
<1>14. \A a, b \in TakenNow' \cup decided' : Counts(a)' /\ Counts(b)' /\ a.u = b.u => a = b
  BY <1>1, <1>7, <1>9, <1>10 DEF OnceInv
<1>15. \A a \in TakenNow' \cup decided' : Counts(a)' => a.u \notin Waiting' \cup Outgoing' /\ Heard(a.u)' = 0
  BY <1>1, <1>3, <1>4, <1>7, <1>8, <1>9 DEF OnceInv
<1>16. /\ \A u \in Waiting' \cup Outgoing' : Heard(u)' = 0
       /\ \A u \in Utterances : Heard(u)' <= 1 /\ (said'[u] = "no" => Heard(u)' = 0)
  BY <1>1, <1>3, <1>4, <1>8 DEF OnceInv
<1>17. \A u \in pending' : said'[u] = "live"
  BY <1>1 DEF OnceInv
<1> QED BY <1>2, <1>4, <1>11, <1>12, <1>13, <1>14, <1>15, <1>16, <1>17 DEF OnceInv, s

\* ... and returns it, or finds nobody to hear it.
LEMMA TickReturnsOnce ==
  ASSUME AdvisoryShape, JobsInv, OnceInv, TickReturns
  PROVE  OnceInv'
<1>1. /\ actor.pc = "ticking" /\ actor' = Ready
      /\ decided \subseteq decided' /\ decided' \subseteq decided \cup TakenNow
      /\ UNCHANGED <<pending, outputs, queue, worker, said, heard>>
  BY DEF TickReturns, TakenNow, runtime
<1>2. InHand = {} /\ InHand' = {} /\ actor'.outputs = <<>> /\ actor'.pc # "deciding"
  BY <1>1, IdleShape DEF InHand
<1>3. Waiting' = Waiting /\ Outgoing' = Outgoing /\ TakenNow' = {}
  BY <1>1, <1>2, Views DEF Waiting, TakenNow, ToSet
<1>4. (\A u : Heard(u)' = Heard(u)) /\ (\A a : Counts(a)' = Counts(a))
  BY <1>1, Views
<1>5. TakenNow' \cup decided' \subseteq TakenNow \cup decided
  BY <1>1, <1>3
<1>6. \A i, j \in 1..Len(actor'.outputs) : FALSE
  BY <1>2
<1>7. /\ \A u \in pending' : said'[u] = "live"
      /\ \A i, j \in 1..Len(outputs') : outputs'[i].u = outputs'[j].u => i = j
      /\ \A i \in 1..Len(outputs') :
           /\ said'[outputs'[i].u] # "no"
           /\ said'[outputs'[i].u] = "local" => outputs'[i].remote /\ ~outputs'[i].withheld
  BY <1>1 DEF OnceInv
<1>8. /\ \A a \in TakenNow' \cup decided' : said'[a.u] # "no"
      /\ \A a, b \in TakenNow' \cup decided' : Counts(a)' /\ Counts(b)' /\ a.u = b.u => a = b
      /\ \A a \in TakenNow' \cup decided' : Counts(a)' => a.u \notin Waiting' \cup Outgoing' /\ Heard(a.u)' = 0
  BY <1>1, <1>3, <1>4, <1>5 DEF OnceInv
<1>9. /\ \A u \in Waiting' \cup Outgoing' : Heard(u)' = 0
      /\ \A u \in Utterances : Heard(u)' <= 1 /\ (said'[u] = "no" => Heard(u)' = 0)
      /\ Waiting' \cap Outgoing' = {}
  BY <1>1, <1>3, <1>4 DEF OnceInv
<1> QED BY <1>2, <1>3, <1>6, <1>7, <1>8, <1>9 DEF OnceInv

\* An answer is heard: it is decided no more.
LEMMA SpeakOnce ==
  ASSUME AdvisoryShape, JobsInv, OnceInv, NEW a \in decided, Speak(a)
  PROVE  OnceInv'
<1>1. /\ decided' = decided \ {a}
      /\ UNCHANGED <<actor, pending, outputs, queue, worker, said>>
  BY DEF Speak, runtime
<1>2. /\ Waiting' = Waiting /\ Outgoing' = Outgoing /\ TakenNow' = TakenNow
      /\ \A b : Counts(b)' = Counts(b)
  BY <1>1, Views DEF Waiting
<1>3. \A u \in Utterances : Heard(u)' = Heard(u) + (IF u = a.u /\ Counts(a) THEN 1 ELSE 0)
  <2> SUFFICES ASSUME NEW u \in Utterances
               PROVE  Heard(u)' = Heard(u) + (IF u = a.u /\ Counts(a) THEN 1 ELSE 0)
    OBVIOUS
  <2>1. heard[u].local \in Nat /\ heard[u].remote \in Nat
    BY DEF AdvisoryShape
  <2>2. CASE u # a.u
    <3>1. heard'[u] = heard[u]
      BY <2>2, SpeakAdds
    <3> QED BY <1>1, <2>1, <2>2, <3>1 DEF Heard
  <2>3. CASE u = a.u
    <3>1. /\ a.text \in {"local", "remote"}
          /\ heard'[u].local = heard[u].local + (IF a.text = "local" THEN 1 ELSE 0)
          /\ heard'[u].remote = heard[u].remote + (IF a.text = "remote" THEN 1 ELSE 0)
      BY <2>3, SpeakAdds
    <3> QED BY <1>1, <2>1, <2>3, <3>1 DEF Heard, Counts
  <2> QED BY <2>2, <2>3
<1>4. \A u \in Utterances : Heard(u) \in Nat
  BY DEF AdvisoryShape, Heard
<1>5. a.u \in Utterances /\ said[a.u] # "no"
  BY SpeakAdds DEF OnceInv
<1>6. Counts(a) => /\ a.u \notin Waiting \cup Outgoing /\ Heard(a.u) = 0
                   /\ \A b \in TakenNow \cup decided' : Counts(b) => b.u # a.u
  BY <1>1 DEF OnceInv
<1>7. Waiting \cup Outgoing \subseteq Utterances /\ TakenNow \cup decided \subseteq Answers
  BY WaitingType
<1>8. \A u \in Waiting' \cup Outgoing' : Heard(u)' = 0
  BY <1>2, <1>3, <1>6, <1>7 DEF OnceInv
<1>9. \A b \in TakenNow' \cup decided' : Counts(b)' => Heard(b.u)' = 0
  <2>1. \A b \in TakenNow \cup decided : b.u \in Utterances
    BY <1>7 DEF Answers
  <2> QED BY <1>1, <1>2, <1>3, <1>6, <2>1 DEF OnceInv
<1>10. \A u \in Utterances : Heard(u)' <= 1 /\ (said'[u] = "no" => Heard(u)' = 0)
  BY <1>1, <1>3, <1>4, <1>5, <1>6 DEF OnceInv
<1>11. /\ \A b \in TakenNow' \cup decided' : said'[b.u] # "no"
       /\ \A b \in TakenNow' : Counts(b)' /\ b \notin decided'
       /\ \A b, c \in TakenNow' \cup decided' : Counts(b)' /\ Counts(c)' /\ b.u = c.u => b = c
       /\ \A b \in TakenNow' \cup decided' : Counts(b)' => b.u \notin Waiting' \cup Outgoing'
  BY <1>1, <1>2 DEF OnceInv
<1> QED BY <1>1, <1>2, <1>8, <1>9, <1>10, <1>11 DEF OnceInv

\* A new utterance begins to wait.
LEMMA SayOnce ==
  ASSUME AdvisoryShape, JobsInv, OnceInv, LocalInv, NEW u \in Utterances, OnSay(u)
  PROVE  OnceInv'
<1>1. /\ UNCHANGED <<queue, worker, pending, outputs, decided, heard>>
      /\ actor'.u = u /\ actor'.outputs = actor.outputs
      /\ said[u] = "no" /\ said'[u] \in {"live", "local"}
      /\ \A v \in Utterances : v # u => said'[v] = said[v]
  BY SaidIsNew DEF OnSay, runtime
<1>2. InHand = {} /\ InHand' = {u} /\ u \notin Asked
  BY SaidIsNew DEF Asked, Working, Asking, Busy
<1>3. TakenNow' = TakenNow /\ Outgoing' = Outgoing /\ Asked' = Asked
  BY <1>1, Views DEF TakenNow
<1>4. u \notin pending /\ u \notin Outgoing /\ \A a \in TakenNow \cup decided : a.u # u
  BY <1>1 DEF OnceInv, Outgoing
<1>5. Asked \subseteq Utterances \ {u}
  <2>1. \A i \in 1..Len(queue) : queue[i] \in Jobs
    BY ElementOfSeq DEF AdvisoryShape
  <2>2. Queued \in SUBSET Utterances
    BY <2>1 DEF Queued, Jobs
  <2>3. {worker[w].u : w \in Asking} \in SUBSET Utterances
    BY DEF Asking, AdvisoryShape
  <2> QED BY <1>2, <2>2, <2>3 DEF Asked
<1>6. \A v \in Asked : said'[v] = said[v]
  BY <1>1, <1>5
<1>7. Waiting' = Waiting \cup {u}
  BY <1>1, <1>2, <1>3, <1>6 DEF Waiting
<1>8. Outgoing \subseteq Utterances \ {u} /\ TakenNow \cup decided \subseteq Answers
      /\ Waiting \subseteq Utterances
  BY <1>4, WaitingType
<1>9. \A a \in TakenNow \cup decided : a.u \in Utterances \ {u} /\ said'[a.u] = said[a.u]
  BY <1>1, <1>4, <1>8 DEF Answers
<1>10. \A a \in TakenNow \cup decided : Counts(a)' = Counts(a)
  BY <1>9 DEF Counts
<1>11. \A v \in Utterances : v # u => Heard(v)' = Heard(v)
  BY <1>1 DEF Heard
<1>12. Heard(u)' = 0
  <2>1. heard[u].local = 0 /\ heard[u].remote \in Nat
    BY <1>1 DEF LocalInv, AdvisoryShape
  <2>2. Heard(u) = 0 /\ Heard(u) = heard[u].remote + 0
    BY <1>1 DEF OnceInv, Heard
  <2>3. heard[u].remote = 0
    BY <2>1, <2>2
  <2> QED BY <1>1, <2>1, <2>3 DEF Heard
<1>13. u \notin Waiting
  BY <1>2, <1>4 DEF Waiting
<1>14. Waiting' \cap Outgoing' = {}
  BY <1>3, <1>4, <1>7 DEF OnceInv
<1>15. \A a \in TakenNow' \cup decided' : Counts(a)' => a.u \notin Waiting' \cup Outgoing' /\ Heard(a.u)' = 0
  BY <1>1, <1>3, <1>7, <1>9, <1>10, <1>11 DEF OnceInv
<1>16. \A v \in Waiting' \cup Outgoing' : Heard(v)' = 0
  BY <1>3, <1>7, <1>8, <1>11, <1>12 DEF OnceInv
<1>17. \A v \in Utterances : Heard(v)' <= 1 /\ (said'[v] = "no" => Heard(v)' = 0)
  BY <1>1, <1>11, <1>12 DEF OnceInv
<1>18. /\ \A v \in pending' : said'[v] = "live"
       /\ actor'.u \notin pending'
  <2>1. \A v \in pending : v \in Utterances /\ v # u /\ said[v] = "live"
    BY <1>4 DEF OnceInv, AdvisoryShape
  <2> QED BY <1>1, <1>4, <2>1
<1>19. \A i \in 1..Len(outputs') :
         /\ said'[outputs'[i].u] # "no"
         /\ said'[outputs'[i].u] = "local" => outputs'[i].remote /\ ~outputs'[i].withheld
  <2>1. \A i \in 1..Len(outputs) : outputs[i].u \in Utterances \ {u}
    BY <1>8 DEF Outgoing
  <2> QED BY <1>1, <2>1 DEF OnceInv
<1>20. /\ \A a \in TakenNow' \cup decided' : said'[a.u] # "no"
       /\ \A a \in TakenNow' : Counts(a)' /\ a \notin decided'
       /\ \A a, b \in TakenNow' \cup decided' : Counts(a)' /\ Counts(b)' /\ a.u = b.u => a = b
  BY <1>1, <1>3, <1>9, <1>10 DEF OnceInv
<1>21. /\ \A i, j \in 1..Len(outputs') : outputs'[i].u = outputs'[j].u => i = j
       /\ \A i, j \in 1..Len(actor'.outputs) : i # j => actor'.outputs[i] \cap actor'.outputs[j] = {}
  BY <1>1 DEF OnceInv
<1> QED BY <1>14, <1>15, <1>16, <1>17, <1>18, <1>19, <1>20, <1>21 DEF OnceInv

\* Every step keeps each answer in one place.
LEMMA OnceStep == AdvisoryInv /\ [Next]_vars => OnceInv'
<1> SUFFICES ASSUME AdvisoryShape, JobsInv, OnceInv, LocalInv, [Next]_vars PROVE OnceInv'
  BY DEF AdvisoryInv
<1> USE DEF behaviour, runtime, history
<1>1. CASE \/ \E u \in Utterances : DeadlinePasses(u)
           \/ \E b \in BOOLEAN : SetEnabled(b) \/ SetLocalOnly(b)
           \/ Shutdown \/ ComeAndGo \/ UNCHANGED vars
  <2>1. UNCHANGED <<actor, pending, outputs, decided, worker, said, heard>> /\ (queue' = queue \/ queue' = <<>>)
    BY <1>1 DEF DeadlinePasses, SetEnabled, SetLocalOnly, Shutdown, ComeAndGo, vars
  <2>2. InHand' = InHand /\ Queued' \subseteq Queued /\ {worker'[w].u : w \in Asking'} = {worker[w].u : w \in Asking}
    BY <2>1 DEF InHand, Queued, Asking
  <2>3. Waiting' \subseteq Waiting
    BY <2>1, <2>2 DEF Waiting, Asked
  <2>4. /\ \A u \in pending' : said[u] = "live"
        /\ actor'.pc = "deciding" => actor'.u \notin pending'
    BY <2>1 DEF OnceInv
  <2> QED BY <2>1, <2>3, <2>4, WaitsLess
<1> QED BY <1>1, ActorOnce, TickOnce, TickReturnsOnce, SpeakOnce, SayOnce, ThreadOnce DEF Next, Actor

-------------------------------------------------------------------------------
(* Local answers to speech that is answered at once *)

\* Nothing is said, decided or heard anew but what the provider answered or what is not live.
LEMMA LocalStays ==
  ASSUME LocalInv, UNCHANGED <<said, heard>>, InHand' \subseteq InHand,
         \A u \in Utterances : said[u] # "live" /\ Answer(u, "local") \in decided' =>
           \/ Answer(u, "local") \in decided
           \/ u \in InHand /\ u \notin InHand'
  PROVE  LocalInv'
  BY DEF LocalInv

\* Every step keeps what was answered at once from being answered locally again.
LEMMA LocalStep == AdvisoryInv /\ [Next]_vars => LocalInv'
<1> SUFFICES ASSUME AdvisoryShape, JobsInv, OnceInv, LocalInv, [Next]_vars PROVE LocalInv'
  BY DEF AdvisoryInv
<1> USE DEF behaviour, runtime, history
<1>1. ASSUME NEW u \in Utterances, OnSay(u)
      PROVE  LocalInv'
  <2>1. /\ UNCHANGED <<decided, heard>> /\ InHand' = {u} /\ said[u] = "no" /\ said'[u] # "no"
        /\ \A v \in Utterances : v # u => said'[v] = said[v]
    BY <1>1, SaidIsNew DEF OnSay
  <2>2. heard[u].local = 0 /\ Answer(u, "local") \notin decided
    BY <2>1 DEF LocalInv, OnceInv, Answer
  <2>3. InHand = {}
    BY <1>1, SaidIsNew
  <2> QED BY <2>1, <2>2 DEF LocalInv
<1>2. ASSUME NEW a \in decided, Speak(a)
      PROVE  LocalInv'
  <2>1. decided' = decided \ {a} /\ InHand' = InHand /\ UNCHANGED said
    BY <1>2 DEF Speak, InHand
  <2>2. /\ a.u \in Utterances /\ a \in Answers /\ a.text \in {"local", "remote"}
        /\ \A v \in Utterances : v # a.u => heard'[v] = heard[v]
        /\ heard'[a.u].local = heard[a.u].local + (IF a.text = "local" THEN 1 ELSE 0)
    BY <1>2, SpeakAdds
  <2>3. heard[a.u].local \in Nat
    BY <2>2 DEF AdvisoryShape
  <2>4. a.text = "local" => a = Answer(a.u, "local")
    BY <2>2 DEF Answers, Answer
  <2>5. a \in decided
    OBVIOUS
  <2>6. ASSUME NEW u \in Utterances, said'[u] # "live"
        PROVE  /\ u \in InHand' => Answer(u, "local") \notin decided' /\ heard'[u].local = 0
               /\ Answer(u, "local") \in decided' => heard'[u].local = 0
               /\ heard'[u].local <= 1
               /\ said'[u] = "no" => heard'[u].local = 0
    <3>1. /\ u \in InHand => Answer(u, "local") \notin decided /\ heard[u].local = 0
          /\ Answer(u, "local") \in decided => heard[u].local = 0
          /\ heard[u].local <= 1
          /\ said[u] = "no" => heard[u].local = 0
      BY <2>1, <2>6 DEF LocalInv
    <3>2. CASE u # a.u \/ a.text # "local"
      <4>1. heard'[u].local = heard[u].local
        BY <2>2, <2>3, <3>2
      <4> QED BY <2>1, <3>1, <4>1
    <3>3. CASE u = a.u /\ a.text = "local"
      <4>1. a = Answer(u, "local") /\ heard[u].local = 0 /\ u \notin InHand
        BY <2>4, <2>5, <3>1, <3>3
      <4>2. heard'[u].local = 1
        BY <2>2, <3>3, <4>1
      <4>3. said[u] # "no"
        BY <2>5, <3>3 DEF OnceInv
      <4> QED BY <2>1, <4>1, <4>2, <4>3
    <3> QED BY <3>2, <3>3
  <2> QED BY <2>6 DEF LocalInv
<1>3. CASE Queue \/ Displace
  <2>1. InHand' = {} /\ InHand = {actor.u}
    BY <1>3, IdleShape DEF Queue, Displace, QueueAs, InHand
  <2>2. \A a \in decided' : a \in decided \/ a = Answer(actor.u, "local")
    BY <1>3 DEF Queue, Displace, QueueAs, Local
  <2>3. \A u : Answer(u, "local") = Answer(actor.u, "local") => u = actor.u
    BY DEF Answer
  <2> QED BY <1>3, <2>1, <2>2, <2>3, LocalStays DEF Queue, Displace
<1>4. CASE StayLocal \/ Refuse \/ QueueRefuses
  <2>1. actor.pc \in {"deciding", "observing", "displacing"} /\ ReturnLocal /\ UNCHANGED <<said, heard>>
    BY <1>4 DEF StayLocal, Refuse, QueueRefuses
  <2>2. InHand' = {} /\ InHand = {actor.u}
    BY <2>1, IdleShape DEF ReturnLocal, InHand
  <2>3. \A a \in decided' : a \in decided \/ a = Answer(actor.u, "local")
    BY <2>1 DEF ReturnLocal, Local
  <2>4. \A u : Answer(u, "local") = Answer(actor.u, "local") => u = actor.u
    BY DEF Answer
  <2> QED BY <2>1, <2>2, <2>3, <2>4, LocalStays
<1>5. CASE TickReturns
  <2>1. actor' = Ready /\ decided' \subseteq decided \cup TakenNow /\ UNCHANGED <<said, heard>>
    BY <1>5 DEF TickReturns, TakenNow
  <2>2. InHand' = {}
    BY <2>1, IdleShape DEF InHand
  <2>3. \A u : said[u] # "live" => Answer(u, "local") \notin TakenNow
    BY DEF OnceInv, Counts, Answer
  <2> QED BY <2>1, <2>2, <2>3, LocalStays
<1>6. CASE Withhold \/ Admit \/ FindFull \/ Tick
  <2>1. UNCHANGED <<decided, said, heard>>
    BY <1>6 DEF Withhold, Admit, FindFull, Tick
  <2>2. InHand' \subseteq InHand
    BY <1>6, PlainFrames DEF Plain
  <2> QED BY <2>1, <2>2, LocalStays
<1>7. CASE \/ \E u \in Utterances : DeadlinePasses(u)
           \/ \E b \in BOOLEAN : SetEnabled(b) \/ SetLocalOnly(b)
           \/ Shutdown \/ ComeAndGo \/ UNCHANGED vars
  <2>1. UNCHANGED <<actor, decided, said, heard>>
    BY <1>7 DEF DeadlinePasses, SetEnabled, SetLocalOnly, Shutdown, ComeAndGo, vars
  <2> QED BY <2>1, Views, LocalStays
<1>8. ASSUME NEW w \in Workers, Worker(w)
      PROVE  LocalInv'
  <2>1. UNCHANGED <<actor, decided, said, heard>>
    BY <1>8 DEF Worker, Take, Good, Fails, StoreDeserted, StoreBlocked, StoreOpen, StoreFailure, StoreLate,
                StoreAnswer, Stored
  <2> QED BY <2>1, Views, LocalStays
<1> QED BY <1>1, <1>2, <1>3, <1>4, <1>5, <1>6, <1>7, <1>8 DEF Next, Actor

-------------------------------------------------------------------------------
(* The theorems *)

\* The invariant holds at the start and after every step.
LEMMA AdvisoryInvariant == Spec => []AdvisoryInv
<1>1. Init => AdvisoryInv
  <2> SUFFICES ASSUME Init PROVE AdvisoryInv
    OBVIOUS
  <2>1. AdvisoryShape
    BY InitShape
  <2>2. /\ queue = <<>> /\ outputs = <<>> /\ decided = {} /\ pending = {}
        /\ actor = Ready /\ \A w \in Workers : worker[w].pc = "idle"
        /\ said = [u \in Utterances |-> "no"]
        /\ heard = [u \in Utterances |-> [local |-> 0, remote |-> 0]]
    BY IdleShape DEF Init
  <2>3. /\ InHand = {} /\ Queued = {} /\ Busy = {} /\ Working = {} /\ Asking = {} /\ Outgoing = {} /\ TakenNow = {}
        /\ actor.pc = "idle" /\ actor.outputs = <<>>
    BY <2>2, IdleShape DEF InHand, Queued, Busy, Working, Asking, Outgoing, TakenNow, ToSet
  <2>4. Waiting = {}
    BY <2>2, <2>3 DEF Waiting, Asked
  <2>5. \A u \in Utterances : Heard(u) = 0 /\ heard[u].local = 0
    BY <2>2 DEF Heard
  <2>6. JobsInv
    BY <2>2, <2>3 DEF JobsInv
  <2>7. OnceInv
    BY <2>2, <2>3, <2>4, <2>5 DEF OnceInv
  <2>8. LocalInv
    BY <2>2, <2>5 DEF LocalInv
  <2> QED BY <2>1, <2>6, <2>7, <2>8 DEF AdvisoryInv
<1>2. AdvisoryInv /\ [Next]_vars => AdvisoryInv'
  BY ShapeStep, JobsStep, OnceStep, LocalStep DEF AdvisoryInv
<1> QED BY <1>1, <1>2, PTL DEF Spec

\* The withheld answers, the outputs and the runtime's queue keep to their limits, whatever the
\* actor, the threads and the administrator do (llm_fsm.py, npc_ai_runtime.py).
THEOREM AdvisoryTypeCorrect == Spec => []AdvisoryTypeOK
<1>1. AdvisoryInv => AdvisoryTypeOK
  <2> SUFFICES ASSUME AdvisoryShape PROVE AdvisoryTypeOK
    BY DEF AdvisoryInv
  <2>1. actor.pc \in ActorPc /\ \A w \in Workers : worker[w].pc \in WorkerPc
    BY DEF AdvisoryShape
  <2> QED BY <2>1 DEF AdvisoryShape, AdvisoryTypeOK, ActorPc, WorkerPc
<1> QED BY <1>1, AdvisoryInvariant, PTL

\* Nothing is answered twice: not by the provider and the withheld answer both, nor by either
\* of them again (llm_fsm.py:112-128, :223-231, :278-288).
THEOREM AnsweredOnce == Spec => []OneAnswer
<1>1. AdvisoryInv => OneAnswer
  <2> SUFFICES ASSUME AdvisoryShape, OnceInv, LocalInv, NEW u \in Utterances
               PROVE  /\ said[u] = "live" => heard[u].local + heard[u].remote <= 1
                      /\ heard[u].local <= 1 /\ heard[u].remote <= 1
    BY DEF AdvisoryInv, OneAnswer
  <2>1. heard[u].local \in Nat /\ heard[u].remote \in Nat
    BY DEF AdvisoryShape
  <2>2. Heard(u) <= 1
    BY DEF OnceInv
  <2>3. CASE said[u] = "live"
    BY <2>1, <2>2, <2>3 DEF Heard
  <2>4. CASE said[u] # "live"
    BY <2>1, <2>2, <2>4 DEF Heard, LocalInv
  <2> QED BY <2>3, <2>4
<1> QED BY <1>1, AdvisoryInvariant, PTL

\* The sets of the model hide no second answer: what a tick has taken is not decided already, and
\* two of its outputs never come to the same answer (llm_fsm.py, tick).
NoneMerged ==
  /\ TakenNow \cap decided = {}
  /\ \A i, j \in 1..Len(actor.outputs) : i # j => actor.outputs[i] \cap actor.outputs[j] = {}
\* It holds of every state, so OneAnswer counts every answer there is.
THEOREM NoneIsMerged == Spec => []NoneMerged
<1>1. AdvisoryInv => NoneMerged
  <2> SUFFICES ASSUME OnceInv PROVE NoneMerged
    BY DEF AdvisoryInv
  <2>1. \A a \in TakenNow : a \notin decided
    BY DEF OnceInv
  <2>2. \A i, j \in 1..Len(actor.outputs) : i # j => actor.outputs[i] \cap actor.outputs[j] = {}
    BY DEF OnceInv
  <2>3. TakenNow \cap decided = {}
    BY <2>1
  <2> QED BY <2>2, <2>3 DEF NoneMerged
<1> QED BY <1>1, AdvisoryInvariant, PTL

\* What the steps other than a tick take of remote answers was taken before.
LEMMA TakenBefore ==
  ASSUME actor'.outputs = actor.outputs \/ actor'.outputs = <<>>,
         \A a \in decided' : a \in decided \cup TakenNow \/ a.text = "local"
  PROVE  Taken' \subseteq Taken
<1>1. TakenNow' = TakenNow \/ TakenNow' = {}
  BY DEF TakenNow, ToSet
<1>2. Taken = {a \in decided \cup TakenNow : a.text = "remote"}
  BY DEF Taken, TakenNow
<1>3. Taken' = {a \in decided' \cup TakenNow' : a.text = "remote"}
  BY DEF Taken, TakenNow
<1> QED BY <1>1, <1>2, <1>3

\* While remote speech is off, no step takes a remote answer for speaking (README.md:85).
THEOREM BlockedIsSilent == Spec => NothingLeaks
<1>1. AdvisoryInv /\ [Next]_vars => (Blocked /\ Blocked' => Taken' \subseteq Taken)
  <2> SUFFICES ASSUME AdvisoryShape, JobsInv, OnceInv, [Next]_vars, Blocked
               PROVE  Taken' \subseteq Taken
    BY DEF AdvisoryInv
  <2> USE DEF behaviour, runtime, history
  <2>1. CASE Tick
    <3>1. decided' = decided
      BY <2>1 DEF Tick
    <3>2. /\ actor'.outputs \in Seq(SUBSET Answers)
          /\ \A i \in 1..Len(actor'.outputs) : \A a \in actor'.outputs[i] : a.text # "remote"
      BY <2>1, TickTakes
    <3>3. DOMAIN actor'.outputs = 1..Len(actor'.outputs)
      BY <3>2, LenProperties
    <3>4. \A a \in UNION ToSet(actor'.outputs) : a.text # "remote"
      BY <3>2, <3>3 DEF ToSet
    <3> QED BY <3>1, <3>4 DEF Taken
  <2>2. ASSUME NEW u \in Utterances, OnSay(u)
        PROVE  Taken' \subseteq Taken
    <3>1. actor'.outputs = actor.outputs /\ decided' = decided
      BY <2>2, SaidIsNew DEF OnSay
    <3> QED BY <3>1, TakenBefore
  <2>3. CASE Withhold \/ Admit \/ FindFull
    <3>1. PICK pc \in {"observing", "queueing", "displacing"} :
            /\ actor.pc \in {"deciding", "observing", "queueing"} /\ actor' = [actor EXCEPT !.pc = pc]
            /\ UNCHANGED decided
      BY <2>3 DEF Withhold, Admit, FindFull
    <3>2. pc \in ActorPc
      BY DEF ActorPc
    <3>3. actor'.outputs = actor.outputs
      BY <3>1, <3>2, ActorGoesOn
    <3> QED BY <3>1, <3>3, TakenBefore
  <2>4. CASE StayLocal \/ Refuse \/ QueueRefuses
    <3>1. actor' = Ready /\ decided' = decided \cup Local(actor.u)
      BY <2>4 DEF StayLocal, Refuse, QueueRefuses, ReturnLocal
    <3> QED BY <3>1, IdleShape, TakenBefore DEF Local, Answer
  <2>5. CASE Queue \/ Displace
    <3>1. actor' = Ready /\ (decided' = decided \/ decided' = decided \cup Local(actor.u))
      BY <2>5 DEF Queue, Displace, QueueAs
    <3> QED BY <3>1, IdleShape, TakenBefore DEF Local, Answer
  <2>6. CASE TickReturns
    <3>1. actor' = Ready /\ decided' \subseteq decided \cup TakenNow
      BY <2>6 DEF TickReturns, TakenNow
    <3> QED BY <3>1, IdleShape, TakenBefore
  <2>7. CASE \/ \E u \in Utterances : DeadlinePasses(u)
             \/ \E a \in decided : Speak(a)
             \/ \E b \in BOOLEAN : SetEnabled(b) \/ SetLocalOnly(b)
             \/ Shutdown \/ ComeAndGo \/ UNCHANGED vars
    <3>1. actor' = actor /\ decided' \subseteq decided
      BY <2>7 DEF DeadlinePasses, Speak, SetEnabled, SetLocalOnly, Shutdown, ComeAndGo, vars
    <3> QED BY <3>1, TakenBefore
  <2>8. ASSUME NEW w \in Workers, Worker(w)
        PROVE  Taken' \subseteq Taken
    <3>1. UNCHANGED <<actor, decided>>
      BY <2>8 DEF Worker, Take, Good, Fails, StoreDeserted, StoreBlocked, StoreOpen, StoreFailure, StoreLate,
                  StoreAnswer, Stored
    <3> QED BY <3>1, TakenBefore
  <2> QED BY <2>1, <2>2, <2>3, <2>4, <2>5, <2>6, <2>7, <2>8 DEF Next, Actor
<1> QED BY <1>1, AdvisoryInvariant, PTL DEF Spec, NothingLeaks
================================================================================
