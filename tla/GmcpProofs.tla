------------------------------- MODULE GmcpProofs -------------------------------
(***************************************************************************)
(* What Gmcp promises, for any number of threads, values and names:        *)
(* CacheIsShown and PictureIsCurrent.                                      *)
(*                                                                         *)
(* A sending that is not cached yet is known by its thread (CacheInv).     *)
(* While the flag `crossed` is down one thread flushes at most, with what  *)
(* is true (FreshInv), because the others that might hold or want the      *)
(* state_lock; and what the client does not know somebody has still to     *)
(* tell (OwedInv).                                                         *)
(***************************************************************************)
EXTENDS Gmcp, SequenceTheorems, FiniteSetTheorems, TLAPS

-------------------------------------------------------------------------------
(* What a thread has still to do, by its next step *)

Then(x, w) == <<x>> \o w

Done == Then("unlock", <<>>)
Ends == {<<>>, Done}
Checking(e) == Then("check", e)
Asking(e) == Then("Room.Info", Checking(e))
Telling(e) == Then("Char.Vitals", Asking(e))

GmcpRest(x, w) ==
  \/ x = "unlock" /\ w \in {<<>>, Telling(<<>>)}
  \/ x = "check" /\ w \in Ends
  \/ x \in {"write", "Room.Info"} /\ w \in {Checking(e) : e \in Ends}
  \/ x = "send" /\ w \in {Then("write", Checking(e)) : e \in Ends}
  \/ x = "gate" /\ w \in {Then("send", Then("write", Checking(e))) : e \in Ends}
  \/ x = "Char.Vitals" /\ w \in {Asking(e) : e \in Ends}
  \/ x = "clear" /\ w \in {<<>>, Then("clear", Telling(<<>>))} \cup {Telling(e) : e \in Ends}
  \/ x = "alter" /\ w \in {Telling(Done), Then("clear", Telling(Done))}
  \/ x = "heal" /\ w = Then("unlock", Telling(<<>>))
  \/ x = "detach" /\ w = Done
  \/ x = "lock" /\ w \in {Then("alter", Telling(Done)), Then("alter", Then("clear", Telling(Done))),
                          Then("detach", Done), Then("heal", Then("unlock", Telling(<<>>)))}
GmcpTodo(s) == s = <<>> \/ GmcpRest(Head(s), Tail(s))
TodoInv == \A t \in Threads : GmcpTodo(todo[t])

\* s contains x
Has(s, x) == \E i \in 1..Len(s) : s[i] = x

-------------------------------------------------------------------------------
(* The inductive invariant *)

\* A thread holds the state_lock from lock to unlock.
Holding(t) == Has(todo[t], "unlock") /\ Head(todo[t]) # "lock"
LockInv == \A t \in Threads : lock = t <=> Holding(t)

\* Snapshots are in the hands of who flushes.
BatchInv == \A t \in Threads :
  /\ batch[t] # <<>> => Flushing(t)
  /\ At(t, "gate") \/ At(t, "send") \/ At(t, "write") => batch[t] # <<>>

\* Of a package that is not torn one thread at most has a sending to cache, which is what the
\* client was told last; without one the cache says it.
Caching(t, p) == At(t, "write") /\ Package(t) = p
CacheInv == \A p \in Packages \ torn :
  /\ \A t, u \in Threads : Caching(t, p) /\ Caching(u, p) => t = u
  /\ \A t \in Threads : Caching(t, p) => shown[p] = Value(t)
  /\ (\A t \in Threads : ~Caching(t, p)) /\ cache[p] # None => shown[p] = cache[p]

\* A flush that met nobody is alone, and has what is true.
FreshInv == ~crossed =>
  /\ \A t, u \in Threads : Flushing(t) /\ Flushing(u) => t = u
  /\ \A t \in Threads : \A i \in 1..Len(batch[t]) : batch[t][i][2] = truth[batch[t][i][1]]

\* What the client does not know somebody has still to look at, or has at hand.
Owes(t, p) ==
  \/ todo[t] # Healing /\ Has(todo[t], p)
  \/ \E i \in 1..Len(batch[t]) : batch[t][i][1] = p
OwedInv == \A p \in Packages \ torn :
  playing /\ running /\ ~crossed /\ Supports(p) => shown[p] = truth[p] \/ \E t \in Threads : Owes(t, p)

GmcpInv == GmcpTypeOK /\ TodoInv /\ LockInv /\ BatchInv /\ CacheInv /\ FreshInv /\ OwedInv

-------------------------------------------------------------------------------
(* Lemmas about what is left to do *)

\* A step and what comes after it come apart again, and contain what either does.
LEMMA ThenIs ==
  ASSUME NEW x \in Steps, NEW w \in Seq(Steps)
  PROVE  /\ Then(x, w) \in Seq(Steps) /\ Then(x, w) # <<>>
         /\ Head(Then(x, w)) = x /\ Tail(Then(x, w)) = w
         /\ \A y : Has(Then(x, w), y) <=> (y = x \/ Has(w, y))
<1> DEFINE s == Then(x, w)
<1>1. s \in Seq(Steps) /\ Len(s) = 1 + Len(w)
  BY DEF Then
<1>2. s # <<>> /\ Len(w) \in Nat
  BY <1>1
<1>3. s[1] = x /\ Head(s) = x
  BY DEF Then
<1>4. \A i \in 1..Len(w) : s[i + 1] = w[i]
  BY DEF Then
<1>5. Tail(s) = w
  <2>1. Tail(s) \in Seq(Steps) /\ Len(Tail(s)) = Len(w) /\ \A i \in 1..Len(Tail(s)) : Tail(s)[i] = s[i + 1]
    BY <1>1, <1>2, HeadTailProperties
  <2> QED BY <1>4, <2>1, SeqEqual
<1>6. \A y : Has(s, y) <=> (y = x \/ Has(w, y))
  <2> SUFFICES ASSUME NEW y PROVE Has(s, y) <=> (y = x \/ Has(w, y))
    OBVIOUS
  <2>1. ASSUME NEW i \in 1..Len(s), s[i] = y
        PROVE  y = x \/ Has(w, y)
    <3>1. CASE i = 1
      BY <1>3, <2>1, <3>1
    <3>2. CASE i # 1
      <4>1. i - 1 \in 1..Len(w) /\ (i - 1) + 1 = i
        BY <1>1, <1>2, <3>2
      <4>2. w[i - 1] = y
        BY <1>4, <2>1, <4>1
      <4> QED BY <4>1, <4>2 DEF Has
    <3> QED BY <3>1, <3>2
  <2>2. y = x => Has(s, y)
    BY <1>1, <1>2, <1>3 DEF Has
  <2>3. ASSUME NEW i \in 1..Len(w), w[i] = y
        PROVE  Has(s, y)
    <3>1. i + 1 \in 1..Len(s)
      BY <1>1, <1>2
    <3> QED BY <1>4, <2>3, <3>1 DEF Has
  <2> QED BY <2>1, <2>2, <2>3 DEF Has
<1> QED BY <1>1, <1>2, <1>3, <1>5, <1>6

\* What is not empty has a next step and a rest.
LEMMA Split ==
  ASSUME NEW s \in Seq(Steps), s # <<>>
  PROVE  Head(s) \in Steps /\ Tail(s) \in Seq(Steps) /\ s = Then(Head(s), Tail(s))
<1>1. Head(s) \in Steps /\ Tail(s) \in Seq(Steps)
  BY HeadTailProperties
<1>2. Len(Then(Head(s), Tail(s))) = Len(s)
  BY <1>1, HeadTailProperties DEF Then
<1>3. \A i \in 1..Len(s) : s[i] = Then(Head(s), Tail(s))[i]
  BY <1>1, HeadTailProperties DEF Then
<1> QED BY <1>1, <1>2, <1>3, ThenIs, SeqEqual

\* The two lemmas above, for all sequences at once.
LEMMA Thens ==
  /\ \A x \in Steps, w \in Seq(Steps) :
       /\ Then(x, w) \in Seq(Steps) /\ Then(x, w) # <<>>
       /\ Head(Then(x, w)) = x /\ Tail(Then(x, w)) = w
       /\ \A y : Has(Then(x, w), y) <=> (y = x \/ Has(w, y))
       /\ GmcpTodo(Then(x, w)) <=> GmcpRest(x, w)
  /\ \A s \in Seq(Steps) : s # <<>> => Head(s) \in Steps /\ Tail(s) \in Seq(Steps) /\ s = Then(Head(s), Tail(s))
  /\ <<>> \in Seq(Steps) /\ \A y : ~Has(<<>>, y)
<1>1. <<>> \in Seq(Steps) /\ \A y : ~Has(<<>>, y)
  BY EmptySeq DEF Has
<1>2. \A s \in Seq(Steps) : s # <<>> => Head(s) \in Steps /\ Tail(s) \in Seq(Steps) /\ s = Then(Head(s), Tail(s))
  BY Split
<1>3. ASSUME NEW x \in Steps, NEW w \in Seq(Steps)
      PROVE  GmcpTodo(Then(x, w)) <=> GmcpRest(x, w)
  BY <1>3, ThenIs DEF GmcpTodo
<1> QED BY <1>1, <1>2, <1>3, ThenIs

\* The ends of what a thread has to do.
LEMMA EndsAre ==
  /\ Ends \subseteq Seq(Steps)
  /\ \A e \in Ends : GmcpTodo(e) /\ (e # <<>> => Head(e) = "unlock") /\ \A y : Has(e, y) <=> (e # <<>> /\ y = "unlock")
<1>1. "unlock" \in Steps
  BY DEF Steps
<1>2. Done \in Seq(Steps) /\ Done # <<>> /\ Head(Done) = "unlock" /\ \A y : Has(Done, y) <=> y = "unlock"
  BY <1>1, Thens DEF Done
<1>3. GmcpTodo(Done) /\ GmcpTodo(<<>>)
  BY <1>1, Thens DEF Done, GmcpTodo, GmcpRest
<1> QED BY <1>2, <1>3, Thens DEF Ends

\* A flush, by its next step.
LEMMA FlushIs ==
  ASSUME NEW e \in Ends
  PROVE  /\ {Checking(e), Then("write", Checking(e)), Then("send", Then("write", Checking(e))),
              Asking(e), Telling(e)} \subseteq Seq(Steps)
         /\ GmcpTodo(Checking(e)) /\ GmcpTodo(Then("write", Checking(e)))
         /\ GmcpTodo(Then("send", Then("write", Checking(e)))) /\ GmcpTodo(Asking(e)) /\ GmcpTodo(Telling(e))
<1>1. {"check", "write", "send", "Room.Info", "Char.Vitals"} \subseteq Steps /\ e \in Seq(Steps)
  BY EndsAre DEF Steps, Packages
<1>2. Checking(e) \in Seq(Steps) /\ GmcpTodo(Checking(e))
  BY <1>1, Thens DEF Checking, GmcpRest
<1>3. Then("write", Checking(e)) \in Seq(Steps) /\ GmcpTodo(Then("write", Checking(e)))
  BY <1>1, <1>2, Thens DEF GmcpRest
<1>4. Then("send", Then("write", Checking(e))) \in Seq(Steps) /\ GmcpTodo(Then("send", Then("write", Checking(e))))
  BY <1>1, <1>3, Thens DEF GmcpRest
<1>5. Asking(e) \in Seq(Steps) /\ GmcpTodo(Asking(e))
  <2>1. Asking(e) \in Seq(Steps) /\ GmcpTodo(Asking(e)) <=> GmcpRest("Room.Info", Checking(e))
    BY <1>1, <1>2, Thens DEF Asking
  <2> QED BY <1>1, <1>2, <2>1, Thens DEF GmcpRest, Asking
<1>6. Telling(e) \in Seq(Steps) /\ GmcpTodo(Telling(e))
  BY <1>1, <1>5, Thens DEF GmcpRest, Telling
<1> QED BY <1>2, <1>3, <1>4, <1>5, <1>6

\* What a flush contains.
LEMMA FlushHas ==
  ASSUME NEW e \in Ends, NEW y
  PROVE  /\ Has(Checking(e), y) <=> (y = "check" \/ Has(e, y))
         /\ Has(Then("write", Checking(e)), y) <=> (y \in {"write", "check"} \/ Has(e, y))
         /\ Has(Then("send", Then("write", Checking(e))), y) <=> (y \in {"send", "write", "check"} \/ Has(e, y))
         /\ Has(Asking(e), y) <=> (y \in {"Room.Info", "check"} \/ Has(e, y))
         /\ Has(Telling(e), y) <=> (y \in {"Char.Vitals", "Room.Info", "check"} \/ Has(e, y))
<1>1. {"check", "write", "send", "Room.Info", "Char.Vitals"} \subseteq Steps /\ e \in Seq(Steps)
  BY EndsAre DEF Steps, Packages
<1>2. Has(Checking(e), y) <=> (y = "check" \/ Has(e, y))
  BY <1>1, Thens DEF Checking
<1>3. Has(Then("write", Checking(e)), y) <=> (y \in {"write", "check"} \/ Has(e, y))
  BY <1>1, <1>2, Thens, FlushIs
<1>4. Has(Then("send", Then("write", Checking(e))), y) <=> (y \in {"send", "write", "check"} \/ Has(e, y))
  <2>1. \A w \in Seq(Steps) : Has(Then("send", w), y) <=> (y = "send" \/ Has(w, y))
    BY <1>1, Thens
  <2>2. Then("write", Checking(e)) \in Seq(Steps)
    BY FlushIs
  <2>3. Has(Then("send", Then("write", Checking(e))), y) <=> (y = "send" \/ Has(Then("write", Checking(e)), y))
    BY <2>1, <2>2, Zenon
  <2> QED BY <1>3, <2>3
<1>5. Has(Asking(e), y) <=> (y \in {"Room.Info", "check"} \/ Has(e, y))
  BY <1>1, <1>2, Thens, FlushIs DEF Asking
<1>6. Has(Telling(e), y) <=> (y \in {"Char.Vitals", "Room.Info", "check"} \/ Has(e, y))
  BY <1>1, <1>5, Thens, FlushIs DEF Telling
<1> QED BY <1>2, <1>3, <1>4, <1>5, <1>6

\* What else a thread may have to do.
LEMMA OthersAre ==
  /\ {Telling(<<>>), Telling(Done), Then("clear", Telling(<<>>)), Then("clear", Telling(Done)),
      Then("alter", Telling(Done)), Then("alter", Then("clear", Telling(Done))), Then("detach", Done),
      Then("unlock", Telling(<<>>)), Then("heal", Then("unlock", Telling(<<>>)))} \subseteq Seq(Steps)
  /\ GmcpTodo(Telling(<<>>)) /\ GmcpTodo(Telling(Done))
  /\ GmcpTodo(Then("clear", Telling(<<>>))) /\ GmcpTodo(Then("clear", Telling(Done)))
  /\ GmcpTodo(Then("alter", Telling(Done))) /\ GmcpTodo(Then("alter", Then("clear", Telling(Done))))
  /\ GmcpTodo(Then("detach", Done))
  /\ GmcpTodo(Then("unlock", Telling(<<>>))) /\ GmcpTodo(Then("heal", Then("unlock", Telling(<<>>))))
<1>1. {"clear", "alter", "detach", "unlock", "heal"} \subseteq Steps /\ <<>> \in Ends /\ Done \in Ends
  BY DEF Steps, Ends
<1>2. Telling(<<>>) \in Seq(Steps) /\ Telling(Done) \in Seq(Steps) /\ GmcpTodo(Telling(<<>>)) /\ GmcpTodo(Telling(Done))
  BY <1>1, FlushIs
<1>3. /\ Then("clear", Telling(<<>>)) \in Seq(Steps) /\ GmcpTodo(Then("clear", Telling(<<>>)))
      /\ Then("clear", Telling(Done)) \in Seq(Steps) /\ GmcpTodo(Then("clear", Telling(Done)))
  <2>1. GmcpRest("clear", Telling(<<>>)) /\ GmcpRest("clear", Telling(Done))
    BY <1>1 DEF GmcpRest
  <2>2. \A w \in Seq(Steps) : Then("clear", w) \in Seq(Steps) /\ (GmcpTodo(Then("clear", w)) <=> GmcpRest("clear", w))
    BY <1>1, Thens
  <2> QED BY <1>2, <2>1, <2>2
<1>4. /\ Then("alter", Telling(Done)) \in Seq(Steps) /\ GmcpTodo(Then("alter", Telling(Done)))
      /\ Then("alter", Then("clear", Telling(Done))) \in Seq(Steps)
      /\ GmcpTodo(Then("alter", Then("clear", Telling(Done))))
  BY <1>1, <1>2, <1>3, Thens DEF GmcpRest
<1>5. Then("detach", Done) \in Seq(Steps) /\ GmcpTodo(Then("detach", Done))
  BY <1>1, EndsAre, Thens DEF GmcpRest
<1>6. Then("unlock", Telling(<<>>)) \in Seq(Steps) /\ GmcpTodo(Then("unlock", Telling(<<>>)))
  BY <1>1, <1>2, Thens DEF GmcpRest
<1>7. /\ Then("heal", Then("unlock", Telling(<<>>))) \in Seq(Steps)
      /\ GmcpTodo(Then("heal", Then("unlock", Telling(<<>>))))
  BY <1>1, <1>6, Thens DEF GmcpRest
<1> QED BY <1>2, <1>3, <1>4, <1>5, <1>6, <1>7

\* What the rest of a thread's steps contains.
LEMMA OthersHave ==
  ASSUME NEW y
  PROVE  /\ Has(Telling(<<>>), y) <=> y \in {"Char.Vitals", "Room.Info", "check"}
         /\ Has(Telling(Done), y) <=> y \in {"Char.Vitals", "Room.Info", "check", "unlock"}
         /\ Has(Then("clear", Telling(<<>>)), y) <=> y \in {"clear", "Char.Vitals", "Room.Info", "check"}
         /\ Has(Then("clear", Telling(Done)), y) <=> y \in {"clear", "Char.Vitals", "Room.Info", "check", "unlock"}
         /\ Has(Then("alter", Telling(Done)), y) <=> y \in {"alter", "Char.Vitals", "Room.Info", "check", "unlock"}
         /\ Has(Then("alter", Then("clear", Telling(Done))), y)
              <=> y \in {"alter", "clear", "Char.Vitals", "Room.Info", "check", "unlock"}
         /\ Has(Then("detach", Done), y) <=> y \in {"detach", "unlock"}
         /\ Has(Then("unlock", Telling(<<>>)), y) <=> y \in {"unlock", "Char.Vitals", "Room.Info", "check"}
         /\ Has(Then("heal", Then("unlock", Telling(<<>>))), y)
              <=> y \in {"heal", "unlock", "Char.Vitals", "Room.Info", "check"}
<1>1. {"clear", "alter", "detach", "unlock", "heal"} \subseteq Steps /\ <<>> \in Ends /\ Done \in Ends
  BY DEF Steps, Ends
<1>2. \A x \in Steps, w \in Seq(Steps) : Has(Then(x, w), y) <=> (y = x \/ Has(w, y))
  BY Thens
<1>3. ~Has(<<>>, y) /\ (Has(Done, y) <=> y = "unlock")
  BY <1>1, EndsAre, Thens DEF Done
<1>4. Has(Telling(<<>>), y) <=> y \in {"Char.Vitals", "Room.Info", "check"}
  BY <1>1, <1>3, FlushHas
<1>5. Has(Telling(Done), y) <=> y \in {"Char.Vitals", "Room.Info", "check", "unlock"}
  BY <1>1, <1>3, FlushHas
<1>6. /\ Has(Then("clear", Telling(<<>>)), y) <=> (y = "clear" \/ Has(Telling(<<>>), y))
      /\ Has(Then("clear", Telling(Done)), y) <=> (y = "clear" \/ Has(Telling(Done), y))
      /\ Has(Then("alter", Telling(Done)), y) <=> (y = "alter" \/ Has(Telling(Done), y))
      /\ Has(Then("alter", Then("clear", Telling(Done))), y) <=> (y = "alter" \/ Has(Then("clear", Telling(Done)), y))
  BY <1>1, <1>2, OthersAre
<1>7. /\ Has(Then("detach", Done), y) <=> (y = "detach" \/ Has(Done, y))
      /\ Has(Then("unlock", Telling(<<>>)), y) <=> (y = "unlock" \/ Has(Telling(<<>>), y))
      /\ Has(Then("heal", Then("unlock", Telling(<<>>))), y) <=> (y = "heal" \/ Has(Then("unlock", Telling(<<>>)), y))
  BY <1>1, <1>2, EndsAre, OthersAre
<1>8. /\ Has(Then("clear", Telling(<<>>)), y) <=> y \in {"clear", "Char.Vitals", "Room.Info", "check"}
      /\ Has(Then("clear", Telling(Done)), y) <=> y \in {"clear", "Char.Vitals", "Room.Info", "check", "unlock"}
  BY <1>4, <1>5, <1>6
<1>9. /\ Has(Then("alter", Telling(Done)), y) <=> y \in {"alter", "Char.Vitals", "Room.Info", "check", "unlock"}
      /\ Has(Then("alter", Then("clear", Telling(Done))), y)
           <=> y \in {"alter", "clear", "Char.Vitals", "Room.Info", "check", "unlock"}
  BY <1>5, <1>6, <1>8
<1>10. /\ Has(Then("detach", Done), y) <=> y \in {"detach", "unlock"}
       /\ Has(Then("unlock", Telling(<<>>)), y) <=> y \in {"unlock", "Char.Vitals", "Room.Info", "check"}
       /\ Has(Then("heal", Then("unlock", Telling(<<>>))), y)
            <=> y \in {"heal", "unlock", "Char.Vitals", "Room.Info", "check"}
  BY <1>3, <1>4, <1>7
<1> QED BY <1>4, <1>5, <1>8, <1>9, <1>10

\* The steps of a flush, from its second one on
FlushSteps == {"Room.Info", "check", "gate", "send", "write"}

\* What a thread has still to do stays legal as it does it.
LEMMA RestsLegal ==
  ASSUME NEW x \in Steps, NEW w \in Seq(Steps), GmcpRest(x, w)
  PROVE  GmcpTodo(w)
<1>1. GmcpTodo(<<>>) /\ GmcpTodo(Done)
  BY EndsAre DEF Ends
<1>2. \A e \in Ends : GmcpTodo(e) /\ GmcpTodo(Checking(e)) /\ GmcpTodo(Then("write", Checking(e)))
        /\ GmcpTodo(Then("send", Then("write", Checking(e)))) /\ GmcpTodo(Asking(e)) /\ GmcpTodo(Telling(e))
  BY EndsAre, FlushIs
<1> QED BY <1>1, <1>2, OthersAre DEF GmcpRest

\* Of what a thread may have to do, what the invariant is about.
LEMMA RestsHave ==
  ASSUME NEW x \in Steps, NEW w \in Seq(Steps), GmcpRest(x, w)
  PROVE  /\ ~Has(w, "lock")
         /\ x = "lock" => Has(w, "unlock")
         /\ x = "unlock" => ~Has(w, "unlock")
         /\ x \in {"alter", "heal"} => Has(w, "unlock") /\ \A p \in Packages : Has(w, p)
         /\ x = "Char.Vitals" => Has(w, "Room.Info")
<1>1. \A e \in Ends : ~Has(e, "lock")
  BY EndsAre
<1>2. \A e \in Ends :
        /\ ~Has(Checking(e), "lock") /\ ~Has(Then("write", Checking(e)), "lock")
        /\ ~Has(Then("send", Then("write", Checking(e))), "lock")
        /\ ~Has(Asking(e), "lock") /\ ~Has(Telling(e), "lock") /\ Has(Asking(e), "Room.Info")
  BY <1>1, FlushHas
<1>3. ~Has(<<>>, "lock") /\ ~Has(Done, "lock") /\ Done \in Ends /\ <<>> \in Ends
  BY <1>1 DEF Ends
<1>4. ~Has(w, "lock")
  <2>1. /\ ~Has(Telling(<<>>), "lock") /\ ~Has(Telling(Done), "lock")
        /\ ~Has(Then("clear", Telling(<<>>)), "lock") /\ ~Has(Then("clear", Telling(Done)), "lock")
        /\ ~Has(Then("alter", Telling(Done)), "lock") /\ ~Has(Then("alter", Then("clear", Telling(Done))), "lock")
        /\ ~Has(Then("detach", Done), "lock") /\ ~Has(Then("unlock", Telling(<<>>)), "lock")
        /\ ~Has(Then("heal", Then("unlock", Telling(<<>>))), "lock")
    BY OthersHave
  <2> QED BY <1>1, <1>2, <1>3, <2>1 DEF GmcpRest
<1>5. x = "lock" => Has(w, "unlock")
  <2>1. /\ Has(Then("alter", Telling(Done)), "unlock") /\ Has(Then("alter", Then("clear", Telling(Done))), "unlock")
        /\ Has(Then("detach", Done), "unlock") /\ Has(Then("heal", Then("unlock", Telling(<<>>))), "unlock")
    BY OthersHave
  <2> QED BY <2>1 DEF GmcpRest
<1>6. x = "unlock" => ~Has(w, "unlock")
  <2>1. ~Has(<<>>, "unlock")
    BY Thens
  <2>2. ~Has(Telling(<<>>), "unlock")
    BY OthersHave
  <2> QED BY <2>1, <2>2 DEF GmcpRest
<1>7. x \in {"alter", "heal"} => Has(w, "unlock") /\ \A p \in Packages : Has(w, p)
  <2>1. \A y \in Packages \cup {"unlock"} :
          Has(Telling(Done), y) /\ Has(Then("clear", Telling(Done)), y) /\ Has(Then("unlock", Telling(<<>>)), y)
    BY OthersHave DEF Packages
  <2> QED BY <2>1 DEF GmcpRest
<1>8. x = "Char.Vitals" => Has(w, "Room.Info")
  BY <1>2 DEF GmcpRest
<1> QED BY <1>4, <1>5, <1>6, <1>7, <1>8

\* Which step of a thread comes after which.
LEMMA RestsNext ==
  ASSUME NEW x \in Steps, NEW w \in Seq(Steps), GmcpRest(x, w)
  PROVE  /\ w # <<>> /\ Head(w) \in FlushSteps => x = "Char.Vitals" \/ x \in FlushSteps
         /\ w # <<>> => Head(w) # "gate" /\ (Head(w) = "send" => x = "gate") /\ (Head(w) = "write" => x = "send")
         /\ x = "Char.Vitals" => w # <<>> /\ Head(w) = "Room.Info"
         /\ x \in {"Room.Info", "write"} => w # <<>> /\ Head(w) = "check"
         /\ x = "gate" => w # <<>> /\ Head(w) = "send"
         /\ x = "send" => w # <<>> /\ Head(w) = "write"
         /\ x = "check" => w \in Ends
<1>1. {"check", "write", "send", "Room.Info", "Char.Vitals", "clear", "alter", "detach", "unlock", "heal"} \subseteq Steps
  BY DEF Steps, Packages
<1>2. ASSUME NEW e \in Ends
      PROVE  /\ Checking(e) # <<>> /\ Head(Checking(e)) = "check"
             /\ Then("write", Checking(e)) # <<>> /\ Head(Then("write", Checking(e))) = "write"
             /\ Then("send", Then("write", Checking(e))) # <<>> /\ Head(Then("send", Then("write", Checking(e)))) = "send"
             /\ Asking(e) # <<>> /\ Head(Asking(e)) = "Room.Info"
             /\ Telling(e) # <<>> /\ Head(Telling(e)) = "Char.Vitals"
             /\ e # <<>> => Head(e) = "unlock"
  <2>1. \A y \in Steps, v \in Seq(Steps) : Then(y, v) # <<>> /\ Head(Then(y, v)) = y
    BY Thens
  <2>2. Checking(e) # <<>> /\ Head(Checking(e)) = "check"
    BY <1>1, <2>1, EndsAre DEF Checking
  <2>3. Then("write", Checking(e)) # <<>> /\ Head(Then("write", Checking(e))) = "write"
    BY <1>1, <2>1, FlushIs
  <2>4. Then("send", Then("write", Checking(e))) # <<>> /\ Head(Then("send", Then("write", Checking(e)))) = "send"
    BY <1>1, <2>1, FlushIs
  <2>5. Asking(e) # <<>> /\ Head(Asking(e)) = "Room.Info"
    BY <1>1, <2>1, FlushIs DEF Asking
  <2>6. Telling(e) # <<>> /\ Head(Telling(e)) = "Char.Vitals"
    BY <1>1, <2>1, FlushIs DEF Telling
  <2> QED BY <2>2, <2>3, <2>4, <2>5, <2>6, EndsAre
<1>3. Done \in Ends /\ <<>> \in Ends
  BY DEF Ends
<1>4. ASSUME NEW y \in {"clear", "alter", "detach", "unlock", "heal"}, NEW v \in Seq(Steps)
      PROVE  Head(Then(y, v)) = y
  BY <1>1, Thens
<1>5. /\ Head(Then("clear", Telling(<<>>))) = "clear" /\ Head(Then("clear", Telling(Done))) = "clear"
      /\ Head(Then("alter", Telling(Done))) = "alter" /\ Head(Then("alter", Then("clear", Telling(Done)))) = "alter"
      /\ Head(Then("detach", Done)) = "detach" /\ Head(Then("unlock", Telling(<<>>))) = "unlock"
      /\ Head(Then("heal", Then("unlock", Telling(<<>>)))) = "heal"
  BY <1>3, <1>4, EndsAre, OthersAre
<1>6. CASE x \in {"Char.Vitals", "gate"} \cup FlushSteps
  BY <1>2, <1>3, <1>6 DEF GmcpRest, FlushSteps
<1>7. CASE x \notin {"Char.Vitals"} \cup FlushSteps
  <2>1. w # <<>> => Head(w) \in {"Char.Vitals", "clear", "alter", "detach", "unlock", "heal"}
    BY <1>2, <1>3, <1>5, <1>7 DEF GmcpRest, FlushSteps
  <2> QED BY <1>7, <2>1 DEF FlushSteps
<1> QED BY <1>6, <1>7

-------------------------------------------------------------------------------
(* Lemmas about what a thread's list becomes *)

\* Two steps put in front of the rest.
LEMMA TwoThen == ASSUME NEW x \in Steps, NEW y \in Steps, NEW w \in Seq(Steps)
  PROVE <<x, y>> \o w = Then(x, Then(y, w))
<1>1. <<x, y>> \o w \in Seq(Steps) /\ Then(x, Then(y,w)) \in Seq(Steps) BY DEF Then
<1>2. Len(<<x, y>> \o w) = Len(w) + 2 /\ Len(Then(x, Then(y,w))) = Len(w) + 2 BY DEF Then
<1>3. \A i \in 1..Len(w)+2 : (<<x, y>> \o w)[i] = Then(x, Then(y,w))[i] BY DEF Then
<1> QED BY <1>1, <1>2, <1>3, SeqEqual

\* Three steps put in front of the rest.
LEMMA ThreeThen == ASSUME NEW x \in Steps, NEW y \in Steps, NEW z \in Steps, NEW w \in Seq(Steps)
  PROVE <<x, y, z>> \o w = Then(x, Then(y, Then(z, w)))
<1> DEFINE a == <<x, y, z>> \o w
           b == Then(x, Then(y, Then(z, w)))
<1>1. a \in Seq(Steps) /\ b \in Seq(Steps) BY DEF Then
<1>2. Len(a) = Len(w) + 3 /\ Len(b) = Len(w) + 3 BY DEF Then
<1>3. \A i \in 1..Len(w)+3 : a[i] = b[i] BY SMTT(30) DEF Then
<1> HIDE DEF a, b
<1>4. a = b BY <1>1, <1>2, <1>3, SeqEqual
<1> QED BY <1>4 DEF a, b

\* The lists threads start with, by their next steps.
LEMMA Lists ==
  /\ Forced = Then("clear", Telling(<<>>))
  /\ <<"clear">> \o Forced = Then("clear", Then("clear", Telling(<<>>)))
  /\ <<"clear">> \o <<>> = Then("clear", <<>>)
  /\ Altering \o Forced \o <<"unlock">> = Then("lock", Then("alter", Then("clear", Telling(Done))))
  /\ Altering \o Flush \o <<"unlock">> = Then("lock", Then("alter", Telling(Done)))
  /\ Healing = Then("lock", Then("heal", Then("unlock", Telling(<<>>))))
  /\ <<"lock", "detach", "unlock">> = Then("lock", Then("detach", Done))
  /\ <<"unlock">> = Done
<1>0. {"lock", "unlock", "alter", "heal", "detach", "clear", "check", "Char.Vitals", "Room.Info"} \subseteq Steps
  BY DEF Steps, Packages
<1>1. Done = <<"unlock">> /\ Checking(<<>>) = <<"check">>
  <2>1. <<"unlock">> \o <<>> = <<"unlock">> /\ <<"check">> \o <<>> = <<"check">>
    OBVIOUS
  <2> QED BY <2>1 DEF Done, Checking, Then
<1>2. /\ <<>> \in Ends /\ Done \in Ends /\ Done \in Seq(Steps) /\ Checking(<<>>) \in Seq(Steps) /\ Checking(Done) \in Seq(Steps)
      /\ Telling(<<>>) \in Seq(Steps) /\ Telling(Done) \in Seq(Steps) /\ Then("clear", Telling(Done)) \in Seq(Steps)
  <2>1. <<>> \in Ends /\ Done \in Ends
    BY DEF Ends
  <2> QED BY <2>1, EndsAre, FlushIs, OthersAre
<1>3. \A w \in Seq(Steps) : Snapshots \o w = Then("Char.Vitals", Then("Room.Info", w)) /\ Altering \o w = Then("lock", Then("alter", w))
  BY <1>0, TwoThen DEF Snapshots, Altering
<1>4. Snapshots \in Seq(Steps) /\ Altering \in Seq(Steps) /\ <<"clear">> \in Seq(Steps) /\ <<"check">> \in Seq(Steps)
  BY <1>0 DEF Snapshots, Altering
<1>5. \A u, v, w \in Seq(Steps) : (u \o v) \o w = u \o (v \o w)
  BY ConcatAssociative, SMTT(30)
<1>6. Flush = Telling(<<>>)
  BY <1>1, <1>2, <1>3 DEF Flush, Telling, Asking
<1>7. Forced = Then("clear", Telling(<<>>)) /\ Forced \in Seq(Steps)
  BY <1>6, OthersAre DEF Forced, Then
<1>8. <<"clear">> \o Forced = Then("clear", Then("clear", Telling(<<>>)))
  BY <1>7 DEF Then
<1>9. <<"clear">> \o <<>> = Then("clear", <<>>)
  BY DEF Then
<1>10. Flush \o Done = Telling(Done)
  <2>1. Flush \o Done = Snapshots \o (<<"check">> \o Done)
    <3>1. Snapshots \in Seq(Steps) /\ <<"check">> \in Seq(Steps) /\ Done \in Seq(Steps)
      BY <1>2, <1>4
    <3> QED BY <3>1, <1>5 DEF Flush
  <2>2. <<"check">> \o Done = Checking(Done)
    BY DEF Checking, Then
  <2>3. Snapshots \o Checking(Done) = Telling(Done)
    BY <1>2, <1>3 DEF Telling, Asking
  <2> QED BY <2>1, <2>2, <2>3
<1>11. Forced \o Done = Then("clear", Telling(Done))
  <2>1. Forced \o Done = <<"clear">> \o (Flush \o Done)
    <3>1. <<"clear">> \in Seq(Steps) /\ Flush \in Seq(Steps) /\ Done \in Seq(Steps)
      BY <1>2, <1>4, <1>6
    <3> QED BY <3>1, <1>5 DEF Forced
  <2> QED BY <1>10, <2>1 DEF Then
<1>12. Altering \o Forced \o <<"unlock">> = Then("lock", Then("alter", Then("clear", Telling(Done))))
  <2>1. (Altering \o Forced) \o Done = Altering \o (Forced \o Done)
    <3>1. Altering \in Seq(Steps) /\ Forced \in Seq(Steps) /\ Done \in Seq(Steps)
      BY <1>2, <1>4, <1>7
    <3> QED BY <3>1, <1>5
  <2>2. Altering \o Then("clear", Telling(Done)) = Then("lock", Then("alter", Then("clear", Telling(Done))))
    BY <1>2, <1>3
  <2> QED BY <1>1, <1>11, <2>1, <2>2
<1>13. Altering \o Flush \o <<"unlock">> = Then("lock", Then("alter", Telling(Done)))
  <2>1. (Altering \o Flush) \o Done = Altering \o (Flush \o Done)
    <3>1. Altering \in Seq(Steps) /\ Flush \in Seq(Steps) /\ Done \in Seq(Steps)
      BY <1>2, <1>4, <1>6
    <3> QED BY <3>1, <1>5
  <2>2. Altering \o Telling(Done) = Then("lock", Then("alter", Telling(Done)))
    BY <1>2, <1>3
  <2> QED BY <1>1, <1>10, <2>1, <2>2
<1>14. Healing = Then("lock", Then("heal", Then("unlock", Telling(<<>>))))
  <2>1. \A w \in Seq(Steps) : <<"lock", "heal", "unlock">> \o w = Then("lock", Then("heal", Then("unlock", w)))
    BY <1>0, ThreeThen
  <2> QED BY <1>2, <1>6, <2>1 DEF Healing
<1>15. <<"lock", "detach", "unlock">> = Then("lock", Then("detach", Done))
  BY <1>1 DEF Then
<1> QED BY <1>1, <1>7, <1>8, <1>9, <1>12, <1>13, <1>14, <1>15

\* A request, before the rest
LEMMA Requested ==
  ASSUME NEW e \in Ends
  PROVE  <<"gate", "send", "write", "check">> \o e = Then("gate", Then("send", Then("write", Checking(e))))
<1>1. CASE e = <<>>
  BY <1>1 DEF Then, Checking
<1>2. CASE e = Done
  BY <1>2 DEF Then, Checking, Done
<1> QED BY <1>1, <1>2 DEF Ends

\* One thread's list is replaced by a legal one.
LEMMA TodoKept ==
  ASSUME GmcpTypeOK, TodoInv, NEW t \in Threads, NEW s \in Seq(Steps), GmcpTodo(s), todo' = [todo EXCEPT ![t] = s]
  PROVE  /\ todo' \in [Threads -> Seq(Steps)] /\ TodoInv'
         /\ todo'[t] = s /\ \A u \in Threads \ {t} : todo'[u] = todo[u]
BY DEF GmcpTypeOK, TodoInv

\* What is known of a thread at a step
LEMMA AtStep ==
  ASSUME GmcpTypeOK, TodoInv, NEW t \in Threads, NEW x, At(t, x)
  PROVE  /\ x \in Steps /\ Tail(todo[t]) \in Seq(Steps) /\ GmcpRest(x, Tail(todo[t]))
         /\ \A y : Has(todo[t], y) <=> (y = x \/ Has(Tail(todo[t]), y))
<1>1. todo[t] \in Seq(Steps) /\ todo[t] # <<>> /\ Head(todo[t]) = x
  BY DEF GmcpTypeOK, At
<1>2. x \in Steps /\ Tail(todo[t]) \in Seq(Steps) /\ todo[t] = Then(x, Tail(todo[t]))
  BY <1>1, Thens
<1>3. \A y : Has(todo[t], y) <=> (y = x \/ Has(Tail(todo[t]), y))
  <2>1. \A w \in Seq(Steps) : \A y : Has(Then(x, w), y) <=> (y = x \/ Has(w, y))
    BY <1>2, Thens
  <2>2. \A y : Has(Then(x, Tail(todo[t])), y) <=> (y = x \/ Has(Tail(todo[t]), y))
    BY <1>2, <2>1, Zenon
  <2> QED BY <1>2, <2>2
<1>4. GmcpRest(x, Tail(todo[t]))
  BY <1>1 DEF TodoInv, GmcpTodo
<1> QED BY <1>2, <1>3, <1>4

\* A thread goes on to its next step.
LEMMA Passes ==
  ASSUME GmcpTypeOK, TodoInv, NEW t \in Threads, NEW x, At(t, x), Goes(t, <<>>)
  PROVE  /\ todo' \in [Threads -> Seq(Steps)] /\ TodoInv'
         /\ \A u \in Threads \ {t} : todo'[u] = todo[u]
         /\ x \in Steps /\ todo'[t] \in Seq(Steps) /\ GmcpRest(x, todo'[t])
         /\ \A y : Has(todo[t], y) <=> (y = x \/ Has(todo'[t], y))
         /\ todo'[t] # <<>> => Head(todo'[t]) # "lock"
<1> DEFINE w == Tail(todo[t])
<1>1. x \in Steps /\ w \in Seq(Steps) /\ GmcpRest(x, w) /\ \A y : Has(todo[t], y) <=> (y = x \/ Has(w, y))
  BY AtStep
<1>2. todo' = [todo EXCEPT ![t] = w]
  <2>1. <<>> \o w = w
    BY <1>1, ConcatEmptySeq
  <2>2. todo' = [todo EXCEPT ![t] = <<>> \o Tail(todo[t])]
    BY DEF Goes
  <2> QED BY <2>1, <2>2
<1>3. GmcpTodo(w)
  BY <1>1, RestsLegal
<1>4. /\ todo' \in [Threads -> Seq(Steps)] /\ TodoInv' /\ todo'[t] = w
      /\ \A u \in Threads \ {t} : todo'[u] = todo[u]
  BY <1>1, <1>2, <1>3, TodoKept
<1>5. w # <<>> => Head(w) # "lock"
  <2>1. w # <<>> => Has(w, Head(w))
    <3>1. \A v \in Seq(Steps), y \in Steps : Has(Then(y, v), y)
      BY Thens
    <3>2. w # <<>> => Head(w) \in Steps /\ Tail(w) \in Seq(Steps) /\ w = Then(Head(w), Tail(w))
      BY <1>1, Thens
    <3> HIDE DEF w
    <3> QED BY <3>1, <3>2
  <2>2. ~Has(w, "lock")
    BY <1>1, RestsHave
  <2> QED BY <2>1, <2>2
<1> QED BY <1>1, <1>4, <1>5

\* A thread has something to send.
LEMMA Requests ==
  ASSUME GmcpTypeOK, TodoInv, NEW t \in Threads, At(t, "check"), Goes(t, <<"gate", "send", "write", "check">>)
  PROVE  /\ todo' \in [Threads -> Seq(Steps)] /\ TodoInv'
         /\ \A u \in Threads \ {t} : todo'[u] = todo[u]
         /\ todo'[t] # <<>> /\ Head(todo'[t]) = "gate"
         /\ \A y \in Packages \cup {"unlock"} : Has(todo'[t], y) <=> Has(todo[t], y)
<1> DEFINE w == Tail(todo[t])
           s == Then("gate", Then("send", Then("write", Checking(w))))
<1>1. w \in Seq(Steps) /\ GmcpRest("check", w) /\ \A y : Has(todo[t], y) <=> (y = "check" \/ Has(w, y))
  BY AtStep
<1>2. w \in Ends
  BY <1>1, RestsNext DEF Steps
<1>3. todo' = [todo EXCEPT ![t] = s]
  <2>1. <<"gate", "send", "write", "check">> \o w = s
    BY <1>2, Requested
  <2>2. todo' = [todo EXCEPT ![t] = <<"gate", "send", "write", "check">> \o Tail(todo[t])]
    BY DEF Goes
  <2> QED BY <2>1, <2>2
<1>4. /\ s \in Seq(Steps) /\ s # <<>> /\ Head(s) = "gate" /\ GmcpTodo(s)
      /\ \A y : Has(s, y) <=> (y = "gate" \/ Has(Then("send", Then("write", Checking(w))), y))
  <2> DEFINE v == Then("send", Then("write", Checking(w)))
  <2>1. v \in Seq(Steps) /\ "gate" \in Steps /\ GmcpRest("gate", v)
    BY <1>2, FlushIs DEF Steps, GmcpRest
  <2> HIDE DEF v
  <2>2. /\ Then("gate", v) \in Seq(Steps) /\ Then("gate", v) # <<>> /\ Head(Then("gate", v)) = "gate" /\ GmcpTodo(Then("gate", v))
        /\ \A y : Has(Then("gate", v), y) <=> (y = "gate" \/ Has(v, y))
    BY <2>1, Thens
  <2> QED BY <2>2 DEF v
<1>5. \A y \in Packages \cup {"unlock"} : Has(s, y) <=> Has(todo[t], y)
  <2> SUFFICES ASSUME NEW y \in Packages \cup {"unlock"} PROVE Has(s, y) <=> Has(todo[t], y)
    OBVIOUS
  <2>1. Has(Then("send", Then("write", Checking(w))), y) <=> (y \in {"send", "write", "check"} \/ Has(w, y))
    BY <1>2, FlushHas
  <2> QED BY <1>1, <1>4, <2>1 DEF Packages
<1> HIDE DEF s
<1> QED BY <1>3, <1>4, <1>5, TodoKept

\* A thread leaves its flush.
LEMMA Breaks ==
  ASSUME GmcpTypeOK, TodoInv, NEW t \in Threads, At(t, "gate") \/ At(t, "send"), Break(t)
  PROVE  /\ todo' \in [Threads -> Seq(Steps)] /\ TodoInv'
         /\ \A u \in Threads \ {t} : todo'[u] = todo[u] /\ batch'[u] = batch[u]
         /\ todo'[t] \in Ends /\ batch'[t] = <<>>
         /\ Has(todo'[t], "unlock") <=> Has(todo[t], "unlock")
<1>1. todo' = [todo EXCEPT ![t] = IF Bare(t) THEN <<>> ELSE Done]
  BY Lists DEF Break
<1>2. Bare(t) <=> ~Has(todo[t], "unlock")
  <2>1. DOMAIN todo[t] = 1..Len(todo[t])
    BY DEF GmcpTypeOK
  <2> QED BY <2>1 DEF Bare, Has
<1>3. <<>> \in Ends /\ Done \in Ends /\ Done # <<>>
  BY Thens, EndsAre DEF Ends, Done, Steps
<1>4. (IF Bare(t) THEN <<>> ELSE Done) \in Ends
  BY <1>3
<1>5. todo' \in [Threads -> Seq(Steps)] /\ TodoInv' /\ todo'[t] = (IF Bare(t) THEN <<>> ELSE Done) /\ \A u \in Threads \ {t} : todo'[u] = todo[u]
  BY <1>1, <1>4, EndsAre, TodoKept
<1>6. Has(todo'[t], "unlock") <=> Has(todo[t], "unlock")
  BY <1>2, <1>3, <1>5, EndsAre
<1>7. batch'[t] = <<>> /\ \A u \in Threads \ {t} : batch'[u] = batch[u]
  BY DEF Break, GmcpTypeOK
<1> QED BY <1>4, <1>5, <1>6, <1>7

\* An idle thread starts.
Lines == {Then("lock", Then("alter", Then("clear", Telling(Done)))), Then("lock", Then("alter", Telling(Done))),
          Healing, Then("lock", Then("detach", Done))}
Refreshes == {Then("clear", Then("clear", Telling(<<>>))), Then("clear", <<>>)}

\* What it starts with is legal, and no step of a flush but its first.
LEMMA StartsAre ==
  ASSUME NEW s \in Lines \cup Refreshes
  PROVE  /\ s \in Seq(Steps) /\ GmcpTodo(s) /\ s # <<>>
         /\ s \in Lines => Head(s) = "lock"
         /\ s \in Refreshes => Head(s) = "clear" /\ ~Has(s, "unlock")
<1>1. {"lock", "clear"} \subseteq Steps
  BY DEF Steps
<1>2. CASE s \in Lines
  <2>1. PICK w \in Seq(Steps) : s = Then("lock", w) /\ GmcpRest("lock", w)
    BY <1>2, Lists, OthersAre DEF Lines, GmcpRest
  <2>2. s \notin Refreshes
    <3>1. \A v \in Seq(Steps) : Head(Then("clear", v)) = "clear"
      BY <1>1, Thens
    <3>2. s \in Refreshes => Head(s) = "clear"
      BY <3>1, OthersAre, EmptySeq DEF Refreshes
    <3>3. Head(s) = "lock"
      BY <1>1, <2>1, Thens
    <3> QED BY <3>2, <3>3
  <2> QED BY <1>1, <1>2, <2>1, <2>2, Thens
<1>3. CASE s \in Refreshes
  <2>1. PICK w \in Seq(Steps) : s = Then("clear", w) /\ GmcpRest("clear", w) /\ ~Has(w, "unlock")
    BY <1>3, Thens, OthersAre, OthersHave DEF Refreshes, GmcpRest
  <2>2. Head(s) = "clear" /\ s # <<>> /\ s \in Seq(Steps) /\ GmcpTodo(s) /\ ~Has(s, "unlock")
    BY <1>1, <2>1, Thens
  <2>3. s \notin Lines
    <3>1. \A v \in Seq(Steps) : Head(Then("lock", v)) = "lock"
      BY <1>1, Thens
    <3>2. s \in Lines => Head(s) = "lock"
      BY <3>1, Lists, OthersAre DEF Lines
    <3> QED BY <2>2, <3>2
  <2> QED BY <1>3, <2>2, <2>3
<1> QED BY <1>2, <1>3

-------------------------------------------------------------------------------
(* Lemmas about the parts of the invariant *)

\* The state_lock is where it was, and so is who holds it.
LEMMA LockKept ==
  ASSUME LockInv, NEW t \in Threads, lock' = lock, \A u \in Threads \ {t} : todo'[u] = todo[u],
         Holding(t)' <=> Holding(t)
  PROVE  LockInv'
BY DEF LockInv, Holding, Has

\* Thread t does something that is no part of a flush.
Aside(t) ==
  /\ batch' = batch /\ \A u \in Threads \ {t} : todo'[u] = todo[u]
  /\ ~Flushing(t) /\ ~Flushing(t)'

\* Then snapshots stay in the hands of who flushes, ...
LEMMA BatchAside ==
  ASSUME BatchInv, NEW t \in Threads, Aside(t)
  PROVE  BatchInv'
BY DEF BatchInv, Aside, Flushing, At

\* ... nobody comes to cache a sending, ...
LEMMA CachingAside ==
  ASSUME NEW t \in Threads, Aside(t), NEW u \in Threads, NEW p
  PROVE  (Caching(u, p)' <=> Caching(u, p)) /\ Value(u)' = Value(u)
BY DEF Aside, Caching, Flushing, At, Package, Value

\* ... so that the cache stays what it was to the client, ...
LEMMA CacheAside ==
  ASSUME CacheInv, NEW t \in Threads, Aside(t), UNCHANGED board
  PROVE  CacheInv'
BY CachingAside DEF CacheInv, board

\* ... and there is no other flush than before.
LEMMA FreshAside ==
  ASSUME FreshInv, NEW t \in Threads, Aside(t), truth' = truth, crossed' = crossed
  PROVE  FreshInv'
BY DEF FreshInv, Aside, Flushing, At

\* What is owed stays owed when nobody changes what is true or known.
LEMMA OwedKept ==
  ASSUME OwedInv, NEW t \in Threads, \A u \in Threads \ {t} : todo'[u] = todo[u] /\ batch'[u] = batch[u],
         UNCHANGED <<protocol, truth, shown, torn>>,
         playing' /\ running' /\ ~crossed' => playing /\ running /\ ~crossed,
         NEW P \in SUBSET Packages, \A p \in P : Owes(t, p) => Owes(t, p)'
  PROVE  \A p \in P \ torn' :
           playing' /\ running' /\ ~crossed' /\ Supports(p)' => shown'[p] = truth'[p] \/ \E u \in Threads : Owes(u, p)'
<1> SUFFICES ASSUME NEW p \in P \ torn', playing', running', ~crossed', Supports(p)', shown'[p] # truth'[p]
    PROVE  \E u \in Threads : Owes(u, p)'
  OBVIOUS
<1>1. p \in Packages \ torn /\ playing /\ running /\ ~crossed /\ shown[p] # truth[p]
  OBVIOUS
<1>2. Supports(p)
  BY DEF Supports, protocol
<1>3. PICK u \in Threads : Owes(u, p)
  BY <1>1, <1>2 DEF OwedInv
<1>4. CASE u = t
  BY <1>3, <1>4
<1>5. CASE u # t
  <2>1. todo'[u] = todo[u] /\ batch'[u] = batch[u]
    BY <1>5
  <2>2. Owes(u, p)'
    BY <1>3, <2>1 DEF Owes, Has
  <2> QED BY <2>2
<1> QED BY <1>4, <1>5

\* A thread that goes on keeps what it owes, unless it is at the package.
LEMMA PassOwes ==
  ASSUME GmcpTypeOK, TodoInv, NEW t \in Threads, NEW x, At(t, x), Goes(t, <<>>), NEW p \in Packages, x # p,
         batch'[t] = batch[t], Owes(t, p)
  PROVE  Owes(t, p)'
<1>1. (todo'[t] # <<>> => Head(todo'[t]) # "lock") /\ (Has(todo[t], p) => Has(todo'[t], p))
  BY Passes
<1>2. todo'[t] # Healing
  BY <1>1, Lists, StartsAre DEF Lines
<1>3. CASE Has(todo[t], p)
  BY <1>1, <1>2, <1>3 DEF Owes
<1>4. CASE ~Has(todo[t], p)
  BY <1>4 DEF Owes
<1> QED BY <1>3, <1>4

\* A thread that goes on with something else than a flush does so aside, ...
LEMMA PassAside ==
  ASSUME GmcpTypeOK, TodoInv, NEW t \in Threads, NEW x, At(t, x), Goes(t, <<>>), batch' = batch,
         x \notin FlushSteps \cup {"Char.Vitals"}
  PROVE  Aside(t)
<1>1. /\ \A u \in Threads \ {t} : todo'[u] = todo[u]
      /\ x \in Steps /\ todo'[t] \in Seq(Steps) /\ GmcpRest(x, todo'[t])
  BY Passes
<1>2. todo'[t] # <<>> => Head(todo'[t]) \notin FlushSteps
  BY <1>1, RestsNext
<1>3. ~Flushing(t)' /\ ~Flushing(t)
  BY <1>2 DEF Flushing, At, FlushSteps
<1> QED BY <1>1, <1>3 DEF Aside

\* ... and holds the state_lock as before unless it is the lock it is about.
LEMMA PassLock ==
  ASSUME GmcpTypeOK, TodoInv, NEW t \in Threads, NEW x, At(t, x), Goes(t, <<>>), x \notin {"lock", "unlock"}
  PROVE  Holding(t)' <=> Holding(t)
<1>1. /\ \A y : Has(todo[t], y) <=> (y = x \/ Has(todo'[t], y))
      /\ todo'[t] # <<>> => Head(todo'[t]) # "lock"
  BY Passes
<1>2. Head(todo[t]) # "lock" /\ (Has(todo[t], "unlock") <=> Has(todo'[t], "unlock"))
  BY <1>1 DEF At
<1>3. Has(todo'[t], "unlock") => todo'[t] # <<>>
  BY Thens
<1> QED BY <1>1, <1>2, <1>3 DEF Holding

\* Of a list a thread starts with or drops.
LEMMA StartAside ==
  ASSUME GmcpTypeOK, TodoInv, NEW t \in Threads,
         NEW s, (s \in Lines \cup Refreshes /\ Idle(t)) \/ (s = <<>> /\ (Idle(t) \/ todo[t] = Healing)),
         todo' = [todo EXCEPT ![t] = s], batch' = batch
  PROVE  /\ todo' \in [Threads -> Seq(Steps)] /\ TodoInv' /\ todo'[t] = s
         /\ Aside(t) /\ (Holding(t)' <=> Holding(t))
         /\ \A p : Owes(t, p) => Owes(t, p)'
<1>1. s \in Seq(Steps) /\ GmcpTodo(s)
  BY StartsAre, EndsAre, Thens DEF Ends
<1>2. todo' \in [Threads -> Seq(Steps)] /\ TodoInv' /\ todo'[t] = s /\ \A u \in Threads \ {t} : todo'[u] = todo[u]
  BY <1>1, TodoKept
<1>3. Healing # <<>> /\ Head(Healing) = "lock"
  BY StartsAre DEF Lines
<1>4. s # <<>> => Head(s) \in {"lock", "clear"} /\ (Head(s) = "lock" \/ ~Has(s, "unlock"))
  BY StartsAre
<1>5. ~Flushing(t) /\ ~Flushing(t)'
  BY <1>2, <1>3, <1>4 DEF Flushing, At, Idle
<1>6. ~Holding(t) /\ ~Holding(t)'
  BY <1>2, <1>3, <1>4, Thens DEF Holding, Idle
<1>7. ASSUME NEW p, Owes(t, p)
      PROVE  Owes(t, p)'
  <2>1. \E i \in 1..Len(batch[t]) : batch[t][i][1] = p
    BY <1>7, Thens DEF Owes, Idle
  <2> QED BY <2>1 DEF Owes
<1> QED BY <1>2, <1>5, <1>6, <1>7 DEF Aside

-------------------------------------------------------------------------------
(* What a thread does beside a flush *)

\* A thread that starts something disturbs nobody.
LEMMA StartKeeps ==
  ASSUME GmcpInv, NEW t \in Threads, NEW s \in Lines \cup Refreshes \cup {<<>>}, Starts(t, s),
         UNCHANGED <<truth, board, lock, batch, crossed>>
  PROVE  /\ todo' \in [Threads -> Seq(Steps)] /\ todo'[t] = s /\ \A u \in Threads \ {t} : todo'[u] = todo[u]
         /\ TodoInv' /\ LockInv' /\ BatchInv' /\ CacheInv' /\ FreshInv'
         /\ \A p : Owes(t, p) => Owes(t, p)'
<1>1. /\ todo' \in [Threads -> Seq(Steps)] /\ TodoInv' /\ todo'[t] = s
      /\ Aside(t) /\ (Holding(t)' <=> Holding(t))
      /\ \A p : Owes(t, p) => Owes(t, p)'
  <2>1. GmcpTypeOK /\ TodoInv /\ Idle(t) /\ todo' = [todo EXCEPT ![t] = s] /\ batch' = batch
    BY DEF GmcpInv, Starts
  <2> QED BY <2>1, StartAside
<1>2. \A u \in Threads \ {t} : todo'[u] = todo[u]
  BY <1>1 DEF Aside
<1>3. LockInv'
  BY <1>1, <1>2, LockKept DEF GmcpInv
<1>4. BatchInv' /\ CacheInv' /\ FreshInv'
  BY <1>1, BatchAside, CacheAside, FreshAside DEF GmcpInv, board
<1> QED BY <1>1, <1>2, <1>3, <1>4

\* What a client's event comes to
LEMMA EventIs ==
  ASSUME GmcpTypeOK, Event
  PROVE  \E on \in BOOLEAN, subs \in SUBSET Names :
           Becomes(on, subs) /\ Cardinality(subs) <= GMCP_MAX_SUBSCRIPTIONS /\ (~on => subs = {})
<1>1. /\ GMCP_MAX_SUBSCRIPTIONS \in Nat /\ IsFiniteSet(Names)
      /\ subscriptions \in SUBSET Names /\ Cardinality(subscriptions) <= GMCP_MAX_SUBSCRIPTIONS
  BY GmcpAssumption DEF GmcpTypeOK
<1>2. CASE Do
  BY <1>1, <1>2 DEF Do
<1>3. CASE Dont
  <2>1. Cardinality({}) <= GMCP_MAX_SUBSCRIPTIONS
    BY <1>1, FS_EmptySet
  <2> QED BY <1>3, <2>1 DEF Dont
<1>4. ASSUME NEW names \in SUBSET Names, Set(names) \/ Add(names) \/ Remove(names)
      PROVE  \E subs \in SUBSET Names : Becomes(TRUE, subs) /\ Cardinality(subs) <= GMCP_MAX_SUBSCRIPTIONS
  <2>1. CASE Set(names)
    BY <2>1 DEF Set
  <2>2. CASE Add(names)
    BY <1>1, <2>2 DEF Add
  <2>3. CASE Remove(names)
    <3> DEFINE rest == subscriptions \ names
    <3>1. IsFiniteSet(subscriptions)
      BY <1>1, FS_Subset
    <3>2. Cardinality(rest) <= Cardinality(subscriptions) /\ Cardinality(rest) \in Nat /\ Cardinality(subscriptions) \in Nat
      BY <3>1, FS_Subset, FS_CardinalityType
    <3>3. Cardinality(rest) <= GMCP_MAX_SUBSCRIPTIONS
      BY <1>1, <3>2
    <3> QED BY <1>1, <2>3, <3>3 DEF Remove
  <2> QED BY <1>4, <2>1, <2>2, <2>3
<1> QED BY <1>2, <1>3, <1>4 DEF Event

\* Who enters his first room, or has subscribed, is going to look at every package.
LEMMA LooksAtAll ==
  ASSUME NEW p \in Packages,
         NEW s \in {Then("lock", Then("alter", Then("clear", Telling(Done)))), Then("clear", Then("clear", Telling(<<>>)))}
  PROVE  Has(s, p) /\ s # Healing
<1>1. Has(s, p)
  <2>1. /\ Has(Then("alter", Then("clear", Telling(Done))), p) /\ Then("alter", Then("clear", Telling(Done))) \in Seq(Steps)
        /\ Has(Then("clear", Telling(<<>>)), p) /\ Then("clear", Telling(<<>>)) \in Seq(Steps)
    BY OthersAre, OthersHave DEF Packages
  <2>2. \A w \in Seq(Steps) : Has(w, p) => Has(Then("lock", w), p) /\ Has(Then("clear", w), p)
    BY Thens DEF Steps
  <2> QED BY <2>1, <2>2
<1>2. s # Healing
  <2>1. \A w \in Seq(Steps) : Head(Then("lock", w)) = "lock" /\ Tail(Then("lock", w)) = w /\ Head(Then("clear", w)) = "clear"
          /\ Head(Then("alter", w)) = "alter" /\ Head(Then("heal", w)) = "heal"
    BY Thens DEF Steps
  <2>2. Head(Healing) = "lock" /\ Head(Tail(Healing)) = "heal"
    <3>1. Then("unlock", Telling(<<>>)) \in Seq(Steps) /\ Then("heal", Then("unlock", Telling(<<>>))) \in Seq(Steps)
      BY OthersAre
    <3>2. Healing = Then("lock", Then("heal", Then("unlock", Telling(<<>>))))
      BY Lists
    <3> QED BY <2>1, <3>1, <3>2, Zenon
  <2>3. Head(Then("clear", Then("clear", Telling(<<>>)))) = "clear"
    BY <2>1, OthersAre
  <2>4. Head(Tail(Then("lock", Then("alter", Then("clear", Telling(Done)))))) = "alter"
    BY <2>1, OthersAre
  <2> QED BY <2>2, <2>3, <2>4
<1> QED BY <1>1, <1>2

\* A client's event.
LEMMA EventKeeps ==
  ASSUME GmcpInv, Event
  PROVE  GmcpInv'
<1>1. PICK on \in BOOLEAN, subs \in SUBSET Names :
        Becomes(on, subs) /\ Cardinality(subs) <= GMCP_MAX_SUBSCRIPTIONS /\ (~on => subs = {})
  BY EventIs DEF GmcpInv
<1> DEFINE steps == Refresh(on, subs)
<1>2. /\ Own \in Threads /\ Starts(Own, steps) /\ enabled' = on /\ subscriptions' = subs
      /\ UNCHANGED <<truth, board, session, batch, crossed>>
  BY <1>1 DEF Becomes, Threads
<1>3. (steps = <<>> /\ on = enabled /\ subs = subscriptions) \/ steps \in Refreshes
  BY Lists DEF Refresh, Forgets, Refreshes
<1>4. playing => (steps = <<>> /\ on = enabled /\ subs = subscriptions) \/ steps = Then("clear", Then("clear", Telling(<<>>)))
  BY Lists DEF Refresh, Forgets
<1>5. steps \in Lines \cup Refreshes \cup {<<>>}
  BY <1>3
<1> HIDE DEF steps
<1>6. /\ todo' \in [Threads -> Seq(Steps)] /\ todo'[Own] = steps /\ \A u \in Threads \ {Own} : todo'[u] = todo[u]
      /\ TodoInv' /\ LockInv' /\ BatchInv' /\ CacheInv' /\ FreshInv'
      /\ \A p : Owes(Own, p) => Owes(Own, p)'
  BY <1>2, <1>5, StartKeeps DEF session
<1>7. GmcpTypeOK'
  BY <1>1, <1>2, <1>6 DEF GmcpInv, GmcpTypeOK, board, session
<1>8. OwedInv'
  <2>1. CASE on = enabled /\ subs = subscriptions
    <3>1. UNCHANGED <<protocol, truth, shown, torn, playing, running, crossed>>
      BY <1>2, <2>1 DEF protocol, board, session
    <3>2. \A u \in Threads \ {Own} : todo'[u] = todo[u] /\ batch'[u] = batch[u]
      BY <1>2, <1>6
    <3>3. OwedInv
      BY DEF GmcpInv
    <3>4. Packages \in SUBSET Packages /\ \A p \in Packages : Owes(Own, p) => Owes(Own, p)'
      BY <1>6
    <3>5. \A p \in Packages \ torn' :
            playing' /\ running' /\ ~crossed' /\ Supports(p)' => shown'[p] = truth'[p] \/ \E u \in Threads : Owes(u, p)'
      BY <1>2, <3>1, <3>2, <3>3, <3>4, OwedKept
    <3> QED BY <3>5 DEF OwedInv
  <2>2. CASE playing /\ steps = Then("clear", Then("clear", Telling(<<>>)))
    <3>1. \A p \in Packages : Has(todo'[Own], p) /\ todo'[Own] # Healing
      BY <1>6, <2>2, LooksAtAll
    <3>2. \A p \in Packages : Owes(Own, p)'
      BY <3>1 DEF Owes, Has
    <3> QED BY <1>2, <3>2 DEF OwedInv
  <2>3. CASE ~playing
    BY <1>2, <2>3 DEF OwedInv, session
  <2> QED BY <1>4, <2>1, <2>2, <2>3
<1> QED BY <1>6, <1>7, <1>8 DEF GmcpInv

\* A login that is over.
LEMMA LogInKeeps ==
  ASSUME GmcpInv, LogIn
  PROVE  GmcpInv'
<1> DEFINE s == Then("lock", Then("alter", Then("clear", Telling(Done))))
<1>1. /\ Own \in Threads /\ Starts(Own, s) /\ playing' = TRUE /\ s \in Lines \cup Refreshes \cup {<<>>}
      /\ UNCHANGED <<protocol, truth, board, running, lock, batch, crossed>>
  BY Lists DEF LogIn, Threads, Lines
<1>2. s \in {Then("lock", Then("alter", Then("clear", Telling(Done)))), Then("clear", Then("clear", Telling(<<>>)))}
  OBVIOUS
<1> HIDE DEF s
<1>3. /\ todo' \in [Threads -> Seq(Steps)] /\ todo'[Own] = s
      /\ TodoInv' /\ LockInv' /\ BatchInv' /\ CacheInv' /\ FreshInv'
  BY <1>1, StartKeeps
<1>4. GmcpTypeOK'
  BY <1>1, <1>3 DEF GmcpInv, GmcpTypeOK, board, protocol
<1>5. OwedInv'
  <2>1. \A p \in Packages : Has(todo'[Own], p) /\ todo'[Own] # Healing
    BY <1>2, <1>3, LooksAtAll
  <2>2. \A p \in Packages : Owes(Own, p)'
    BY <2>1 DEF Owes, Has
  <2> QED BY <1>1, <2>2 DEF OwedInv
<1> QED BY <1>3, <1>4, <1>5 DEF GmcpInv

\* A thread that starts something while nothing else changes, or only the player goes.
LEMMA StartsKeep ==
  ASSUME GmcpInv, NEW t \in Threads, NEW s \in Lines \cup Refreshes \cup {<<>>}, Starts(t, s),
         UNCHANGED <<protocol, truth, board, session, batch, crossed>>
  PROVE  GmcpInv'
<1>1. /\ todo' \in [Threads -> Seq(Steps)] /\ \A u \in Threads \ {t} : todo'[u] = todo[u]
      /\ TodoInv' /\ LockInv' /\ BatchInv' /\ CacheInv' /\ FreshInv'
      /\ \A p : Owes(t, p) => Owes(t, p)'
  BY StartKeeps DEF session
<1>2. GmcpTypeOK'
  BY <1>1 DEF GmcpInv, GmcpTypeOK, board, protocol, session
<1>3. OwedInv'
  <2>1. OwedInv /\ UNCHANGED <<protocol, truth, shown, torn, playing, running, crossed>>
    BY DEF GmcpInv, board, session
  <2>2. \A u \in Threads \ {t} : todo'[u] = todo[u] /\ batch'[u] = batch[u]
    BY <1>1
  <2>3. \A p \in Packages \ torn' :
          playing' /\ running' /\ ~crossed' /\ Supports(p)' => shown'[p] = truth'[p] \/ \E u \in Threads : Owes(u, p)'
    BY <1>1, <2>1, <2>2, OwedKept
  <2> QED BY <2>3 DEF OwedInv
<1> QED BY <1>1, <1>2, <1>3 DEF GmcpInv

\* A line, an acorn, an administrator's heal, and the end of a connection.
LEMMA BeginsKeep ==
  ASSUME GmcpInv, Command \/ Disconnect \/ \E t \in Others : Hurt(t) \/ HealCommand(t)
  PROVE  GmcpInv'
<1>1. Own \in Threads /\ Others \subseteq Threads
  BY DEF Threads
<1>2. PICK t \in Threads, s \in Lines :
        Starts(t, s) /\ UNCHANGED <<protocol, truth, board, session, batch, crossed>>
  <2>1. CASE Command
    <3>1. Then("lock", Then("alter", Telling(Done))) \in Lines
      BY DEF Lines
    <3> QED BY <1>1, <2>1, <3>1, Lists DEF Command, Begins
  <2>2. CASE Disconnect
    <3>1. Then("lock", Then("detach", Done)) \in Lines
      BY DEF Lines
    <3> QED BY <1>1, <2>2, <3>1, Lists DEF Disconnect
  <2>3. CASE \E t \in Others : Hurt(t)
    <3>1. Then("lock", Then("alter", Telling(Done))) \in Lines
      BY DEF Lines
    <3> QED BY <1>1, <2>3, <3>1, Lists DEF Hurt, Begins
  <2>4. CASE \E t \in Others : HealCommand(t)
    BY <1>1, <2>4 DEF HealCommand, Begins, Lines
  <2> QED BY <2>1, <2>2, <2>3, <2>4
<1> QED BY <1>2, StartsKeep

\* "That player is busy"
LEMMA GiveUpKeeps ==
  ASSUME GmcpInv, NEW t \in Threads, GiveUp(t)
  PROVE  GmcpInv'
<1>1. /\ todo[t] = Healing /\ todo' = [todo EXCEPT ![t] = <<>>]
      /\ UNCHANGED <<protocol, truth, board, session, batch, crossed>>
  BY DEF GiveUp
<1>2. /\ todo' \in [Threads -> Seq(Steps)] /\ TodoInv' /\ Aside(t) /\ (Holding(t)' <=> Holding(t))
      /\ \A p : Owes(t, p) => Owes(t, p)'
  <2>1. GmcpTypeOK /\ TodoInv
    BY DEF GmcpInv
  <2> QED BY <1>1, <2>1, StartAside
<1>3. \A u \in Threads \ {t} : todo'[u] = todo[u] /\ batch'[u] = batch[u]
  BY <1>1, <1>2 DEF Aside
<1>4. LockInv' /\ BatchInv' /\ CacheInv' /\ FreshInv'
  BY <1>1, <1>2, <1>3, LockKept, BatchAside, CacheAside, FreshAside DEF GmcpInv, session
<1>5. GmcpTypeOK'
  BY <1>1, <1>2 DEF GmcpInv, GmcpTypeOK, board, protocol, session
<1>6. OwedInv'
  <2>1. OwedInv /\ UNCHANGED <<protocol, truth, shown, torn, playing, running, crossed>>
    BY <1>1 DEF GmcpInv, board, session
  <2>2. \A p \in Packages \ torn' :
          playing' /\ running' /\ ~crossed' /\ Supports(p)' => shown'[p] = truth'[p] \/ \E u \in Threads : Owes(u, p)'
    BY <1>2, <1>3, <2>1, OwedKept
  <2> QED BY <2>2 DEF OwedInv
<1> QED BY <1>2, <1>4, <1>5, <1>6 DEF GmcpInv

\* The connection ends.
LEMMA HangUpKeeps ==
  ASSUME GmcpInv, HangUp
  PROVE  GmcpInv'
<1>1. running' = FALSE /\ UNCHANGED <<protocol, truth, board, playing, lock, todo, batch, crossed>>
  BY DEF HangUp
<1>2. GmcpTypeOK'
  BY <1>1 DEF GmcpInv, GmcpTypeOK, board, protocol
<1>3. TodoInv' /\ LockInv' /\ BatchInv'
  BY <1>1 DEF GmcpInv, TodoInv, LockInv, Holding, Has, BatchInv, Flushing, At
<1>4. CacheInv' /\ FreshInv'
  BY <1>1 DEF GmcpInv, CacheInv, Caching, Package, Value, FreshInv, Flushing, At, board
<1>5. OwedInv'
  BY <1>1 DEF OwedInv
<1> QED BY <1>2, <1>3, <1>4, <1>5 DEF GmcpInv

\* What a thread that goes on, beside a flush, leaves alone.
LEMMA PassKeeps ==
  ASSUME GmcpInv, NEW t \in Threads, NEW x, At(t, x), Goes(t, <<>>), x \notin FlushSteps \cup {"Char.Vitals"},
         UNCHANGED <<truth, board, batch, crossed>>
  PROVE  /\ todo' \in [Threads -> Seq(Steps)] /\ TodoInv' /\ BatchInv' /\ CacheInv' /\ FreshInv'
         /\ \A u \in Threads \ {t} : todo'[u] = todo[u]
         /\ \A p \in Packages : Owes(t, p) => Owes(t, p)'
<1>1. GmcpTypeOK /\ TodoInv
  BY DEF GmcpInv
<1>2. todo' \in [Threads -> Seq(Steps)] /\ TodoInv' /\ \A u \in Threads \ {t} : todo'[u] = todo[u]
  BY <1>1, Passes
<1>3. Aside(t)
  BY <1>1, PassAside
<1>4. BatchInv' /\ CacheInv' /\ FreshInv'
  BY <1>3, BatchAside, CacheAside, FreshAside DEF GmcpInv, board
<1>5. ASSUME NEW p \in Packages, Owes(t, p)
      PROVE  Owes(t, p)'
  <2>1. x # p
    BY DEF FlushSteps, Packages
  <2> QED BY <1>1, <1>5, <2>1, PassOwes
<1> QED BY <1>2, <1>4, <1>5

\* The same, when nothing but the state_lock or the player changes hands.
LEMMA PassOwed ==
  ASSUME GmcpInv, NEW t \in Threads, NEW x, At(t, x), Goes(t, <<>>), x \notin FlushSteps \cup {"Char.Vitals"},
         UNCHANGED <<protocol, truth, shown, torn, running, batch, crossed>>, playing' => playing,
         \A u \in Threads \ {t} : todo'[u] = todo[u],
         \A p \in Packages : Owes(t, p) => Owes(t, p)'
  PROVE  OwedInv'
<1>1. OwedInv /\ \A u \in Threads \ {t} : todo'[u] = todo[u] /\ batch'[u] = batch[u]
  BY DEF GmcpInv
<1>2. \A p \in Packages \ torn' :
        playing' /\ running' /\ ~crossed' /\ Supports(p)' => shown'[p] = truth'[p] \/ \E u \in Threads : Owes(u, p)'
  BY <1>1, OwedKept
<1> QED BY <1>2 DEF OwedInv

\* A thread takes the state_lock.
LEMMA AcquireKeeps ==
  ASSUME GmcpInv, NEW t \in Threads, Acquire(t)
  PROVE  GmcpInv'
<1>1. /\ At(t, "lock") /\ lock = None /\ lock' = t /\ Goes(t, <<>>)
      /\ UNCHANGED <<protocol, truth, board, playing, running, batch, crossed>>
  BY DEF Acquire
<1>2. "lock" \notin FlushSteps \cup {"Char.Vitals"} /\ UNCHANGED <<shown, torn>>
  BY <1>1 DEF FlushSteps, board
<1>3. /\ todo' \in [Threads -> Seq(Steps)] /\ TodoInv' /\ BatchInv' /\ CacheInv' /\ FreshInv'
      /\ \A u \in Threads \ {t} : todo'[u] = todo[u]
      /\ \A p \in Packages : Owes(t, p) => Owes(t, p)'
  BY <1>1, <1>2, PassKeeps
<1>4. OwedInv'
  BY <1>1, <1>2, <1>3, PassOwed
<1>5. GmcpTypeOK'
  BY <1>1, <1>3 DEF GmcpInv, GmcpTypeOK, board, protocol
<1>6. LockInv'
  <2>1. None \notin Threads
    BY GmcpAssumption
  <2>2. Holding(t)'
    <3>1. /\ GmcpRest("lock", todo'[t]) /\ "lock" \in Steps /\ todo'[t] \in Seq(Steps)
          /\ todo'[t] # <<>> => Head(todo'[t]) # "lock"
      BY <1>1, Passes DEF GmcpInv
    <3>2. Has(todo'[t], "unlock")
      BY <3>1, RestsHave
    <3>3. todo'[t] # <<>>
      BY <3>2, Thens
    <3> QED BY <3>1, <3>2, <3>3 DEF Holding, Has
  <2>3. \A u \in Threads \ {t} : ~Holding(u)'
    <3>1. \A u \in Threads : ~Holding(u)
      BY <1>1, <2>1 DEF GmcpInv, LockInv
    <3> QED BY <1>3, <3>1 DEF Holding, Has
  <2> QED BY <1>1, <2>2, <2>3 DEF LockInv
<1> QED BY <1>3, <1>4, <1>5, <1>6 DEF GmcpInv

\* A thread returns the state_lock.
LEMMA ReleaseKeeps ==
  ASSUME GmcpInv, NEW t \in Threads, Release(t)
  PROVE  GmcpInv'
<1>1. /\ At(t, "unlock") /\ lock' = None /\ Goes(t, <<>>)
      /\ UNCHANGED <<protocol, truth, board, playing, running, batch, crossed>>
  BY DEF Release
<1>2. "unlock" \notin FlushSteps \cup {"Char.Vitals"} /\ UNCHANGED <<shown, torn>>
  BY <1>1 DEF FlushSteps, board
<1>3. /\ todo' \in [Threads -> Seq(Steps)] /\ TodoInv' /\ BatchInv' /\ CacheInv' /\ FreshInv'
      /\ \A u \in Threads \ {t} : todo'[u] = todo[u]
      /\ \A p \in Packages : Owes(t, p) => Owes(t, p)'
  BY <1>1, <1>2, PassKeeps
<1>4. OwedInv'
  BY <1>1, <1>2, <1>3, PassOwed
<1>5. GmcpTypeOK'
  BY <1>1, <1>3 DEF GmcpInv, GmcpTypeOK, board, protocol
<1>6. LockInv'
  <2>1. None \notin Threads
    BY GmcpAssumption
  <2>2. GmcpRest("unlock", todo'[t]) /\ "unlock" \in Steps /\ todo'[t] \in Seq(Steps) /\ Has(todo[t], "unlock")
    BY <1>1, Passes DEF GmcpInv
  <2>3. ~Holding(t)'
    <3>1. ~Has(todo'[t], "unlock")
      BY <2>2, RestsHave
    <3> QED BY <3>1 DEF Holding, Has
  <2>4. lock = t
    BY <1>1, <2>2 DEF GmcpInv, LockInv, Holding, At
  <2>5. \A u \in Threads \ {t} : ~Holding(u)'
    <3>1. \A u \in Threads \ {t} : ~Holding(u)
      BY <2>4 DEF GmcpInv, LockInv
    <3> QED BY <1>3, <3>1 DEF Holding, Has
  <2> QED BY <1>1, <2>1, <2>3, <2>5 DEF LockInv
<1> QED BY <1>3, <1>4, <1>5, <1>6 DEF GmcpInv

\* The player goes.
LEMMA DetachKeeps ==
  ASSUME GmcpInv, Detach
  PROVE  GmcpInv'
<1>1. /\ Own \in Threads /\ At(Own, "detach") /\ playing' = FALSE /\ Goes(Own, <<>>)
      /\ UNCHANGED <<protocol, truth, board, running, lock, batch, crossed>>
  BY DEF Detach, Threads
<1>2. "detach" \notin FlushSteps \cup {"Char.Vitals"} /\ "detach" \notin {"lock", "unlock"}
  BY DEF FlushSteps
<1>3. /\ todo' \in [Threads -> Seq(Steps)] /\ TodoInv' /\ BatchInv' /\ CacheInv' /\ FreshInv'
      /\ \A u \in Threads \ {Own} : todo'[u] = todo[u]
  BY <1>1, <1>2, PassKeeps
<1>4. GmcpTypeOK'
  BY <1>1, <1>3 DEF GmcpInv, GmcpTypeOK, board, protocol
<1>5. LockInv'
  BY <1>1, <1>2, <1>3, PassLock, LockKept DEF GmcpInv
<1>6. OwedInv'
  BY <1>1 DEF OwedInv
<1> QED BY <1>3, <1>4, <1>5, <1>6 DEF GmcpInv

\* A flush begins by forgetting.
LEMMA ClearKeeps ==
  ASSUME GmcpInv, NEW t \in Threads, Clear(t)
  PROVE  GmcpInv'
<1>1. /\ At(t, "clear") /\ cache' = [p \in Packages |-> None] /\ Goes(t, <<>>)
      /\ UNCHANGED <<protocol, truth, shown, torn, session, batch, crossed>>
  BY DEF Clear
<1>2. "clear" \notin FlushSteps \cup {"Char.Vitals"} /\ "clear" \notin {"lock", "unlock"} /\ "clear" \notin Packages
  BY DEF FlushSteps, Packages
<1>3. GmcpTypeOK /\ TodoInv
  BY DEF GmcpInv
<1>4. Aside(t) /\ todo' \in [Threads -> Seq(Steps)] /\ TodoInv' /\ \A u \in Threads \ {t} : todo'[u] = todo[u]
  BY <1>1, <1>2, <1>3, Passes, PassAside
<1>5. \A p \in Packages : Owes(t, p) => Owes(t, p)'
  BY <1>1, <1>2, <1>3, PassOwes
<1>6. GmcpTypeOK'
  BY <1>1, <1>4 DEF GmcpInv, GmcpTypeOK, session, protocol
<1>7. LockInv'
  BY <1>1, <1>2, <1>4, PassLock, LockKept DEF GmcpInv, session
<1>8. BatchInv' /\ FreshInv'
  BY <1>1, <1>4, BatchAside, FreshAside DEF GmcpInv
<1>9. CacheInv'
  <2>1. CacheInv /\ \A p \in Packages : cache'[p] = None
    BY <1>1 DEF GmcpInv
  <2> QED BY <1>1, <1>4, <2>1, CachingAside DEF CacheInv
<1>10. OwedInv'
  <2>1. UNCHANGED <<protocol, truth, shown, torn, running, batch, crossed, playing>>
    BY <1>1 DEF session
  <2> QED BY <1>1, <1>2, <1>4, <1>5, <2>1, PassOwed
<1> QED BY <1>4, <1>6, <1>7, <1>8, <1>9, <1>10 DEF GmcpInv

\* Two threads that will both return the state_lock do not both work.
LEMMA Exclusive ==
  ASSUME LockInv, NEW t \in Threads, NEW u \in Threads, ~Bare(t), ~Bare(u), GmcpTypeOK,
         Head(todo[t]) # "lock", Head(todo[u]) # "lock"
  PROVE  t = u
<1>1. DOMAIN todo[t] = 1..Len(todo[t]) /\ DOMAIN todo[u] = 1..Len(todo[u])
  BY DEF GmcpTypeOK
<1>2. Holding(t) /\ Holding(u)
  BY <1>1 DEF Bare, Holding, Has
<1> QED BY <1>2 DEF LockInv

\* A flush that meets nobody
LEMMA Alone ==
  ASSUME LockInv, NEW t \in Threads, GmcpTypeOK, ~Meets(t), Head(todo[t]) # "lock", NEW u \in Threads, Flushing(u)
  PROVE  u = t
<1>1. Head(todo[u]) # "lock"
  BY DEF Flushing, At
<1> QED BY <1>1, Exclusive DEF Meets

\* A command, an acorn or /heal changes what is true.
LEMMA ChangesKeep ==
  ASSUME GmcpInv, NEW t \in Threads, NEW x \in {"alter", "heal"}, NEW new \in [Packages -> Values],
         At(t, x), Changes(t, new)
  PROVE  GmcpInv'
<1>1. /\ truth' = (IF playing THEN new ELSE truth) /\ crossed' = (crossed \/ Meets(t)) /\ Goes(t, <<>>)
      /\ UNCHANGED <<protocol, board, session, batch>>
  BY DEF Changes
<1>2. x \notin FlushSteps \cup {"Char.Vitals"} /\ x \notin {"lock", "unlock"}
  BY DEF FlushSteps
<1>3. GmcpTypeOK /\ TodoInv
  BY DEF GmcpInv
<1>4. Aside(t) /\ todo' \in [Threads -> Seq(Steps)] /\ TodoInv' /\ \A u \in Threads \ {t} : todo'[u] = todo[u]
  BY <1>1, <1>2, <1>3, Passes, PassAside
<1>5. GmcpTypeOK'
  <2>1. {enabled', playing', running', crossed'} \subseteq BOOLEAN
    BY <1>1, <1>3 DEF GmcpTypeOK, Meets, protocol, session
  <2>2. truth' \in [Packages -> Values]
    BY <1>1, <1>3 DEF GmcpTypeOK
  <2> QED BY <1>1, <1>3, <1>4, <2>1, <2>2 DEF GmcpTypeOK, board, protocol, session
<1>6. LockInv'
  BY <1>1, <1>2, <1>3, <1>4, PassLock, LockKept DEF GmcpInv, session
<1>7. BatchInv' /\ CacheInv'
  BY <1>1, <1>4, BatchAside, CacheAside DEF GmcpInv
<1>8. x \in Steps /\ GmcpRest(x, todo'[t]) /\ todo'[t] \in Seq(Steps) /\ (todo'[t] # <<>> => Head(todo'[t]) # "lock")
  BY <1>1, <1>3, Passes
<1>9. FreshInv'
  <2> SUFFICES ASSUME ~crossed' PROVE \A u \in Threads : ~Flushing(u)' /\ batch'[u] = <<>>
    BY DEF FreshInv
  <2>1. ~Meets(t) /\ Head(todo[t]) # "lock"
    BY <1>1 DEF At
  <2>2. \A u \in Threads : Flushing(u) => u = t
    BY <1>3, <2>1, Alone DEF GmcpInv
  <2>3. \A u \in Threads : ~Flushing(u)
    BY <1>4, <2>2 DEF Aside
  <2>4. \A u \in Threads : batch[u] = <<>>
    BY <2>3 DEF GmcpInv, BatchInv
  <2> QED BY <1>1, <1>4, <2>3, <2>4 DEF Aside, Flushing, At
<1>10. OwedInv'
  <2>1. \A p \in Packages : Has(todo'[t], p)
    BY <1>8, RestsHave
  <2>2. todo'[t] # Healing
    BY <1>8, StartsAre DEF Lines
  <2>3. \A p \in Packages : Owes(t, p)'
    BY <2>1, <2>2 DEF Owes, Has
  <2> QED BY <2>3 DEF OwedInv
<1> QED BY <1>4, <1>5, <1>6, <1>7, <1>9, <1>10 DEF GmcpInv

-------------------------------------------------------------------------------
(* What a flush does *)

\* The first of a sequence, and the others.
LEMMA TailHas ==
  ASSUME NEW S, NEW s \in Seq(S), s # <<>>
  PROVE  /\ Head(s) \in S /\ Head(s) = s[1] /\ 1 \in 1..Len(s) /\ Tail(s) \in Seq(S)
         /\ \A i \in 1..Len(Tail(s)) : i + 1 \in 1..Len(s) /\ Tail(s)[i] = s[i + 1]
         /\ \A j \in 1..Len(s) : j = 1 \/ (j - 1 \in 1..Len(Tail(s)) /\ Tail(s)[j - 1] = s[j])
<1>1. Head(s) \in S /\ Tail(s) \in Seq(S) /\ Len(s) \in Nat \ {0} /\ Len(Tail(s)) = Len(s) - 1
  BY HeadTailProperties, EmptySeq
<1>2. Head(s) = s[1] /\ 1 \in 1..Len(s)
  BY <1>1
<1>3. \A i \in 1..Len(Tail(s)) : i + 1 \in 1..Len(s) /\ Tail(s)[i] = s[i + 1]
  BY <1>1, HeadTailProperties
<1>4. ASSUME NEW j \in 1..Len(s), j # 1
      PROVE  j - 1 \in 1..Len(Tail(s)) /\ Tail(s)[j - 1] = s[j]
  <2>1. j - 1 \in 1..Len(Tail(s)) /\ (j - 1) + 1 = j
    BY <1>1, <1>4
  <2> QED BY <1>3, <2>1
<1> QED BY <1>1, <1>2, <1>3, <1>4

\* Only thread t goes on, before or after it would cache a sending.
LEMMA CacheKept ==
  ASSUME CacheInv, NEW t \in Threads, UNCHANGED board,
         \A u \in Threads \ {t} : todo'[u] = todo[u] /\ batch'[u] = batch[u], ~At(t, "write"), ~At(t, "write")'
  PROVE  CacheInv'
<1>1. \A u \in Threads, p \in Packages : Caching(u, p)' <=> Caching(u, p)
  BY DEF Caching, At, Package
<1>2. \A u \in Threads, p \in Packages : Caching(u, p) => Value(u)' = Value(u)
  BY DEF Caching, At, Value
<1> QED BY <1>1, <1>2 DEF CacheInv, board

\* Only thread t goes on with its flush, and takes no new snapshot.
LEMMA FreshKept ==
  ASSUME FreshInv, NEW t \in Threads, Flushing(t), truth' = truth, crossed' = crossed,
         \A u \in Threads \ {t} : todo'[u] = todo[u] /\ batch'[u] = batch[u],
         \A i \in 1..Len(batch'[t]) : \E j \in 1..Len(batch[t]) : batch'[t][i] = batch[t][j]
  PROVE  FreshInv'
<1> SUFFICES ASSUME ~crossed' PROVE FreshInv'
  BY DEF FreshInv
<1>1. \A u, v \in Threads : Flushing(u)' /\ Flushing(v)' => u = v
  BY DEF FreshInv, Flushing, At
<1>2. \A u \in Threads : \A i \in 1..Len(batch'[u]) : batch'[u][i][2] = truth'[batch'[u][i][1]]
  BY DEF FreshInv
<1> QED BY <1>1, <1>2 DEF FreshInv

\* Only thread t goes on.
LEMMA BatchKept ==
  ASSUME BatchInv, NEW t \in Threads, \A u \in Threads \ {t} : todo'[u] = todo[u] /\ batch'[u] = batch[u],
         batch'[t] # <<>> => Flushing(t)', At(t, "gate")' \/ At(t, "send")' \/ At(t, "write")' => batch'[t] # <<>>
  PROVE  BatchInv'
BY DEF BatchInv, Flushing, At

\* A snapshot is taken, or there is none to take.
LEMMA SnapshotKeeps ==
  ASSUME GmcpInv, NEW t \in Threads, NEW p \in Packages, Snapshot(t, p)
  PROVE  GmcpInv'
<1> DEFINE entry == <<p, truth[p]>>
<1>1. /\ At(t, p) /\ Goes(t, <<>>) /\ UNCHANGED <<protocol, truth, board, session>>
      /\ crossed' = IF p = "Char.Vitals" THEN Meets(t) ELSE crossed
  BY DEF Snapshot, Snapshots
<1>2. \/ batch' = [batch EXCEPT ![t] = Append(batch[t], entry)]
      \/ batch' = batch /\ (~playing \/ ~Supports(p) \/ Absent(t, p))
  BY DEF Snapshot
<1>3. GmcpTypeOK /\ TodoInv
  BY DEF GmcpInv
<1>4. /\ todo' \in [Threads -> Seq(Steps)] /\ TodoInv'
      /\ \A u \in Threads \ {t} : todo'[u] = todo[u]
      /\ p \in Steps /\ todo'[t] \in Seq(Steps) /\ GmcpRest(p, todo'[t])
      /\ \A y : Has(todo[t], y) <=> (y = p \/ Has(todo'[t], y))
      /\ todo'[t] # <<>> => Head(todo'[t]) # "lock"
  BY <1>1, <1>3, Passes
<1>5. todo'[t] # <<>> /\ Head(todo'[t]) \in {"Room.Info", "check"}
  BY <1>4, RestsNext DEF Packages
<1>6. Flushing(t)' /\ ~At(t, "gate")' /\ ~At(t, "send")' /\ ~At(t, "write")' /\ ~At(t, "write")
  BY <1>1, <1>5 DEF Flushing, At, Packages
<1>7. batch \in [Threads -> Seq(Packages \X Values)] /\ entry \in Packages \X Values
  BY <1>3 DEF GmcpTypeOK
<1>8. /\ batch' \in [Threads -> Seq(Packages \X Values)] /\ \A u \in Threads \ {t} : batch'[u] = batch[u]
      /\ batch'[t] = batch[t] \/ batch'[t] = Append(batch[t], entry)
  <2>1. CASE batch' = batch
    BY <1>7, <2>1
  <2>2. CASE batch' = [batch EXCEPT ![t] = Append(batch[t], entry)]
    <3>1. Append(batch[t], entry) \in Seq(Packages \X Values)
      BY <1>7, AppendProperties
    <3> HIDE DEF entry
    <3> QED BY <1>7, <2>2, <3>1
  <2> QED BY <1>2, <2>1, <2>2
<1>9. GmcpTypeOK'
  <2>1. {enabled', playing', running', crossed'} \subseteq BOOLEAN
    BY <1>1, <1>3 DEF GmcpTypeOK, Meets, protocol, session
  <2> QED BY <1>1, <1>3, <1>4, <1>8, <2>1 DEF GmcpTypeOK, protocol, board, session
<1>10. LockInv'
  <2>1. p \notin {"lock", "unlock"}
    BY DEF Packages
  <2> QED BY <1>1, <1>3, <1>4, <2>1, PassLock, LockKept DEF GmcpInv, session
<1>11. BatchInv' /\ CacheInv'
  BY <1>1, <1>4, <1>6, <1>8, BatchKept, CacheKept DEF GmcpInv
<1>12. ASSUME NEW i \in 1..Len(batch'[t])
       PROVE  batch'[t][i] = entry \/ (i \in 1..Len(batch[t]) /\ batch'[t][i] = batch[t][i])
  <2>1. CASE batch'[t] = batch[t]
    BY <2>1
  <2>2. CASE batch'[t] = Append(batch[t], entry)
    <3>1. /\ batch[t] \in Seq(Packages \X Values) /\ Len(Append(batch[t], entry)) = Len(batch[t]) + 1
          /\ \A j \in 1..Len(batch[t]) : Append(batch[t], entry)[j] = batch[t][j]
          /\ Append(batch[t], entry)[Len(batch[t]) + 1] = entry
      BY <1>7, AppendProperties
    <3>2. i = Len(batch[t]) + 1 \/ i \in 1..Len(batch[t])
      BY <2>2, <3>1
    <3> QED BY <2>2, <3>1, <3>2
  <2> QED BY <1>8, <2>1, <2>2
<1>13. FreshInv'
  <2> SUFFICES ASSUME ~crossed' PROVE FreshInv'
    BY DEF FreshInv
  <2>1. \A u \in Threads : Flushing(u) => u = t
    <3>1. CASE p = "Char.Vitals"
      <4>1. ~Meets(t) /\ Head(todo[t]) # "lock"
        BY <1>1, <3>1 DEF At
      <4> QED BY <1>3, <4>1, Alone DEF GmcpInv
    <3>2. CASE p # "Char.Vitals"
      <4>1. Flushing(t) /\ ~crossed
        BY <1>1, <3>2 DEF Flushing, Packages
      <4> QED BY <4>1 DEF GmcpInv, FreshInv
    <3> QED BY <3>1, <3>2
  <2>2. \A u \in Threads : Flushing(u)' => u = t
    BY <1>4, <2>1 DEF Flushing, At
  <2>3. \A u \in Threads \ {t} : batch'[u] = <<>>
    BY <1>8, <2>1 DEF GmcpInv, BatchInv
  <2>4. \A i \in 1..Len(batch[t]) : batch[t][i][2] = truth[batch[t][i][1]]
    <3>1. CASE p = "Char.Vitals"
      <4>1. ~Flushing(t)
        BY <1>1, <3>1 DEF Flushing, At
      <4>2. batch[t] = <<>>
        BY <4>1 DEF GmcpInv, BatchInv
      <4> QED BY <4>2
    <3>2. CASE p # "Char.Vitals"
      BY <1>1, <3>2 DEF GmcpInv, FreshInv
    <3> QED BY <3>1, <3>2
  <2>5. truth' = truth /\ entry[2] = truth[entry[1]]
    BY <1>1
  <2>6. \A i \in 1..Len(batch'[t]) : batch'[t][i][2] = truth'[batch'[t][i][1]]
    BY <1>12, <2>4, <2>5
  <2>7. \A u \in Threads : \A i \in 1..Len(batch'[u]) : batch'[u][i][2] = truth'[batch'[u][i][1]]
    BY <2>3, <2>6
  <2> QED BY <2>2, <2>7 DEF FreshInv
<1>14. OwedInv'
  <2> SUFFICES ASSUME NEW q \in Packages \ torn, playing, running, ~crossed', Supports(q), shown[q] # truth[q]
      PROVE  \E u \in Threads : Owes(u, q)'
    BY <1>1 DEF OwedInv, Supports, protocol, board, session
  <2>1. CASE q = p
    <3>1. CASE batch' = [batch EXCEPT ![t] = Append(batch[t], entry)]
      <4>1. /\ batch[t] \in Seq(Packages \X Values) /\ Len(Append(batch[t], entry)) = Len(batch[t]) + 1
            /\ Append(batch[t], entry)[Len(batch[t]) + 1] = entry /\ Len(batch[t]) \in Nat
        BY <1>7, AppendProperties
      <4>2. batch'[t] = Append(batch[t], entry)
        BY <1>7, <3>1
      <4>3. Len(batch[t]) + 1 \in 1..Len(batch'[t]) /\ batch'[t][Len(batch[t]) + 1][1] = q
        BY <2>1, <4>1, <4>2
      <4>4. Owes(t, q)'
        BY <4>3 DEF Owes
      <4> QED BY <4>4
    <3>2. CASE batch' = batch /\ Absent(t, p)
      <4>1. PICK u \in Threads \ {t} : At(u, "alter")
        BY <3>2 DEF Absent
      <4>2. Has(todo[u], q)
        <5>1. /\ "alter" \in Steps /\ Tail(todo[u]) \in Seq(Steps) /\ GmcpRest("alter", Tail(todo[u]))
              /\ \A y : Has(todo[u], y) <=> (y = "alter" \/ Has(Tail(todo[u]), y))
          BY <1>3, <4>1, AtStep
        <5> QED BY <5>1, RestsHave
      <4>3. todo[u] # Healing
        BY <4>1, StartsAre DEF At, Lines
      <4>4. Owes(u, q)'
        BY <1>4, <4>1, <4>2, <4>3 DEF Owes, Has
      <4> QED BY <4>4
    <3> QED BY <1>2, <2>1, <3>1, <3>2
  <2>2. CASE q # p
    <3>1. CASE p = "Char.Vitals"
      <4>1. q = "Room.Info" /\ Has(todo'[t], q)
        BY <1>4, <2>2, <3>1, RestsHave DEF Packages
      <4>2. todo'[t] # Healing
        BY <1>4, <1>5, StartsAre DEF Lines
      <4>3. Owes(t, q)'
        BY <4>1, <4>2 DEF Owes, Has
      <4> QED BY <4>3
    <3>2. CASE p # "Char.Vitals"
      <4>1. ~crossed /\ OwedInv
        BY <1>1, <3>2 DEF GmcpInv
      <4>2. PICK u \in Threads : Owes(u, q)
        BY <4>1 DEF OwedInv
      <4>3. CASE u # t
        <5>1. Owes(u, q)'
          BY <1>4, <1>8, <4>2, <4>3 DEF Owes, Has
        <5> QED BY <5>1
      <4>4. CASE u = t /\ Has(todo[t], q)
        <5>1. Has(todo'[t], q) /\ todo'[t] # Healing
          BY <1>4, <1>5, <2>2, <4>4, StartsAre DEF Lines
        <5>2. Owes(t, q)'
          BY <5>1 DEF Owes, Has
        <5> QED BY <5>2
      <4>5. CASE u = t /\ ~Has(todo[t], q)
        <5>1. PICK i \in 1..Len(batch[t]) : batch[t][i][1] = q
          BY <4>2, <4>5 DEF Owes
        <5>2. i \in 1..Len(batch'[t]) /\ batch'[t][i] = batch[t][i]
          <6>1. CASE batch'[t] = batch[t]
            BY <6>1
          <6>2. CASE batch'[t] = Append(batch[t], entry)
            <7>1. /\ batch[t] \in Seq(Packages \X Values) /\ Len(Append(batch[t], entry)) = Len(batch[t]) + 1
                  /\ Len(batch[t]) \in Nat /\ \A j \in 1..Len(batch[t]) : Append(batch[t], entry)[j] = batch[t][j]
              BY <1>7, AppendProperties
            <7> QED BY <6>2, <7>1
          <6> QED BY <1>8, <6>1, <6>2
        <5>3. Owes(t, q)'
          BY <5>1, <5>2 DEF Owes
        <5> QED BY <5>3
      <4> QED BY <4>3, <4>4, <4>5
    <3> QED BY <3>1, <3>2
  <2> QED BY <2>1, <2>2
<1> QED BY <1>4, <1>9, <1>10, <1>11, <1>13, <1>14 DEF GmcpInv

\* The snapshot at hand.
LEMMA AtHand ==
  ASSUME GmcpTypeOK, NEW t \in Threads, batch[t] # <<>>
  PROVE  /\ batch[t] \in Seq(Packages \X Values) /\ Package(t) \in Packages /\ Value(t) \in Values
         /\ 1 \in 1..Len(batch[t]) /\ batch[t][1][1] = Package(t) /\ batch[t][1][2] = Value(t)
         /\ Tail(batch[t]) \in Seq(Packages \X Values)
<1>1. batch[t] \in Seq(Packages \X Values)
  BY DEF GmcpTypeOK
<1>2. Head(batch[t]) \in Packages \X Values /\ Head(batch[t]) = batch[t][1] /\ 1 \in 1..Len(batch[t])
      /\ Tail(batch[t]) \in Seq(Packages \X Values)
  BY <1>1, TailHas
<1> QED BY <1>1, <1>2 DEF Package, Value

\* Without the snapshot at hand a thread owes the other packages as before.
LEMMA DropOwes ==
  ASSUME GmcpTypeOK, NEW t \in Threads, batch[t] # <<>>, batch'[t] = Tail(batch[t]),
         NEW p \in Packages, p # Package(t), Owes(t, p), ~(todo[t] # Healing /\ Has(todo[t], p))
  PROVE  Owes(t, p)'
<1>1. PICK j \in 1..Len(batch[t]) : batch[t][j][1] = p
  BY DEF Owes
<1>2. j # 1
  BY <1>1, AtHand
<1>3. j - 1 \in 1..Len(batch'[t]) /\ batch'[t][j - 1] = batch[t][j]
  BY <1>2, AtHand, TailHas
<1> QED BY <1>1, <1>3 DEF Owes

\* The snapshots that are left without it.
LEMMA DropFresh ==
  ASSUME GmcpTypeOK, NEW t \in Threads, batch[t] # <<>>, batch'[t] = Tail(batch[t])
  PROVE  \A i \in 1..Len(batch'[t]) : \E j \in 1..Len(batch[t]) : batch'[t][i] = batch[t][j]
BY AtHand, TailHas

\* A flush that met nobody has at hand what is true.
LEMMA HandTrue ==
  ASSUME GmcpTypeOK, FreshInv, NEW t \in Threads, batch[t] # <<>>, ~crossed
  PROVE  Value(t) = truth[Package(t)]
<1>1. 1 \in 1..Len(batch[t]) /\ batch[t][1][1] = Package(t) /\ batch[t][1][2] = Value(t)
  BY AtHand
<1>2. \A i \in 1..Len(batch[t]) : batch[t][i][2] = truth[batch[t][i][1]]
  BY DEF FreshInv
<1> QED BY <1>1, <1>2

\* The flush is over.
LEMMA CheckEnds ==
  ASSUME GmcpInv, NEW t \in Threads, At(t, "check"), batch[t] = <<>>, Goes(t, <<>>),
         UNCHANGED <<protocol, truth, board, session, batch, crossed>>
  PROVE  GmcpInv'
<1>1. GmcpTypeOK /\ TodoInv /\ UNCHANGED <<shown, torn, playing, running, lock>>
  BY DEF GmcpInv, board, session
<1>2. /\ todo' \in [Threads -> Seq(Steps)] /\ TodoInv' /\ \A u \in Threads \ {t} : todo'[u] = todo[u]
      /\ "check" \in Steps /\ todo'[t] \in Seq(Steps) /\ GmcpRest("check", todo'[t])
  BY <1>1, Passes
<1>3. todo'[t] # <<>> => Head(todo'[t]) = "unlock"
  BY <1>2, RestsNext, EndsAre
<1>4. ~At(t, "gate")' /\ ~At(t, "send")' /\ ~At(t, "write")' /\ ~At(t, "write") /\ Flushing(t)
  BY <1>3 DEF At, Flushing
<1>5. GmcpTypeOK'
  BY <1>1, <1>2 DEF GmcpTypeOK, board, protocol
<1>6. LockInv'
  BY <1>1, <1>2, PassLock, LockKept DEF GmcpInv
<1>7. BatchInv' /\ CacheInv'
  BY <1>2, <1>4, BatchKept, CacheKept DEF GmcpInv
<1>8. FreshInv'
  BY <1>2, <1>4, FreshKept DEF GmcpInv
<1>9. OwedInv'
  <2>1. \A p \in Packages : Owes(t, p) => Owes(t, p)'
    BY <1>1, PassOwes DEF Packages
  <2>2. \A p \in Packages \ torn' :
          playing' /\ running' /\ ~crossed' /\ Supports(p)' => shown'[p] = truth'[p] \/ \E u \in Threads : Owes(u, p)'
    BY <1>1, <1>2, <2>1, OwedKept DEF GmcpInv
  <2> QED BY <2>2 DEF OwedInv
<1> QED BY <1>2, <1>5, <1>6, <1>7, <1>8, <1>9 DEF GmcpInv

\* What the client has is passed over.
LEMMA CheckDrops ==
  ASSUME GmcpInv, NEW t \in Threads, At(t, "check"), batch[t] # <<>>, cache[Package(t)] = Value(t),
         batch' = [batch EXCEPT ![t] = Tail(@)], UNCHANGED <<todo, protocol, truth, board, session, crossed>>
  PROVE  GmcpInv'
<1>1. GmcpTypeOK /\ UNCHANGED <<cache, shown, torn, playing, running, lock>>
  BY DEF GmcpInv, board, session
<1>2. batch' \in [Threads -> Seq(Packages \X Values)] /\ batch'[t] = Tail(batch[t]) /\ \A u \in Threads \ {t} : batch'[u] = batch[u]
  BY <1>1, AtHand DEF GmcpTypeOK
<1>3. Flushing(t) /\ Flushing(t)' /\ ~At(t, "gate")' /\ ~At(t, "send")' /\ ~At(t, "write")' /\ ~At(t, "write")
  BY DEF At, Flushing
<1>4. GmcpTypeOK'
  BY <1>1, <1>2 DEF GmcpTypeOK, protocol
<1>5. TodoInv' /\ LockInv'
  BY <1>1 DEF GmcpInv, TodoInv, LockInv, Holding, Has
<1>6. BatchInv' /\ CacheInv'
  BY <1>2, <1>3, BatchKept, CacheKept DEF GmcpInv
<1>7. FreshInv'
  BY <1>1, <1>2, <1>3, DropFresh, FreshKept DEF GmcpInv
<1>8. OwedInv'
  <2>1. \A p \in Packages \ {Package(t)} : Owes(t, p) => Owes(t, p)'
    <3> SUFFICES ASSUME NEW p \in Packages \ {Package(t)}, Owes(t, p) PROVE Owes(t, p)'
      OBVIOUS
    <3>1. CASE todo[t] # Healing /\ Has(todo[t], p)
      BY <3>1 DEF Owes, Has
    <3>2. CASE ~(todo[t] # Healing /\ Has(todo[t], p))
      BY <1>1, <1>2, <3>2, DropOwes
    <3> QED BY <3>1, <3>2
  <2>2. \A p \in (Packages \ {Package(t)}) \ torn' :
          playing' /\ running' /\ ~crossed' /\ Supports(p)' => shown'[p] = truth'[p] \/ \E u \in Threads : Owes(u, p)'
    <3>1. Packages \ {Package(t)} \in SUBSET Packages
      OBVIOUS
    <3> QED BY <1>1, <1>2, <2>1, <3>1, OwedKept DEF GmcpInv
  <2>3. ASSUME Package(t) \notin torn, ~crossed
        PROVE  shown[Package(t)] = truth[Package(t)]
    <3>1. Package(t) \in Packages \ torn /\ Value(t) \in Values
      BY <1>1, <2>3, AtHand
    <3>2. Value(t) = truth[Package(t)]
      BY <1>1, <2>3, HandTrue DEF GmcpInv
    <3>3. \A u \in Threads : ~Caching(u, Package(t))
      <4>1. \A u \in Threads : Flushing(u) => u = t
        BY <1>3, <2>3 DEF GmcpInv, FreshInv
      <4>2. \A u \in Threads : At(u, "write") => Flushing(u)
        BY DEF Flushing
      <4> QED BY <1>3, <4>1, <4>2 DEF Caching
    <3>4. cache[Package(t)] # None
      BY <3>1, GmcpAssumption
    <3>5. shown[Package(t)] = cache[Package(t)]
      BY <3>1, <3>3, <3>4 DEF GmcpInv, CacheInv
    <3> QED BY <3>2, <3>5
  <2> QED BY <1>1, <2>2, <2>3 DEF OwedInv
<1> QED BY <1>4, <1>5, <1>6, <1>7, <1>8 DEF GmcpInv

\* What the client has not is going to be sent.
LEMMA CheckRequests ==
  ASSUME GmcpInv, NEW t \in Threads, At(t, "check"), batch[t] # <<>>, Goes(t, <<"gate", "send", "write", "check">>),
         UNCHANGED <<protocol, truth, board, session, batch, crossed>>
  PROVE  GmcpInv'
<1>1. GmcpTypeOK /\ TodoInv /\ UNCHANGED <<shown, torn, playing, running, lock>>
  BY DEF GmcpInv, board, session
<1>2. /\ todo' \in [Threads -> Seq(Steps)] /\ TodoInv' /\ \A u \in Threads \ {t} : todo'[u] = todo[u]
      /\ todo'[t] # <<>> /\ Head(todo'[t]) = "gate"
      /\ \A y \in Packages \cup {"unlock"} : Has(todo'[t], y) <=> Has(todo[t], y)
  BY <1>1, Requests
<1>3. Flushing(t) /\ Flushing(t)' /\ ~At(t, "write")' /\ ~At(t, "write")
  BY <1>2 DEF At, Flushing
<1>4. GmcpTypeOK'
  BY <1>1, <1>2 DEF GmcpTypeOK, board, protocol
<1>5. LockInv'
  <2>1. Holding(t)' <=> Holding(t)
    BY <1>2 DEF Holding, At
  <2> QED BY <1>1, <1>2, <2>1, LockKept DEF GmcpInv
<1>6. BatchInv' /\ CacheInv'
  BY <1>2, <1>3, BatchKept, CacheKept DEF GmcpInv
<1>7. FreshInv'
  BY <1>2, <1>3, FreshKept DEF GmcpInv
<1>8. OwedInv'
  <2>1. todo'[t] # Healing
    BY <1>2, StartsAre DEF Lines
  <2>2. \A p \in Packages : Owes(t, p) => Owes(t, p)'
    BY <1>2, <2>1 DEF Owes
  <2>3. \A p \in Packages \ torn' :
          playing' /\ running' /\ ~crossed' /\ Supports(p)' => shown'[p] = truth'[p] \/ \E u \in Threads : Owes(u, p)'
    BY <1>1, <1>2, <2>2, OwedKept DEF GmcpInv
  <2> QED BY <2>3 DEF OwedInv
<1> QED BY <1>2, <1>4, <1>5, <1>6, <1>7, <1>8 DEF GmcpInv

\* A flush looks at the next snapshot.
LEMMA CheckKeeps ==
  ASSUME GmcpInv, NEW t \in Threads, Check(t)
  PROVE  GmcpInv'
<1>1. At(t, "check") /\ UNCHANGED <<protocol, truth, board, session, crossed>>
  BY DEF Check
<1>2. CASE batch[t] = <<>>
  BY <1>1, <1>2, CheckEnds DEF Check
<1>3. CASE batch[t] # <<>> /\ cache[Package(t)] = Value(t)
  BY <1>1, <1>3, CheckDrops DEF Check
<1>4. CASE batch[t] # <<>> /\ cache[Package(t)] # Value(t)
  BY <1>1, <1>4, CheckRequests DEF Check
<1> QED BY <1>2, <1>3, <1>4

\* A flush is left when there is nobody to tell any more.
LEMMA BreakKeeps ==
  ASSUME GmcpInv, NEW t \in Threads, At(t, "gate") \/ At(t, "send"), Break(t), running' \in BOOLEAN,
         ~running' \/ ~enabled, UNCHANGED <<protocol, truth, board, playing, lock, crossed>>
  PROVE  GmcpInv'
<1>1. GmcpTypeOK /\ TodoInv
  BY DEF GmcpInv
<1>2. /\ todo' \in [Threads -> Seq(Steps)] /\ TodoInv'
      /\ \A u \in Threads \ {t} : todo'[u] = todo[u] /\ batch'[u] = batch[u]
      /\ todo'[t] \in Ends /\ batch'[t] = <<>>
      /\ Has(todo'[t], "unlock") <=> Has(todo[t], "unlock")
  BY <1>1, Breaks
<1>3. (todo'[t] # <<>> => Head(todo'[t]) = "unlock") /\ (Has(todo'[t], "unlock") => todo'[t] # <<>>)
  BY <1>2, EndsAre
<1>4. Flushing(t) /\ ~At(t, "gate")' /\ ~At(t, "send")' /\ ~At(t, "write")' /\ ~At(t, "write")
  BY <1>3 DEF At, Flushing
<1>5. GmcpTypeOK'
  <2>1. batch' \in [Threads -> Seq(Packages \X Values)]
    <3>1. batch' = [batch EXCEPT ![t] = <<>>] /\ <<>> \in Seq(Packages \X Values)
      BY DEF Break
    <3> QED BY <1>1, <3>1 DEF GmcpTypeOK
  <2> QED BY <1>1, <1>2, <2>1 DEF GmcpTypeOK, protocol, board
<1>6. LockInv'
  <2>1. Holding(t)' <=> Holding(t)
    BY <1>2, <1>3 DEF Holding, At
  <2> QED BY <1>2, <2>1, LockKept DEF GmcpInv
<1>7. BatchInv' /\ CacheInv'
  BY <1>2, <1>4, BatchKept, CacheKept DEF GmcpInv
<1>8. FreshInv'
  <2>1. \A i \in 1..Len(batch'[t]) : \E j \in 1..Len(batch[t]) : batch'[t][i] = batch[t][j]
    BY <1>2, EmptySeq
  <2> QED BY <1>2, <1>4, <2>1, FreshKept DEF GmcpInv
<1>9. OwedInv'
  BY DEF OwedInv, Supports, protocol
<1> QED BY <1>2, <1>5, <1>6, <1>7, <1>8, <1>9 DEF GmcpInv

\* send_gmcp may send.
LEMMA GateKeeps ==
  ASSUME GmcpInv, NEW t \in Threads, Gate(t)
  PROVE  GmcpInv'
<1>1. At(t, "gate") /\ UNCHANGED <<protocol, truth, board, session, crossed>>
  BY DEF Gate
<1>2. GmcpTypeOK /\ TodoInv /\ UNCHANGED <<shown, torn, playing, running, lock>>
  BY <1>1 DEF GmcpInv, board, session
<1>3. CASE ~(running /\ enabled)
  <2>1. Break(t)
    BY <1>3 DEF Gate
  <2>2. running' \in BOOLEAN /\ (~running' \/ ~enabled)
    BY <1>2, <1>3 DEF GmcpTypeOK
  <2> QED BY <1>1, <1>2, <2>1, <2>2, BreakKeeps
<1>4. CASE running /\ enabled
  <2>1. Goes(t, <<>>) /\ batch' = batch
    BY <1>4 DEF Gate
  <2>2. /\ todo' \in [Threads -> Seq(Steps)] /\ TodoInv' /\ \A u \in Threads \ {t} : todo'[u] = todo[u]
        /\ "gate" \in Steps /\ todo'[t] \in Seq(Steps) /\ GmcpRest("gate", todo'[t])
    BY <1>1, <1>2, <2>1, Passes
  <2>3. todo'[t] # <<>> /\ Head(todo'[t]) = "send"
    BY <2>2, RestsNext
  <2>4. Flushing(t) /\ Flushing(t)' /\ ~At(t, "write")' /\ ~At(t, "write") /\ batch[t] # <<>>
    BY <1>1, <2>3 DEF At, Flushing, GmcpInv, BatchInv
  <2>5. GmcpTypeOK'
    BY <1>1, <1>2, <2>1, <2>2 DEF GmcpTypeOK, board, protocol
  <2>6. LockInv'
    BY <1>1, <1>2, <2>1, <2>2, PassLock, LockKept DEF GmcpInv
  <2>7. BatchInv' /\ CacheInv'
    BY <1>1, <2>1, <2>2, <2>4, BatchKept, CacheKept DEF GmcpInv
  <2>8. FreshInv'
    BY <1>1, <2>1, <2>2, <2>4, FreshKept DEF GmcpInv
  <2>9. OwedInv'
    <3>1. \A p \in Packages : Owes(t, p) => Owes(t, p)'
      BY <1>1, <1>2, <2>1, PassOwes DEF Packages
    <3>2. \A p \in Packages \ torn' :
            playing' /\ running' /\ ~crossed' /\ Supports(p)' => shown'[p] = truth'[p] \/ \E u \in Threads : Owes(u, p)'
      BY <1>1, <1>2, <2>1, <2>2, <3>1, OwedKept DEF GmcpInv
    <3> QED BY <3>2 DEF OwedInv
  <2> QED BY <2>2, <2>5, <2>6, <2>7, <2>8, <2>9 DEF GmcpInv
<1> QED BY <1>3, <1>4

\* The connection fails under a sending.
LEMMA SendFailsKeeps ==
  ASSUME GmcpInv, NEW t \in Threads, SendFails(t)
  PROVE  GmcpInv'
BY BreakKeeps DEF SendFails

\* The client is told.
LEMMA SendKeeps ==
  ASSUME GmcpInv, NEW t \in Threads, Send(t)
  PROVE  GmcpInv'
<1> DEFINE P == Package(t)
           raced == \E u \in Threads \ {t} : At(u, "write") /\ Package(u) = P
<1>1. /\ At(t, "send") /\ Goes(t, <<>>) /\ shown' = [shown EXCEPT ![P] = Value(t)]
      /\ torn' = (IF raced THEN torn \cup {P} ELSE torn \ {P})
      /\ UNCHANGED <<protocol, truth, cache, session, batch, crossed>>
  BY DEF Send
<1>2. GmcpTypeOK /\ TodoInv /\ UNCHANGED <<playing, running, lock>>
  BY <1>1 DEF GmcpInv, session
<1>3. /\ todo' \in [Threads -> Seq(Steps)] /\ TodoInv' /\ \A u \in Threads \ {t} : todo'[u] = todo[u]
      /\ "send" \in Steps /\ todo'[t] \in Seq(Steps) /\ GmcpRest("send", todo'[t])
  BY <1>1, <1>2, Passes
<1>4. todo'[t] # <<>> /\ Head(todo'[t]) = "write"
  BY <1>3, RestsNext
<1>5. Flushing(t) /\ Flushing(t)' /\ At(t, "write")' /\ ~At(t, "write") /\ batch[t] # <<>>
  BY <1>1, <1>4 DEF At, Flushing, GmcpInv, BatchInv
<1>6. P \in Packages /\ Value(t) \in Values
  BY <1>2, <1>5, AtHand
<1>7. shown' \in [Packages -> Values \cup {None}] /\ shown'[P] = Value(t) /\ \A p \in Packages \ {P} : shown'[p] = shown[p]
  BY <1>1, <1>2, <1>6 DEF GmcpTypeOK
<1>8. GmcpTypeOK'
  BY <1>1, <1>2, <1>3, <1>6, <1>7 DEF GmcpTypeOK, protocol
<1>9. LockInv'
  BY <1>1, <1>2, <1>3, PassLock, LockKept DEF GmcpInv
<1>10. BatchInv'
  BY <1>1, <1>3, <1>5, BatchKept DEF GmcpInv
<1>11. CacheInv'
  <2> SUFFICES ASSUME NEW p \in Packages \ torn'
      PROVE  /\ \A u, v \in Threads : Caching(u, p)' /\ Caching(v, p)' => u = v
             /\ \A u \in Threads : Caching(u, p)' => shown'[p] = Value(u)'
             /\ (\A u \in Threads : ~Caching(u, p)') /\ cache'[p] # None => shown'[p] = cache'[p]
    BY DEF CacheInv
  <2>1. \A u \in Threads : Value(u)' = Value(u) /\ Package(u)' = Package(u)
    BY <1>1 DEF Value, Package
  <2>2. \A u \in Threads \ {t} : Caching(u, p)' <=> Caching(u, p)
    BY <1>3, <2>1 DEF Caching, At
  <2>3. Caching(t, p)' <=> P = p
    BY <1>5, <2>1 DEF Caching
  <2>4. CASE p = P
    <3>1. ~raced
      BY <1>1, <2>4
    <3>2. \A u \in Threads \ {t} : ~Caching(u, p)
      BY <2>4, <3>1 DEF Caching
    <3> QED BY <1>7, <2>1, <2>2, <2>3, <2>4, <3>2
  <2>5. CASE p # P
    <3>1. p \in Packages \ torn /\ shown'[p] = shown[p] /\ cache'[p] = cache[p]
      BY <1>1, <1>7, <2>5
    <3>2. \A u \in Threads : Caching(u, p)' <=> Caching(u, p)
      BY <1>5, <2>2, <2>3, <2>5 DEF Caching
    <3>3. /\ \A u, v \in Threads : Caching(u, p) /\ Caching(v, p) => u = v
          /\ \A u \in Threads : Caching(u, p) => shown[p] = Value(u)
          /\ (\A u \in Threads : ~Caching(u, p)) /\ cache[p] # None => shown[p] = cache[p]
      BY <3>1 DEF GmcpInv, CacheInv
    <3> QED BY <2>1, <3>1, <3>2, <3>3
  <2> QED BY <2>4, <2>5
<1>12. FreshInv'
  BY <1>1, <1>3, <1>5, FreshKept DEF GmcpInv
<1>13. OwedInv'
  <2> SUFFICES ASSUME NEW p \in Packages \ torn', playing, running, ~crossed, Supports(p), shown'[p] # truth[p]
      PROVE  \E u \in Threads : Owes(u, p)'
    BY <1>1, <1>2 DEF OwedInv, Supports, protocol
  <2>1. p # P
    BY <1>2, <1>5, <1>7, HandTrue DEF GmcpInv
  <2>2. p \in Packages \ torn /\ shown[p] # truth[p]
    BY <1>1, <1>7, <2>1
  <2>3. PICK u \in Threads : Owes(u, p)
    BY <2>2 DEF GmcpInv, OwedInv
  <2>4. CASE u = t
    <3>1. "send" # p
      BY DEF Packages
    <3>2. Owes(t, p)'
      BY <1>1, <1>2, <2>3, <2>4, <3>1, PassOwes
    <3> QED BY <3>2
  <2>5. CASE u # t
    <3>1. Owes(u, p)'
      BY <1>1, <1>3, <2>3, <2>5 DEF Owes, Has
    <3> QED BY <3>1
  <2> QED BY <2>4, <2>5
<1> QED BY <1>3, <1>8, <1>9, <1>10, <1>11, <1>12, <1>13 DEF GmcpInv

\* What was sent is cached.
LEMMA WriteKeeps ==
  ASSUME GmcpInv, NEW t \in Threads, Write(t)
  PROVE  GmcpInv'
<1> DEFINE P == Package(t)
<1>1. /\ At(t, "write") /\ Goes(t, <<>>) /\ cache' = [cache EXCEPT ![P] = Value(t)]
      /\ batch' = [batch EXCEPT ![t] = Tail(@)]
      /\ UNCHANGED <<protocol, truth, shown, torn, session, crossed>>
  BY DEF Write
<1>2. GmcpTypeOK /\ TodoInv /\ UNCHANGED <<playing, running, lock>>
  BY <1>1 DEF GmcpInv, session
<1>3. /\ todo' \in [Threads -> Seq(Steps)] /\ TodoInv' /\ \A u \in Threads \ {t} : todo'[u] = todo[u]
      /\ "write" \in Steps /\ todo'[t] \in Seq(Steps) /\ GmcpRest("write", todo'[t])
      /\ \A y : Has(todo[t], y) <=> (y = "write" \/ Has(todo'[t], y))
  BY <1>1, <1>2, Passes
<1>4. todo'[t] # <<>> /\ Head(todo'[t]) = "check"
  BY <1>3, RestsNext
<1>5. /\ Flushing(t) /\ Flushing(t)' /\ ~At(t, "write")' /\ ~At(t, "gate")' /\ ~At(t, "send")'
      /\ batch[t] # <<>>
  BY <1>1, <1>4 DEF At, Flushing, GmcpInv, BatchInv
<1>6. P \in Packages /\ Value(t) \in Values /\ Tail(batch[t]) \in Seq(Packages \X Values)
  BY <1>2, <1>5, AtHand
<1>7. cache' \in [Packages -> Values \cup {None}] /\ cache'[P] = Value(t) /\ \A p \in Packages \ {P} : cache'[p] = cache[p]
  BY <1>1, <1>2, <1>6 DEF GmcpTypeOK
<1>8. batch' \in [Threads -> Seq(Packages \X Values)] /\ batch'[t] = Tail(batch[t]) /\ \A u \in Threads \ {t} : batch'[u] = batch[u]
  BY <1>1, <1>2, <1>6 DEF GmcpTypeOK
<1>9. GmcpTypeOK'
  BY <1>1, <1>2, <1>3, <1>7, <1>8 DEF GmcpTypeOK, protocol
<1>10. LockInv'
  BY <1>1, <1>2, <1>3, PassLock, LockKept DEF GmcpInv
<1>11. BatchInv'
  BY <1>3, <1>5, <1>8, BatchKept DEF GmcpInv
<1>12. FreshInv'
  BY <1>1, <1>2, <1>3, <1>5, <1>8, DropFresh, FreshKept DEF GmcpInv
<1>13. \A p \in Packages \ torn :
         /\ \A u, v \in Threads : Caching(u, p) /\ Caching(v, p) => u = v
         /\ \A u \in Threads : Caching(u, p) => shown[p] = Value(u)
         /\ (\A u \in Threads : ~Caching(u, p)) /\ cache[p] # None => shown[p] = cache[p]
  BY DEF GmcpInv, CacheInv
<1>14. CacheInv'
  <2> SUFFICES ASSUME NEW p \in Packages \ torn
      PROVE  /\ \A u, v \in Threads : Caching(u, p)' /\ Caching(v, p)' => u = v
             /\ \A u \in Threads : Caching(u, p)' => shown[p] = Value(u)'
             /\ (\A u \in Threads : ~Caching(u, p)') /\ cache'[p] # None => shown[p] = cache'[p]
    BY <1>1 DEF CacheInv
  <2>1. \A u \in Threads \ {t} : (Caching(u, p)' <=> Caching(u, p)) /\ Value(u)' = Value(u)
    BY <1>3, <1>8 DEF Caching, At, Package, Value
  <2>2. ~Caching(t, p)'
    BY <1>5 DEF Caching
  <2>3. CASE p = P
    <3>1. Caching(t, p)
      BY <1>1, <2>3 DEF Caching
    <3>2. \A u \in Threads : ~Caching(u, p)'
      BY <1>13, <2>1, <2>2, <3>1
    <3>3. shown[p] = cache'[p]
      BY <1>7, <1>13, <2>3, <3>1
    <3> QED BY <3>2, <3>3
  <2>4. CASE p # P
    <3>1. ~Caching(t, p) /\ cache'[p] = cache[p]
      BY <1>7, <2>4 DEF Caching
    <3> QED BY <1>13, <2>1, <2>2, <3>1
  <2> QED BY <2>3, <2>4
<1>15. OwedInv'
  <2> SUFFICES ASSUME NEW p \in Packages \ torn, playing, running, ~crossed, Supports(p), shown[p] # truth[p]
      PROVE  \E u \in Threads : Owes(u, p)'
    BY <1>1, <1>2 DEF OwedInv, Supports, protocol
  <2>1. p # P
    <3>1. Value(t) = truth[P]
      BY <1>2, <1>5, HandTrue DEF GmcpInv
    <3>2. P = p => Caching(t, p)
      BY <1>1 DEF Caching
    <3> QED BY <1>13, <3>1, <3>2
  <2>2. PICK u \in Threads : Owes(u, p)
    BY DEF GmcpInv, OwedInv
  <2>3. CASE u # t
    <3>1. Owes(u, p)'
      BY <1>3, <1>8, <2>2, <2>3 DEF Owes, Has
    <3> QED BY <3>1
  <2>4. CASE u = t /\ Has(todo[t], p)
    <3>1. Has(todo'[t], p) /\ todo'[t] # Healing
      BY <1>3, <1>4, <2>4, StartsAre DEF Packages, Lines
    <3>2. Owes(t, p)'
      BY <3>1 DEF Owes, Has
    <3> QED BY <3>2
  <2>5. CASE u = t /\ ~Has(todo[t], p)
    <3>1. Owes(t, p)'
      BY <1>2, <1>5, <1>8, <2>1, <2>2, <2>5, DropOwes
    <3> QED BY <3>1
  <2> QED BY <2>3, <2>4, <2>5
<1> QED BY <1>3, <1>9, <1>10, <1>11, <1>12, <1>14, <1>15 DEF GmcpInv

-------------------------------------------------------------------------------
(* The invariant and what follows from it *)

\* The invariant holds at first.
LEMMA InitHolds ==
  ASSUME Init
  PROVE  GmcpInv
<1>1. GmcpTypeOK
  <2>1. subscriptions \subseteq Names /\ Cardinality(subscriptions) <= GMCP_MAX_SUBSCRIPTIONS
    BY GmcpAssumption, FS_EmptySet DEF Init
  <2>2. todo \in [Threads -> Seq(Steps)] /\ batch \in [Threads -> Seq(Packages \X Values)]
    BY DEF Init
  <2> QED BY <2>1, <2>2 DEF Init, GmcpTypeOK
<1>2. \A t \in Threads : todo[t] = <<>> /\ batch[t] = <<>>
  BY DEF Init
<1>3. \A t \in Threads : (\A x : ~At(t, x)) /\ ~Flushing(t)
  BY <1>2 DEF At, Flushing
<1>4. TodoInv
  BY <1>2 DEF TodoInv, GmcpTodo
<1>5. LockInv
  <2>1. \A t \in Threads : ~Holding(t) /\ lock # t
    BY <1>2, Thens, GmcpAssumption DEF Holding, Init
  <2> QED BY <2>1 DEF LockInv
<1>6. BatchInv
  BY <1>2, <1>3 DEF BatchInv
<1>7. CacheInv
  BY <1>3 DEF Init, CacheInv, Caching
<1>8. FreshInv
  BY <1>2, <1>3, EmptySeq DEF FreshInv
<1>9. OwedInv
  BY DEF Init, OwedInv
<1> QED BY <1>1, <1>4, <1>5, <1>6, <1>7, <1>8, <1>9 DEF GmcpInv

\* Every step keeps it.
LEMMA NextKeeps ==
  ASSUME GmcpInv, Next
  PROVE  GmcpInv'
<1>1. Others \subseteq Threads
  BY DEF Threads
<1>2. CASE Event
  BY <1>2, EventKeeps
<1>3. CASE LogIn
  BY <1>3, LogInKeeps
<1>4. CASE Command \/ Disconnect \/ \E t \in Others : Hurt(t) \/ HealCommand(t)
  BY <1>4, BeginsKeep
<1>5. CASE HangUp
  BY <1>5, HangUpKeeps
<1>6. CASE Detach
  BY <1>6, DetachKeeps
<1>7. CASE \E t \in Others : GiveUp(t)
  BY <1>1, <1>7, GiveUpKeeps
<1>8. CASE \E t \in Threads : Acquire(t) \/ Release(t)
  BY <1>8, AcquireKeeps, ReleaseKeeps
<1>9. CASE \E t \in Threads : Alter(t) \/ Heal(t)
  <2>1. PICK t \in Threads : Alter(t) \/ Heal(t)
    BY <1>9
  <2>2. PICK x \in {"alter", "heal"}, new \in [Packages -> Values] : At(t, x) /\ Changes(t, new)
    <3>1. CASE Alter(t)
      BY <3>1 DEF Alter
    <3>2. CASE Heal(t)
      <4>1. \A v \in Values : [truth EXCEPT !["Char.Vitals"] = v] \in [Packages -> Values]
        BY DEF GmcpInv, GmcpTypeOK
      <4> QED BY <3>2, <4>1 DEF Heal
    <3> QED BY <2>1, <3>1, <3>2
  <2> QED BY <2>2, ChangesKeep
<1>10. CASE \E t \in Threads : Flushes(t)
  <2>1. PICK t \in Threads : Flushes(t)
    BY <1>10
  <2>2. CASE Clear(t)
    BY <2>2, ClearKeeps
  <2>3. CASE \E p \in Packages : Snapshot(t, p)
    BY <2>3, SnapshotKeeps
  <2>4. CASE Check(t)
    BY <2>4, CheckKeeps
  <2>5. CASE Gate(t)
    BY <2>5, GateKeeps
  <2>6. CASE Send(t)
    BY <2>6, SendKeeps
  <2>7. CASE SendFails(t)
    BY <2>7, SendFailsKeeps
  <2>8. CASE Write(t)
    BY <2>8, WriteKeeps
  <2> QED BY <2>1, <2>2, <2>3, <2>4, <2>5, <2>6, <2>7, <2>8 DEF Flushes
<1> QED BY <1>2, <1>3, <1>4, <1>5, <1>6, <1>7, <1>8, <1>9, <1>10 DEF Next

\* The invariant holds in every reachable state.
THEOREM GmcpInvariant == Spec => []GmcpInv
<1>1. Init => GmcpInv
  BY InitHolds
<1>2. GmcpInv /\ [Next]_vars => GmcpInv'
  <2>1. ASSUME GmcpInv, UNCHANGED vars
        PROVE  GmcpInv'
    <3>1. UNCHANGED <<enabled, subscriptions, truth, cache, shown, torn, playing, running, lock, todo, batch, crossed>>
      BY <2>1 DEF vars, protocol, board, session
    <3>2. GmcpTypeOK' /\ TodoInv' /\ LockInv'
      BY <2>1, <3>1 DEF GmcpInv, GmcpTypeOK, TodoInv, LockInv, Holding, Has
    <3>3. BatchInv' /\ CacheInv' /\ FreshInv'
      BY <2>1, <3>1 DEF GmcpInv, BatchInv, CacheInv, FreshInv, Caching, Flushing, At, Package, Value
    <3>4. OwedInv'
      BY <2>1, <3>1 DEF GmcpInv, OwedInv, Owes, Supports, Has
    <3> QED BY <3>2, <3>3, <3>4 DEF GmcpInv
  <2> QED BY <2>1, NextKeeps
<1> QED BY <1>1, <1>2, PTL DEF Spec

\* The shapes of the variables: a client makes the server remember no more than
\* GMCP_MAX_SUBSCRIPTIONS, and nothing without GMCP.
THEOREM GmcpTypeCorrect == Spec => []GmcpTypeOK
<1>1. GmcpInv => GmcpTypeOK
  BY DEF GmcpInv
<1> QED BY <1>1, GmcpInvariant, PTL

\* What flush_gmcp passes over the client has, unless a sending went between another
\* thread's sending and its caching.
THEOREM CacheShown == Spec => []CacheIsShown
<1>1. GmcpInv => CacheIsShown
  BY DEF GmcpInv, CacheInv, Caching, CacheIsShown
<1> QED BY <1>1, GmcpInvariant, PTL

\* When no thread is at work the client knows the truth of what it has subscribed to, unless a
\* flush without the state_lock met another one or a change.
THEOREM PictureCurrent == Spec => []PictureIsCurrent
<1>1. ASSUME GmcpInv, NEW p \in Packages \ torn, playing, running, ~crossed, \A t \in Threads : Idle(t), Supports(p)
      PROVE  shown[p] = truth[p]
  <2>1. \A t \in Threads : todo[t] = <<>> /\ ~Flushing(t)
    BY <1>1 DEF Idle, Flushing, At
  <2>2. \A t \in Threads : batch[t] = <<>>
    BY <1>1, <2>1 DEF GmcpInv, BatchInv
  <2>3. \A t \in Threads : ~Owes(t, p)
    BY <2>1, <2>2, Thens, EmptySeq DEF Owes
  <2> QED BY <1>1, <2>3 DEF GmcpInv, OwedInv
<1>2. GmcpInv => PictureIsCurrent
  BY <1>1 DEF PictureIsCurrent
<1> QED BY <1>2, GmcpInvariant, PTL
===============================================================================
