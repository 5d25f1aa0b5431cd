------------------------------ MODULE VillageProofs ------------------------------
(***************************************************************************)
(* What Village promises, for any number of players: PlayerIsWhole,        *)
(* NobodyLingers and WispMatchesState.                                     *)
(*                                                                         *)
(* The argument rests on what a thread may still have to do (PlayerTodo,   *)
(* TickerTodo), which is read off from its next step.  From it follows     *)
(* when a thread holds the state_lock of the player it is about            *)
(* (LockInv), and so that nobody else moves, hurts or revives him.         *)
(***************************************************************************)
EXTENDS Village, SequenceTheorems, TLAPS

-------------------------------------------------------------------------------
(* Sequences of steps *)

Then(x, w) == <<x>> \o w

\* A sequence of steps made of the next one and the rest comes apart again.
LEMMA ThenIs == ASSUME NEW S, NEW x \in S, NEW w \in Seq(S)
  PROVE Then(x, w) \in Seq(S) /\ Then(x, w) # <<>> /\ Head(Then(x, w)) = x /\ Tail(Then(x, w)) = w
<1>1. Len(Then(x,w)) = 1 + Len(w) /\ Then(x,w) \in Seq(S) BY DEF Then
<1>2. Then(x, w) # <<>> BY <1>1
<1>3. Head(Then(x, w)) = x BY DEF Then
<1>4. Tail(Then(x, w)) = w 
  <2>1. Tail(Then(x,w)) \in Seq(S) /\ Len(Tail(Then(x,w))) = Len(w) BY <1>1, <1>2, HeadTailProperties
  <2>2. \A i \in 1..Len(w) : Tail(Then(x,w))[i] = w[i] BY <1>1, <1>2, HeadTailProperties DEF Then
  <2> QED BY <2>1, <2>2, SeqEqual
<1> QED BY <1>1, <1>2, <1>3, <1>4

\* Two steps put in front of the rest.
LEMMA TwoThen == ASSUME NEW S, NEW x \in S, NEW y \in S, NEW w \in Seq(S)
  PROVE <<x, y>> \o w = Then(x, Then(y, w))
<1>1. <<x, y>> \o w \in Seq(S) /\ Then(x, Then(y,w)) \in Seq(S) BY DEF Then
<1>2. Len(<<x, y>> \o w) = Len(w) + 2 /\ Len(Then(x, Then(y,w))) = Len(w) + 2 BY DEF Then
<1>3. \A i \in 1..Len(w)+2 : (<<x, y>> \o w)[i] = Then(x, Then(y,w))[i] BY DEF Then
<1> QED BY <1>1, <1>2, <1>3, SeqEqual

\* Three steps put in front of the rest.
LEMMA ThreeThen == ASSUME NEW S, NEW x \in S, NEW y \in S, NEW z \in S, NEW w \in Seq(S)
  PROVE <<x, y, z>> \o w = Then(x, Then(y, Then(z, w)))
<1> DEFINE a == <<x, y, z>> \o w
           b == Then(x, Then(y, Then(z, w)))
<1>1. a \in Seq(S) /\ b \in Seq(S) BY DEF Then
<1>2. Len(a) = Len(w) + 3 /\ Len(b) = Len(w) + 3 BY DEF Then
<1>3. \A i \in 1..Len(w)+3 : a[i] = b[i] BY DEF Then
<1> HIDE DEF a, b
<1>4. a = b BY <1>1, <1>2, <1>3, SeqEqual
<1> QED BY <1>4 DEF a, b

\* What is not empty has a next step and a rest.
LEMMA Split == ASSUME NEW S, NEW s \in Seq(S), s # <<>> PROVE Head(s) \in S /\ Tail(s) \in Seq(S) /\ s = Then(Head(s), Tail(s))
<1>1. Head(s) \in S /\ Tail(s) \in Seq(S) BY HeadTailProperties
<1>2. Len(Then(Head(s), Tail(s))) = Len(s) BY <1>1, HeadTailProperties DEF Then
<1>3. \A i \in 1..Len(s) : s[i] = Then(Head(s), Tail(s))[i] BY <1>1, HeadTailProperties DEF Then
<1>4. Then(Head(s), Tail(s)) \in Seq(S) BY <1>1 DEF Then
<1> QED BY <1>1, <1>2, <1>3, <1>4, SeqEqual
-------------------------------------------------------------------------------
(* What a thread has still to do, by its next step *)

Done == Then("unlock", <<>>)
Detaching == Then("detach", Done)
Relocking == Then("lock", Detaching)
Parting == Then("unlock", Relocking)
Watching == Then("refresh", Then("seek", Done))

\* After a player has left a room: he enters another one, or says farewell.
Moving == {Then("enter", Done), Then("refresh", Then("seek", Then("enter", Done)))}
Departed == Moving \cup {Parting, Then("enter", Watching)}

\* After the Green has looked after the Wisp Mother
Noticed == {Done, Then("protect", Done), Then("attack", Done), Then("enter", Done)}
             \cup {Then("leave", Then("depart", m)) : m \in Moving}

PlayerRest(x, w) ==
  \/ x = "unlock" /\ w \in {<<>>, Relocking}
  \/ x \in {"detach", "dispatch", "ask", "protect", "attack", "strike"} /\ w = Done
  \/ x = "farewell" /\ w = Parting
  \/ x = "enter" /\ w \in {Done, Watching}
  \/ x = "refresh" /\ w \in {Then("seek", v) : v \in Noticed}
  \/ x \in {"seek", "place"} /\ w \in Noticed
  \/ x = "leave" /\ w \in {Then("depart", m) : m \in Departed}
  \/ x = "depart" /\ w \in Departed
  \/ x = "lock" /\ w \in {Detaching, Then("dispatch", Done), Then("enter", Done),
                          Then("enter", Watching), Then("farewell", Parting)}
PlayerTodo(s) == s = <<>> \/ PlayerRest(Head(s), Tail(s))

\* A player who collapsed and is carried out of his room wakes up.
Carried == {Then("revive", Done), Then("enter", Done)}

TickerRest(x, w) ==
  \/ x \in {"hit", "unlock"} /\ w = <<>>
  \/ x \in {"hurt", "revive", "enter"} /\ w = Done
  \/ x = "leave" /\ w \in {Then("depart", m) : m \in Carried}
  \/ x = "depart" /\ w \in Carried
  \/ x = "lock" /\ w = Then("hurt", Done)
TickerTodo(s) == s = <<>> \/ TickerRest(Head(s), Tail(s))

TodoInv ==
  /\ \A p \in Players : PlayerTodo(todo[p]) /\ (todo[p] # <<>> => Who(p) = p)
  /\ TickerTodo(todo[Ticker]) /\ (todo[Ticker] # <<>> => Who(Ticker) \in Players)

-------------------------------------------------------------------------------
(* The inductive invariant *)

\* A thread holds the lock of the player it is about, unless it comes to take it.
Holding(t) == todo[t] # <<>> /\ Head(todo[t]) \notin {"lock", "hit"}
LockInv == \A p \in Players, t \in Threads : lock[p] = t <=> (Who(t) = p /\ Holding(t))

\* A room and a player agree who is where.
PlaceInv == \A p \in Players, r \in Rooms : p \in players[r] <=> room[p] = r

\* Whom a thread is going to take out of a room is still there.
LeaveAhead(s) ==
  /\ s # <<>>
  /\ \/ Head(s) = "leave"
     \/ Head(s) \in {"seek", "place"} /\ Head(Tail(s)) = "leave"
     \/ Head(s) = "refresh" /\ Head(Tail(Tail(s))) = "leave"
LeaveInv == \A t \in Threads :
  LeaveAhead(todo[t]) \/ At(t, "depart") => room[Who(t)] = frame[t].from

\* Who is leaving a room is taken out of it by somebody.
DepartInv == \A p \in Players, r \in Rooms :
  p \in departing[r] => \E t \in Threads : At(t, "depart") /\ Who(t) = p /\ frame[t].from = r

\* Who has no health left is about to wake up.
Collapsing ==
  LET revived == Then("revive", Done)
      departed == Then("depart", revived)
  IN  {revived, departed, Then("leave", departed)}
HealthInv == \A p \in Players : health[p] = 0 => Who(Ticker) = p /\ todo[Ticker] \in Collapsing

\* A farewell is said, and the session given up, when the connection has ended.
Left == {Parting, Relocking, Detaching}
Farewells ==
  LET departing_ == Then("depart", Parting)
      farewell_ == Then("farewell", Parting)
  IN  Left \cup {departing_, Then("leave", departing_), farewell_, Then("lock", farewell_)}
LifeInv == \A p \in Players :
  /\ todo[p] \in Farewells => playing[p] /\ ~running[p]
  /\ ~playing[p] => todo[p] \in {<<>>, Done}
  /\ ~playing[p] /\ running[p] => todo[p] = <<>>

\* Who has said farewell is nowhere, and not being carried anywhere.
Gone(p) == ~running[p] /\ (~playing[p] \/ todo[p] \in Left)
Carrying == todo[Ticker] # <<>> /\ Head(todo[Ticker]) \in {"leave", "depart", "revive", "enter"}
GoneInv == \A p \in Players \ late :
  Gone(p) => room[p] = None /\ ~(Who(Ticker) = p /\ Carrying)

\* The Wisp Mother is seen when the state says so, or somebody is about it.
WispInv ==
  /\ Busy("strike") => absent = "dark"
  /\ Busy("place") => absent # "over" /\ (torn \/ absent = "no")
  /\ wisp_here /\ absent # "no" => torn \/ Busy("strike")
  /\ ~wisp_here /\ absent = "no" => torn \/ Busy("seek") \/ Busy("place")

VillageInv ==
  /\ VillageTypeOK /\ TodoInv /\ LockInv
  /\ PlaceInv /\ LeaveInv /\ DepartInv /\ HealthInv
  /\ LifeInv /\ GoneInv /\ WispInv

-------------------------------------------------------------------------------
(* Lemmas about what is left to do *)

\* The steps and what comes of them are sequences of steps.
LEMMA Thens ==
  /\ \A x \in Steps, w \in Seq(Steps) :
       Then(x, w) \in Seq(Steps) /\ Then(x, w) # <<>> /\ Head(Then(x, w)) = x /\ Tail(Then(x, w)) = w
  /\ <<>> \in Seq(Steps)
BY ThenIs, EmptySeq

\* The table, read for a step put in front.
LEMMA Legal ==
  \A x \in Steps, w \in Seq(Steps) :
    /\ PlayerTodo(Then(x, w)) <=> PlayerRest(x, w)
    /\ TickerTodo(Then(x, w)) <=> TickerRest(x, w)
BY Thens DEF PlayerTodo, TickerTodo

\* The named rests are sequences of steps.
LEMMA Rests ==
  /\ {Done, Detaching, Relocking, Parting, Watching} \subseteq Seq(Steps)
  /\ Moving \cup Departed \cup Noticed \cup Carried \subseteq Seq(Steps)
<1>0. \A x \in Steps, w \in Seq(Steps) : Then(x, w) \in Seq(Steps)
  BY Thens
<1>1. /\ {"unlock", "detach", "lock", "seek", "refresh", "enter", "protect"} \subseteq Steps
      /\ {"attack", "depart", "leave", "revive"} \subseteq Steps
  BY DEF Steps
<1>2. Done \in Seq(Steps)
  BY <1>0, <1>1, Thens DEF Done
<1>3. Detaching \in Seq(Steps)
  BY <1>0, <1>1, <1>2 DEF Detaching
<1>4. Relocking \in Seq(Steps)
  BY <1>0, <1>1, <1>3 DEF Relocking
<1>5. Parting \in Seq(Steps)
  BY <1>0, <1>1, <1>4 DEF Parting
<1>6. Then("seek", Done) \in Seq(Steps) /\ Then("enter", Done) \in Seq(Steps)
  BY <1>0, <1>1, <1>2
<1>7. Watching \in Seq(Steps)
  BY <1>0, <1>1, <1>6 DEF Watching
<1>8. Then("enter", Watching) \in Seq(Steps) /\ Then("seek", Then("enter", Done)) \in Seq(Steps)
  BY <1>0, <1>1, <1>6, <1>7
<1>9. Then("refresh", Then("seek", Then("enter", Done))) \in Seq(Steps)
  BY <1>0, <1>1, <1>8
<1>10. Moving \subseteq Seq(Steps)
  BY <1>6, <1>9 DEF Moving
<1>11. Departed \subseteq Seq(Steps)
  BY <1>5, <1>8, <1>10 DEF Departed
<1>12. \A m \in Moving : Then("leave", Then("depart", m)) \in Seq(Steps)
  BY <1>0, <1>1, <1>10
<1>13. Then("protect", Done) \in Seq(Steps) /\ Then("attack", Done) \in Seq(Steps) /\ Then("revive", Done) \in Seq(Steps)
  BY <1>0, <1>1, <1>2
<1>14. Noticed \subseteq Seq(Steps)
  BY <1>2, <1>6, <1>12, <1>13 DEF Noticed
<1>15. Carried \subseteq Seq(Steps)
  BY <1>6, <1>13 DEF Carried
<1> QED BY <1>2, <1>3, <1>4, <1>5, <1>7, <1>10, <1>11, <1>14, <1>15

\* What a player's thread has left to do stays legal as it does it.
LEMMA PlayerRests ==
  /\ \A w \in {<<>>, Done, Detaching, Relocking, Parting, Watching} : PlayerTodo(w)
  /\ \A w \in Departed \cup Noticed : PlayerTodo(w)
  /\ \A x \in Steps, w \in Seq(Steps) : PlayerRest(x, w) => PlayerTodo(w)
<1>1. PlayerTodo(<<>>) /\ PlayerTodo(Done)
  BY Legal, Rests, Thens DEF PlayerTodo, Done, PlayerRest, Steps
<1>2. PlayerTodo(Detaching)
  BY Legal, Rests DEF Detaching, PlayerRest, Steps
<1>3. PlayerTodo(Relocking)
  BY Legal, Rests DEF Relocking, PlayerRest, Steps
<1>4. PlayerTodo(Parting)
  BY Legal, Rests DEF Parting, PlayerRest, Steps
<1>5. PlayerTodo(Then("enter", Done)) /\ PlayerTodo(Then("enter", Watching))
  BY Legal, Rests DEF PlayerRest, Steps
<1>6. Then("enter", Done) \in Seq(Steps) /\ Then("enter", Done) \in Noticed /\ Done \in Noticed
  BY Rests, Thens DEF Steps, Noticed
<1>7. \A w \in Noticed : PlayerTodo(Then("seek", w)) /\ Then("seek", w) \in Seq(Steps)
  BY Legal, Rests, Thens DEF PlayerRest, Steps
<1>8. \A w \in Noticed : PlayerTodo(Then("refresh", Then("seek", w)))
  BY <1>7, Legal DEF PlayerRest, Steps
<1>9. PlayerTodo(Watching)
  BY <1>6, <1>8 DEF Watching
<1>10. \A w \in Departed : PlayerTodo(w)
  BY <1>4, <1>5, <1>6, <1>8 DEF Departed, Moving
<1>11. \A m \in Departed : PlayerTodo(Then("depart", m)) /\ Then("depart", m) \in Seq(Steps)
  BY Legal, Rests, Thens DEF PlayerRest, Steps
<1>12. \A m \in Moving : PlayerTodo(Then("leave", Then("depart", m)))
  BY <1>11, Legal DEF PlayerRest, Steps, Departed
<1>13. PlayerTodo(Then("protect", Done)) /\ PlayerTodo(Then("attack", Done))
       /\ PlayerTodo(Then("dispatch", Done)) /\ PlayerTodo(Then("farewell", Parting))
  BY Legal, Rests DEF PlayerRest, Steps
<1>14. \A w \in Noticed : PlayerTodo(w)
  BY <1>1, <1>5, <1>12, <1>13 DEF Noticed
<1>15. ASSUME NEW x \in Steps, NEW w \in Seq(Steps), PlayerRest(x, w)
       PROVE  PlayerTodo(w)
  BY <1>15, <1>1, <1>2, <1>3, <1>4, <1>5, <1>7, <1>9, <1>10, <1>11, <1>13, <1>14 DEF PlayerRest
<1> QED BY <1>1, <1>2, <1>3, <1>4, <1>9, <1>10, <1>14, <1>15

\* Likewise for the ticker.
LEMMA TickerRests ==
  /\ \A w \in {<<>>, Done} \cup Carried : TickerTodo(w)
  /\ \A x \in Steps, w \in Seq(Steps) : TickerRest(x, w) => TickerTodo(w)
<1>1. TickerTodo(<<>>) /\ TickerTodo(Done)
  BY Legal, Rests, Thens, ZenonT(60) DEF TickerTodo, Done, TickerRest, Steps
<1>2. TickerTodo(Then("hurt", Done)) /\ TickerTodo(Then("revive", Done)) /\ TickerTodo(Then("enter", Done))
  BY Legal, Rests DEF TickerRest, Steps
<1>3. \A w \in Carried : TickerTodo(w) /\ TickerTodo(Then("depart", w))
  BY <1>2, Legal, Rests DEF TickerRest, Steps, Carried
<1>4. ASSUME NEW x \in Steps, NEW w \in Seq(Steps), TickerRest(x, w)
      PROVE  TickerTodo(w)
  BY <1>4, <1>1, <1>2, <1>3 DEF TickerRest
<1> QED BY <1>1, <1>3, <1>4

\* What is put in front of the rest.
LEMMA Fronts ==
  /\ \A w \in Seq(Steps) : <<>> \o w = w
  /\ \A x \in Steps, w \in Seq(Steps) : <<x>> \o w = Then(x, w)
  /\ \A x, y \in Steps, w \in Seq(Steps) : <<x, y>> \o w = Then(x, Then(y, w))
  /\ \A u, v, w \in Seq(Steps) : (u \o v) \o w = u \o (v \o w)
  /\ \A u, v \in Seq(Steps) : u \o v \in Seq(Steps)
  /\ \A x, y \in Steps : <<x>> \in Seq(Steps) /\ <<x, y>> \in Seq(Steps)
<1>1. \A w \in Seq(Steps) : <<>> \o w = w
  BY ConcatEmptySeq
<1>2. \A x \in Steps, w \in Seq(Steps) : <<x>> \o w = Then(x, w)
  BY DEF Then
<1>3. \A x, y \in Steps, w \in Seq(Steps) : <<x, y>> \o w = Then(x, Then(y, w))
  BY TwoThen
<1>4. \A u, v, w \in Seq(Steps) : (u \o v) \o w = u \o (v \o w)
  BY ConcatAssociative
<1>5. \A u, v \in Seq(Steps) : u \o v \in Seq(Steps)
  BY ConcatProperties
<1>6. \A x, y \in Steps : <<x>> \in Seq(Steps) /\ <<x, y>> \in Seq(Steps)
  OBVIOUS
<1> QED BY <1>1, <1>2, <1>3, <1>4, <1>5, <1>6

\* What a description of a room puts in front.
LEMMA NoticeFronts ==
  ASSUME NEW r, NEW w \in Seq(Steps)
  PROVE  /\ Notice(r) \in Seq(Steps)
         /\ Notice(r) \o w \in {w, Then("refresh", Then("seek", w))}
<1>1. {"refresh", "seek"} \subseteq Steps
  BY DEF Steps
<1>2. CASE r = Green
  BY <1>1, <1>2, Fronts DEF Notice
<1>3. CASE r # Green
  BY <1>3, Fronts, EmptySeq DEF Notice
<1> QED BY <1>2, <1>3

\* What Session.move does, put in front of the end of a command.
LEMMA MoveFronts ==
  ASSUME NEW r
  PROVE  /\ Move(r) \in Seq(Steps)
         /\ Move(r) \o Done \in {Then("leave", Then("depart", m)) : m \in Moving}
<1>1. {"leave", "depart", "enter"} \subseteq Steps /\ Done \in Seq(Steps) /\ Moving \subseteq Seq(Steps)
  BY Rests DEF Steps
<1>2. /\ <<"leave", "depart">> \in Seq(Steps) /\ <<"enter">> \in Seq(Steps) /\ Notice(r) \in Seq(Steps)
      /\ <<"leave", "depart">> \o Notice(r) \in Seq(Steps)
  BY <1>1, Fronts, NoticeFronts
<1>3. Move(r) \in Seq(Steps)
  BY <1>2, Fronts DEF Move
<1>4. Move(r) \o Done = (<<"leave", "depart">> \o Notice(r)) \o (<<"enter">> \o Done)
  BY <1>1, <1>2, Fronts DEF Move
<1>5. <<"enter">> \o Done = Then("enter", Done) /\ Then("enter", Done) \in Seq(Steps)
  BY <1>1, Fronts, Thens
<1>6. Move(r) \o Done = <<"leave", "depart">> \o (Notice(r) \o Then("enter", Done))
  <2>1. \A u, v, w \in Seq(Steps) : (u \o v) \o w = u \o (v \o w)
    BY Fronts
  <2>2. (<<"leave", "depart">> \o Notice(r)) \o Then("enter", Done)
          = <<"leave", "depart">> \o (Notice(r) \o Then("enter", Done))
    BY <1>2, <1>5, <2>1, ZenonT(30)
  <2> QED BY <1>4, <1>5, <2>2
<1>7. Notice(r) \o Then("enter", Done) \in Moving
  BY <1>5, NoticeFronts DEF Moving
<1>8. \A m \in Moving : <<"leave", "depart">> \o m = Then("leave", Then("depart", m))
  BY <1>1, Fronts
<1> QED BY <1>3, <1>6, <1>7, <1>8

\* A line's command, and what it puts in front of the end of the command.
LEMMA CommandFronts ==
  ASSUME NEW r, NEW v \in Seq(Steps), v \o Done \in Noticed
  PROVE  (Notice(r) \o v) \o Done \in {v \o Done, Then("refresh", Then("seek", v \o Done))}
<1>1. Notice(r) \in Seq(Steps) /\ Done \in Seq(Steps)
  BY Rests, NoticeFronts, EmptySeq
<1>2. \A a, b, c \in Seq(Steps) : (a \o b) \o c = a \o (b \o c)
  BY Fronts
<1>3. (Notice(r) \o v) \o Done = Notice(r) \o (v \o Done)
  BY <1>1, <1>2, Zenon
<1>4. v \o Done \in Seq(Steps)
  BY <1>1, Fronts
<1> QED BY <1>3, <1>4, NoticeFronts

-------------------------------------------------------------------------------
(* What a thread has to do, and whom it is about, stays legal *)

LegalTodo(t, s) == IF t = Ticker THEN TickerTodo(s) ELSE PlayerTodo(s)
Frames == [who : Players \cup {None}, from : Rooms \cup {None}, to : Rooms \cup {None}]
About(t, f) == IF t = Ticker THEN f.who \in Players ELSE f.who = t

\* What is known of a thread that has something to do.
LEMMA AtWork ==
  ASSUME VillageTypeOK, TodoInv, NEW t \in Threads, todo[t] # <<>>
  PROVE  /\ Head(todo[t]) \in Steps /\ Tail(todo[t]) \in Seq(Steps)
         /\ IF t = Ticker THEN TickerRest(Head(todo[t]), Tail(todo[t]))
                          ELSE PlayerRest(Head(todo[t]), Tail(todo[t])) /\ t \in Players
         /\ LegalTodo(t, Tail(todo[t]))
         /\ About(t, frame[t]) /\ frame[t] \in Frames /\ Who(t) \in Players
<1>1. todo[t] \in Seq(Steps)
  BY DEF VillageTypeOK
<1>2. Head(todo[t]) \in Steps /\ Tail(todo[t]) \in Seq(Steps)
  BY <1>1, HeadTailProperties
<1>3. IF t = Ticker THEN TickerRest(Head(todo[t]), Tail(todo[t]))
                    ELSE PlayerRest(Head(todo[t]), Tail(todo[t])) /\ t \in Players
  BY VillageAssumption DEF TodoInv, TickerTodo, PlayerTodo, Threads
<1>4. LegalTodo(t, Tail(todo[t]))
  BY <1>2, <1>3, PlayerRests, TickerRests DEF LegalTodo
<1>5. frame[t] \in Frames
  BY DEF VillageTypeOK, Frames
<1>6. About(t, frame[t]) /\ Who(t) \in Players
  BY VillageAssumption DEF TodoInv, About, Who, Threads
<1> QED BY <1>2, <1>3, <1>4, <1>5, <1>6

\* A step of one thread leaves all threads with something legal to do.
LEMMA ControlKept ==
  ASSUME VillageTypeOK, TodoInv,
         NEW t \in Threads, NEW s \in Seq(Steps), LegalTodo(t, s),
         NEW f \in Frames, s # <<>> => About(t, f),
         todo' = [todo EXCEPT ![t] = s], frame' = [frame EXCEPT ![t] = f]
  PROVE  TodoInv' /\ todo' \in [Threads -> Seq(Steps)] /\ frame' \in [Threads -> Frames]
<1>1. todo \in [Threads -> Seq(Steps)] /\ frame \in [Threads -> Frames]
  BY DEF VillageTypeOK, Frames
<1>2. todo' \in [Threads -> Seq(Steps)] /\ frame' \in [Threads -> Frames]
  BY <1>1
<1>3. \A u \in Threads : /\ todo'[u] = IF u = t THEN s ELSE todo[u]
                         /\ frame'[u] = IF u = t THEN f ELSE frame[u]
  BY <1>1
<1>4. Ticker \in Threads /\ Ticker \notin Players /\ Players \subseteq Threads
  BY VillageAssumption DEF Threads
<1>5. ASSUME NEW p \in Players
      PROVE  PlayerTodo(todo'[p]) /\ (todo'[p] # <<>> => frame'[p].who = p)
  BY <1>3, <1>4 DEF TodoInv, LegalTodo, About, Who
<1>6. TickerTodo(todo'[Ticker]) /\ (todo'[Ticker] # <<>> => frame'[Ticker].who \in Players)
  BY <1>3, <1>4 DEF TodoInv, LegalTodo, About, Who
<1>7. TodoInv'
  BY <1>5, <1>6 DEF TodoInv, PlayerTodo, TickerTodo, Who
<1> QED BY <1>2, <1>7

-------------------------------------------------------------------------------
(* What each action leaves its thread to do *)

Step(t, s, f) ==
  /\ s \in Seq(Steps) /\ LegalTodo(t, s) /\ f \in Frames /\ (s # <<>> => About(t, f))
  /\ todo' = [todo EXCEPT ![t] = s] /\ frame' = [frame EXCEPT ![t] = f]

Control == VillageTypeOK /\ TodoInv
Rest(t) == Tail(todo[t])

\* A step that is done, with others in front of the rest.
LEMMA Going ==
  ASSUME Control, NEW t \in Threads, todo[t] # <<>>, NEW more \in Seq(Steps), Goes(t, more),
         LegalTodo(t, more \o Rest(t)), NEW f \in Frames, About(t, f), frame' = [frame EXCEPT ![t] = f]
  PROVE  Step(t, more \o Rest(t), f)
<1>1. todo \in [Threads -> Seq(Steps)]
  BY DEF Control, VillageTypeOK
<1>2. todo' = [todo EXCEPT ![t] = more \o Rest(t)]
  BY <1>1 DEF Goes, Rest
<1>3. more \o Rest(t) \in Seq(Steps)
  BY AtWork, Fronts DEF Control, Rest
<1> QED BY <1>2, <1>3 DEF Step

\* A step that is done, and that is all.
LEMMA Popping ==
  ASSUME Control, NEW t \in Threads, todo[t] # <<>>, Goes(t, <<>>), frame' = frame
  PROVE  Step(t, Rest(t), frame[t])
<1>1. Rest(t) \in Seq(Steps) /\ LegalTodo(t, Rest(t)) /\ frame[t] \in Frames /\ About(t, frame[t])
  BY AtWork DEF Control, Rest
<1>2. <<>> \o Rest(t) = Rest(t) /\ <<>> \in Seq(Steps)
  BY <1>1, Fronts, EmptySeq
<1>3. frame' = [frame EXCEPT ![t] = frame[t]]
  BY DEF Control, VillageTypeOK
<1> QED BY <1>1, <1>2, <1>3, Going

\* A thread that begins something.
LEMMA Starting ==
  ASSUME Control, NEW t \in Threads, NEW s \in Seq(Steps), LegalTodo(t, s),
         NEW f \in Frames, About(t, f), Starts(t, s, f)
  PROVE  Step(t, s, f)
BY DEF Step, Starts

\* The lock is taken.
LEMMA AcquireSteps ==
  ASSUME Control, NEW t \in Threads, Acquire(t)
  PROVE  Step(t, Rest(t), frame[t])
BY Popping DEF Acquire, At

\* The lock is returned.
LEMMA ReleaseSteps ==
  ASSUME Control, NEW t \in Threads, Release(t)
  PROVE  Step(t, Rest(t), IF Rest(t) = <<>> THEN Noone ELSE frame[t])
<1>1. todo[t] # <<>> /\ todo[t] \in Seq(Steps)
  BY DEF Release, At, Control, VillageTypeOK
<1>2. Rest(t) \in Seq(Steps) /\ LegalTodo(t, Rest(t)) /\ frame[t] \in Frames /\ About(t, frame[t])
  BY <1>1, AtWork DEF Control, Rest
<1>3. Len(todo[t]) = 1 <=> Rest(t) = <<>>
  <2>1. Len(todo[t]) \in Nat \ {0} /\ Len(Rest(t)) = Len(todo[t]) - 1
    BY <1>1, HeadTailProperties, LenProperties, EmptySeq DEF Rest
  <2>2. Len(Rest(t)) = 0 <=> Rest(t) = <<>>
    BY <1>2, EmptySeq
  <2> QED BY <2>1, <2>2
<1>4. Noone \in Frames
  BY DEF Noone, Frames, Rooms
<1>5. <<>> \o Rest(t) = Rest(t)
  BY <1>2, Fronts
<1>6. todo' = [todo EXCEPT ![t] = Rest(t)]
  BY <1>5 DEF Release, Calls, Goes, Rest, Control, VillageTypeOK
<1>7. frame' = [frame EXCEPT ![t] = IF Rest(t) = <<>> THEN Noone ELSE frame[t]]
  BY <1>3 DEF Release, Calls
<1> QED BY <1>2, <1>4, <1>6, <1>7 DEF Step


\* After the way out comes the departure.
LEMMA LeaveRest ==
  ASSUME Control, NEW t \in Threads, At(t, "leave")
  PROVE  \E m \in Seq(Steps) :
           /\ Rest(t) = Then("depart", m) /\ Tail(Rest(t)) = m /\ Head(Rest(t)) = "depart"
           /\ m \in (IF t = Ticker THEN Carried ELSE Departed)
<1>1. todo[t] # <<>> /\ Head(todo[t]) = "leave" /\ "depart" \in Steps
  BY DEF At, Steps
<1>2. Rest(t) \in {Then("depart", m) : m \in (IF t = Ticker THEN Carried ELSE Departed)}
  BY <1>1, AtWork DEF Control, Rest, PlayerRest, TickerRest
<1>3. PICK m \in (IF t = Ticker THEN Carried ELSE Departed) : Rest(t) = Then("depart", m)
  BY <1>2
<1>4. m \in Seq(Steps)
  BY Rests
<1> QED BY <1>1, <1>3, <1>4, Thens

\* Out of the room, or not: then the departure is left out.
LEMMA LeaveSteps ==
  ASSUME Control, NEW t \in Threads, Leave(t)
  PROVE  LET out == Who(t) \in players[frame[t].from] \ departing[frame[t].from] IN
         Step(t, IF out THEN Rest(t) ELSE Tail(Rest(t)), frame[t])
<1> DEFINE out == Who(t) \in players[frame[t].from] \ departing[frame[t].from]
<1>1. todo[t] # <<>> /\ At(t, "leave") /\ frame' = frame
  BY DEF Leave, At
<1>2. CASE out
  BY <1>1, <1>2, Popping DEF Leave
<1>3. CASE ~out
  <2>1. Tail(Rest(t)) \in Seq(Steps) /\ LegalTodo(t, Tail(Rest(t)))
    BY <1>1, LeaveRest, PlayerRests, TickerRests DEF LegalTodo
  <2>2. todo' = [todo EXCEPT ![t] = Tail(Rest(t))]
    BY <1>3 DEF Leave, Rest, Control, VillageTypeOK
  <2>3. frame' = [frame EXCEPT ![t] = frame[t]] /\ frame[t] \in Frames /\ About(t, frame[t])
    BY <1>1, AtWork DEF Control, VillageTypeOK
  <2> QED BY <1>3, <2>1, <2>2, <2>3 DEF Step
<1> QED BY <1>2, <1>3

\* The player is out.
LEMMA DepartSteps ==
  ASSUME Control, NEW t \in Threads, Depart(t)
  PROVE  Step(t, Rest(t), frame[t])
BY Popping DEF Depart, At

\* In, or first out of where the player still is.
LEMMA EnterSteps ==
  ASSUME Control, NEW t \in Threads, Enter(t)
  PROVE  IF room[Who(t)] \notin {None, frame[t].to}
         THEN Step(t, Then("leave", Then("depart", Then("enter", Rest(t)))), [frame[t] EXCEPT !.from = room[Who(t)]])
         ELSE Step(t, Rest(t), frame[t])
<1>1. todo[t] # <<>> /\ At(t, "enter") /\ Head(todo[t]) = "enter"
  BY DEF Enter, At
<1>2. /\ Rest(t) \in Seq(Steps) /\ frame[t] \in Frames /\ About(t, frame[t]) /\ Who(t) \in Players
      /\ Rest(t) \in (IF t = Ticker THEN {Done} ELSE {Done, Watching})
  BY <1>1, AtWork DEF Control, Rest, PlayerRest, TickerRest
<1>3. CASE room[Who(t)] \notin {None, frame[t].to}
  <2> DEFINE m == Then("enter", Rest(t))
             s == Then("leave", Then("depart", m))
             f == [frame[t] EXCEPT !.from = room[Who(t)]]
  <2>1. {"leave", "depart", "enter"} \subseteq Steps
    BY DEF Steps
  <2>2. m \in Seq(Steps) /\ Then("depart", m) \in Seq(Steps) /\ s \in Seq(Steps)
    BY <1>2, <2>1, Thens
  <2>3. <<"leave", "depart", "enter">> \o Rest(t) = s
    BY <1>2, <2>1, ThreeThen
  <2>4. m \in (IF t = Ticker THEN Carried ELSE Departed)
    BY <1>2 DEF Carried, Departed, Moving
  <2>5. LegalTodo(t, s)
    BY <2>1, <2>2, <2>4, Legal DEF LegalTodo, PlayerRest, TickerRest
  <2>6. f \in Frames /\ About(t, f)
    BY <1>2 DEF Frames, About, Control, VillageTypeOK
  <2>7. <<"leave", "depart", "enter">> \in Seq(Steps)
    BY <2>1
  <2>8. Goes(t, <<"leave", "depart", "enter">>) /\ frame' = [frame EXCEPT ![t] = f]
    BY <1>3 DEF Enter, Calls
  <2> HIDE DEF s, f
  <2>9. Step(t, <<"leave", "depart", "enter">> \o Rest(t), f)
    BY <1>1, <2>3, <2>5, <2>6, <2>7, <2>8, Going
  <2> QED BY <1>3, <2>3, <2>9 DEF s, f
<1>4. CASE room[Who(t)] \in {None, frame[t].to}
  <2>1. Goes(t, <<>>) /\ frame' = frame
    BY <1>4 DEF Enter
  <2> QED BY <1>1, <1>4, <2>1, Popping
<1> QED BY <1>3, <1>4

\* Only a player's thread sees to the Wisp Mother.
LEMMA TendsPlayers ==
  ASSUME Control, NEW t \in Threads, Tends(t)
  PROVE  t \in Players /\ PlayerRest(Head(todo[t]), Rest(t)) /\ todo[t] # <<>>
<1>1. todo[t] # <<>> /\ Head(todo[t]) \in {"refresh", "seek", "place", "protect", "attack", "strike"}
  BY DEF Tends, Refresh, Seek, Place, Protect, Attack, Strike, At
<1>2. t # Ticker
  BY <1>1, AtWork DEF Control, TickerRest
<1> QED BY <1>1, <1>2, AtWork DEF Control, Rest

\* What a thread sees to about the Wisp Mother: two findings put another step in front.
LEMMA TendsSteps ==
  ASSUME Control, NEW t \in Threads
  PROVE  /\ Refresh(t) \/ Place(t) \/ Protect(t) \/ Strike(t) => Step(t, Rest(t), frame[t])
         /\ Seek(t) => Step(t, IF absent = "no" THEN Then("place", Rest(t)) ELSE Rest(t), frame[t])
         /\ Attack(t) => Step(t, IF absent = "no" /\ ~warded THEN Then("strike", Rest(t)) ELSE Rest(t), frame[t])
<1>1. ASSUME Refresh(t) \/ Place(t) \/ Protect(t) \/ Strike(t)
      PROVE  Step(t, Rest(t), frame[t])
  BY <1>1, Popping DEF Refresh, Place, Protect, Strike, At
<1>2. ASSUME NEW x \in {"place", "strike"}, todo[t] # <<>>, Tends(t), frame' = frame, Goes(t, <<x>>),
             PlayerRest(x, Rest(t))
      PROVE  Step(t, Then(x, Rest(t)), frame[t])
  <2>1. x \in Steps /\ <<x>> \in Seq(Steps) /\ Rest(t) \in Seq(Steps) /\ frame[t] \in Frames /\ About(t, frame[t])
    BY <1>2, AtWork DEF Control, Rest, Steps
  <2>2. t # Ticker
    BY <1>2, TendsPlayers, VillageAssumption
  <2>3. <<x>> \o Rest(t) = Then(x, Rest(t)) /\ LegalTodo(t, Then(x, Rest(t)))
    BY <1>2, <2>1, <2>2, Fronts, Legal DEF LegalTodo
  <2>4. frame' = [frame EXCEPT ![t] = frame[t]]
    BY <1>2 DEF Control, VillageTypeOK
  <2> QED BY <1>2, <2>1, <2>3, <2>4, Going
<1>3. ASSUME Seek(t)
      PROVE  Step(t, IF absent = "no" THEN Then("place", Rest(t)) ELSE Rest(t), frame[t])
  <2>1. todo[t] # <<>> /\ Head(todo[t]) = "seek" /\ frame' = frame /\ Tends(t)
    BY <1>3 DEF Seek, At, Tends
  <2>2. PlayerRest("place", Rest(t))
    BY <2>1, TendsPlayers DEF PlayerRest
  <2>3. CASE absent = "no"
    BY <1>3, <1>2, <2>1, <2>2, <2>3 DEF Seek
  <2>4. CASE absent # "no"
    BY <1>3, <2>1, <2>4, Popping DEF Seek
  <2> QED BY <2>3, <2>4
<1>4. ASSUME Attack(t)
      PROVE  Step(t, IF absent = "no" /\ ~warded THEN Then("strike", Rest(t)) ELSE Rest(t), frame[t])
  <2>1. todo[t] # <<>> /\ Head(todo[t]) = "attack" /\ frame' = frame /\ Tends(t)
    BY <1>4 DEF Attack, At, Tends
  <2>2. PlayerRest("strike", Rest(t))
    BY <2>1, TendsPlayers DEF PlayerRest
  <2>3. CASE absent = "no" /\ ~warded
    BY <1>4, <1>2, <2>1, <2>2, <2>3 DEF Attack
  <2>4. CASE ~(absent = "no" /\ ~warded)
    BY <1>4, <2>1, <2>4, Popping DEF Attack
  <2> QED BY <2>3, <2>4
<1> QED BY <1>1, <1>3, <1>4

\* Players' threads are threads, and not the ticker.
LEMMA PlayerThreads == \A p \in Players : p \in Threads /\ p # Ticker
BY VillageAssumption DEF Threads

\* Whom a command is about.
LEMMA HereFrames ==
  ASSUME VillageTypeOK, NEW p \in Players
  PROVE  Here(p) \in Frames /\ About(p, Here(p)) /\ Here(p).who = p /\ Here(p).from = room[p]
BY PlayerThreads DEF VillageTypeOK, Here, Frames, About

\* The first steps of a player's session, of a line and of a farewell.
LEMMA OpeningSteps ==
  ASSUME Control, NEW p \in Players
  PROVE  /\ Begin(p) => \E f \in Frames : \E w \in {Done, Watching} : Step(p, Then("lock", Then("enter", w)), f)
         /\ Read(p) => Step(p, Then("lock", Then("dispatch", Done)), Here(p))
         /\ Disconnect(p) => Step(p, Then("lock", Then("farewell", Parting)), Here(p))
<1>0. {"lock", "enter", "dispatch", "farewell", "unlock", "detach", "refresh", "seek"} \subseteq Steps
  BY DEF Steps
<1>1. ASSUME NEW x \in Steps, NEW w \in Seq(Steps), PlayerRest("lock", Then(x, w))
      PROVE  /\ Then("lock", Then(x, w)) \in Seq(Steps)
             /\ LegalTodo(p, Then("lock", Then(x, w)))
  BY <1>0, <1>1, Thens, Legal, PlayerThreads DEF LegalTodo
<1>2. p \in Threads
  BY PlayerThreads
<1>3. ASSUME Begin(p)
      PROVE  \E f \in Frames : \E w \in {Done, Watching} : Step(p, Then("lock", Then("enter", w)), f)
  <2>1. PICK r \in Rooms : Starts(p, <<"lock", "enter">> \o Notice(r) \o <<"unlock">>, [who |-> p, from |-> r, to |-> r])
    BY <1>3 DEF Begin
  <2>2. <<"unlock">> \in Seq(Steps) /\ <<"lock", "enter">> \in Seq(Steps) /\ Notice(r) \in Seq(Steps)
    BY <1>0, Fronts, NoticeFronts, EmptySeq
  <2>3. <<"unlock">> = Done
    BY <1>0, Fronts, EmptySeq, ConcatEmptySeq DEF Done, Then
  <2>4. PICK w \in {Done, Watching} : w = Notice(r) \o <<"unlock">>
    BY <2>3, NoticeFronts, Rests DEF Watching
  <2>5. (<<"lock", "enter">> \o Notice(r)) \o <<"unlock">> = <<"lock", "enter">> \o w
    <3>1. \A a, b, c \in Seq(Steps) : (a \o b) \o c = a \o (b \o c)
      BY Fronts
    <3> QED BY <2>2, <2>4, <3>1, Zenon
  <2>6. w \in Seq(Steps) /\ PlayerRest("lock", Then("enter", w))
    BY <2>4, Rests DEF PlayerRest
  <2>7. <<"lock", "enter">> \o w = Then("lock", Then("enter", w))
    BY <1>0, <2>6, Fronts
  <2>8. [who |-> p, from |-> r, to |-> r] \in Frames /\ About(p, [who |-> p, from |-> r, to |-> r])
    BY PlayerThreads DEF Frames, About
  <2>9. Starts(p, Then("lock", Then("enter", w)), [who |-> p, from |-> r, to |-> r])
    BY <2>1, <2>5, <2>7
  <2> QED BY <1>0, <1>1, <1>2, <2>4, <2>6, <2>8, <2>9, Starting
<1>4. ASSUME Read(p)
      PROVE  Step(p, Then("lock", Then("dispatch", Done)), Here(p))
  <2>1. Done \in Seq(Steps) /\ PlayerRest("lock", Then("dispatch", Done))
    BY Rests DEF PlayerRest
  <2>2. <<"lock", "dispatch", "unlock">> = Then("lock", Then("dispatch", Done))
    BY DEF Then, Done
  <2> QED BY <1>0, <1>1, <1>2, <1>4, <2>1, <2>2, HereFrames, Starting DEF Read, Control
<1>5. ASSUME Disconnect(p)
      PROVE  Step(p, Then("lock", Then("farewell", Parting)), Here(p))
  <2>1. Parting \in Seq(Steps) /\ PlayerRest("lock", Then("farewell", Parting))
    BY Rests DEF PlayerRest
  <2>2. <<"lock", "farewell", "unlock", "lock", "detach", "unlock">> = Then("lock", Then("farewell", Parting))
    BY DEF Then, Done, Parting, Relocking, Detaching
  <2> QED BY <1>0, <1>1, <1>2, <1>5, <2>1, <2>2, HereFrames, Starting DEF Disconnect, Control
<1> QED BY <1>3, <1>4, <1>5

\* What a line may make a thread do
Commanded == Noticed \cup {Then("refresh", Then("seek", w)) : w \in Noticed} \cup {Then("ask", Done)}

\* What a line has done is legal.
LEMMA CommandedLegal ==
  \A s \in Commanded : s \in Seq(Steps) /\ PlayerTodo(s)
<1>1. {"refresh", "seek", "ask"} \subseteq Steps
  BY DEF Steps
<1>2. \A w \in Noticed : Then("seek", w) \in Seq(Steps) /\ Then("refresh", Then("seek", w)) \in Seq(Steps)
  BY <1>1, Rests, Thens
<1>3. \A w \in Noticed : PlayerTodo(Then("refresh", Then("seek", w)))
  BY <1>1, <1>2, Legal DEF PlayerRest
<1>4. Then("ask", Done) \in Seq(Steps) /\ PlayerTodo(Then("ask", Done))
  BY <1>1, Rests, Thens, Legal DEF PlayerRest
<1> QED BY <1>2, <1>3, <1>4, Rests, PlayerRests DEF Commanded

\* A line's command.
LEMMA DispatchSteps ==
  ASSUME Control, NEW p \in Players, Dispatch(p)
  PROVE  \E s \in Commanded, f \in Frames : Step(p, s, f) /\ f.who = p /\ f.from = room[p]
<1>0. p \in Threads /\ p # Ticker
  BY PlayerThreads
<1>1. todo[p] # <<>> /\ Rest(p) = Done
  <2>1. todo[p] # <<>> /\ Head(todo[p]) = "dispatch"
    BY DEF Dispatch, At
  <2> QED BY <1>0, <2>1, AtWork DEF Control, Rest, PlayerRest
<1>2. {"ask", "protect", "attack"} \subseteq Steps /\ Done \in Seq(Steps)
  BY Rests DEF Steps
<1>3. Here(p) \in Frames /\ About(p, Here(p)) /\ Here(p).who = p /\ Here(p).from = room[p]
  BY HereFrames DEF Control
<1>4. ASSUME NEW v \in Seq(Steps), NEW f \in Frames, f.who = p, f.from = room[p], v \o Done \in Commanded, Calls(p, v, f)
      PROVE  \E s \in Commanded : Step(p, s, f)
  <2>1. LegalTodo(p, v \o Rest(p)) /\ About(p, f)
    BY <1>0, <1>1, <1>4, CommandedLegal DEF LegalTodo, About
  <2>2. Goes(p, v) /\ frame' = [frame EXCEPT ![p] = f]
    BY <1>4 DEF Calls
  <2>3. Step(p, v \o Rest(p), f)
    BY <1>0, <1>1, <2>1, <2>2, Going
  <2> QED BY <1>1, <1>4, <2>3
<1>5. ASSUME NEW r, NEW v \in Seq(Steps), v \o Done \in Noticed
      PROVE  Notice(r) \o v \in Seq(Steps) /\ (Notice(r) \o v) \o Done \in Commanded
  <2>1. Notice(r) \in Seq(Steps) /\ Notice(r) \o v \in Seq(Steps)
    BY <1>2, NoticeFronts, Fronts
  <2> QED BY <1>5, <2>1, CommandFronts DEF Commanded
<1>6. ASSUME NEW word \in {<<>>, <<"protect">>, <<"attack">>}
      PROVE  word \in Seq(Steps) /\ word \o Done \in Noticed
  <2>1. CASE word = <<>>
    BY <1>2, <2>1, Fronts, EmptySeq DEF Noticed
  <2>2. CASE word = <<"protect">>
    BY <1>2, <2>2, Fronts DEF Noticed
  <2>3. CASE word = <<"attack">>
    BY <1>2, <2>3, Fronts DEF Noticed
  <2> QED BY <2>1, <2>2, <2>3
<1>7. ASSUME NEW word \in {<<>>, <<"protect">>, <<"attack">>}, OnCommand(p, word)
      PROVE  \E s \in Commanded : Step(p, s, Here(p))
  <2>1. word \in Seq(Steps) /\ word \o Done \in Noticed
    BY <1>6
  <2>2. Notice(room[p]) \o word \in Seq(Steps) /\ (Notice(room[p]) \o word) \o Done \in Commanded
    BY <1>5, <2>1
  <2>3. Calls(p, Notice(room[p]) \o word, Here(p))
    BY <1>7 DEF OnCommand
  <2> QED BY <1>3, <1>4, <2>2, <2>3
<1>8. ASSUME Look(p)
      PROVE  \E s \in Commanded : Step(p, s, Here(p))
  <2>1. Notice(room[p]) \in Seq(Steps) /\ Notice(room[p]) \o Done \in Commanded
    BY <1>2, NoticeFronts DEF Commanded, Noticed
  <2> QED BY <1>3, <1>4, <1>8, <2>1 DEF Look
<1>9. ASSUME Say(p)
      PROVE  \E s \in Commanded : Step(p, s, Here(p))
  <2>1. <<>> \in Seq(Steps) /\ <<>> \o Done \in Commanded
    BY <1>6 DEF Commanded
  <2> QED BY <1>3, <1>4, <1>9, <2>1 DEF Say
<1>10. ASSUME Go(p)
       PROVE  \E s \in Commanded, f \in Frames : Step(p, s, f) /\ f.who = p /\ f.from = room[p]
  <2>1. PICK r \in Exits(room[p]) : Calls(p, Notice(room[p]) \o Move(r), [Here(p) EXCEPT !.to = r])
    BY <1>10 DEF Go
  <2>2. Move(r) \in Seq(Steps) /\ Move(r) \o Done \in Noticed
    BY MoveFronts DEF Noticed
  <2>3. Notice(room[p]) \o Move(r) \in Seq(Steps) /\ (Notice(room[p]) \o Move(r)) \o Done \in Commanded
    BY <1>5, <2>2
  <2> DEFINE f == [Here(p) EXCEPT !.to = r]
  <2>4. f \in Frames /\ f.who = p /\ f.from = room[p]
    BY <1>3, <2>1 DEF Frames, Exits, Here
  <2> HIDE DEF f
  <2>5. \E s \in Commanded : Step(p, s, f)
    BY <1>4, <2>1, <2>3, <2>4 DEF f
  <2> QED BY <2>4, <2>5
<1>11. ASSUME Calls(p, <<"ask">>, Here(p))
       PROVE  \E s \in Commanded : Step(p, s, Here(p))
  <2>1. <<"ask">> \in Seq(Steps) /\ <<"ask">> \o Done \in Commanded
    BY <1>2, Fronts DEF Commanded
  <2> QED BY <1>3, <1>4, <1>11, <2>1
<1>12. Emote(p) => OnCommand(p, <<>>)
  BY DEF Emote
<1>13. (\E word \in Words(room[p]) : OnCommand(p, <<word>>)) => \E v \in {<<"protect">>, <<"attack">>} : OnCommand(p, v)
  BY DEF Words
<1> QED BY <1>3, <1>7, <1>8, <1>9, <1>10, <1>11, <1>12, <1>13 DEF Dispatch

\* Questions, farewells, and the end of a session.
LEMMA ClosingSteps ==
  ASSUME Control, NEW p \in Players
  PROVE  /\ Ask(p) => Step(p, Done, frame[p]) /\ todo[p] = Then("ask", Done)
         /\ Detach(p) => Step(p, Done, frame[p]) /\ todo[p] = Detaching
         /\ Farewell(p) => /\ todo[p] = Then("farewell", Parting)
                           /\ Step(p, IF room[p] # None THEN Then("leave", Then("depart", Parting)) ELSE Parting, Here(p))
<1>0. p \in Threads /\ p # Ticker
  BY PlayerThreads
<1>1. ASSUME todo[p] # <<>>
      PROVE  PlayerRest(Head(todo[p]), Rest(p)) /\ todo[p] = Then(Head(todo[p]), Rest(p))
  <2>1. todo[p] \in Seq(Steps)
    BY <1>0 DEF Control, VillageTypeOK
  <2> QED BY <1>0, <1>1, <2>1, AtWork, Split DEF Control, Rest
<1>2. ASSUME Ask(p)
      PROVE  Step(p, Done, frame[p]) /\ todo[p] = Then("ask", Done)
  <2>1. todo[p] # <<>> /\ Head(todo[p]) = "ask" /\ Goes(p, <<>>) /\ frame' = frame
    BY <1>2 DEF Ask, At
  <2>2. Rest(p) = Done
    BY <1>1, <2>1 DEF PlayerRest
  <2>3. Step(p, Rest(p), frame[p])
    BY <1>0, <2>1, Popping
  <2> QED BY <1>1, <2>1, <2>2, <2>3
<1>3. ASSUME Detach(p)
      PROVE  Step(p, Done, frame[p]) /\ todo[p] = Detaching
  <2>1. todo[p] # <<>> /\ Head(todo[p]) = "detach" /\ Goes(p, <<>>) /\ frame' = frame
    BY <1>3 DEF Detach, At
  <2>2. Rest(p) = Done
    BY <1>1, <2>1 DEF PlayerRest
  <2>3. Step(p, Rest(p), frame[p])
    BY <1>0, <2>1, Popping
  <2> QED BY <1>1, <2>1, <2>2, <2>3 DEF Detaching
<1>4. ASSUME Farewell(p)
      PROVE  /\ todo[p] = Then("farewell", Parting)
             /\ Step(p, IF room[p] # None THEN Then("leave", Then("depart", Parting)) ELSE Parting, Here(p))
  <2>1. todo[p] # <<>> /\ Head(todo[p]) = "farewell"
    BY <1>4 DEF Farewell, At
  <2>2. Rest(p) = Parting /\ todo[p] = Then("farewell", Parting)
    BY <1>1, <2>1 DEF PlayerRest
  <2> DEFINE v == IF room[p] # None THEN <<"leave", "depart">> ELSE <<>>
  <2>3. Goes(p, v) /\ frame' = [frame EXCEPT ![p] = Here(p)]
    BY <1>4 DEF Farewell, Calls
  <2>4. {"leave", "depart"} \subseteq Steps /\ Parting \in Seq(Steps)
    BY Rests DEF Steps
  <2>5. v \in Seq(Steps) /\ v \o Parting = IF room[p] # None THEN Then("leave", Then("depart", Parting)) ELSE Parting
    BY <2>4, Fronts, EmptySeq
  <2>6. PlayerTodo(v \o Parting)
    <3>1. Then("depart", Parting) \in Seq(Steps) /\ Parting \in Departed
      BY <2>4, Thens DEF Departed
    <3>2. PlayerTodo(Then("leave", Then("depart", Parting)))
      BY <2>4, <3>1, Legal DEF PlayerRest
    <3> QED BY <2>5, <3>2, PlayerRests
  <2>7. Here(p) \in Frames /\ About(p, Here(p))
    BY HereFrames DEF Control
  <2> HIDE DEF v
  <2>8. Step(p, v \o Rest(p), Here(p))
    BY <1>0, <2>1, <2>2, <2>3, <2>5, <2>6, <2>7, Going DEF LegalTodo
  <2> QED BY <2>2, <2>5, <2>8
<1> QED BY <1>2, <1>3, <1>4

\* The ticker: an acorn, and what it does.
LEMMA TickerSteps ==
  ASSUME Control
  PROVE  /\ Aim => \E f \in Frames : Step(Ticker, Then("hit", <<>>), f)
         /\ Hit => Step(Ticker, IF attached[Who(Ticker)] THEN Then("lock", Then("hurt", Done)) ELSE <<>>, frame[Ticker])
         /\ Hurt => LET p == Who(Ticker)
                        revived == Then("revive", Done)
                    IN  /\ todo[Ticker] = Then("hurt", Done)
                        /\ ~playing[p] => Step(Ticker, Done, frame[Ticker])
                        /\ playing[p] => Step(Ticker,
                             IF health[p] - 1 > 0 THEN Done
                             ELSE IF room[p] \in {None, Square} THEN revived
                             ELSE Then("leave", Then("depart", revived)), [frame[Ticker] EXCEPT !.from = room[p]])
         /\ Revive => /\ todo[Ticker] = Then("revive", Done)
                      /\ Step(Ticker, IF room[Who(Ticker)] = Square THEN Done ELSE Then("enter", Done), frame[Ticker])
<1>0. Ticker \in Threads /\ Ticker \notin Players
  BY VillageAssumption DEF Threads
<1>1. {"hit", "lock", "hurt", "unlock", "leave", "depart", "revive", "enter"} \subseteq Steps
  BY DEF Steps
<1>2. ASSUME todo[Ticker] # <<>>
      PROVE  /\ TickerRest(Head(todo[Ticker]), Rest(Ticker)) /\ todo[Ticker] = Then(Head(todo[Ticker]), Rest(Ticker))
             /\ Who(Ticker) \in Players /\ frame[Ticker] \in Frames /\ About(Ticker, frame[Ticker])
             /\ frame' = frame => frame' = [frame EXCEPT ![Ticker] = frame[Ticker]]
  <2>1. todo[Ticker] \in Seq(Steps)
    BY <1>0 DEF Control, VillageTypeOK
  <2>2. frame' = frame => frame' = [frame EXCEPT ![Ticker] = frame[Ticker]]
    BY DEF Control, VillageTypeOK
  <2> QED BY <1>0, <1>2, <2>1, <2>2, AtWork, Split DEF Control, Rest
<1>3. /\ <<>> \in Seq(Steps) /\ Done \in Seq(Steps) /\ Then("revive", Done) \in Seq(Steps)
      /\ <<>> \o Done = Done /\ <<>> \o <<>> = <<>>
  BY <1>1, Rests, Thens, Fronts
<1>4. ASSUME Aim
      PROVE  \E f \in Frames : Step(Ticker, Then("hit", <<>>), f)
  <2>1. PICK p \in players[Green] : Starts(Ticker, <<"hit">>, [who |-> p, from |-> Green, to |-> Square])
    BY <1>4 DEF Aim
  <2>2. p \in Players
    BY <2>1 DEF Control, VillageTypeOK, Rooms
  <2> DEFINE f == [who |-> p, from |-> Green, to |-> Square]
  <2>3. f \in Frames /\ About(Ticker, f)
    BY <2>2 DEF Frames, Rooms, About
  <2>4. <<"hit">> = Then("hit", <<>>) /\ Then("hit", <<>>) \in Seq(Steps)
    BY <1>1, <1>3, Thens DEF Then
  <2>5. TickerTodo(Then("hit", <<>>))
    BY <1>1, <1>3, Legal DEF TickerRest
  <2> QED BY <1>0, <2>1, <2>3, <2>4, <2>5, Starting DEF LegalTodo
<1>5. ASSUME Hit
      PROVE  Step(Ticker, IF attached[Who(Ticker)] THEN Then("lock", Then("hurt", Done)) ELSE <<>>, frame[Ticker])
  <2>1. todo[Ticker] # <<>> /\ Head(todo[Ticker]) = "hit" /\ frame' = frame
    BY <1>5 DEF Hit, At
  <2>2. Rest(Ticker) = <<>>
    BY <1>2, <2>1 DEF TickerRest
  <2> DEFINE v == IF attached[Who(Ticker)] THEN <<"lock", "hurt", "unlock">> ELSE <<>>
  <2>3. Goes(Ticker, v)
    BY <1>5 DEF Hit
  <2>4. v \in Seq(Steps) /\ v \o <<>> = IF attached[Who(Ticker)] THEN Then("lock", Then("hurt", Done)) ELSE <<>>
    <3>1. <<"lock", "hurt", "unlock">> = Then("lock", Then("hurt", Done))
      BY DEF Then, Done
    <3>2. <<"lock", "hurt", "unlock">> \in Seq(Steps)
      BY <1>1
    <3> QED BY <1>3, <3>1, <3>2, ConcatEmptySeq
  <2>5. LegalTodo(Ticker, v \o <<>>)
    <3>1. Then("hurt", Done) \in Seq(Steps)
      BY <1>1, <1>3, Thens
    <3>2. TickerTodo(Then("lock", Then("hurt", Done)))
      BY <1>1, <3>1, Legal DEF TickerRest
    <3> QED BY <2>4, <3>2, TickerRests DEF LegalTodo
  <2> HIDE DEF v
  <2>6. Step(Ticker, v \o Rest(Ticker), frame[Ticker])
    BY <1>0, <1>2, <2>1, <2>2, <2>3, <2>4, <2>5, Going
  <2> QED BY <2>2, <2>4, <2>6
<1>6. ASSUME Hurt
      PROVE  LET p == Who(Ticker)
                 revived == Then("revive", Done)
             IN  /\ todo[Ticker] = Then("hurt", Done)
                 /\ ~playing[p] => Step(Ticker, Done, frame[Ticker])
                 /\ playing[p] => Step(Ticker,
                      IF health[p] - 1 > 0 THEN Done
                      ELSE IF room[p] \in {None, Square} THEN revived
                      ELSE Then("leave", Then("depart", revived)), [frame[Ticker] EXCEPT !.from = room[p]])
  <2> DEFINE p == Who(Ticker)
             revived == Then("revive", Done)
             f == [frame[Ticker] EXCEPT !.from = room[p]]
             v == IF health[p] - 1 > 0 THEN <<>>
                  ELSE (IF room[p] \in {None, Square} THEN <<>> ELSE <<"leave", "depart">>) \o <<"revive">>
             s == IF health[p] - 1 > 0 THEN Done
                  ELSE IF room[p] \in {None, Square} THEN revived
                  ELSE Then("leave", Then("depart", revived))
  <2>1. todo[Ticker] # <<>> /\ Head(todo[Ticker]) = "hurt"
    BY <1>6 DEF Hurt, At
  <2>2. Rest(Ticker) = Done /\ todo[Ticker] = Then("hurt", Done)
    BY <1>2, <2>1 DEF TickerRest
  <2>3. ASSUME ~playing[p]
        PROVE  Step(Ticker, Done, frame[Ticker])
    <3>1. Goes(Ticker, <<>>) /\ frame' = frame
      BY <1>6, <2>3 DEF Hurt
    <3> QED BY <1>0, <2>1, <2>2, <3>1, Popping
  <2>4. ASSUME playing[p]
        PROVE  Step(Ticker, s, f)
    <3>1. Goes(Ticker, v) /\ frame' = [frame EXCEPT ![Ticker] = f]
      BY <1>6, <2>4 DEF Hurt, Calls
    <3>2. f \in Frames /\ About(Ticker, f)
      BY <1>2, <2>1 DEF Frames, About, Control, VillageTypeOK
    <3>3. <<"leave", "depart">> \in Seq(Steps) /\ <<"revive">> \in Seq(Steps)
      BY <1>1, Fronts
    <3>4. <<"revive">> \o Done = revived
      BY <1>1, <1>3, Fronts
    <3>5. (<<"leave", "depart">> \o <<"revive">>) \o Done = Then("leave", Then("depart", revived))
      <4>1. \A a, b, c \in Seq(Steps) : (a \o b) \o c = a \o (b \o c)
        BY Fronts
      <4>2. (<<"leave", "depart">> \o <<"revive">>) \o Done = <<"leave", "depart">> \o (<<"revive">> \o Done)
        BY <1>3, <3>3, <4>1, ZenonT(30)
      <4>3. <<"leave", "depart">> \o revived = Then("leave", Then("depart", revived))
        BY <1>1, <1>3, Fronts
      <4> QED BY <3>4, <4>2, <4>3, Zenon
    <3>6. <<>> \o <<"revive">> = <<"revive">> /\ <<"leave", "depart">> \o <<"revive">> \in Seq(Steps)
      BY <3>3, Fronts
    <3>7. v \in Seq(Steps) /\ v \o Done = s
      BY <1>3, <3>3, <3>4, <3>5, <3>6
    <3>8. TickerTodo(s)
      <4>1. revived \in Carried
        BY DEF Carried
      <4>2. Then("depart", revived) \in Seq(Steps)
        BY <1>1, <1>3, Thens
      <4>3. TickerTodo(Then("leave", Then("depart", revived)))
        BY <1>1, <4>1, <4>2, Legal DEF TickerRest
      <4> QED BY <4>1, <4>3, TickerRests
    <3> HIDE DEF v, s, f
    <3>9. Step(Ticker, v \o Rest(Ticker), f)
      BY <1>0, <2>1, <2>2, <3>1, <3>2, <3>7, <3>8, Going DEF LegalTodo
    <3> QED BY <2>2, <3>7, <3>9
  <2> QED BY <2>2, <2>3, <2>4
<1>7. ASSUME Revive
      PROVE  /\ todo[Ticker] = Then("revive", Done)
             /\ Step(Ticker, IF room[Who(Ticker)] = Square THEN Done ELSE Then("enter", Done), frame[Ticker])
  <2>1. todo[Ticker] # <<>> /\ Head(todo[Ticker]) = "revive" /\ frame' = frame
    BY <1>7 DEF Revive, At
  <2>2. Rest(Ticker) = Done /\ todo[Ticker] = Then("revive", Done)
    BY <1>2, <2>1 DEF TickerRest
  <2> DEFINE v == IF room[Who(Ticker)] = Square THEN <<>> ELSE <<"enter">>
             s == IF room[Who(Ticker)] = Square THEN Done ELSE Then("enter", Done)
  <2>3. Goes(Ticker, v)
    BY <1>7 DEF Revive
  <2>4. v \in Seq(Steps) /\ v \o Done = s
    BY <1>1, <1>3, Fronts
  <2>5. TickerTodo(s)
    BY TickerRests DEF Carried
  <2> HIDE DEF v, s
  <2>6. Step(Ticker, v \o Rest(Ticker), frame[Ticker])
    BY <1>0, <1>2, <2>1, <2>2, <2>3, <2>4, <2>5, Going DEF LegalTodo
  <2> QED BY <2>2, <2>4, <2>6 DEF s
<1> QED BY <1>4, <1>5, <1>6, <1>7

-------------------------------------------------------------------------------
(* Types *)

\* Every step is a step of one thread, but for the end of a connection and of the darkness.
LEMMA EveryStep ==
  ASSUME Control, Next
  PROVE  \/ \E t \in Threads, s \in Seq(Steps), f \in Frames : Step(t, s, f)
         \/ UNCHANGED <<todo, frame>>
<1>0. /\ Ticker \in Threads /\ Players \subseteq Threads
      /\ Parting \in Seq(Steps) /\ Done \in Seq(Steps)
  BY Rests DEF Threads
<1>1. ASSUME NEW t, NEW s, NEW f, t \in Threads, Step(t, s, f)
      PROVE  \E u \in Threads, r \in Seq(Steps), g \in Frames : Step(u, r, g)
  BY <1>1 DEF Step
<1>2. ASSUME NEW t \in Threads, Works(t)
      PROVE  \E u \in Threads, r \in Seq(Steps), g \in Frames : Step(u, r, g)
  <2>1. CASE Acquire(t)
    BY <1>1, <2>1, AcquireSteps
  <2>2. CASE Release(t)
    BY <1>1, <2>2, ReleaseSteps
  <2>3. CASE Leave(t)
    BY <1>1, <2>3, LeaveSteps
  <2>4. CASE Depart(t)
    BY <1>1, <2>4, DepartSteps
  <2>5. CASE Enter(t)
    BY <1>1, <2>5, EnterSteps
  <2>6. CASE Tends(t)
    BY <1>1, <2>6, TendsSteps DEF Tends
  <2> QED BY <1>2, <2>1, <2>2, <2>3, <2>4, <2>5, <2>6 DEF Works, Walks
<1>3. ASSUME NEW p \in Players, Begin(p) \/ Read(p) \/ Ask(p) \/ Dispatch(p) \/ Disconnect(p) \/ Farewell(p) \/ Detach(p)
      PROVE  \E u \in Threads, r \in Seq(Steps), g \in Frames : Step(u, r, g)
  BY <1>0, <1>1, <1>3, OpeningSteps, DispatchSteps, ClosingSteps
<1>4. ASSUME Aim \/ Hit \/ Hurt \/ Revive
      PROVE  \E u \in Threads, r \in Seq(Steps), g \in Frames : Step(u, r, g)
  BY <1>0, <1>1, <1>4, TickerSteps
<1>5. ASSUME NEW p \in Players, HangUp(p) PROVE UNCHANGED <<todo, frame>>
  BY <1>5 DEF HangUp
<1>6. ASSUME DarknessEnds PROVE UNCHANGED <<todo, frame>>
  BY <1>6 DEF DarknessEnds, control
<1> QED BY <1>0, <1>2, <1>3, <1>4, <1>5, <1>6 DEF Next, Serves, Falls

\* All threads always have something legal to do.
LEMMA TodoStep ==
  ASSUME Control, Next
  PROVE  TodoInv' /\ todo' \in [Threads -> Seq(Steps)] /\ frame' \in [Threads -> Frames]
<1>1. CASE UNCHANGED <<todo, frame>>
  <2>1. TodoInv'
    BY <1>1 DEF Control, TodoInv, Who
  <2> QED BY <1>1, <2>1 DEF Control, VillageTypeOK, Frames
<1>2. ASSUME NEW t \in Threads, NEW s \in Seq(Steps), NEW f \in Frames, Step(t, s, f)
      PROVE  TodoInv' /\ todo' \in [Threads -> Seq(Steps)] /\ frame' \in [Threads -> Frames]
  BY <1>2, ControlKept DEF Step, Control
<1> QED BY <1>1, <1>2, EveryStep

\* Who is hurt has health to lose.
LEMMA HurtAlive ==
  ASSUME Control, HealthInv, At(Ticker, "hurt")
  PROVE  health[Who(Ticker)] \in Nat \ {0} /\ Who(Ticker) \in Players
<1>1. Who(Ticker) \in Players /\ health[Who(Ticker)] \in Nat
  BY DEF Control, VillageTypeOK, TodoInv, At
<1>2. {"hurt", "revive", "depart", "leave"} \subseteq Steps
  BY DEF Steps
<1>3. Then("revive", Done) \in Seq(Steps) /\ Then("depart", Then("revive", Done)) \in Seq(Steps)
  BY <1>2, Rests, Thens
<1>4. \A s \in Collapsing : Head(s) # "hurt"
  BY <1>2, <1>3, Rests, Thens DEF Collapsing
<1> QED BY <1>1, <1>4 DEF HealthInv, At

\* The shapes of the variables.
LEMMA VillageTypeStep ==
  ASSUME Control, HealthInv, Next
  PROVE  VillageTypeOK'
<1>1. todo' \in [Threads -> Seq(Steps)] /\ frame' \in [Threads -> Frames]
  BY TodoStep
<1> DEFINE Bodies ==
      /\ players \in [Rooms -> SUBSET Players] /\ departing \in [Rooms -> SUBSET Players]
      /\ room \in [Players -> Rooms \cup {None}]
      /\ health \in [Players -> Nat] /\ \A p \in Players : health[p] <= InitialHealth[p]
      /\ {attached, playing, running} \subseteq [Players -> BOOLEAN]
      /\ lock \in [Players -> Threads \cup {None}]
      /\ {warded, wisp_here, torn} \subseteq BOOLEAN /\ absent \in {"no", "dark", "over"}
      /\ late \subseteq Players
<1>2. Bodies
  BY DEF Control, VillageTypeOK
<1>3. ASSUME NEW t \in Threads, todo[t] # <<>>
      PROVE  Who(t) \in Players /\ frame[t] \in Frames
  BY <1>3, AtWork DEF Control
<1>4. ASSUME NEW t \in Threads, Works(t) PROVE Bodies'
  <2>1. CASE Acquire(t)
    BY <1>2, <2>1 DEF Acquire, bodies, wisp
  <2>2. CASE Release(t)
    BY <1>2, <2>2 DEF Release, bodies, wisp
  <2>3. CASE Leave(t)
    <3>1. Who(t) \in Players
      BY <1>3, <2>3 DEF Leave, At
    <3>2. /\ departing' \in {departing, [departing EXCEPT ![frame[t].from] = @ \cup {Who(t)}]}
          /\ UNCHANGED <<players, room, health, attached, playing, late, wisp, running, lock>>
      BY <2>3 DEF Leave
    <3>3. departing' \in [Rooms -> SUBSET Players]
      BY <1>2, <3>1, <3>2
    <3> QED BY <1>2, <3>2, <3>3 DEF wisp
  <2>4. CASE Depart(t)
    BY <1>2, <2>4 DEF Depart, wisp
  <2>5. CASE Enter(t)
    <3>1. Who(t) \in Players /\ frame[t] \in Frames
      BY <1>3, <2>5 DEF Enter, At
    <3>2. CASE room[Who(t)] \notin {None, frame[t].to}
      BY <1>2, <2>5, <3>2 DEF Enter, wisp
    <3>3. CASE room[Who(t)] \in {None, frame[t].to}
      <4>1. /\ players' = [players EXCEPT ![frame[t].to] = @ \cup {Who(t)}]
            /\ room' = [room EXCEPT ![Who(t)] = frame[t].to]
            /\ UNCHANGED <<departing, health, attached, playing, late, wisp, running, lock>>
        BY <2>5, <3>3 DEF Enter
      <4>2. frame[t].to \in Rooms \cup {None}
        BY <3>1 DEF Frames
      <4>3. players' \in [Rooms -> SUBSET Players] /\ room' \in [Players -> Rooms \cup {None}]
        BY <1>2, <3>1, <4>1, <4>2
      <4> QED BY <1>2, <4>1, <4>3 DEF wisp
    <3> QED BY <3>2, <3>3
  <2>6. CASE Tends(t)
    BY <1>2, <2>6 DEF Tends, Refresh, Seek, Place, Protect, Attack, Strike, bodies, wisp
  <2> QED BY <1>4, <2>1, <2>2, <2>3, <2>4, <2>5, <2>6 DEF Works, Walks
<1>5. ASSUME NEW p \in Players, \/ Begin(p) \/ HangUp(p) \/ Read(p) \/ Ask(p) \/ Dispatch(p)
                                \/ Disconnect(p) \/ Farewell(p) \/ Detach(p)
      PROVE  Bodies'
  <2>1. CASE Begin(p)
    BY <1>2, <2>1 DEF Begin, wisp
  <2>2. CASE HangUp(p)
    BY <1>2, <2>2 DEF HangUp, Steady, bodies, wisp
  <2>3. CASE Read(p) \/ Ask(p) \/ Dispatch(p) \/ Disconnect(p) \/ Farewell(p)
    BY <1>2, <2>3 DEF Read, Ask, Dispatch, Disconnect, Farewell, Steady, bodies, wisp
  <2>4. CASE Detach(p)
    BY <1>2, <2>4 DEF Detach, wisp
  <2> QED BY <1>5, <2>1, <2>2, <2>3, <2>4
<1>6. ASSUME Aim \/ Hit \/ Hurt \/ Revive PROVE Bodies'
  <2>1. CASE Aim \/ Hit
    BY <1>2, <2>1 DEF Aim, Hit, Steady, bodies, wisp
  <2>2. CASE Hurt
    <3>1. health[Who(Ticker)] \in Nat \ {0} /\ Who(Ticker) \in Players
      BY <2>2, HurtAlive DEF Hurt
    <3>2. CASE ~playing[Who(Ticker)]
      BY <1>2, <2>2, <3>2 DEF Hurt, wisp
    <3>3. CASE playing[Who(Ticker)]
      <4>1. /\ health' = [health EXCEPT ![Who(Ticker)] = health[Who(Ticker)] - 1]
            /\ late' \subseteq late \cup {Who(Ticker)}
            /\ UNCHANGED <<players, departing, room, attached, playing, wisp, running, lock>>
        BY <2>2, <3>3 DEF Hurt
      <4>2. health[Who(Ticker)] - 1 \in Nat /\ health[Who(Ticker)] - 1 <= InitialHealth[Who(Ticker)]
        BY <1>2, <3>1, VillageAssumption
      <4>3. health' \in [Players -> Nat] /\ \A p \in Players : health'[p] <= InitialHealth[p]
        BY <1>2, <4>1, <4>2
      <4> QED BY <1>2, <3>1, <4>1, <4>3 DEF wisp
    <3> QED BY <3>2, <3>3
  <2>3. CASE Revive
    <3>1. Who(Ticker) \in Players
      BY <1>3, <2>3 DEF Revive, At, Threads
    <3>2. health' = [health EXCEPT ![Who(Ticker)] = 1] /\ 1 <= InitialHealth[Who(Ticker)]
      BY <2>3, <3>1, VillageAssumption DEF Revive
    <3>3. health' \in [Players -> Nat] /\ \A p \in Players : health'[p] <= InitialHealth[p]
      BY <1>2, <3>2
    <3> QED BY <1>2, <2>3, <3>3 DEF Revive, wisp
  <2> QED BY <1>6, <2>1, <2>2, <2>3
<1>7. ASSUME DarknessEnds PROVE Bodies'
  BY <1>2, <1>7 DEF DarknessEnds, bodies, control
<1>8. Bodies'
  BY <1>4, <1>5, <1>6, <1>7 DEF Next, Serves, Falls, Threads
<1> QED BY <1>1, <1>8 DEF VillageTypeOK, Frames

-------------------------------------------------------------------------------
(* The locks *)

\* What the rests begin with.
LEMMA Heads ==
  /\ Head(Done) = "unlock" /\ Head(Detaching) = "detach" /\ Head(Relocking) = "lock"
  /\ Head(Parting) = "unlock" /\ Head(Watching) = "refresh"
  /\ {Done, Detaching, Relocking, Parting, Watching} \cup Departed \cup Noticed \cup Carried \cup Commanded
       \subseteq Seq(Steps) \ {<<>>}
  /\ \A m \in Departed : Head(m) \in {"enter", "refresh", "unlock"}
  /\ \A w \in Noticed : Head(w) \in {"unlock", "protect", "attack", "enter", "leave"}
  /\ \A m \in Carried : Head(m) \in {"revive", "enter"}
  /\ \A s \in Commanded : Head(s) \in {"unlock", "protect", "attack", "enter", "leave", "refresh", "ask"}
<1>0. \A x \in Steps, w \in Seq(Steps) : Then(x, w) \in Seq(Steps) \ {<<>>} /\ Head(Then(x, w)) = x
  BY Thens
<1>1. /\ {"unlock", "detach", "lock", "seek", "refresh", "enter", "protect", "ask"} \subseteq Steps
      /\ {"attack", "depart", "leave", "revive"} \subseteq Steps
  BY DEF Steps
<1>2. Head(Done) = "unlock" /\ Done # <<>>
  BY <1>0, <1>1, Thens DEF Done
<1>3. Head(Detaching) = "detach" /\ Detaching # <<>>
  BY <1>0, <1>1, Rests DEF Detaching
<1>4. Head(Relocking) = "lock" /\ Relocking # <<>>
  BY <1>0, <1>1, Rests DEF Relocking
<1>5. Head(Parting) = "unlock" /\ Parting # <<>>
  BY <1>0, <1>1, Rests DEF Parting
<1>6. Then("seek", Done) \in Seq(Steps) /\ Then("enter", Done) \in Seq(Steps) /\ Then("seek", Then("enter", Done)) \in Seq(Steps)
  BY <1>0, <1>1, Rests
<1>7. Head(Watching) = "refresh" /\ Watching # <<>>
  BY <1>0, <1>1, <1>6 DEF Watching
<1>8. \A m \in Moving : Head(m) \in {"enter", "refresh"} /\ m # <<>>
  BY <1>0, <1>1, <1>6, Rests DEF Moving
<1>9. \A m \in Departed : Head(m) \in {"enter", "refresh", "unlock"} /\ m # <<>>
  BY <1>0, <1>1, <1>5, <1>8, Rests DEF Departed
<1>10. \A m \in Moving : Then("depart", m) \in Seq(Steps)
  BY <1>0, <1>1, Rests
<1>11. \A w \in Noticed : Head(w) \in {"unlock", "protect", "attack", "enter", "leave"} /\ w # <<>>
  BY <1>0, <1>1, <1>2, <1>10, Rests DEF Noticed
<1>12. \A m \in Carried : Head(m) \in {"revive", "enter"} /\ m # <<>>
  BY <1>0, <1>1, Rests DEF Carried
<1>13. \A w \in Noticed : Then("seek", w) \in Seq(Steps)
  BY <1>0, <1>1, Rests
<1>14. \A s \in Commanded : /\ Head(s) \in {"unlock", "protect", "attack", "enter", "leave", "refresh", "ask"}
                            /\ s # <<>> /\ s \in Seq(Steps)
  BY <1>0, <1>1, <1>11, <1>13, Rests DEF Commanded
<1> QED BY <1>2, <1>3, <1>4, <1>5, <1>7, <1>9, <1>11, <1>12, <1>14, Rests

\* With what is left to do, the lock is held
Held(s) == s # <<>> /\ Head(s) \notin {"lock", "hit"}

\* After unlock the lock is not held, after anything else but hit it is.
LEMMA HeldRests ==
  ASSUME Control, NEW t \in Threads, todo[t] # <<>>
  PROVE  /\ Head(todo[t]) = "unlock" => ~Held(Rest(t))
         /\ Head(todo[t]) \notin {"unlock", "hit"} => Held(Rest(t))
<1>0. {"seek", "depart", "hurt", "dispatch", "enter", "farewell"} \subseteq Steps
  BY DEF Steps
<1>1. \A x \in Steps, w \in Seq(Steps) : Then(x, w) # <<>> /\ Head(Then(x, w)) = x
  BY Thens
<1>2. ASSUME NEW x \in {"seek", "depart", "hurt", "dispatch", "enter", "farewell"}, NEW w \in Seq(Steps)
      PROVE  Held(Then(x, w))
  BY <1>0, <1>1 DEF Held
<1>3. Held(Done) /\ Held(Detaching) /\ Held(Parting) /\ Held(Watching) /\ ~Held(Relocking) /\ ~Held(<<>>)
  BY Heads DEF Held
<1>4. \A m \in Departed \cup Noticed \cup Carried : Held(m) /\ m \in Seq(Steps)
  BY Heads DEF Held
<1>5. CASE t = Ticker
  <2>1. TickerRest(Head(todo[t]), Rest(t))
    BY <1>5, AtWork DEF Control, Rest
  <2>2. Then("hurt", Done) \in Seq(Steps) /\ Held(Then("hurt", Done))
    BY <1>0, <1>2, Rests, Thens
  <2> QED BY <1>2, <1>3, <1>4, <2>1, <2>2 DEF TickerRest
<1>6. CASE t # Ticker
  <2>1. PlayerRest(Head(todo[t]), Rest(t))
    BY <1>6, AtWork DEF Control, Rest
  <2>2. Held(Then("dispatch", Done)) /\ Held(Then("enter", Done)) /\ Held(Then("enter", Watching)) /\ Held(Then("farewell", Parting))
    BY <1>2, Rests
  <2>3. \A w \in Noticed : Held(Then("seek", w))
    BY <1>2, <1>4
  <2>4. \A m \in Departed : Held(Then("depart", m))
    BY <1>2, <1>4
  <2> QED BY <1>3, <1>4, <2>1, <2>2, <2>3, <2>4 DEF PlayerRest
<1> QED BY <1>5, <1>6

\* What a step of one thread does to the control of all.
LEMMA StepEffect ==
  ASSUME Control, NEW t \in Threads, NEW s, NEW f, Step(t, s, f)
  PROVE  /\ todo'[t] = s /\ frame'[t] = f /\ Who(t)' = f.who /\ (Holding(t)' <=> Held(s))
         /\ \A u \in Threads \ {t} : /\ todo'[u] = todo[u] /\ frame'[u] = frame[u]
                                     /\ Who(u)' = Who(u) /\ (Holding(u)' <=> Holding(u))
<1>1. todo'[t] = s /\ frame'[t] = f
  BY DEF Step, Control, VillageTypeOK
<1>2. \A u \in Threads \ {t} : todo'[u] = todo[u] /\ frame'[u] = frame[u]
  BY DEF Step, Control, VillageTypeOK
<1> QED BY <1>1, <1>2 DEF Who, Holding, Held

\* A thread that holds on to its lock, or goes on without one.
LEMMA LocksSteady ==
  ASSUME Control, LockInv, NEW t \in Threads, NEW s, NEW f, Step(t, s, f), lock' = lock,
         Holding(t) <=> Held(s), Holding(t) => f.who = Who(t)
  PROVE  LockInv'
<1>1. ASSUME NEW p \in Players, NEW u \in Threads
      PROVE  lock'[p] = u <=> (Who(u)' = p /\ Holding(u)')
  <2>1. CASE u = t
    BY <2>1, StepEffect DEF LockInv
  <2>2. CASE u # t
    BY <2>2, StepEffect DEF LockInv
  <2> QED BY <2>1, <2>2
<1> QED BY <1>1 DEF LockInv

\* A step that is done under the lock, with the rest or a part of it still to do.
LEMMA LocksPop ==
  ASSUME Control, LockInv, NEW t \in Threads, NEW f, Step(t, Rest(t), f), lock' = lock,
         todo[t] # <<>>, Head(todo[t]) \notin {"lock", "unlock", "hit"}, f.who = Who(t)
  PROVE  LockInv'
BY HeldRests, LocksSteady DEF Holding, Held

\* Acquire and Release
LEMMA LocksChange ==
  ASSUME Control, LockInv, NEW t \in Threads, Acquire(t) \/ Release(t)
  PROVE  LockInv'
<1>0. todo[t] # <<>> /\ Head(todo[t]) \in {"lock", "unlock"}
  BY DEF Acquire, Release, At
<1>1. Who(t) \in Players /\ lock \in [Players -> Threads \cup {None}] /\ None \notin Threads
  BY <1>0, AtWork, VillageAssumption DEF Control, VillageTypeOK, Threads
<1>2. CASE Acquire(t)
  <2>1. Step(t, Rest(t), frame[t]) /\ Head(todo[t]) = "lock" /\ ~Holding(t)
    BY <1>2, AcquireSteps DEF Acquire, At, Holding
  <2>2. Held(Rest(t)) /\ lock[Who(t)] = None /\ lock' = [lock EXCEPT ![Who(t)] = t]
    BY <1>0, <1>2, <2>1, HeldRests DEF Acquire
  <2>3. Who(t)' = Who(t) /\ Holding(t)'
    BY <2>1, <2>2, StepEffect DEF Who
  <2>4. ASSUME NEW p \in Players, NEW u \in Threads
        PROVE  lock'[p] = u <=> (Who(u)' = p /\ Holding(u)')
    <3>1. CASE u = t
      BY <1>1, <2>1, <2>2, <2>3, <3>1 DEF LockInv
    <3>2. CASE u # t
      <4>1. Who(u)' = Who(u) /\ (Holding(u)' <=> Holding(u))
        BY <2>1, <3>2, StepEffect
      <4> QED BY <1>1, <2>2, <3>2, <4>1 DEF LockInv
    <3> QED BY <3>1, <3>2
  <2> QED BY <2>4 DEF LockInv
<1>3. CASE Release(t)
  <2> DEFINE f == IF Rest(t) = <<>> THEN Noone ELSE frame[t]
  <2>1. Step(t, Rest(t), f) /\ Head(todo[t]) = "unlock" /\ Holding(t)
    BY <1>3, ReleaseSteps DEF Release, At, Holding
  <2> HIDE DEF f
  <2>2. ~Held(Rest(t)) /\ lock' = [lock EXCEPT ![Who(t)] = None]
    BY <1>0, <1>3, <2>1, HeldRests DEF Release
  <2>3. ~Holding(t)' /\ lock[Who(t)] = t
    BY <1>1, <2>1, <2>2, StepEffect DEF LockInv
  <2>4. ASSUME NEW p \in Players, NEW u \in Threads
        PROVE  lock'[p] = u <=> (Who(u)' = p /\ Holding(u)')
    <3>1. CASE u = t
      BY <1>1, <2>1, <2>2, <2>3, <3>1 DEF LockInv
    <3>2. CASE u # t
      <4>1. Who(u)' = Who(u) /\ (Holding(u)' <=> Holding(u))
        BY <2>1, <3>2, StepEffect
      <4> QED BY <1>1, <2>2, <2>3, <3>2, <4>1 DEF LockInv
    <3> QED BY <3>1, <3>2
  <2> QED BY <2>4 DEF LockInv
<1> QED BY <1>2, <1>3

\* A thread holds the lock of the player it is about, unless it comes to take it: two threads
\* are never about the same player at once.
LEMMA LockStep ==
  ASSUME Control, LockInv, LifeInv, Next
  PROVE  LockInv'
<1>0. /\ {"lock", "hit", "leave", "depart", "enter", "place", "strike", "hurt", "revive", "dispatch", "farewell"} \subseteq Steps
      /\ Ticker \in Threads /\ Players \subseteq Threads
  BY DEF Steps, Threads
<1>1. \A x \in Steps, w \in Seq(Steps) : Held(Then(x, w)) <=> x \notin {"lock", "hit"}
  BY Thens DEF Held
<1>2. /\ Held(Done) /\ Held(Parting) /\ ~Held(<<>>)
      /\ \A m \in Departed \cup Carried \cup Commanded : Held(m) /\ m \in Seq(Steps)
      /\ {<<>>, Done, Parting, Watching} \subseteq Seq(Steps)
  BY Heads, Rests, Thens DEF Held
<1>3. ASSUME NEW t \in Threads, todo[t] # <<>>
      PROVE  /\ Rest(t) \in Seq(Steps) /\ frame[t].who = Who(t)
             /\ Holding(t) <=> Head(todo[t]) \notin {"lock", "hit"}
  BY <1>3, AtWork DEF Control, Rest, Who, Holding
<1>4. ASSUME NEW t \in Threads, Works(t) PROVE LockInv'
  <2>1. CASE Acquire(t) \/ Release(t)
    BY <2>1, LocksChange
  <2>2. CASE Leave(t)
    <3>1. todo[t] # <<>> /\ Head(todo[t]) = "leave" /\ lock' = lock /\ At(t, "leave")
      BY <2>2 DEF Leave, At
    <3>2. Held(Rest(t)) /\ Held(Tail(Rest(t)))
      BY <1>2, <3>1, HeldRests, LeaveRest
    <3> QED BY <1>3, <2>2, <3>1, <3>2, LeaveSteps, LocksSteady
  <2>3. CASE Depart(t)
    <3>1. todo[t] # <<>> /\ Head(todo[t]) = "depart" /\ lock' = lock
      BY <2>3 DEF Depart, At
    <3> QED BY <1>3, <2>3, <3>1, DepartSteps, LocksPop
  <2>4. CASE Enter(t)
    <3>1. todo[t] # <<>> /\ Head(todo[t]) = "enter" /\ lock' = lock /\ frame[t] \in Frames
      BY <2>4, AtWork DEF Enter, At, Control
    <3>2. CASE room[Who(t)] \notin {None, frame[t].to}
      <4> DEFINE s == Then("leave", Then("depart", Then("enter", Rest(t))))
                 f == [frame[t] EXCEPT !.from = room[Who(t)]]
      <4>1. Then("enter", Rest(t)) \in Seq(Steps) /\ Then("depart", Then("enter", Rest(t))) \in Seq(Steps)
        BY <1>0, <1>3, <3>1, Thens
      <4>2. Held(s) /\ f.who = Who(t) /\ Step(t, s, f)
        BY <1>0, <1>1, <2>4, <3>1, <3>2, <4>1, EnterSteps DEF Who, Frames
      <4> HIDE DEF s, f
      <4> QED BY <1>3, <3>1, <4>2, LocksSteady
    <3>3. CASE room[Who(t)] \in {None, frame[t].to}
      BY <1>3, <2>4, <3>1, <3>3, EnterSteps, LocksPop
    <3> QED BY <3>2, <3>3
  <2>5. CASE Tends(t)
    <3>1. /\ todo[t] # <<>> /\ Head(todo[t]) \in {"refresh", "seek", "place", "protect", "attack", "strike"}
          /\ lock' = lock
      BY <2>5 DEF Tends, Refresh, Seek, Place, Protect, Attack, Strike, At
    <3>2. Held(Rest(t)) /\ Held(Then("place", Rest(t))) /\ Held(Then("strike", Rest(t))) /\ Holding(t)
      BY <1>0, <1>1, <1>3, <3>1, HeldRests
    <3>3. \E s : Step(t, s, frame[t]) /\ Held(s)
      BY <2>5, <3>2, TendsSteps DEF Tends
    <3> QED BY <1>3, <3>1, <3>2, <3>3, LocksSteady
  <2> QED BY <1>4, <2>1, <2>2, <2>3, <2>4, <2>5 DEF Works, Walks
<1>5. ASSUME NEW p \in Players, \/ Begin(p) \/ HangUp(p) \/ Read(p) \/ Ask(p) \/ Dispatch(p)
                                \/ Disconnect(p) \/ Farewell(p) \/ Detach(p)
      PROVE  LockInv'
  <2>0. p \in Threads
    BY <1>0
  <2>1. CASE Begin(p)
    <3>1. todo[p] = <<>> /\ lock' = lock
      BY <2>1 DEF Begin, LifeInv
    <3>2. PICK f \in Frames, w \in {Done, Watching} : Step(p, Then("lock", Then("enter", w)), f)
      BY <2>1, OpeningSteps
    <3>3. Then("enter", w) \in Seq(Steps)
      BY <1>0, <1>2, Thens
    <3> QED BY <1>0, <1>1, <2>0, <3>1, <3>2, <3>3, LocksSteady DEF Holding
  <2>2. CASE HangUp(p)
    BY <2>2 DEF HangUp, LockInv, Who, Holding
  <2>3. CASE Read(p) \/ Disconnect(p)
    <3>1. todo[p] = <<>> /\ lock' = lock
      BY <2>3 DEF Read, Disconnect, Idle
    <3>2. Then("dispatch", Done) \in Seq(Steps) /\ Then("farewell", Parting) \in Seq(Steps)
      BY <1>0, <1>2, Thens
    <3>3. \E s, f : Step(p, s, f) /\ ~Held(s)
      BY <1>0, <1>1, <2>3, <3>2, OpeningSteps
    <3> QED BY <2>0, <3>1, <3>3, LocksSteady DEF Holding
  <2>4. CASE Dispatch(p)
    <3>1. todo[p] # <<>> /\ Head(todo[p]) = "dispatch" /\ lock' = lock
      BY <2>4 DEF Dispatch, At
    <3>2. Who(p) = p
      BY <3>1 DEF Control, TodoInv
    <3> QED BY <1>2, <1>3, <2>0, <2>4, <3>1, <3>2, DispatchSteps, LocksSteady
  <2>5. CASE Ask(p) \/ Detach(p)
    <3>1. todo[p] # <<>> /\ Head(todo[p]) \in {"ask", "detach"} /\ lock' = lock
      BY <2>5 DEF Ask, Detach, At
    <3> QED BY <1>2, <1>3, <2>0, <2>5, <3>1, ClosingSteps, LocksSteady
  <2>6. CASE Farewell(p)
    <3>1. todo[p] # <<>> /\ Head(todo[p]) = "farewell" /\ lock' = lock
      BY <2>6 DEF Farewell, At
    <3>2. Who(p) = p /\ Here(p).who = p
      BY <3>1 DEF Control, TodoInv, Here
    <3>3. Then("depart", Parting) \in Seq(Steps)
      BY <1>0, <1>2, Thens
    <3>4. Held(Then("leave", Then("depart", Parting)))
      BY <1>0, <1>1, <3>3
    <3> QED BY <1>2, <1>3, <2>0, <2>6, <3>1, <3>2, <3>4, ClosingSteps, LocksSteady
  <2> QED BY <1>5, <2>1, <2>2, <2>3, <2>4, <2>5, <2>6
<1>6. ASSUME Aim \/ Hit \/ Hurt \/ Revive PROVE LockInv'
  <2>1. CASE Aim
    <3>1. todo[Ticker] = <<>> /\ lock' = lock
      BY <2>1 DEF Aim, Idle
    <3> QED BY <1>0, <1>1, <1>2, <2>1, <3>1, TickerSteps, LocksSteady DEF Holding
  <2>2. CASE Hit
    <3>1. todo[Ticker] # <<>> /\ Head(todo[Ticker]) = "hit" /\ lock' = lock
      BY <2>2 DEF Hit, At
    <3>2. Then("hurt", Done) \in Seq(Steps)
      BY <1>0, <1>2, Thens
    <3>3. \E s : Step(Ticker, s, frame[Ticker]) /\ ~Held(s)
      BY <1>0, <1>1, <1>2, <2>2, <3>2, TickerSteps
    <3> QED BY <1>0, <1>3, <3>1, <3>3, LocksSteady
  <2>3. CASE Hurt \/ Revive
    <3>1. todo[Ticker] # <<>> /\ Head(todo[Ticker]) \in {"hurt", "revive"} /\ lock' = lock /\ frame[Ticker] \in Frames
      BY <1>0, <2>3, AtWork DEF Hurt, Revive, At, Control
    <3>2. /\ Held(Then("revive", Done)) /\ Then("revive", Done) \in Seq(Steps)
          /\ Then("depart", Then("revive", Done)) \in Seq(Steps)
          /\ Held(Then("enter", Done))
      BY <1>0, <1>1, <1>2, Thens
    <3>3. Held(Then("leave", Then("depart", Then("revive", Done))))
      BY <1>0, <1>1, <3>2
    <3>4. [frame[Ticker] EXCEPT !.from = room[Who(Ticker)]].who = Who(Ticker)
      BY <3>1 DEF Frames, Who
    <3>5. \E s, f : Step(Ticker, s, f) /\ Held(s) /\ f.who = Who(Ticker)
      <4>1. CASE Hurt
        BY <1>0, <1>2, <1>3, <3>1, <3>2, <3>3, <3>4, <4>1, TickerSteps
      <4>2. CASE Revive
        BY <1>0, <1>2, <1>3, <3>1, <3>2, <4>2, TickerSteps
      <4> QED BY <2>3, <4>1, <4>2
    <3> QED BY <1>0, <1>3, <3>1, <3>5, LocksSteady
  <2> QED BY <1>6, <2>1, <2>2, <2>3
<1>7. ASSUME DarknessEnds PROVE LockInv'
  BY <1>7 DEF DarknessEnds, control, LockInv, Who, Holding
<1> QED BY <1>4, <1>5, <1>6, <1>7 DEF Next, Serves, Falls, Threads

\* Two threads at work under locks are about two players.
LEMMA Alone ==
  ASSUME Control, LockInv, NEW t \in Threads, NEW u \in Threads, Holding(t), Holding(u), Who(t) = Who(u)
  PROVE  t = u
<1>1. Who(t) \in Players
  BY AtWork DEF Control, Holding
<1> QED BY <1>1 DEF LockInv

-------------------------------------------------------------------------------
(* Rooms *)

\* Only the two halves of a move change who is where.
LEMMA PlacesChange ==
  ASSUME Next
  PROVE  (\E t \in Threads : Depart(t) \/ Enter(t)) \/ (players' = players /\ room' = room)
<1>1. ASSUME NEW t \in Threads, Works(t)
      PROVE  Depart(t) \/ Enter(t) \/ (players' = players /\ room' = room)
  BY <1>1 DEF Works, Walks, Tends, Acquire, Release, Leave, Refresh, Seek, Place, Protect, Attack, Strike, bodies
<1>2. ASSUME NEW p \in Players, \/ Begin(p) \/ HangUp(p) \/ Read(p) \/ Ask(p) \/ Dispatch(p)
                                \/ Disconnect(p) \/ Farewell(p) \/ Detach(p)
      PROVE  players' = players /\ room' = room
  BY <1>2 DEF Begin, HangUp, Read, Ask, Dispatch, Disconnect, Farewell, Detach, Steady, bodies
<1>3. ASSUME Aim \/ Hit \/ Hurt \/ Revive \/ DarknessEnds
      PROVE  players' = players /\ room' = room
  BY <1>3 DEF Aim, Hit, Hurt, Revive, DarknessEnds, Steady, bodies
<1> QED BY <1>1, <1>2, <1>3 DEF Next, Serves, Falls, Threads

\* A room and a player agree who is where.
LEMMA PlaceStep ==
  ASSUME Control, PlaceInv, Next
  PROVE  PlaceInv'
<1>0. /\ players \in [Rooms -> SUBSET Players] /\ room \in [Players -> Rooms \cup {None}]
      /\ None \notin Rooms
  BY VillageAssumption DEF Control, VillageTypeOK
<1>1. CASE players' = players /\ room' = room
  BY <1>1 DEF PlaceInv
<1>2. ASSUME NEW t \in Threads, Depart(t) PROVE PlaceInv'
  <2>1. /\ players' = [players EXCEPT ![frame[t].from] = @ \ {Who(t)}]
        /\ room' = [room EXCEPT ![Who(t)] = IF @ = frame[t].from THEN None ELSE @]
    BY <1>2 DEF Depart
  <2>2. ASSUME NEW p \in Players, NEW r \in Rooms
        PROVE  p \in players'[r] <=> room'[p] = r
    BY <1>0, <2>1 DEF PlaceInv
  <2> QED BY <2>2 DEF PlaceInv
<1>3. ASSUME NEW t \in Threads, Enter(t) PROVE PlaceInv'
  <2>1. CASE room[Who(t)] \notin {None, frame[t].to}
    BY <1>3, <2>1 DEF PlaceInv, Enter
  <2>2. CASE room[Who(t)] \in {None, frame[t].to}
    <3>1. /\ players' = [players EXCEPT ![frame[t].to] = @ \cup {Who(t)}]
          /\ room' = [room EXCEPT ![Who(t)] = frame[t].to]
      BY <1>3, <2>2 DEF Enter
    <3>2. ASSUME NEW p \in Players, NEW r \in Rooms
          PROVE  p \in players'[r] <=> room'[p] = r
      BY <1>0, <2>2, <3>1 DEF PlaceInv
    <3> QED BY <3>2 DEF PlaceInv
  <2> QED BY <2>1, <2>2
<1> QED BY <1>1, <1>2, <1>3, PlacesChange

\* What leaves a room before anything else
Leaves(s) == LeaveAhead(s) \/ (s # <<>> /\ Head(s) = "depart")

\* Only what looks after the Wisp Mother first has a way out still ahead.
LEMMA LeaveRests ==
  /\ \A s \in Departed \cup Carried \cup {<<>>, Done, Detaching, Relocking, Parting, Watching} : ~Leaves(s)
  /\ \A w \in Noticed : /\ Leaves(w) <=> Head(w) = "leave"
                        /\ Leaves(Then("place", w)) <=> Head(w) = "leave"
                        /\ Leaves(Then("seek", w)) <=> Head(w) = "leave"
                        /\ Leaves(Then("refresh", Then("seek", w))) <=> Head(w) = "leave"
  /\ \A x \in Steps \ {"leave", "depart", "seek", "place", "refresh"}, w \in Seq(Steps) : ~Leaves(Then(x, w))
<1>0. {"unlock", "place", "seek", "refresh", "enter", "revive"} \subseteq Steps
  BY DEF Steps
<1>1. \A x \in Steps, w \in Seq(Steps) :
        Then(x, w) \in Seq(Steps) /\ Then(x, w) # <<>> /\ Head(Then(x, w)) = x /\ Tail(Then(x, w)) = w
  BY Thens
<1>2. ASSUME NEW x \in Steps \ {"leave", "depart", "seek", "place", "refresh"}, NEW w \in Seq(Steps)
      PROVE  ~Leaves(Then(x, w))
  BY <1>1 DEF Leaves, LeaveAhead
<1>3. ASSUME NEW w \in Seq(Steps)
      PROVE  /\ Leaves(Then("place", w)) <=> Head(w) = "leave"
             /\ Leaves(Then("seek", w)) <=> Head(w) = "leave"
             /\ Leaves(Then("refresh", Then("seek", w))) <=> Head(w) = "leave"
  <2>1. ASSUME NEW x \in {"place", "seek"}
        PROVE  Leaves(Then(x, w)) <=> Head(w) = "leave"
    <3>1. Then(x, w) # <<>> /\ Head(Then(x, w)) = x /\ Tail(Then(x, w)) = w
      BY <1>0, <1>1
    <3> QED BY <3>1 DEF Leaves, LeaveAhead
  <2> DEFINE v == Then("seek", w)
             s == Then("refresh", v)
  <2>2. v \in Seq(Steps) /\ Tail(v) = w
    BY <1>0, <1>1
  <2>3. s # <<>> /\ Head(s) = "refresh" /\ Tail(s) = v
    BY <1>0, <1>1, <2>2
  <2> HIDE DEF s, v
  <2>4. Leaves(s) <=> Head(w) = "leave"
    BY <2>2, <2>3 DEF Leaves, LeaveAhead
  <2> QED BY <2>1, <2>4 DEF s, v
<1>4. \A w \in Noticed : Leaves(w) <=> Head(w) = "leave"
  BY Heads DEF Leaves, LeaveAhead
<1>5. ~Leaves(<<>>) /\ ~Leaves(Done) /\ ~Leaves(Detaching) /\ ~Leaves(Relocking) /\ ~Leaves(Parting)
  BY Heads DEF Leaves, LeaveAhead
<1>6. Then("enter", Done) \in Seq(Steps) /\ Head(Then("enter", Done)) = "enter" /\ Done \in Seq(Steps) /\ Watching \in Seq(Steps)
  BY <1>0, <1>1, Rests
<1>7. ~Leaves(Watching)
  BY <1>3, <1>6, Heads DEF Watching
<1>8. ~Leaves(Then("refresh", Then("seek", Then("enter", Done))))
  BY <1>3, <1>6
<1>9. ~Leaves(Then("enter", Done)) /\ ~Leaves(Then("enter", Watching)) /\ ~Leaves(Then("revive", Done))
  BY <1>0, <1>2, <1>6
<1>10. \A s \in Departed \cup Carried : ~Leaves(s)
  BY <1>5, <1>8, <1>9 DEF Departed, Carried, Moving
<1> QED BY <1>2, <1>3, <1>4, <1>5, <1>7, <1>10, Rests

\* A step after which its thread leaves no room, or the one the player is in.
LEMMA LeavesSteady ==
  ASSUME Control, LeaveInv, NEW t \in Threads, NEW s, NEW f, Step(t, s, f), room' = room,
         Leaves(s) => room[f.who] = f.from
  PROVE  LeaveInv'
<1>1. LeaveInv' <=> \A u \in Threads : Leaves(todo'[u]) => room'[frame'[u].who] = frame'[u].from
  BY DEF LeaveInv, Leaves, LeaveAhead, At, Who
<1>2. \A u \in Threads : Leaves(todo[u]) => room[frame[u].who] = frame[u].from
  BY DEF LeaveInv, Leaves, LeaveAhead, At, Who
<1> QED BY <1>1, <1>2, StepEffect

\* A step that moves its own player, who then leaves no room.
LEMMA LeavesMove ==
  ASSUME Control, LockInv, LeaveInv, NEW t \in Threads, NEW s, NEW f, Step(t, s, f), Holding(t), ~Leaves(s),
         \A p \in Players \ {Who(t)} : room'[p] = room[p]
  PROVE  LeaveInv'
<1>1. LeaveInv' <=> \A u \in Threads : Leaves(todo'[u]) => room'[frame'[u].who] = frame'[u].from
  BY DEF LeaveInv, Leaves, LeaveAhead, At, Who
<1>2. \A u \in Threads : Leaves(todo[u]) => room[frame[u].who] = frame[u].from
  BY DEF LeaveInv, Leaves, LeaveAhead, At, Who
<1>3. \A u \in Threads : Leaves(todo[u]) => Holding(u) /\ Who(u) \in Players
  BY AtWork DEF Leaves, LeaveAhead, Holding, Control
<1>4. \A u \in Threads \ {t} : Leaves(todo[u]) => Who(u) # Who(t)
  BY <1>3, Alone
<1> QED BY <1>1, <1>2, <1>3, <1>4, StepEffect DEF Who

\* Whom a thread is going to take out of a room is still there.
LEMMA LeaveStep ==
  ASSUME Control, LockInv, LeaveInv, Next
  PROVE  LeaveInv'
<1>0. /\ {"lock", "hit", "leave", "depart", "enter", "place", "strike", "hurt", "revive", "dispatch", "farewell", "seek"} \subseteq Steps
      /\ Ticker \in Threads /\ Players \subseteq Threads /\ {<<>>, Done, Parting, Watching} \subseteq Seq(Steps)
  BY Rests, Thens DEF Steps, Threads
<1>1. \A x \in Steps, w \in Seq(Steps) : Then(x, w) \in Seq(Steps)
  BY Thens
<1>2. ASSUME NEW t \in Threads, todo[t] # <<>>
      PROVE  /\ Rest(t) \in Seq(Steps) /\ frame[t].who = Who(t) /\ Who(t) \in Players /\ frame[t] \in Frames
             /\ t = Ticker => TickerRest(Head(todo[t]), Rest(t))
             /\ t # Ticker => PlayerRest(Head(todo[t]), Rest(t))
             /\ Leaves(todo[t]) => room[Who(t)] = frame[t].from
  BY <1>2, AtWork DEF Control, Rest, Who, Leaves, LeaveInv, At
<1>3. ASSUME NEW t \in Threads, Works(t) PROVE LeaveInv'
  <2>1. CASE Acquire(t) \/ Release(t)
    <3>1. todo[t] # <<>> /\ Head(todo[t]) \in {"lock", "unlock"} /\ room' = room
      BY <2>1 DEF Acquire, Release, At, bodies
    <3>2. ~Leaves(Rest(t))
      <4>1. /\ ~Leaves(Then("hurt", Done)) /\ ~Leaves(Then("dispatch", Done)) /\ ~Leaves(Then("enter", Done))
            /\ ~Leaves(Then("enter", Watching)) /\ ~Leaves(Then("farewell", Parting))
        BY <1>0, LeaveRests
      <4> QED BY <1>2, <3>1, <4>1, LeaveRests DEF TickerRest, PlayerRest
    <3>3. \E f : Step(t, Rest(t), f)
      BY <2>1, AcquireSteps, ReleaseSteps
    <3> QED BY <3>1, <3>2, <3>3, LeavesSteady
  <2>2. CASE Leave(t)
    <3>1. todo[t] # <<>> /\ Leaves(todo[t]) /\ room' = room /\ At(t, "leave")
      BY <2>2 DEF Leave, At, Leaves, LeaveAhead
    <3>2. room[frame[t].who] = frame[t].from
      BY <1>2, <3>1
    <3>3. \E s : Step(t, s, frame[t])
      BY <2>2, LeaveSteps
    <3> QED BY <3>1, <3>2, <3>3, LeavesSteady
  <2>3. CASE Depart(t)
    <3>1. /\ todo[t] # <<>> /\ Head(todo[t]) = "depart" /\ Holding(t)
          /\ \A p \in Players \ {Who(t)} : room'[p] = room[p]
      BY <2>3 DEF Depart, At, Holding, Control, VillageTypeOK
    <3>2. ~Leaves(Rest(t))
      BY <1>2, <3>1, LeaveRests DEF TickerRest, PlayerRest
    <3> QED BY <2>3, <3>1, <3>2, DepartSteps, LeavesMove
  <2>4. CASE Enter(t)
    <3>1. todo[t] # <<>> /\ Head(todo[t]) = "enter" /\ Holding(t)
      BY <2>4 DEF Enter, At, Holding
    <3>2. CASE room[Who(t)] \notin {None, frame[t].to}
      <4> DEFINE s == Then("leave", Then("depart", Then("enter", Rest(t))))
                 f == [frame[t] EXCEPT !.from = room[Who(t)]]
      <4>1. f.who = Who(t) /\ f.from = room[Who(t)] /\ room' = room
        BY <1>2, <2>4, <3>1, <3>2 DEF Frames, Who, Enter
      <4>2. Step(t, s, f)
        BY <2>4, <3>2, EnterSteps
      <4> HIDE DEF s, f
      <4> QED BY <4>1, <4>2, LeavesSteady
    <3>3. CASE room[Who(t)] \in {None, frame[t].to}
      <4>1. ~Leaves(Rest(t))
        BY <1>2, <3>1, LeaveRests DEF TickerRest, PlayerRest
      <4>2. \A p \in Players \ {Who(t)} : room'[p] = room[p]
        BY <2>4, <3>3 DEF Enter, Control, VillageTypeOK
      <4> QED BY <2>4, <3>1, <3>3, <4>1, <4>2, EnterSteps, LeavesMove
    <3> QED BY <3>2, <3>3
  <2>5. CASE Tends(t)
    <3>1. /\ todo[t] # <<>> /\ Head(todo[t]) \in {"refresh", "seek", "place", "protect", "attack", "strike"}
          /\ room' = room /\ t # Ticker /\ todo[t] = Then(Head(todo[t]), Rest(t))
      <4>1. todo[t] # <<>> /\ room' = room /\ Head(todo[t]) \in {"refresh", "seek", "place", "protect", "attack", "strike"}
        BY <2>5 DEF Tends, Refresh, Seek, Place, Protect, Attack, Strike, At, bodies
      <4>2. todo[t] \in Seq(Steps)
        BY DEF Control, VillageTypeOK
      <4> QED BY <2>5, <4>1, <4>2, TendsPlayers, VillageAssumption, Split DEF Rest
    <3>2. PICK s : /\ Step(t, s, frame[t])
                   /\ \/ s = Rest(t)
                      \/ Seek(t) /\ s = Then("place", Rest(t))
                      \/ Attack(t) /\ s = Then("strike", Rest(t))
      BY <2>5, TendsSteps DEF Tends
    <3>3. Leaves(s) => Leaves(todo[t])
      <4>1. CASE Head(todo[t]) \in {"protect", "attack", "strike"}
        <5>1. Rest(t) = Done /\ ~Seek(t)
          BY <1>2, <3>1, <4>1 DEF PlayerRest, Seek, At
        <5> QED BY <1>0, <3>2, <5>1, LeaveRests
      <4>2. CASE Head(todo[t]) \in {"seek", "place"}
        <5>1. Rest(t) \in Noticed /\ ~Attack(t)
          BY <1>2, <3>1, <4>2 DEF PlayerRest, Attack, At
        <5>2. Leaves(todo[t]) <=> Head(Rest(t)) = "leave"
          BY <3>1, <4>2, <5>1, LeaveRests
        <5> QED BY <3>2, <5>1, <5>2, LeaveRests
      <4>3. CASE Head(todo[t]) = "refresh"
        <5>1. PICK w \in Noticed : Rest(t) = Then("seek", w)
          BY <1>2, <3>1, <4>3 DEF PlayerRest
        <5>2. ~Seek(t) /\ ~Attack(t)
          BY <4>3 DEF Seek, Attack, At
        <5>3. Leaves(todo[t]) <=> Head(w) = "leave"
          BY <3>1, <4>3, <5>1, LeaveRests
        <5> QED BY <3>2, <5>1, <5>2, <5>3, LeaveRests
      <4> QED BY <3>1, <4>1, <4>2, <4>3
    <3> QED BY <1>2, <3>1, <3>2, <3>3, LeavesSteady
  <2> QED BY <1>3, <2>1, <2>2, <2>3, <2>4, <2>5 DEF Works, Walks
<1>4. ASSUME NEW p \in Players, \/ Begin(p) \/ HangUp(p) \/ Read(p) \/ Ask(p) \/ Dispatch(p)
                                \/ Disconnect(p) \/ Farewell(p) \/ Detach(p)
      PROVE  LeaveInv'
  <2>0. p \in Threads
    BY <1>0
  <2>1. CASE HangUp(p)
    BY <2>1 DEF HangUp, Steady, bodies, LeaveInv, Who, At
  <2>2. CASE ~HangUp(p)
    <3>1. room' = room
      BY <1>4, <2>2 DEF Begin, Read, Ask, Dispatch, Disconnect, Farewell, Detach, Steady, bodies
    <3>2. \A w \in {Done, Watching} : ~Leaves(Then("lock", Then("enter", w)))
      BY <1>0, <1>1, LeaveRests
    <3>3. ~Leaves(Then("lock", Then("dispatch", Done))) /\ ~Leaves(Then("lock", Then("farewell", Parting))) /\ ~Leaves(Done)
      BY <1>0, <1>1, LeaveRests
    <3>4. \E s, f : Step(p, s, f) /\ (Leaves(s) => room[f.who] = f.from)
      BY <1>4, <2>0, <2>2, <3>2, <3>3, OpeningSteps, DispatchSteps, ClosingSteps, HereFrames DEF Control
    <3> QED BY <2>0, <3>1, <3>4, LeavesSteady
  <2> QED BY <2>1, <2>2
<1>5. ASSUME Aim \/ Hit \/ Hurt \/ Revive PROVE LeaveInv'
  <2>1. room' = room
    BY <1>5 DEF Aim, Hit, Hurt, Revive, Steady, bodies
  <2>2. ~Leaves(Then("hit", <<>>)) /\ ~Leaves(Then("lock", Then("hurt", Done))) /\ ~Leaves(<<>>) /\ ~Leaves(Done)
        /\ ~Leaves(Then("enter", Done))
    BY <1>0, <1>1, LeaveRests
  <2>3. ASSUME Hurt
        PROVE  \E s, f : Step(Ticker, s, f) /\ (Leaves(s) => room[f.who] = f.from)
    <3>1. todo[Ticker] # <<>>
      BY <2>3 DEF Hurt, At
    <3>2. LET f == [frame[Ticker] EXCEPT !.from = room[Who(Ticker)]] IN f.who = Who(Ticker) /\ f.from = room[Who(Ticker)]
      BY <1>0, <1>2, <3>1 DEF Frames, Who
    <3> QED BY <2>2, <2>3, <3>2, TickerSteps
  <2>4. \E s, f : Step(Ticker, s, f) /\ (Leaves(s) => room[f.who] = f.from)
    BY <1>5, <2>2, <2>3, TickerSteps
  <2> QED BY <1>0, <2>1, <2>4, LeavesSteady
<1>6. ASSUME DarknessEnds PROVE LeaveInv'
  BY <1>6 DEF DarknessEnds, control, bodies, LeaveInv, Who, At
<1> QED BY <1>3, <1>4, <1>5, <1>6 DEF Next, Serves, Falls, Threads

\* Who is leaving a room is taken out of it by somebody.
LEMMA DepartStep ==
  ASSUME Control, LifeInv, DepartInv, Next
  PROVE  DepartInv'
<1>0. departing \in [Rooms -> SUBSET Players] /\ Players \subseteq Threads
  BY DEF Control, VillageTypeOK, Threads
<1>1. ASSUME NEW t \in Threads, NEW s, NEW f, Step(t, s, f), departing' = departing, ~At(t, "depart")
      PROVE  DepartInv'
  <2>1. ASSUME NEW p \in Players, NEW r \in Rooms, p \in departing'[r]
        PROVE  \E u \in Threads : At(u, "depart")' /\ Who(u)' = p /\ frame'[u].from = r
    <3>1. PICK u \in Threads : At(u, "depart") /\ Who(u) = p /\ frame[u].from = r
      BY <1>1, <2>1 DEF DepartInv
    <3>2. u # t
      BY <1>1, <3>1
    <3>3. todo'[u] = todo[u] /\ frame'[u] = frame[u] /\ Who(u)' = Who(u)
      BY <1>1, <3>2, StepEffect
    <3> QED BY <3>1, <3>3 DEF At
  <2> QED BY <2>1 DEF DepartInv
<1>2. ASSUME NEW t \in Threads, Works(t) PROVE DepartInv'
  <2>1. CASE Acquire(t) \/ Release(t)
    <3>1. departing' = departing /\ ~At(t, "depart")
      BY <2>1 DEF Acquire, Release, At, bodies
    <3> QED BY <1>1, <2>1, <3>1, AcquireSteps, ReleaseSteps
  <2>2. CASE Leave(t)
    <3> DEFINE out == Who(t) \in players[frame[t].from] \ departing[frame[t].from]
    <3>1. ~At(t, "depart") /\ At(t, "leave")
      BY <2>2 DEF Leave, At
    <3>2. CASE ~out
      BY <1>1, <2>2, <3>1, <3>2, LeaveSteps DEF Leave
    <3>3. CASE out
      <4>1. Step(t, Rest(t), frame[t]) /\ departing' = [departing EXCEPT ![frame[t].from] = @ \cup {Who(t)}]
        BY <2>2, <3>3, LeaveSteps DEF Leave
      <4>2. At(t, "depart")' /\ Who(t)' = Who(t) /\ frame'[t].from = frame[t].from
        <5>1. Head(Rest(t)) = "depart" /\ Rest(t) # <<>>
          BY <3>1, LeaveRest, Thens DEF Steps
        <5> QED BY <4>1, <5>1, StepEffect DEF At, Who
      <4>3. ASSUME NEW p \in Players, NEW r \in Rooms, p \in departing'[r]
            PROVE  \E u \in Threads : At(u, "depart")' /\ Who(u)' = p /\ frame'[u].from = r
        <5>1. CASE p = Who(t) /\ r = frame[t].from
          BY <4>2, <5>1
        <5>2. CASE ~(p = Who(t) /\ r = frame[t].from)
          <6>1. p \in departing[r]
            BY <1>0, <4>1, <4>3, <5>2
          <6>2. PICK u \in Threads : At(u, "depart") /\ Who(u) = p /\ frame[u].from = r
            BY <6>1 DEF DepartInv
          <6>3. u # t
            BY <3>1, <6>2 DEF At
          <6>4. todo'[u] = todo[u] /\ frame'[u] = frame[u] /\ Who(u)' = Who(u)
            BY <4>1, <6>3, StepEffect
          <6> QED BY <6>2, <6>4 DEF At
        <5> QED BY <5>1, <5>2
      <4> QED BY <4>3 DEF DepartInv
    <3> QED BY <3>2, <3>3
  <2>3. CASE Depart(t)
    <3>1. Step(t, Rest(t), frame[t]) /\ departing' = [departing EXCEPT ![frame[t].from] = @ \ {Who(t)}]
      BY <2>3, DepartSteps DEF Depart
    <3>2. ASSUME NEW p \in Players, NEW r \in Rooms, p \in departing'[r]
          PROVE  \E u \in Threads : At(u, "depart")' /\ Who(u)' = p /\ frame'[u].from = r
      <4>1. p \in departing[r] /\ ~(p = Who(t) /\ r = frame[t].from)
        BY <1>0, <3>1, <3>2
      <4>2. PICK u \in Threads : At(u, "depart") /\ Who(u) = p /\ frame[u].from = r
        BY <4>1 DEF DepartInv
      <4>3. u # t
        BY <4>1, <4>2
      <4>4. todo'[u] = todo[u] /\ frame'[u] = frame[u] /\ Who(u)' = Who(u)
        BY <3>1, <4>3, StepEffect
      <4> QED BY <4>2, <4>4 DEF At
    <3> QED BY <3>2 DEF DepartInv
  <2>4. CASE Enter(t)
    <3>1. departing' = departing /\ ~At(t, "depart")
      BY <2>4 DEF Enter, At
    <3> QED BY <1>1, <2>4, <3>1, EnterSteps
  <2>5. CASE Tends(t)
    <3>1. departing' = departing /\ ~At(t, "depart")
      BY <2>5 DEF Tends, Refresh, Seek, Place, Protect, Attack, Strike, At, bodies
    <3> QED BY <1>1, <2>5, <3>1, TendsSteps DEF Tends
  <2> QED BY <1>2, <2>1, <2>2, <2>3, <2>4, <2>5 DEF Works, Walks
<1>3. ASSUME NEW p \in Players, \/ Begin(p) \/ HangUp(p) \/ Read(p) \/ Ask(p) \/ Dispatch(p)
                                \/ Disconnect(p) \/ Farewell(p) \/ Detach(p)
      PROVE  DepartInv'
  <2>1. CASE HangUp(p)
    BY <2>1 DEF HangUp, Steady, bodies, DepartInv, Who, At
  <2>2. CASE ~HangUp(p)
    <3>1. departing' = departing /\ ~At(p, "depart")
      BY <1>3, <2>2 DEF Begin, Read, Ask, Dispatch, Disconnect, Farewell, Detach, Steady, bodies, At, Idle, LifeInv
    <3> QED BY <1>0, <1>1, <1>3, <2>2, <3>1, OpeningSteps, DispatchSteps, ClosingSteps
  <2> QED BY <2>1, <2>2
<1>4. ASSUME Aim \/ Hit \/ Hurt \/ Revive PROVE DepartInv'
  <2>1. departing' = departing /\ ~At(Ticker, "depart") /\ Ticker \in Threads
    BY <1>4 DEF Aim, Hit, Hurt, Revive, Steady, bodies, At, Idle, Threads
  <2> QED BY <1>1, <1>4, <2>1, TickerSteps
<1>5. ASSUME DarknessEnds PROVE DepartInv'
  BY <1>5 DEF DarknessEnds, control, bodies, DepartInv, Who, At
<1> QED BY <1>2, <1>3, <1>4, <1>5 DEF Next, Serves, Falls, Threads

-------------------------------------------------------------------------------
(* Health *)

\* A collapse, by its next step
LEMMA Collapses ==
  \A s \in Seq(Steps) : s \in Collapsing <=>
    /\ s # <<>>
    /\ \/ Head(s) = "revive" /\ Tail(s) = Done
       \/ Head(s) = "depart" /\ Tail(s) = Then("revive", Done)
       \/ Head(s) = "leave" /\ Tail(s) = Then("depart", Then("revive", Done))
<1>1. {"revive", "depart", "leave"} \subseteq Steps
  BY DEF Steps
<1>2. \A x \in Steps, w \in Seq(Steps) :
        Then(x, w) \in Seq(Steps) /\ Then(x, w) # <<>> /\ Head(Then(x, w)) = x /\ Tail(Then(x, w)) = w
  BY Thens
<1>3. Then("revive", Done) \in Seq(Steps) /\ Then("depart", Then("revive", Done)) \in Seq(Steps)
  BY <1>1, <1>2, Rests
<1>4. ASSUME NEW s \in Seq(Steps), s # <<>> PROVE s = Then(Head(s), Tail(s))
  BY <1>4, Split
<1>5. ASSUME NEW s \in Seq(Steps), s \in Collapsing
      PROVE  /\ s # <<>>
             /\ \/ Head(s) = "revive" /\ Tail(s) = Done
                \/ Head(s) = "depart" /\ Tail(s) = Then("revive", Done)
                \/ Head(s) = "leave" /\ Tail(s) = Then("depart", Then("revive", Done))
  <2>0. Done \in Seq(Steps)
    BY Rests
  <2>1. CASE s = Then("revive", Done)
    BY <1>1, <1>2, <2>0, <2>1
  <2>2. CASE s = Then("depart", Then("revive", Done))
    BY <1>1, <1>2, <1>3, <2>2
  <2>3. CASE s = Then("leave", Then("depart", Then("revive", Done)))
    BY <1>1, <1>2, <1>3, <2>3
  <2> QED BY <1>5, <2>1, <2>2, <2>3 DEF Collapsing
<1> QED BY <1>4, <1>5 DEF Collapsing

\* Who has no health left is about to wake up: nobody else takes the ticker's place.
LEMMA HealthStep ==
  ASSUME Control, HealthInv, Next
  PROVE  HealthInv'
<1>0. Ticker \in Threads /\ health \in [Players -> Nat] /\ Players \subseteq Threads \ {Ticker}
  BY VillageAssumption DEF Control, VillageTypeOK, Threads
<1>1. ASSUME NEW t \in Threads, NEW s, NEW f, Step(t, s, f), health' = health,
             t = Ticker /\ todo[Ticker] \in Collapsing => s \in Collapsing /\ f.who = Who(Ticker)
      PROVE  HealthInv'
  <2>1. CASE t = Ticker
    <3>1. todo'[Ticker] = s /\ Who(Ticker)' = f.who
      BY <1>1, <2>1, StepEffect
    <3> QED BY <1>1, <2>1, <3>1 DEF HealthInv
  <2>2. CASE t # Ticker
    <3>1. todo'[Ticker] = todo[Ticker] /\ Who(Ticker)' = Who(Ticker)
      BY <1>0, <1>1, <2>2, StepEffect
    <3> QED BY <1>1, <3>1 DEF HealthInv
  <2> QED BY <2>1, <2>2
<1>2. ASSUME todo[Ticker] \in Collapsing
      PROVE  todo[Ticker] # <<>> /\ Head(todo[Ticker]) \in {"revive", "depart", "leave"}
  <2>1. todo[Ticker] \in Seq(Steps)
    BY <1>0 DEF Control, VillageTypeOK
  <2> QED BY <1>2, <2>1, Collapses
<1>3. ASSUME NEW t \in Threads, Works(t) PROVE HealthInv'
  <2>0. frame[t].who = Who(t)
    BY DEF Who
  <2>1. CASE Acquire(t) \/ Release(t)
    <3>1. health' = health /\ todo[t] # <<>> /\ Head(todo[t]) \in {"lock", "unlock"}
      BY <2>1 DEF Acquire, Release, At, bodies
    <3> QED BY <1>1, <1>2, <2>1, <3>1, AcquireSteps, ReleaseSteps
  <2>2. CASE Leave(t)
    <3>1. health' = health /\ At(t, "leave") /\ todo[t] \in Seq(Steps)
      BY <2>2 DEF Leave, Control, VillageTypeOK
    <3>2. ASSUME t = Ticker, todo[Ticker] \in Collapsing
          PROVE  Rest(t) \in Collapsing /\ Tail(Rest(t)) \in Collapsing
      <4>1. Rest(t) = Then("depart", Then("revive", Done))
        BY <3>1, <3>2, Collapses DEF Rest, At
      <4>2. "revive" \in Steps /\ "depart" \in Steps /\ Done \in Seq(Steps)
        BY Rests DEF Steps
      <4>3. Tail(Rest(t)) = Then("revive", Done)
        <5>1. Then("revive", Done) \in Seq(Steps)
          BY <4>2, Thens
        <5>2. \A w \in Seq(Steps) : Tail(Then("depart", w)) = w
          BY <4>2, Thens
        <5> QED BY <4>1, <5>1, <5>2, Zenon
      <4> QED BY <4>1, <4>3 DEF Collapsing
    <3> QED BY <1>1, <2>0, <2>2, <3>1, <3>2, LeaveSteps
  <2>3. CASE Depart(t)
    <3>1. health' = health /\ At(t, "depart") /\ todo[t] \in Seq(Steps)
      BY <2>3 DEF Depart, Control, VillageTypeOK
    <3>2. ASSUME t = Ticker, todo[Ticker] \in Collapsing
          PROVE  Rest(t) \in Collapsing
      BY <3>1, <3>2, Collapses DEF Rest, At, Collapsing
    <3> QED BY <1>1, <2>0, <2>3, <3>1, <3>2, DepartSteps
  <2>4. CASE Enter(t)
    <3>1. health' = health /\ Head(todo[t]) = "enter"
      BY <2>4 DEF Enter, At
    <3>2. ~(t = Ticker /\ todo[Ticker] \in Collapsing)
      BY <1>2, <3>1
    <3>3. \E s, f : Step(t, s, f)
      BY <2>4, EnterSteps
    <3> QED BY <1>1, <3>1, <3>2, <3>3
  <2>5. CASE Tends(t)
    <3>1. health' = health /\ t # Ticker
      BY <1>0, <2>5, TendsPlayers DEF Tends, Refresh, Seek, Place, Protect, Attack, Strike, bodies
    <3> QED BY <1>1, <2>5, <3>1, TendsSteps DEF Tends
  <2> QED BY <1>3, <2>1, <2>2, <2>3, <2>4, <2>5 DEF Works, Walks
<1>4. ASSUME NEW p \in Players, \/ Begin(p) \/ HangUp(p) \/ Read(p) \/ Ask(p) \/ Dispatch(p)
                                \/ Disconnect(p) \/ Farewell(p) \/ Detach(p)
      PROVE  HealthInv'
  <2>1. CASE HangUp(p)
    BY <2>1 DEF HangUp, Steady, bodies, HealthInv, Who
  <2>2. CASE ~HangUp(p)
    <3>1. health' = health
      BY <1>4, <2>2 DEF Begin, Read, Ask, Dispatch, Disconnect, Farewell, Detach, Steady, bodies
    <3> QED BY <1>0, <1>1, <1>4, <2>2, <3>1, OpeningSteps, DispatchSteps, ClosingSteps
  <2> QED BY <2>1, <2>2
<1>5. CASE Aim \/ Hit
  <2>1. health' = health /\ (todo[Ticker] = <<>> \/ Head(todo[Ticker]) = "hit")
    BY <1>5 DEF Aim, Hit, Steady, bodies, At, Idle
  <2> QED BY <1>0, <1>1, <1>2, <1>5, <2>1, TickerSteps
<1>6. CASE Hurt
  <2>1. At(Ticker, "hurt") /\ health[Who(Ticker)] \in Nat \ {0} /\ Who(Ticker) \in Players /\ frame[Ticker] \in Frames
    BY <1>0, <1>6, HurtAlive, AtWork DEF Hurt, Control, At
  <2>2. todo[Ticker] \notin Collapsing
    BY <1>2, <2>1 DEF At
  <2>3. CASE ~playing[Who(Ticker)]
    BY <1>0, <1>1, <1>6, <2>2, <2>3, TickerSteps DEF Hurt
  <2>4. CASE playing[Who(Ticker)]
    <3> DEFINE p == Who(Ticker)
               revived == Then("revive", Done)
               s == IF health[p] - 1 > 0 THEN Done
                    ELSE IF room[p] \in {None, Square} THEN revived
                    ELSE Then("leave", Then("depart", revived))
               f == [frame[Ticker] EXCEPT !.from = room[p]]
    <3>1. Step(Ticker, s, f) /\ health' = [health EXCEPT ![p] = health[p] - 1]
      BY <1>6, <2>4, TickerSteps DEF Hurt
    <3>2. f.who = p
      BY <2>1 DEF Frames, Who
    <3>3. health[p] - 1 = 0 => s \in Collapsing
      BY DEF Collapsing
    <3> HIDE DEF s, f
    <3>4. todo'[Ticker] = s /\ Who(Ticker)' = p
      BY <1>0, <3>1, <3>2, StepEffect
    <3>5. ASSUME NEW q \in Players, health'[q] = 0
          PROVE  Who(Ticker)' = q /\ todo'[Ticker] \in Collapsing
      <4>1. CASE q = p
        BY <1>0, <3>1, <3>3, <3>4, <3>5, <4>1
      <4>2. CASE q # p
        BY <1>0, <2>2, <3>1, <3>5, <4>2 DEF HealthInv
      <4> QED BY <4>1, <4>2
    <3> QED BY <3>5 DEF HealthInv
  <2> QED BY <2>3, <2>4
<1>7. CASE Revive
  <2>1. health' = [health EXCEPT ![Who(Ticker)] = 1]
    BY <1>7 DEF Revive
  <2>2. ASSUME NEW q \in Players PROVE health'[q] # 0
    BY <1>0, <2>1 DEF HealthInv
  <2> QED BY <2>2 DEF HealthInv
<1>8. ASSUME DarknessEnds PROVE HealthInv'
  BY <1>8 DEF DarknessEnds, control, bodies, HealthInv, Who
<1> QED BY <1>3, <1>4, <1>5, <1>6, <1>7, <1>8 DEF Next, Serves, Falls, Threads

-------------------------------------------------------------------------------
(* Sessions *)

\* A farewell, by its next step
LEMMA Farewelling ==
  \A s \in Seq(Steps) : s \in Farewells <=>
    /\ s # <<>>
    /\ \/ Head(s) = "unlock" /\ Tail(s) = Relocking
       \/ Head(s) = "lock" /\ Tail(s) \in {Detaching, Then("farewell", Parting)}
       \/ Head(s) = "detach" /\ Tail(s) = Done
       \/ Head(s) \in {"depart", "farewell"} /\ Tail(s) = Parting
       \/ Head(s) = "leave" /\ Tail(s) = Then("depart", Parting)
<1>1. {"unlock", "lock", "detach", "depart", "farewell", "leave"} \subseteq Steps
  BY DEF Steps
<1>2. \A x \in Steps, w \in Seq(Steps) :
        Then(x, w) \in Seq(Steps) /\ Then(x, w) # <<>> /\ Head(Then(x, w)) = x /\ Tail(Then(x, w)) = w
  BY Thens
<1>3. /\ {Done, Detaching, Relocking, Parting} \subseteq Seq(Steps)
      /\ Then("depart", Parting) \in Seq(Steps) /\ Then("farewell", Parting) \in Seq(Steps)
  BY <1>1, <1>2, Rests
<1>4. ASSUME NEW s \in Seq(Steps), s # <<>> PROVE s = Then(Head(s), Tail(s))
  BY <1>4, Split
<1>5. /\ Head(Parting) = "unlock" /\ Tail(Parting) = Relocking /\ Parting # <<>>
      /\ Head(Relocking) = "lock" /\ Tail(Relocking) = Detaching /\ Relocking # <<>>
      /\ Head(Detaching) = "detach" /\ Tail(Detaching) = Done /\ Detaching # <<>>
  BY <1>1, <1>2, <1>3 DEF Parting, Relocking, Detaching
<1>6. ASSUME NEW s \in Seq(Steps), s \in Farewells
      PROVE  /\ s # <<>>
             /\ \/ Head(s) = "unlock" /\ Tail(s) = Relocking
                \/ Head(s) = "lock" /\ Tail(s) \in {Detaching, Then("farewell", Parting)}
                \/ Head(s) = "detach" /\ Tail(s) = Done
                \/ Head(s) \in {"depart", "farewell"} /\ Tail(s) = Parting
                \/ Head(s) = "leave" /\ Tail(s) = Then("depart", Parting)
  <2>1. CASE s \in Left
    BY <1>5, <2>1 DEF Left
  <2>2. CASE s = Then("depart", Parting)
    BY <1>1, <1>2, <1>3, <2>2
  <2>3. CASE s = Then("leave", Then("depart", Parting))
    BY <1>1, <1>2, <1>3, <2>3, ZenonT(60)
  <2>4. CASE s = Then("farewell", Parting)
    BY <1>1, <1>2, <1>3, <2>4
  <2>5. CASE s = Then("lock", Then("farewell", Parting))
    BY <1>1, <1>2, <1>3, <2>5
  <2> QED BY <1>6, <2>1, <2>2, <2>3, <2>4, <2>5 DEF Farewells
<1>7. ASSUME NEW s \in Seq(Steps), s # <<>>,
             \/ Head(s) = "unlock" /\ Tail(s) = Relocking
             \/ Head(s) = "lock" /\ Tail(s) \in {Detaching, Then("farewell", Parting)}
             \/ Head(s) = "detach" /\ Tail(s) = Done
             \/ Head(s) \in {"depart", "farewell"} /\ Tail(s) = Parting
             \/ Head(s) = "leave" /\ Tail(s) = Then("depart", Parting)
      PROVE  s \in Farewells
  <2>1. s = Then(Head(s), Tail(s))
    BY <1>4, <1>7
  <2> QED BY <1>7, <2>1 DEF Farewells, Left, Parting, Relocking, Detaching
<1> QED BY <1>6, <1>7

\* What is no farewell
LEMMA NoFarewells ==
  /\ \A s \in {<<>>, Done, Watching} \cup Moving \cup Noticed \cup Commanded : s \notin Farewells
  /\ \A x \in Steps \ {"unlock", "lock", "detach", "depart", "farewell", "leave"}, w \in Seq(Steps) :
       Then(x, w) \notin Farewells
  /\ \A x \in Steps \ {"unlock"}, w \in Seq(Steps) :
       /\ Then("leave", Then("depart", Then(x, w))) \notin Farewells
       /\ x \notin {"detach", "farewell"} => Then("lock", Then(x, w)) \notin Farewells
<1>1. {"unlock", "lock", "detach", "depart", "farewell", "leave", "refresh", "seek", "enter", "ask", "protect", "attack"} \subseteq Steps
  BY DEF Steps
<1>2. \A x \in Steps, w \in Seq(Steps) :
        Then(x, w) \in Seq(Steps) /\ Then(x, w) # <<>> /\ Head(Then(x, w)) = x /\ Tail(Then(x, w)) = w
  BY Thens
<1>3. ASSUME NEW x \in Steps \ {"unlock", "lock", "detach", "depart", "farewell", "leave"}, NEW w \in Seq(Steps)
      PROVE  Then(x, w) \notin Farewells
  <2>1. Then(x, w) \in Seq(Steps) /\ Head(Then(x, w)) = x
    BY <1>2
  <2> QED BY <2>1, Farewelling
<1>4. ASSUME NEW m \in Seq(Steps), m # <<>>, Head(m) # "unlock"
      PROVE  Then("leave", Then("depart", m)) \notin Farewells
  <2>1. m # Parting
    BY <1>4, Heads
  <2>2. Then("depart", m) # Then("depart", Parting)
    <3>1. Tail(Then("depart", m)) = m /\ Tail(Then("depart", Parting)) = Parting
      BY <1>1, <1>2, Rests
    <3> QED BY <2>1, <3>1
  <2>3. LET s == Then("leave", Then("depart", m))
        IN  s \in Seq(Steps) /\ Head(s) = "leave" /\ Tail(s) = Then("depart", m)
    BY <1>1, <1>2
  <2> QED BY <2>2, <2>3, Farewelling
<1>5. ASSUME NEW x \in Steps \ {"unlock"}, NEW w \in Seq(Steps)
      PROVE  /\ Then("leave", Then("depart", Then(x, w))) \notin Farewells
             /\ x \notin {"detach", "farewell"} => Then("lock", Then(x, w)) \notin Farewells
  <2>1. Then(x, w) \in Seq(Steps) /\ Then(x, w) # <<>> /\ Head(Then(x, w)) = x
    BY <1>2
  <2>2. LET s == Then("lock", Then(x, w)) IN s \in Seq(Steps) /\ Head(s) = "lock" /\ Tail(s) = Then(x, w)
    BY <1>1, <1>2, <2>1
  <2>3. Head(Detaching) = "detach" /\ Head(Then("farewell", Parting)) = "farewell"
    BY <1>1, <1>2, Rests, Heads
  <2> QED BY <1>4, <2>1, <2>2, <2>3, Farewelling
<1>6. <<>> \notin Farewells
  BY EmptySeq, Farewelling
<1>7. Done \notin Farewells
  <2>1. Done \in Seq(Steps) /\ Head(Done) = "unlock" /\ Relocking # <<>>
    BY Heads
  <2>2. Tail(Done) = <<>>
    BY <1>1, Thens DEF Done
  <2> QED BY <2>1, <2>2, Farewelling
<1>8. /\ Then("seek", Done) \in Seq(Steps) /\ Then("seek", Then("enter", Done)) \in Seq(Steps)
      /\ \A w \in Noticed : Then("seek", w) \in Seq(Steps)
      /\ Done \in Seq(Steps) /\ Moving \subseteq Seq(Steps) /\ Noticed \subseteq Seq(Steps)
  BY <1>1, <1>2, Rests
<1>9. Watching \notin Farewells
  BY <1>1, <1>3, <1>8 DEF Watching
<1>10. \A m \in Moving : m \notin Farewells
  BY <1>1, <1>3, <1>8 DEF Moving
<1>11. \A w \in Noticed : w \notin Farewells
  <2>0. \A x \in Steps \ {"unlock"}, w \in Seq(Steps) : Then(x, w) # <<>> /\ Head(Then(x, w)) # "unlock"
    BY <1>2
  <2>1. \A m \in Moving : m # <<>> /\ Head(m) # "unlock"
    BY <1>1, <1>8, <2>0 DEF Moving
  <2>2. \A m \in Moving : Then("leave", Then("depart", m)) \notin Farewells
    BY <1>4, <1>8, <2>1
  <2> QED BY <1>1, <1>3, <1>7, <1>8, <2>2 DEF Noticed
<1>12. \A s \in Commanded : s \notin Farewells
  BY <1>1, <1>3, <1>8, <1>11 DEF Commanded
<1> QED BY <1>3, <1>5, <1>6, <1>7, <1>9, <1>10, <1>11, <1>12

\* A player's thread comes to a farewell by no other way than from one.
LEMMA FarewellRests ==
  ASSUME Control, NEW p \in Players, todo[p] # <<>>
  PROVE  /\ Rest(p) \in Farewells => todo[p] \in Farewells
         /\ At(p, "leave") /\ Tail(Rest(p)) \in Farewells => todo[p] \in Farewells
<1>0. {"unlock", "lock", "depart", "farewell", "leave", "seek", "enter", "dispatch"} \subseteq Steps
  BY DEF Steps
<1>1. p \in Threads /\ p # Ticker /\ todo[p] \in Seq(Steps)
  BY PlayerThreads DEF Control, VillageTypeOK
<1>2. PlayerRest(Head(todo[p]), Rest(p))
  BY <1>1, AtWork DEF Control, Rest
<1>3. Done \in Seq(Steps) /\ Watching \in Seq(Steps) /\ Noticed \subseteq Seq(Steps) /\ Departed \subseteq Seq(Steps)
  BY Rests
<1>4. \A m \in Departed : m \in Farewells => m = Parting
  BY <1>0, <1>3, NoFarewells DEF Departed
<1>5. \A m \in Departed : Then("depart", m) \in Farewells => m = Parting
  <2>1. ASSUME NEW m \in Departed, Then("depart", m) \in Farewells PROVE m = Parting
    <3>1. /\ Then("depart", m) \in Seq(Steps) /\ Head(Then("depart", m)) = "depart"
          /\ Tail(Then("depart", m)) = m
      BY <1>0, <1>3, Thens
    <3> QED BY <2>1, <3>1, Farewelling
  <2> QED BY <2>1
<1>6. CASE Head(todo[p]) = "leave"
  <2>1. PICK m \in Departed : Rest(p) = Then("depart", m)
    BY <1>2, <1>6 DEF PlayerRest
  <2>2. Tail(Rest(p)) = m
    <3>1. \A w \in Seq(Steps) : Tail(Then("depart", w)) = w
      BY <1>0, Thens
    <3> QED BY <1>3, <2>1, <3>1
  <2>3. Rest(p) \in Farewells \/ Tail(Rest(p)) \in Farewells => m = Parting
    BY <1>4, <1>5, <2>1, <2>2
  <2>4. m = Parting => todo[p] \in Farewells
    BY <1>1, <1>6, <2>1, Farewelling DEF Rest
  <2> QED BY <2>3, <2>4
<1>7. CASE Head(todo[p]) = "depart"
  <2>1. Rest(p) \in Departed
    BY <1>2, <1>7 DEF PlayerRest
  <2>2. Rest(p) = Parting => todo[p] \in Farewells
    BY <1>1, <1>7, Farewelling DEF Rest
  <2> QED BY <1>4, <1>7, <2>1, <2>2 DEF At
<1>8. CASE Head(todo[p]) = "lock"
  <2>1. /\ Then("dispatch", Done) \notin Farewells /\ Then("enter", Done) \notin Farewells
        /\ Then("enter", Watching) \notin Farewells
    BY <1>0, <1>3, NoFarewells
  <2>2. Rest(p) \in Farewells => Rest(p) \in {Detaching, Then("farewell", Parting)}
    BY <1>2, <1>8, <2>1 DEF PlayerRest
  <2>3. Rest(p) \in {Detaching, Then("farewell", Parting)} => todo[p] \in Farewells
    BY <1>1, <1>8, Farewelling DEF Rest
  <2> QED BY <1>8, <2>2, <2>3 DEF At
<1>9. CASE Head(todo[p]) = "unlock"
  <2>1. Rest(p) \in Farewells => Rest(p) = Relocking
    BY <1>2, <1>9, NoFarewells DEF PlayerRest
  <2>2. Rest(p) = Relocking => todo[p] \in Farewells
    BY <1>1, <1>9, Farewelling DEF Rest
  <2> QED BY <1>9, <2>1, <2>2 DEF At
<1>10. CASE Head(todo[p]) = "farewell"
  <2>1. Rest(p) = Parting
    BY <1>2, <1>10 DEF PlayerRest
  <2>2. todo[p] \in Farewells
    BY <1>1, <1>10, <2>1, Farewelling DEF Rest
  <2> QED BY <2>2
<1>11. CASE Head(todo[p]) \notin {"leave", "depart", "lock", "unlock", "farewell"}
  <2>1. \A w \in Noticed : Then("seek", w) \notin Farewells
    BY <1>0, <1>3, NoFarewells
  <2>2. Rest(p) \notin Farewells
    BY <1>2, <1>11, <2>1, NoFarewells DEF PlayerRest
  <2> QED BY <1>11, <2>2 DEF At
<1> QED BY <1>6, <1>7, <1>8, <1>9, <1>10, <1>11

\* A step of a thread while its session goes on as before.
LEMMA LifeSteady ==
  ASSUME Control, LifeInv, NEW t \in Threads, NEW s, NEW f, Step(t, s, f), playing' = playing, running' = running,
         t \in Players => /\ s \in Farewells => playing[t] /\ ~running[t]
                          /\ playing[t] \/ s = <<>>
  PROVE  LifeInv'
<1>1. ASSUME NEW p \in Players
      PROVE  /\ todo'[p] \in Farewells => playing'[p] /\ ~running'[p]
             /\ ~playing'[p] => todo'[p] \in {<<>>, Done}
             /\ ~playing'[p] /\ running'[p] => todo'[p] = <<>>
  <2>0. p \in Threads
    BY PlayerThreads
  <2>1. CASE t = p
    BY <2>1, StepEffect
  <2>2. CASE t # p
    BY <2>0, <2>2, StepEffect DEF LifeInv
  <2> QED BY <2>1, <2>2
<1> QED BY <1>1 DEF LifeInv

\* A farewell is said, and the session given up, when the connection has ended.
LEMMA LifeStep ==
  ASSUME Control, LifeInv, Next
  PROVE  LifeInv'
<1>0. /\ {"leave", "depart", "enter", "place", "strike", "dispatch", "seek", "unlock", "lock"} \subseteq Steps
      /\ Ticker \in Threads /\ Ticker \notin Players /\ Threads = Players \cup {Ticker}
  BY VillageAssumption DEF Steps, Threads
<1>1. /\ playing \in [Players -> BOOLEAN] /\ running \in [Players -> BOOLEAN]
      /\ \A t \in Threads : todo[t] \in Seq(Steps)
  BY DEF Control, VillageTypeOK
<1>2. ASSUME NEW t \in Players, todo[t] # <<>>, ~playing[t] PROVE Head(todo[t]) = "unlock" /\ Rest(t) = <<>>
  <2>1. todo[t] = Done
    BY <1>2 DEF LifeInv
  <2>2. Head(Done) = "unlock" /\ Tail(Done) = <<>>
    BY <1>0, Thens DEF Done
  <2> QED BY <2>1, <2>2 DEF Rest
<1>3. ASSUME NEW t \in Players, todo[t] \in Farewells PROVE playing[t] /\ ~running[t]
  BY <1>3 DEF LifeInv
<1>4. ASSUME NEW t \in Threads, Works(t) PROVE LifeInv'
  <2>1. playing' = playing /\ running' = running /\ todo[t] # <<>>
    BY <1>4 DEF Works, Walks, Tends, Acquire, Release, Leave, Depart, Enter, Refresh, Seek, Place, Protect, Attack,
                Strike, bodies, At
  <2>2. CASE Acquire(t) \/ Release(t) \/ Depart(t)
    <3>1. \E f : Step(t, Rest(t), f)
      BY <2>2, AcquireSteps, ReleaseSteps, DepartSteps
    <3>2. t \in Players => (Rest(t) \in Farewells => playing[t] /\ ~running[t]) /\ (playing[t] \/ Rest(t) = <<>>)
      BY <1>2, <1>3, <2>1, FarewellRests
    <3> QED BY <2>1, <3>1, <3>2, LifeSteady
  <2>3. CASE Leave(t)
    <3>1. At(t, "leave") /\ Head(todo[t]) = "leave"
      BY <2>3 DEF Leave, At
    <3>2. \E s : Step(t, s, frame[t]) /\ s \in {Rest(t), Tail(Rest(t))}
      BY <2>3, LeaveSteps
    <3>3. t \in Players => /\ Rest(t) \in Farewells \/ Tail(Rest(t)) \in Farewells => playing[t] /\ ~running[t]
                           /\ playing[t]
      BY <1>2, <1>3, <2>1, <3>1, FarewellRests
    <3> QED BY <2>1, <3>2, <3>3, LifeSteady
  <2>4. CASE Enter(t)
    <3>1. Head(todo[t]) = "enter"
      BY <2>4 DEF Enter, At
    <3>2. Rest(t) \in Seq(Steps)
      BY <2>1, AtWork DEF Control, Rest
    <3>3. Then("leave", Then("depart", Then("enter", Rest(t)))) \notin Farewells
      BY <1>0, <3>2, NoFarewells
    <3>4. t \in Players => (Rest(t) \in Farewells => playing[t] /\ ~running[t]) /\ playing[t]
      BY <1>2, <1>3, <2>1, <3>1, FarewellRests
    <3>5. \E s, f : Step(t, s, f) /\ s \in {Rest(t), Then("leave", Then("depart", Then("enter", Rest(t))))}
      BY <2>4, EnterSteps
    <3> QED BY <2>1, <3>3, <3>4, <3>5, LifeSteady
  <2>5. CASE Tends(t)
    <3>1. Head(todo[t]) # "unlock"
      BY <2>5 DEF Tends, Refresh, Seek, Place, Protect, Attack, Strike, At
    <3>2. Rest(t) \in Seq(Steps)
      BY <2>1, AtWork DEF Control, Rest
    <3>3. Then("place", Rest(t)) \notin Farewells /\ Then("strike", Rest(t)) \notin Farewells
      BY <1>0, <3>2, NoFarewells
    <3>4. t \in Players => (Rest(t) \in Farewells => playing[t] /\ ~running[t]) /\ playing[t]
      BY <1>2, <1>3, <2>1, <3>1, FarewellRests
    <3>5. \E s : Step(t, s, frame[t]) /\ s \in {Rest(t), Then("place", Rest(t)), Then("strike", Rest(t))}
      BY <2>5, TendsSteps DEF Tends
    <3> QED BY <2>1, <3>3, <3>4, <3>5, LifeSteady
  <2> QED BY <1>4, <2>2, <2>3, <2>4, <2>5 DEF Works, Walks
<1>5. ASSUME NEW p \in Players, Begin(p) PROVE LifeInv'
  <2>1. playing' = [playing EXCEPT ![p] = TRUE] /\ running' = running /\ running[p] /\ p \in Threads
    BY <1>0, <1>5 DEF Begin
  <2>2. PICK f \in Frames, w \in {Done, Watching} : Step(p, Then("lock", Then("enter", w)), f)
    BY <1>5, OpeningSteps
  <2> DEFINE s == Then("lock", Then("enter", w))
  <2>3. s \notin Farewells
    BY <1>0, Rests, NoFarewells
  <2> HIDE DEF s
  <2>4. todo'[p] = s /\ \A q \in Players \ {p} : todo'[q] = todo[q]
    BY <1>0, <2>1, <2>2, StepEffect DEF s
  <2>5. ASSUME NEW q \in Players
        PROVE  /\ todo'[q] \in Farewells => playing'[q] /\ ~running'[q]
               /\ ~playing'[q] => todo'[q] \in {<<>>, Done}
               /\ ~playing'[q] /\ running'[q] => todo'[q] = <<>>
    BY <1>1, <2>1, <2>3, <2>4 DEF LifeInv
  <2> QED BY <2>5 DEF LifeInv
<1>6. ASSUME NEW p \in Players, HangUp(p) PROVE LifeInv'
  <2>1. playing' = playing /\ running' = [running EXCEPT ![p] = FALSE] /\ playing[p] /\ todo' = todo
    BY <1>6 DEF HangUp, Steady, bodies
  <2> QED BY <1>1, <2>1 DEF LifeInv
<1>7. ASSUME NEW p \in Players, Read(p) \/ Disconnect(p) PROVE LifeInv'
  <2>1. playing' = playing /\ running' = running /\ playing[p] /\ (Disconnect(p) => ~running[p]) /\ p \in Threads
    BY <1>0, <1>7 DEF Read, Disconnect, Steady, bodies
  <2>2. Then("lock", Then("dispatch", Done)) \notin Farewells
    BY <1>0, Rests, NoFarewells
  <2> QED BY <1>7, <2>1, <2>2, OpeningSteps, LifeSteady
<1>8. ASSUME NEW p \in Players, Dispatch(p) \/ Ask(p) \/ Farewell(p) PROVE LifeInv'
  <2>1. /\ playing' = playing /\ running' = running /\ p \in Threads /\ todo[p] # <<>>
        /\ Head(todo[p]) \in {"dispatch", "ask", "farewell"}
    BY <1>0, <1>8 DEF Dispatch, Ask, Farewell, Steady, bodies, At
  <2>2. playing[p]
    BY <1>2, <2>1
  <2>3. CASE Dispatch(p)
    BY <2>1, <2>2, <2>3, DispatchSteps, NoFarewells, LifeSteady
  <2>4. CASE Ask(p)
    BY <2>1, <2>2, <2>4, ClosingSteps, NoFarewells, LifeSteady
  <2>5. CASE Farewell(p)
    <3>1. todo[p] \in Farewells /\ \E s : Step(p, s, Here(p))
      BY <2>5, ClosingSteps DEF Farewells
    <3> QED BY <1>3, <2>1, <2>2, <3>1, LifeSteady
  <2> QED BY <1>8, <2>3, <2>4, <2>5
<1>9. ASSUME NEW p \in Players, Detach(p) PROVE LifeInv'
  <2>1. playing' = [playing EXCEPT ![p] = FALSE] /\ running' = running /\ p \in Threads
    BY <1>0, <1>9 DEF Detach
  <2>2. Step(p, Done, frame[p]) /\ todo[p] \in Farewells
    BY <1>9, ClosingSteps DEF Farewells, Left
  <2>3. ~running[p] /\ Done \notin Farewells
    BY <1>3, <2>2, NoFarewells
  <2>4. todo'[p] = Done /\ \A q \in Players \ {p} : todo'[q] = todo[q]
    BY <1>0, <2>1, <2>2, StepEffect
  <2>5. ASSUME NEW q \in Players
        PROVE  /\ todo'[q] \in Farewells => playing'[q] /\ ~running'[q]
               /\ ~playing'[q] => todo'[q] \in {<<>>, Done}
               /\ ~playing'[q] /\ running'[q] => todo'[q] = <<>>
    BY <1>1, <2>1, <2>3, <2>4 DEF LifeInv
  <2> QED BY <2>5 DEF LifeInv
<1>10. ASSUME Aim \/ Hit \/ Hurt \/ Revive PROVE LifeInv'
  <2>1. playing' = playing /\ running' = running
    BY <1>10 DEF Aim, Hit, Hurt, Revive, Steady, bodies
  <2>2. \E s, f : Step(Ticker, s, f)
    BY <1>10, TickerSteps
  <2> QED BY <1>0, <2>1, <2>2, LifeSteady
<1>11. ASSUME DarknessEnds PROVE LifeInv'
  BY <1>11 DEF DarknessEnds, control, bodies, LifeInv
<1> QED BY <1>4, <1>5, <1>6, <1>7, <1>8, <1>9, <1>10, <1>11 DEF Next, Serves, Falls, Threads

-------------------------------------------------------------------------------
(* Who has said farewell *)

\* A player's thread comes to the end of a farewell from saying it, from leaving the room for
\* it, or from before that end.
LEMMA LeftRests ==
  ASSUME Control, NEW p \in Players, todo[p] # <<>>, Rest(p) \in Left
  PROVE  todo[p] \in Left \/ At(p, "depart") \/ At(p, "farewell")
<1>0. todo[p] \in Seq(Steps) /\ p \in Threads /\ p # Ticker
  BY PlayerThreads DEF Control, VillageTypeOK
<1>1. todo[p] \in Farewells /\ Rest(p) \in Seq(Steps)
  BY <1>0, FarewellRests, AtWork DEF Farewells, Control, Rest
<1>2. todo[p] = Then(Head(todo[p]), Rest(p))
  BY <1>0, Split DEF Rest
<1>3. Head(Rest(p)) \in {"unlock", "lock", "detach"}
  BY Heads DEF Left
<1>4. CASE Head(todo[p]) = "unlock" /\ Rest(p) = Relocking
  BY <1>2, <1>4 DEF Left, Parting
<1>5. CASE Head(todo[p]) = "lock" /\ Rest(p) = Detaching
  BY <1>2, <1>5 DEF Left, Relocking
<1>6. CASE Head(todo[p]) = "detach" /\ Rest(p) = Done
  BY <1>2, <1>6 DEF Left, Detaching
<1>7. Head(Then("farewell", Parting)) = "farewell" /\ Head(Then("depart", Parting)) = "depart"
  BY Rests, Thens DEF Steps
<1>8. Rest(p) \notin {Then("farewell", Parting), Then("depart", Parting)}
  BY <1>3, <1>7
<1> QED BY <1>0, <1>1, <1>4, <1>5, <1>6, <1>8, Farewelling DEF Rest, At

\* Somebody is gone when the farewell leaves no room, at the end of leaving it, or when the room
\* does not know the player.
LEMMA GoneBegins ==
  ASSUME Control, LifeInv, Next, NEW p \in Players, Gone(p)'
  PROVE  \/ Gone(p)
         \/ Farewell(p) /\ room[p] = None
         \/ Depart(p)
         \/ Leave(p) /\ p \notin players[frame[p].from] \ departing[frame[p].from] /\ Who(p) = p
<1>0. /\ Ticker \in Threads /\ Ticker \notin Players /\ Threads = Players \cup {Ticker} /\ p \in Threads
      /\ playing \in [Players -> BOOLEAN] /\ running \in [Players -> BOOLEAN]
      /\ {"leave", "depart", "enter", "place", "strike", "dispatch", "seek", "unlock", "lock"} \subseteq Steps
  BY VillageAssumption DEF Threads, Control, VillageTypeOK, Steps
<1>1. ASSUME NEW t \in Threads, NEW s, NEW f, Step(t, s, f), playing' = playing, running' = running,
             t # p \/ s \notin Left
      PROVE  Gone(p)
  <2>1. CASE t # p
    <3>1. todo'[p] = todo[p]
      BY <1>0, <1>1, <2>1, StepEffect
    <3> QED BY <1>1, <3>1 DEF Gone
  <2>2. CASE t = p
    <3>1. todo'[p] = s
      BY <1>1, <2>2, StepEffect
    <3> QED BY <1>1, <2>2, <3>1 DEF Gone
  <2> QED BY <2>1, <2>2
<1>2. ASSUME todo[p] \in Left PROVE Gone(p)
  BY <1>2 DEF LifeInv, Farewells, Gone
<1>3. ASSUME NEW t \in Threads, Works(t)
      PROVE  \/ Gone(p) \/ Depart(p)
             \/ Leave(p) /\ p \notin players[frame[p].from] \ departing[frame[p].from] /\ Who(p) = p
  <2>1. playing' = playing /\ running' = running /\ todo[t] # <<>>
    BY <1>3 DEF Works, Walks, Tends, Acquire, Release, Leave, Depart, Enter, Refresh, Seek, Place, Protect, Attack,
                Strike, bodies, At
  <2>2. CASE t # p
    <3>1. \E s, f : Step(t, s, f)
      BY <1>3, AcquireSteps, ReleaseSteps, LeaveSteps, DepartSteps, EnterSteps, TendsSteps DEF Works, Walks, Tends
    <3> QED BY <1>1, <2>1, <2>2, <3>1
  <2>3. CASE t = p /\ (Acquire(t) \/ Release(t))
    <3>1. \E f : Step(t, Rest(t), f)
      BY <2>3, AcquireSteps, ReleaseSteps
    <3>2. ~At(t, "depart") /\ ~At(t, "farewell")
      BY <2>3 DEF Acquire, Release, At
    <3> QED BY <1>1, <1>2, <2>1, <2>3, <3>1, <3>2, LeftRests
  <2>4. CASE t = p /\ Leave(t)
    <3>1. ~At(t, "depart") /\ ~At(t, "farewell") /\ Who(t) = p
      BY <2>1, <2>4 DEF Leave, At, Control, TodoInv
    <3>2. CASE Who(t) \in players[frame[t].from] \ departing[frame[t].from]
      BY <1>1, <1>2, <2>1, <2>4, <3>1, <3>2, LeaveSteps, LeftRests
    <3>3. CASE Who(t) \notin players[frame[t].from] \ departing[frame[t].from]
      BY <2>4, <3>1, <3>3
    <3> QED BY <3>2, <3>3
  <2>5. CASE t = p /\ Enter(t)
    <3>1. ~At(t, "depart") /\ ~At(t, "farewell") /\ Rest(t) \in Seq(Steps)
      BY <2>1, <2>5, AtWork DEF Enter, At, Control, Rest
    <3>2. Then("leave", Then("depart", Then("enter", Rest(t)))) \notin Left
      BY <1>0, <3>1, NoFarewells DEF Farewells
    <3>3. \E s, f : Step(t, s, f) /\ s \in {Rest(t), Then("leave", Then("depart", Then("enter", Rest(t))))}
      BY <2>5, EnterSteps
    <3> QED BY <1>1, <1>2, <2>1, <2>5, <3>1, <3>2, <3>3, LeftRests
  <2>6. CASE t = p /\ Tends(t)
    <3>1. ~At(t, "depart") /\ ~At(t, "farewell") /\ Rest(t) \in Seq(Steps)
      BY <2>1, <2>6, AtWork DEF Tends, Refresh, Seek, Place, Protect, Attack, Strike, At, Control, Rest
    <3>2. Then("place", Rest(t)) \notin Left /\ Then("strike", Rest(t)) \notin Left
      BY <1>0, <3>1, NoFarewells DEF Farewells
    <3>3. \E s : Step(t, s, frame[t]) /\ s \in {Rest(t), Then("place", Rest(t)), Then("strike", Rest(t))}
      BY <2>6, TendsSteps DEF Tends
    <3> QED BY <1>1, <1>2, <2>1, <2>6, <3>1, <3>2, <3>3, LeftRests
  <2> QED BY <1>3, <2>2, <2>3, <2>4, <2>5, <2>6 DEF Works, Walks
<1>4. ASSUME NEW q \in Players, Begin(q) PROVE Gone(p)
  <2>1. playing' = [playing EXCEPT ![q] = TRUE] /\ running' = running /\ running[q]
    BY <1>4 DEF Begin
  <2>2. q # p
    BY <1>0, <2>1 DEF Gone
  <2>3. \E s, f : Step(q, s, f)
    BY <1>4, OpeningSteps
  <2>4. todo'[p] = todo[p]
    BY <1>0, <2>2, <2>3, StepEffect
  <2> QED BY <1>0, <2>1, <2>2, <2>4 DEF Gone
<1>5. ASSUME NEW q \in Players, HangUp(q) PROVE Gone(p)
  <2>1. playing' = playing /\ running' = [running EXCEPT ![q] = FALSE] /\ playing[q] /\ todo' = todo
    BY <1>5 DEF HangUp, Steady, bodies
  <2>2. CASE todo[p] \in Left
    BY <1>2, <2>2
  <2>3. CASE todo[p] \notin Left
    BY <1>0, <2>1, <2>3 DEF Gone
  <2> QED BY <2>2, <2>3
<1>6. ASSUME NEW q \in Players, Read(q) \/ Disconnect(q) \/ Dispatch(q) \/ Ask(q) PROVE Gone(p)
  <2>1. playing' = playing /\ running' = running /\ q \in Threads
    BY <1>0, <1>6 DEF Read, Disconnect, Dispatch, Ask, Steady, bodies
  <2>2. Then("lock", Then("dispatch", Done)) \notin Left
    BY <1>0, Rests, NoFarewells DEF Farewells
  <2>3. Then("lock", Then("farewell", Parting)) \notin Left
    <3>1. /\ Head(Then("lock", Then("farewell", Parting))) = "lock"
          /\ Tail(Then("lock", Then("farewell", Parting))) = Then("farewell", Parting)
          /\ Head(Then("farewell", Parting)) = "farewell"
      <4>1. {"lock", "farewell"} \subseteq Steps /\ Parting \in Seq(Steps)
        BY Rests DEF Steps
      <4>2. Then("farewell", Parting) \in Seq(Steps) /\ Head(Then("farewell", Parting)) = "farewell"
        BY <4>1, Thens
      <4> QED BY <4>1, <4>2, Thens
    <3>2. Tail(Relocking) = Detaching
      BY <1>0, Rests, Thens DEF Relocking
    <3> QED BY <3>1, <3>2, Heads DEF Left
  <2>4. \A s \in Commanded \cup {Done} : s \notin Left
    BY NoFarewells DEF Farewells
  <2>5. \E s, f : Step(q, s, f) /\ s \notin Left
    BY <1>6, <2>2, <2>3, <2>4, OpeningSteps, DispatchSteps, ClosingSteps
  <2> QED BY <1>1, <2>1, <2>5
<1>7. ASSUME NEW q \in Players, Farewell(q) PROVE Gone(p) \/ (Farewell(p) /\ room[p] = None)
  <2>1. playing' = playing /\ running' = running /\ q \in Threads
    BY <1>0, <1>7 DEF Farewell, Steady, bodies
  <2>2. Step(q, IF room[q] # None THEN Then("leave", Then("depart", Parting)) ELSE Parting, Here(q))
    BY <1>7, ClosingSteps
  <2>3. Then("leave", Then("depart", Parting)) \notin Left
    <3>1. Head(Then("leave", Then("depart", Parting))) = "leave"
      BY Rests, Thens DEF Steps
    <3> QED BY <3>1, Heads DEF Left
  <2> QED BY <1>1, <1>7, <2>1, <2>2, <2>3
<1>8. ASSUME NEW q \in Players, Detach(q) PROVE Gone(p)
  <2>1. playing' = [playing EXCEPT ![q] = FALSE] /\ running' = running
    BY <1>8 DEF Detach
  <2>2. todo[q] \in Left /\ Step(q, Done, frame[q])
    BY <1>8, ClosingSteps DEF Left
  <2>3. CASE q = p
    BY <1>2, <2>2, <2>3
  <2>4. CASE q # p
    <3>1. todo'[p] = todo[p]
      BY <1>0, <2>2, <2>4, StepEffect
    <3> QED BY <1>0, <2>1, <2>4, <3>1 DEF Gone
  <2> QED BY <2>3, <2>4
<1>9. ASSUME Aim \/ Hit \/ Hurt \/ Revive PROVE Gone(p)
  <2>1. playing' = playing /\ running' = running
    BY <1>9 DEF Aim, Hit, Hurt, Revive, Steady, bodies
  <2>2. \E s, f : Step(Ticker, s, f)
    BY <1>9, TickerSteps
  <2> QED BY <1>0, <1>1, <2>1, <2>2
<1>10. ASSUME DarknessEnds PROVE Gone(p)
  BY <1>10 DEF DarknessEnds, control, bodies, Gone
<1> QED BY <1>3, <1>4, <1>5, <1>6, <1>7, <1>8, <1>9, <1>10 DEF Next, Serves, Falls, Threads

\* The ticker comes to carry somebody only from an acorn, and remembers who collapsed nowhere.
LEMMA CarryingBegins ==
  ASSUME Control, HealthInv, Next, Carrying'
  PROVE  /\ Who(Ticker)' = Who(Ticker)
         /\ Carrying \/ (room[Who(Ticker)] = None => Who(Ticker) \in late')
<1>0. /\ Ticker \in Threads /\ Players \subseteq Threads \ {Ticker} /\ todo[Ticker] \in Seq(Steps)
      /\ {"hit", "lock", "unlock", "hurt", "revive", "enter"} \subseteq Steps
  BY VillageAssumption DEF Threads, Control, VillageTypeOK, Steps
<1> DEFINE Carries(s) == s # <<>> /\ Head(s) \in {"leave", "depart", "revive", "enter"}
<1>1. ASSUME NEW s, NEW f, Step(Ticker, s, f)
      PROVE  Carries(s) /\ Who(Ticker)' = f.who
  BY <1>0, <1>1, StepEffect DEF Carrying
<1>2. ASSUME NEW t \in Threads \ {Ticker}, NEW s, NEW f, Step(t, s, f)
      PROVE  Who(Ticker)' = Who(Ticker) /\ Carrying
  BY <1>0, <1>2, StepEffect DEF Carrying
<1>3. ~Carries(<<>>) /\ ~Carries(Done) /\ ~Carries(Then("hit", <<>>)) /\ ~Carries(Then("lock", Then("hurt", Done)))
  <2>1. Head(Done) = "unlock" /\ Then("hurt", Done) \in Seq(Steps) /\ Head(Then("hit", <<>>)) = "hit"
    BY <1>0, Rests, Thens, Heads
  <2>2. Head(Then("lock", Then("hurt", Done))) = "lock"
    BY <1>0, <2>1, Thens
  <2> QED BY <2>1, <2>2
<1> HIDE DEF Carries
<1>4. ASSUME Works(Ticker) PROVE Carrying /\ Who(Ticker)' = Who(Ticker)
  <2>1. todo[Ticker] # <<>>
    BY <1>4 DEF Works, Walks, Tends, Acquire, Release, Leave, Depart, Enter, Refresh, Seek, Place, Protect, Attack,
                Strike, At
  <2>2. TickerRest(Head(todo[Ticker]), Rest(Ticker)) /\ frame[Ticker] \in Frames
    BY <1>0, <2>1, AtWork DEF Control, Rest
  <2>3. CASE Acquire(Ticker)
    <3>1. Step(Ticker, Rest(Ticker), frame[Ticker]) /\ Rest(Ticker) = Then("hurt", Done)
      BY <1>0, <2>2, <2>3, AcquireSteps DEF Acquire, At, TickerRest
    <3>2. Head(Then("hurt", Done)) = "hurt"
      BY <1>0, Rests, Thens
    <3> QED BY <1>1, <3>1, <3>2 DEF Carries
  <2>4. CASE Release(Ticker)
    <3>1. Rest(Ticker) = <<>> /\ Step(Ticker, Rest(Ticker), Noone)
      BY <1>0, <2>2, <2>4, ReleaseSteps DEF Release, At, TickerRest
    <3> QED BY <1>1, <1>3, <3>1
  <2>5. CASE Leave(Ticker) \/ Depart(Ticker) \/ Enter(Ticker)
    <3>1. Carrying
      BY <2>5 DEF Leave, Depart, Enter, At, Carrying
    <3>2. [frame[Ticker] EXCEPT !.from = room[Who(Ticker)]].who = Who(Ticker) /\ frame[Ticker].who = Who(Ticker)
      BY <2>2 DEF Frames, Who
    <3>3. \E s, f : Step(Ticker, s, f) /\ f.who = Who(Ticker)
      BY <1>0, <2>5, <3>2, LeaveSteps, DepartSteps, EnterSteps
    <3> QED BY <1>1, <3>1, <3>3
  <2>6. ~Tends(Ticker)
    BY <1>0, TendsPlayers, VillageAssumption
  <2> QED BY <1>4, <2>3, <2>4, <2>5, <2>6 DEF Works, Walks
<1>5. ASSUME NEW p \in Players, Works(p) PROVE Carrying /\ Who(Ticker)' = Who(Ticker)
  <2>1. \E s, f : Step(p, s, f)
    BY <1>0, <1>5, AcquireSteps, ReleaseSteps, LeaveSteps, DepartSteps, EnterSteps, TendsSteps DEF Works, Walks, Tends
  <2> QED BY <1>0, <1>2, <2>1
<1>6. ASSUME NEW p \in Players, Begin(p) \/ Read(p) \/ Ask(p) \/ Dispatch(p) \/ Disconnect(p) \/ Farewell(p) \/ Detach(p)
      PROVE  Carrying /\ Who(Ticker)' = Who(Ticker)
  <2>1. \E s, f : Step(p, s, f)
    BY <1>6, OpeningSteps, DispatchSteps, ClosingSteps
  <2> QED BY <1>0, <1>2, <2>1
<1>7. ASSUME (\E p \in Players : HangUp(p)) \/ DarknessEnds PROVE Carrying /\ Who(Ticker)' = Who(Ticker)
  BY <1>7 DEF HangUp, DarknessEnds, control, Carrying, Who
<1>8. ASSUME Aim \/ Hit PROVE FALSE
  <2>1. \E s, f : Step(Ticker, s, f) /\ s \in {<<>>, Then("hit", <<>>), Then("lock", Then("hurt", Done))}
    BY <1>8, TickerSteps
  <2> QED BY <1>1, <1>3, <2>1
<1>9. ASSUME Hurt
      PROVE  Who(Ticker)' = Who(Ticker) /\ (room[Who(Ticker)] = None => Who(Ticker) \in late')
  <2> DEFINE p == Who(Ticker)
             f == [frame[Ticker] EXCEPT !.from = room[p]]
  <2>1. health[p] \in Nat \ {0} /\ At(Ticker, "hurt") /\ todo[Ticker] # <<>>
    BY <1>9, HurtAlive DEF Hurt, At
  <2>2. f.who = p
    BY <1>0, <2>1, AtWork DEF Control, Frames, Who
  <2>3. playing[p] /\ ~(health[p] - 1 > 0)
    BY <1>1, <1>3, <1>9, TickerSteps
  <2>4. room[p] = None => p \in late'
    BY <1>9, <2>1, <2>3 DEF Hurt
  <2>5. \E s : Step(Ticker, s, f)
    BY <1>9, <2>3, TickerSteps
  <2> QED BY <1>1, <2>2, <2>4, <2>5
<1>10. ASSUME Revive PROVE Carrying /\ Who(Ticker)' = Who(Ticker)
  <2>1. Carrying
    BY <1>10 DEF Revive, At, Carrying
  <2>2. \E s : Step(Ticker, s, frame[Ticker])
    BY <1>10, TickerSteps
  <2> QED BY <1>1, <2>1, <2>2 DEF Who
<1> QED BY <1>4, <1>5, <1>6, <1>7, <1>8, <1>9, <1>10 DEF Next, Serves, Falls, Threads

\* Nobody brings back who is gone.
LEMMA GoneKept ==
  ASSUME Control, LifeInv, Next, NEW p \in Players, Gone(p), room[p] = None, ~(Who(Ticker) = p /\ Carrying)
  PROVE  room'[p] = None
<1>1. room \in [Players -> Rooms \cup {None}]
  BY DEF Control, VillageTypeOK
<1>2. ASSUME NEW t \in Threads, Depart(t) PROVE room'[p] = None
  BY <1>1, <1>2 DEF Depart
<1>3. ASSUME NEW t \in Threads, Enter(t) PROVE room'[p] = None
  <2>1. CASE Who(t) # p
    BY <1>1, <1>3, <2>1 DEF Enter
  <2>2. CASE Who(t) = p
    <3>1. todo[t] # <<>> /\ Head(todo[t]) = "enter"
      BY <1>3 DEF Enter, At
    <3>2. t # Ticker
      BY <2>2, <3>1 DEF Carrying
    <3>3. t = p
      BY <2>2, <3>1, <3>2 DEF Control, TodoInv, Threads
    <3>4. Head(todo[p]) # "enter"
      BY <3>1, <3>3, Heads DEF Gone, Left, LifeInv
    <3> QED BY <3>1, <3>3, <3>4
  <2> QED BY <2>1, <2>2
<1> QED BY <1>2, <1>3, PlacesChange

\* Those who collapsed after they had left are remembered.
LEMMA LateGrows ==
  ASSUME Control, Next
  PROVE  late \subseteq late'
<1>1. ASSUME NEW t \in Threads, Works(t) PROVE late' = late
  BY <1>1 DEF Works, Walks, Tends, Acquire, Release, Leave, Depart, Enter, Refresh, Seek, Place, Protect, Attack,
              Strike, bodies
<1>2. ASSUME NEW p \in Players, \/ Begin(p) \/ HangUp(p) \/ Read(p) \/ Ask(p) \/ Dispatch(p)
                                \/ Disconnect(p) \/ Farewell(p) \/ Detach(p)
      PROVE  late' = late
  BY <1>2 DEF Begin, HangUp, Read, Ask, Dispatch, Disconnect, Farewell, Detach, Steady, bodies
<1>3. ASSUME Aim \/ Hit \/ Revive \/ DarknessEnds PROVE late' = late
  BY <1>3 DEF Aim, Hit, Revive, DarknessEnds, Steady, bodies
<1>4. ASSUME Hurt PROVE late \subseteq late'
  BY <1>4 DEF Hurt
<1> QED BY <1>1, <1>2, <1>3, <1>4 DEF Next, Serves, Falls, Threads

\* Who has said farewell is nowhere, and not being carried anywhere, unless it was too late.
LEMMA GoneStep ==
  ASSUME Control, LockInv, PlaceInv, LeaveInv, DepartInv, HealthInv, LifeInv, GoneInv, Next
  PROVE  GoneInv'
<1>0. /\ Ticker \in Threads /\ Players \subseteq Threads \ {Ticker}
      /\ room \in [Players -> Rooms \cup {None}] /\ frame \in [Threads -> Frames]
  BY VillageAssumption DEF Threads, Control, VillageTypeOK, Frames
<1>1. SUFFICES ASSUME NEW p \in Players, p \notin late', Gone(p)'
               PROVE  room'[p] = None /\ ~(Who(Ticker)' = p /\ Carrying')
  BY DEF GoneInv
<1>2. p \notin late
  BY <1>1, LateGrows
<1>3. CASE Gone(p)
  <2>1. room[p] = None /\ ~(Who(Ticker) = p /\ Carrying)
    BY <1>1, <1>2, <1>3 DEF GoneInv
  <2>2. room'[p] = None
    BY <1>1, <1>3, <2>1, GoneKept
  <2>3. ~(Who(Ticker)' = p /\ Carrying')
    BY <1>1, <2>1, CarryingBegins
  <2> QED BY <2>2, <2>3
<1>4. ASSUME todo[p] # <<>>, Head(todo[p]) \in {"leave", "depart", "farewell"}, \E s, f : Step(p, s, f)
      PROVE  ~(Who(Ticker)' = p /\ Carrying')
  <2>1. Who(p) = p /\ Holding(p)
    BY <1>1, <1>4 DEF Control, TodoInv, Holding
  <2>2. Who(Ticker)' = Who(Ticker) /\ todo'[Ticker] = todo[Ticker]
    BY <1>0, <1>1, <1>4, StepEffect
  <2>3. Carrying' => Carrying
    BY <2>2 DEF Carrying
  <2>4. Carrying => Holding(Ticker)
    BY DEF Carrying, Holding
  <2>5. ~(Who(Ticker) = p /\ Holding(Ticker))
    BY <1>0, <1>1, <2>1, Alone
  <2> QED BY <2>2, <2>3, <2>4, <2>5
<1>5. CASE Farewell(p) /\ room[p] = None
  <2>1. room' = room /\ todo[p] # <<>> /\ Head(todo[p]) = "farewell" /\ \E s, f : Step(p, s, f)
    BY <1>1, <1>5, ClosingSteps DEF Farewell, Steady, bodies, At
  <2> QED BY <1>4, <1>5, <2>1
<1>6. CASE Depart(p)
  <2>1. todo[p] # <<>> /\ Head(todo[p]) = "depart" /\ At(p, "depart") /\ \E s, f : Step(p, s, f)
    BY <1>0, <1>1, <1>6, DepartSteps DEF Depart, At
  <2>2. Who(p) = p
    BY <1>1, <2>1 DEF Control, TodoInv
  <2>3. room[p] = frame[p].from
    BY <1>0, <1>1, <2>1, <2>2 DEF LeaveInv
  <2>4. room'[p] = None
    BY <1>0, <1>1, <1>6, <2>2, <2>3 DEF Depart
  <2> QED BY <1>4, <2>1, <2>4
<1>7. CASE Leave(p) /\ p \notin players[frame[p].from] \ departing[frame[p].from] /\ Who(p) = p
  <2>1. /\ todo[p] # <<>> /\ Head(todo[p]) = "leave" /\ \E s, f : Step(p, s, f)
        /\ room' = room /\ LeaveAhead(todo[p])
    BY <1>0, <1>1, <1>7, LeaveSteps DEF Leave, At, LeaveAhead
  <2>2. room[p] = frame[p].from
    BY <1>0, <1>1, <1>7, <2>1 DEF LeaveInv
  <2>3. frame[p].from \notin Rooms
    <3>1. ASSUME frame[p].from \in Rooms PROVE FALSE
      <4>1. p \in players[frame[p].from]
        BY <1>1, <2>2, <3>1 DEF PlaceInv
      <4>2. p \in departing[frame[p].from]
        BY <1>7, <4>1
      <4>3. PICK u \in Threads : At(u, "depart") /\ Who(u) = p
        BY <1>1, <3>1, <4>2 DEF DepartInv
      <4>4. Holding(u) /\ Holding(p)
        BY <2>1, <4>3 DEF Holding, At
      <4>5. u = p
        BY <1>0, <1>1, <1>7, <4>3, <4>4, Alone
      <4> QED BY <2>1, <4>3, <4>5 DEF At
    <3> QED BY <3>1
  <2>4. room[p] = None
    BY <1>0, <1>1, <2>2, <2>3
  <2> QED BY <1>4, <2>1, <2>4
<1> QED BY <1>1, <1>3, <1>5, <1>6, <1>7, GoneBegins

-------------------------------------------------------------------------------
(* The Wisp Mother *)

Shows(s, x) == s # <<>> /\ Head(s) = x
Fetches(s) == Shows(s, "place") \/ Shows(s, "strike")

\* Nobody has fetching her, or driving her away, to do but after finding out.
LEMMA RestFetches ==
  ASSUME Control, NEW t \in Threads, todo[t] # <<>>
  PROVE  /\ ~Fetches(Rest(t))
         /\ At(t, "leave") => ~Fetches(Tail(Rest(t)))
         /\ At(t, "refresh") => Shows(Rest(t), "seek")
<1>0. {"seek", "depart", "hurt", "dispatch", "enter", "farewell"} \subseteq Steps
  BY DEF Steps
<1>1. \A x \in Steps, w \in Seq(Steps) : Then(x, w) # <<>> /\ Head(Then(x, w)) = x
  BY Thens
<1>2. ASSUME NEW x \in {"seek", "depart", "hurt", "dispatch", "enter", "farewell"}, NEW w \in Seq(Steps)
      PROVE  ~Fetches(Then(x, w)) /\ (x = "seek" => Shows(Then(x, w), "seek"))
  BY <1>0, <1>1 DEF Fetches, Shows
<1>3. /\ ~Fetches(Done) /\ ~Fetches(Detaching) /\ ~Fetches(Parting) /\ ~Fetches(Watching)
      /\ ~Fetches(Relocking) /\ ~Fetches(<<>>)
  BY Heads DEF Fetches, Shows
<1>4. \A m \in Departed \cup Noticed \cup Carried : ~Fetches(m) /\ m \in Seq(Steps)
  BY Heads DEF Fetches, Shows
<1>5. At(t, "leave") => ~Fetches(Tail(Rest(t)))
  BY <1>4, LeaveRest
<1>6. CASE t = Ticker
  <2>1. TickerRest(Head(todo[t]), Rest(t))
    BY <1>6, AtWork DEF Control, Rest
  <2>2. ~Fetches(Then("hurt", Done)) /\ Done \in Seq(Steps)
    BY <1>2, Rests
  <2>3. \A m \in Carried : ~Fetches(Then("depart", m))
    BY <1>2, <1>4
  <2>4. ~Fetches(Rest(t)) /\ ~At(t, "refresh")
    BY <1>3, <1>4, <2>1, <2>2, <2>3 DEF TickerRest, At
  <2> QED BY <1>5, <2>4
<1>7. CASE t # Ticker
  <2>1. PlayerRest(Head(todo[t]), Rest(t))
    BY <1>7, AtWork DEF Control, Rest
  <2>2. ~Fetches(Then("dispatch", Done)) /\ ~Fetches(Then("enter", Done)) /\ ~Fetches(Then("enter", Watching)) /\ ~Fetches(Then("farewell", Parting))
    BY <1>2, Rests
  <2>3. \A w \in Noticed : ~Fetches(Then("seek", w)) /\ Shows(Then("seek", w), "seek")
    BY <1>2, <1>4
  <2>4. \A m \in Departed : ~Fetches(Then("depart", m))
    BY <1>2, <1>4
  <2>5. ~Fetches(Rest(t))
    BY <1>3, <1>4, <2>1, <2>2, <2>3, <2>4 DEF PlayerRest
  <2>6. At(t, "refresh") => Shows(Rest(t), "seek")
    BY <2>1, <2>3 DEF PlayerRest, At
  <2> QED BY <1>5, <2>5, <2>6
<1> QED BY <1>6, <1>7

\* Who is busy after a step
LEMMA BusySteps ==
  ASSUME Control, NEW t \in Threads, NEW s, NEW f, Step(t, s, f), NEW x
  PROVE  /\ Busy(x)' <=> Shows(s, x) \/ \E u \in Threads \ {t} : At(u, x)
         /\ ~At(t, x) => (Busy(x)' <=> Shows(s, x) \/ Busy(x))
<1>1. At(t, x)' <=> Shows(s, x)
  BY StepEffect DEF At, Shows
<1>2. \A u \in Threads \ {t} : At(u, x)' <=> At(u, x)
  BY StepEffect DEF At
<1>3. Busy(x)' <=> \E u \in Threads : At(u, x)'
  BY DEF Busy
<1>4. Busy(x) <=> \E u \in Threads : At(u, x)
  BY DEF Busy
<1> QED BY <1>1, <1>2, <1>3, <1>4

\* A step that has nothing to do with her
LEMMA WispSteady ==
  ASSUME Control, WispInv, NEW t \in Threads, NEW s, NEW f, Step(t, s, f), ~Fetches(s),
         absent' = absent, wisp_here' = wisp_here, torn' = torn, ~At(t, "seek"), ~At(t, "place"), ~At(t, "strike")
  PROVE  WispInv'
<1>1. (Busy("strike")' => Busy("strike")) /\ (Busy("place")' => Busy("place"))
  BY BusySteps DEF Fetches
<1>2. /\ Busy("strike") => Busy("strike")'
      /\ Busy("place") => Busy("place")'
      /\ Busy("seek") => Busy("seek")'
  BY BusySteps
<1> QED BY <1>1, <1>2 DEF WispInv

\* What somebody sees to about her
LEMMA WispTended ==
  ASSUME Control, WispInv, NEW t \in Threads, Tends(t)
  PROVE  WispInv'
<1>0. {"place", "strike", "seek"} \subseteq Steps
  BY DEF Steps
<1>1. todo[t] # <<>> /\ Rest(t) \in Seq(Steps)
  BY AtWork DEF Tends, Refresh, Seek, Place, Protect, Attack, Strike, At, Control, Rest
<1>2. ~Fetches(Rest(t))
  BY <1>1, RestFetches
<1>3. Shows(Then("place", Rest(t)), "place") /\ Shows(Then("strike", Rest(t)), "strike")
  BY <1>0, <1>1, Thens DEF Shows
<1>4. CASE Refresh(t)
  <2>1. Step(t, Rest(t), frame[t]) /\ wisp_here' = wisp_here /\ Shows(Rest(t), "seek") /\ At(t, "refresh")
    BY <1>1, <1>4, TendsSteps, RestFetches DEF Refresh
  <2>2. ~At(t, "seek") /\ ~At(t, "place") /\ ~At(t, "strike")
    BY <2>1 DEF At
  <2>3. CASE absent = "over"
    <3>1. absent' = "no"
      BY <1>4, <2>3 DEF Refresh
    <3>2. ~Busy("strike")' /\ ~Busy("place")' /\ Busy("seek")'
      BY <1>2, <2>1, <2>2, <2>3, BusySteps DEF WispInv, Fetches
    <3> QED BY <3>1, <3>2 DEF WispInv
  <2>4. CASE absent # "over"
    BY <1>2, <1>4, <2>1, <2>2, <2>4, WispSteady DEF Refresh
  <2> QED BY <2>3, <2>4
<1>5. CASE Seek(t)
  <2>1. absent' = absent /\ wisp_here' = wisp_here /\ torn' = torn /\ ~At(t, "place") /\ ~At(t, "strike")
    BY <1>5 DEF Seek, wisp, At
  <2>2. CASE absent = "no"
    <3>1. Step(t, Then("place", Rest(t)), frame[t])
      BY <1>5, <2>2, TendsSteps
    <3>2. Busy("place")'
      BY <1>3, <3>1, BusySteps
    <3>3. Head(Then("place", Rest(t))) # "strike"
      BY <1>3 DEF Shows
    <3>4. ~Busy("strike")'
      BY <2>1, <2>2, <3>1, <3>3, BusySteps DEF WispInv, Shows
    <3> QED BY <2>1, <2>2, <3>2, <3>4 DEF WispInv
  <2>3. CASE absent # "no"
    <3>1. Step(t, Rest(t), frame[t])
      BY <1>5, <2>3, TendsSteps
    <3>2. (Busy("place")' <=> Busy("place")) /\ (Busy("strike")' <=> Busy("strike"))
      BY <1>2, <2>1, <3>1, BusySteps DEF Fetches
    <3> QED BY <2>1, <2>3, <3>2 DEF WispInv
  <2> QED BY <2>2, <2>3
<1>6. CASE Place(t)
  <2>1. Step(t, Rest(t), frame[t]) /\ absent' = absent /\ torn' = torn /\ wisp_here' /\ At(t, "place")
    BY <1>6, TendsSteps DEF Place
  <2>2. absent # "over" /\ (torn \/ absent = "no")
    BY <2>1 DEF WispInv, Busy
  <2>3. ~At(t, "strike")
    BY <2>1 DEF At
  <2>4. Busy("strike")' => Busy("strike")
    BY <1>2, <2>1, <2>3, BusySteps DEF Fetches
  <2> QED BY <2>1, <2>2, <2>4 DEF WispInv
<1>7. CASE Protect(t)
  <2>1. Step(t, Rest(t), frame[t]) /\ absent' = absent /\ torn' = torn /\ wisp_here' = wisp_here /\ At(t, "protect")
    BY <1>7, TendsSteps DEF Protect
  <2>2. ~At(t, "seek") /\ ~At(t, "place") /\ ~At(t, "strike")
    BY <2>1 DEF At
  <2> QED BY <1>2, <2>1, <2>2, WispSteady
<1>8. CASE Attack(t)
  <2>1. wisp_here' = wisp_here /\ At(t, "attack")
    BY <1>8 DEF Attack
  <2>2. ~At(t, "seek") /\ ~At(t, "place") /\ ~At(t, "strike")
    BY <2>1 DEF At
  <2>3. CASE absent = "no" /\ ~warded
    <3>1. Step(t, Then("strike", Rest(t)), frame[t]) /\ absent' = "dark" /\ torn' = (torn \/ Busy("place"))
      BY <1>8, <2>3, TendsSteps DEF Attack
    <3>2. Busy("strike")'
      BY <1>3, <3>1, BusySteps
    <3>3. ~Shows(Then("strike", Rest(t)), "place")
      BY <1>3 DEF Shows
    <3>4. Busy("place")' => Busy("place")
      BY <2>2, <3>1, <3>3, BusySteps
    <3> QED BY <3>1, <3>2, <3>4 DEF WispInv
  <2>4. CASE ~(absent = "no" /\ ~warded)
    <3>1. Step(t, Rest(t), frame[t]) /\ absent' = absent /\ torn' = torn
      BY <1>8, <2>4, TendsSteps DEF Attack
    <3> QED BY <1>2, <2>1, <2>2, <3>1, WispSteady
  <2> QED BY <2>3, <2>4
<1>9. CASE Strike(t)
  <2>1. Step(t, Rest(t), frame[t]) /\ absent' = absent /\ torn' = torn /\ ~wisp_here' /\ At(t, "strike")
    BY <1>9, TendsSteps DEF Strike
  <2>2. absent = "dark" /\ ~At(t, "place")
    BY <2>1 DEF WispInv, Busy, At
  <2>3. Busy("place")' => Busy("place")
    BY <1>2, <2>1, <2>2, BusySteps DEF Fetches
  <2> QED BY <2>1, <2>2, <2>3 DEF WispInv
<1> QED BY <1>4, <1>5, <1>6, <1>7, <1>8, <1>9 DEF Tends

\* The Wisp Mother is seen when the state says so, or somebody is about it.
LEMMA WispStep ==
  ASSUME Control, LifeInv, WispInv, Next
  PROVE  WispInv'
<1>0. /\ {"leave", "depart", "enter", "lock", "dispatch", "farewell", "hit", "hurt", "revive"} \subseteq Steps
      /\ Ticker \in Threads /\ Players \subseteq Threads
      /\ Done \in Seq(Steps) /\ Watching \in Seq(Steps) /\ Parting \in Seq(Steps)
  BY Rests DEF Steps, Threads
<1>1. ASSUME NEW x \in Steps \ {"place", "strike"}, NEW w \in Seq(Steps) PROVE ~Fetches(Then(x, w)) /\ Then(x, w) \in Seq(Steps)
  BY Thens DEF Fetches, Shows
<1>2. ~Fetches(<<>>) /\ ~Fetches(Done) /\ ~Fetches(Parting) /\ \A s \in Commanded : ~Fetches(s)
  BY Heads DEF Fetches, Shows
<1>3. ASSUME NEW t \in Threads, Works(t), ~Tends(t) PROVE WispInv'
  <2>1. /\ absent' = absent /\ wisp_here' = wisp_here /\ torn' = torn /\ todo[t] # <<>>
        /\ Head(todo[t]) \in {"lock", "unlock", "leave", "depart", "enter"}
    BY <1>3 DEF Works, Walks, Acquire, Release, Leave, Depart, Enter, wisp, At
  <2>2. ~At(t, "seek") /\ ~At(t, "place") /\ ~At(t, "strike")
    BY <2>1 DEF At
  <2>3. ~Fetches(Rest(t)) /\ (At(t, "leave") => ~Fetches(Tail(Rest(t)))) /\ Rest(t) \in Seq(Steps)
    BY <2>1, RestFetches, AtWork DEF Control, Rest
  <2>4. ~Fetches(Then("leave", Then("depart", Then("enter", Rest(t)))))
    BY <1>0, <1>1, <2>3
  <2>5. \E s, f : Step(t, s, f) /\ ~Fetches(s)
    <3>1. CASE Leave(t)
      BY <2>3, <3>1, LeaveSteps DEF Leave
    <3>2. CASE Acquire(t) \/ Release(t) \/ Depart(t) \/ Enter(t)
      BY <2>3, <2>4, <3>2, AcquireSteps, ReleaseSteps, DepartSteps, EnterSteps
    <3> QED BY <1>3, <3>1, <3>2 DEF Works, Walks
  <2> QED BY <2>1, <2>2, <2>5, WispSteady
<1>4. ASSUME NEW p \in Players, \/ Begin(p) \/ Read(p) \/ Ask(p) \/ Dispatch(p)
                                \/ Disconnect(p) \/ Farewell(p) \/ Detach(p)
      PROVE  WispInv'
  <2>1. /\ absent' = absent /\ wisp_here' = wisp_here /\ torn' = torn
        /\ todo[p] = <<>> \/ Head(todo[p]) \in {"unlock", "ask", "dispatch", "farewell", "detach"}
    BY <1>4 DEF Begin, Read, Ask, Dispatch, Disconnect, Farewell, Detach, Steady, wisp, At, Idle, LifeInv
  <2>2. ~At(p, "seek") /\ ~At(p, "place") /\ ~At(p, "strike")
    BY <2>1 DEF At
  <2>3. \A w \in {Done, Watching} : ~Fetches(Then("lock", Then("enter", w)))
    BY <1>0, <1>1
  <2>4. /\ ~Fetches(Then("lock", Then("dispatch", Done))) /\ ~Fetches(Then("lock", Then("farewell", Parting)))
        /\ ~Fetches(Then("leave", Then("depart", Parting)))
    BY <1>0, <1>1
  <2>5. \E s, f : Step(p, s, f) /\ ~Fetches(s)
    BY <1>2, <1>4, <2>3, <2>4, OpeningSteps, DispatchSteps, ClosingSteps
  <2> QED BY <1>0, <2>1, <2>2, <2>5, WispSteady
<1>5. ASSUME NEW p \in Players, HangUp(p) PROVE WispInv'
  BY <1>5 DEF HangUp, Steady, wisp, WispInv, Busy, At
<1>6. ASSUME Aim \/ Hit \/ Hurt \/ Revive PROVE WispInv'
  <2>1. /\ absent' = absent /\ wisp_here' = wisp_here /\ torn' = torn
        /\ todo[Ticker] = <<>> \/ Head(todo[Ticker]) \in {"hit", "hurt", "revive"}
    BY <1>6 DEF Aim, Hit, Hurt, Revive, Steady, wisp, At, Idle
  <2>2. ~At(Ticker, "seek") /\ ~At(Ticker, "place") /\ ~At(Ticker, "strike")
    BY <2>1 DEF At
  <2>3. /\ ~Fetches(Then("hit", <<>>)) /\ ~Fetches(Then("lock", Then("hurt", Done)))
        /\ ~Fetches(Then("revive", Done)) /\ ~Fetches(Then("enter", Done))
    BY <1>0, <1>1, Thens
  <2>4. ~Fetches(Then("leave", Then("depart", Then("revive", Done))))
    BY <1>0, <1>1
  <2>5. \E s, f : Step(Ticker, s, f) /\ ~Fetches(s)
    BY <1>2, <1>6, <2>3, <2>4, TickerSteps
  <2> QED BY <1>0, <2>1, <2>2, <2>5, WispSteady
<1>7. ASSUME DarknessEnds PROVE WispInv'
  <2>1. ~Busy("place") /\ ~Busy("strike") /\ absent = "dark" /\ absent' = "over" /\ wisp_here' = wisp_here /\ torn' = torn /\ todo' = todo
    BY <1>7 DEF DarknessEnds, control
  <2>2. ~Busy("place")' /\ ~Busy("strike")'
    BY <2>1 DEF Busy, At
  <2> QED BY <2>1, <2>2 DEF WispInv
<1> QED BY <1>3, <1>4, <1>5, <1>6, <1>7, WispTended DEF Next, Serves, Falls, Threads

-------------------------------------------------------------------------------
(* Theorems *)

\* The invariant holds at first.
LEMMA VillageInit == Init => VillageInv
<1> SUFFICES ASSUME Init PROVE VillageInv
  OBVIOUS
<1>0. Ticker \in Threads /\ None \notin Threads /\ None \notin Rooms
  BY VillageAssumption DEF Threads
<1>1. /\ players = [r \in Rooms |-> {}] /\ departing = [r \in Rooms |-> {}]
      /\ room = [p \in Players |-> None] /\ health = InitialHealth
      /\ lock = [p \in Players |-> None] /\ todo = [t \in Threads |-> <<>>]
      /\ frame = [t \in Threads |-> Noone]
      /\ attached = [p \in Players |-> FALSE] /\ playing = [p \in Players |-> FALSE]
      /\ running = [p \in Players |-> TRUE]
      /\ warded = FALSE /\ torn = FALSE /\ late = {}
      /\ absent \in {"no", "dark"} /\ wisp_here = (absent = "no")
  BY DEF Init, Synchronized
<1>2. VillageTypeOK
  <2>1. InitialHealth \in [Players -> Nat] /\ \A p \in Players : InitialHealth[p] \in Nat \ {0}
    BY VillageAssumption
  <2>2. todo \in [Threads -> Seq(Steps)]
    BY <1>1, EmptySeq
  <2>3. frame \in [Threads -> [who : Players \cup {None}, from : Rooms \cup {None}, to : Rooms \cup {None}]]
    BY <1>1 DEF Noone, Rooms
  <2>4. /\ players \in [Rooms -> SUBSET Players] /\ departing \in [Rooms -> SUBSET Players]
        /\ room \in [Players -> Rooms \cup {None}]
        /\ lock \in [Players -> Threads \cup {None}]
        /\ {attached, playing, running} \subseteq [Players -> BOOLEAN]
    BY <1>1
  <2>5. health \in [Players -> Nat] /\ \A p \in Players : health[p] <= InitialHealth[p]
    BY <1>1, <2>1
  <2>6. {warded, wisp_here, torn} \subseteq BOOLEAN /\ absent \in {"no", "dark", "over"} /\ late \subseteq Players
    BY <1>1
  <2> QED BY <2>2, <2>3, <2>4, <2>5, <2>6 DEF VillageTypeOK
<1>3. \A t \in Threads : todo[t] = <<>> /\ Who(t) = None
  BY <1>1 DEF Who, Noone
<1>4. TodoInv
  BY <1>0, <1>3 DEF TodoInv, PlayerTodo, TickerTodo, Threads
<1>5. LockInv
  BY <1>0, <1>1, <1>3 DEF LockInv, Holding
<1>6. PlaceInv
  BY <1>0, <1>1 DEF PlaceInv
<1>7. LeaveInv
  BY <1>3 DEF LeaveInv, LeaveAhead, At
<1>8. DepartInv
  BY <1>1 DEF DepartInv
<1>9. HealthInv
  BY <1>1, VillageAssumption DEF HealthInv
<1>10. LifeInv
  <2>1. <<>> \notin Farewells
    BY NoFarewells
  <2> QED BY <1>1, <1>3, <2>1 DEF LifeInv, Threads
<1>11. GoneInv
  BY <1>1 DEF GoneInv, Gone
<1>12. WispInv
  BY <1>1, <1>3 DEF WispInv, Busy, At
<1> QED BY <1>2, <1>4, <1>5, <1>6, <1>7, <1>8, <1>9, <1>10, <1>11, <1>12 DEF VillageInv

\* Every step keeps it.
LEMMA VillageStep == VillageInv /\ [Next]_vars => VillageInv'
<1> SUFFICES ASSUME VillageInv, [Next]_vars PROVE VillageInv'
  OBVIOUS
<1>1. CASE Next
  <2>1. Control
    BY DEF VillageInv, Control
  <2>2. VillageTypeOK' /\ TodoInv'
    BY <1>1, <2>1, VillageTypeStep, TodoStep DEF VillageInv
  <2>3. LockInv' /\ PlaceInv'
    BY <1>1, <2>1, LockStep, PlaceStep DEF VillageInv
  <2>4. LeaveInv' /\ DepartInv'
    BY <1>1, <2>1, LeaveStep, DepartStep DEF VillageInv
  <2>5. HealthInv' /\ LifeInv'
    BY <1>1, <2>1, HealthStep, LifeStep DEF VillageInv
  <2>6. GoneInv'
    BY <1>1, <2>1, GoneStep DEF VillageInv
  <2>7. WispInv'
    BY <1>1, <2>1, WispStep DEF VillageInv
  <2> QED BY <2>2, <2>3, <2>4, <2>5, <2>6, <2>7 DEF VillageInv
<1>2. CASE UNCHANGED vars
  <2>1. UNCHANGED <<players, departing, room, health, attached, playing, late>>
    BY <1>2 DEF vars, bodies
  <2>2. UNCHANGED <<warded, absent, wisp_here, torn, running, lock, todo, frame>>
    BY <1>2 DEF vars, wisp, control
  <2>3. VillageTypeOK' /\ TodoInv' /\ LockInv'
    BY <2>1, <2>2 DEF VillageInv, VillageTypeOK, TodoInv, Who, LockInv, Holding
  <2>4. PlaceInv' /\ LeaveInv' /\ DepartInv' /\ HealthInv'
    BY <2>1, <2>2 DEF VillageInv, PlaceInv, LeaveInv, At, DepartInv, HealthInv, Who
  <2>5. LifeInv' /\ GoneInv' /\ WispInv'
    BY <2>1, <2>2 DEF VillageInv, LifeInv, GoneInv, Gone, Carrying, WispInv, Busy, At, Who
  <2> QED BY <2>3, <2>4, <2>5 DEF VillageInv
<1> QED BY <1>1, <1>2

\* The invariant holds always.
LEMMA VillageAlways == Spec => []VillageInv
<1> QED BY VillageInit, VillageStep, PTL DEF Spec

\* The variables keep their shapes: nobody has more health than at first, and every thread has
\* steps to do that there are.
THEOREM VillageTypeCorrect == Spec => []VillageTypeOK
<1>1. VillageInv => VillageTypeOK
  BY DEF VillageInv
<1> QED BY <1>1, VillageAlways, PTL

\* While nobody holds the session's state_lock, the player and the rooms agree on where he is, he
\* is leaving no room, and he is alive: Session's commands, its farewell and the ticker's
\* _collapse_player of one player do not mix.
THEOREM PlayersWhole == Spec => []PlayerIsWhole
<1>1. VillageInv => PlayerIsWhole
  <2> SUFFICES ASSUME VillageInv, NEW p \in Players, lock[p] = None PROVE Whole(p)
    BY DEF PlayerIsWhole
  <2>0. None \notin Threads /\ Ticker \in Threads /\ Control
    BY VillageAssumption DEF Threads, VillageInv, Control
  <2>1. \A t \in Threads : ~(Who(t) = p /\ Holding(t))
    BY <2>0 DEF VillageInv, LockInv
  <2>2. ASSUME NEW r \in Rooms PROVE p \notin departing[r]
    BY <2>1 DEF VillageInv, DepartInv, At, Holding
  <2>3. health[p] # 0
    <3>1. todo[Ticker] \in Seq(Steps)
      BY <2>0 DEF Control, VillageTypeOK
    <3>2. todo[Ticker] \in Collapsing => Holding(Ticker)
      BY <3>1, Collapses DEF Holding
    <3> QED BY <2>0, <2>1, <3>2 DEF VillageInv, HealthInv
  <2>4. health[p] \in Nat
    BY <2>0 DEF Control, VillageTypeOK
  <2> QED BY <2>2, <2>3, <2>4 DEF Whole, VillageInv, PlaceInv
<1> QED BY <1>1, VillageAlways, PTL

\* Who has left is in no room, unless an acorn fell all through the farewell.
THEOREM NobodyLingering == Spec => []NobodyLingers
<1>1. VillageInv => NobodyLingers
  <2> SUFFICES ASSUME VillageInv, NEW p \in Players \ late, NEW r \in Rooms, ~running[p], ~playing[p]
               PROVE  p \notin players[r]
    BY DEF NobodyLingers
  <2>1. room[p] = None /\ None \notin Rooms
    BY VillageAssumption DEF VillageInv, GoneInv, Gone
  <2> QED BY <2>1 DEF VillageInv, PlaceInv
<1> QED BY <1>1, VillageAlways, PTL

\* While nobody is about it, the Wisp Mother is in the Green exactly when the village's state
\* says so, unless an attack came between wisp_is_present() and the end of add_npc.
THEOREM WispMatches == Spec => []WispMatchesState
<1>1. VillageInv => WispMatchesState
  BY DEF VillageInv, VillageTypeOK, WispInv, WispMatchesState
<1> QED BY <1>1, VillageAlways, PTL
===============================================================================
