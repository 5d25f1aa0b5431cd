-------------------------------- MODULE Village --------------------------------
(***************************************************************************)
(* Two rooms of the village and whoever acts in them: each player's       *)
(* gameplay thread, which holds its session's state_lock from the arrival  *)
(* of a line to the end of its command, and the ticker, which brings down  *)
(* the Hanging Tree's acorns upon players whose locks it has to take.      *)
(*                                                                         *)
(* A thread works through its `todo`: names of steps, each an action of    *)
(* its own, which may put further steps in front of the rest, as a call    *)
(* does.  What a room does under its lock is one step.  While a player     *)
(* leaves, the room waits for its NPCs up to a second: `leave` and         *)
(* `depart` are what comes before and after.  A Player object belongs to   *)
(* one session; who comes back gets a new one.  Bodies are as strong as    *)
(* InitialHealth, and an acorn takes one point; there is no healing.       *)
(* Time is what it decides: the darkness after the loss of the Wisp Mother *)
(* ends, but not before the commands at work when it began.                *)
(***************************************************************************)
EXTENDS Naturals, Sequences, FiniteSets, TLC

CONSTANTS
  Players,
  Ticker,            \* NPCManager's thread
  None,
  InitialHealth

Square == "square"
Green == "green"
Rooms == {Square, Green}

ASSUME VillageAssumption ==
  /\ Ticker \notin Players /\ None \notin Players \cup {Ticker} \cup Rooms
  /\ InitialHealth \in [Players -> Nat \ {0}]

VARIABLES
  players,     \* players[r]: Room.players
  departing,   \* departing[r]: Room._departing_players
  room,        \* room[p]: player.room
  health,      \* player.health
  attached,    \* attached[p]: player.session is the session
  playing,     \* playing[p]: session.player is the player
  running,     \* session.running
  lock,        \* lock[p]: the thread that holds the session's state_lock
  todo,        \* todo[t]: the steps thread t has to do
  frame,       \* frame[t]: whom they are about, and between which rooms
  warded, absent,             \* VillageState: the Wisp Mother; absent is "no", "dark" or "over"
  wisp_here,   \* the Wisp Mother is in the Green's npcs, and the Green is her room
  torn,        \* history: an attack hit while somebody was bringing her back
  late         \* history: those who collapsed after they had left

bodies == <<players, departing, room, health, attached, playing, late>>
wisp == <<warded, absent, wisp_here, torn>>
control == <<running, lock, todo, frame>>
vars == <<bodies, wisp, control>>

Threads == Players \cup {Ticker}

Noone == [who |-> None, from |-> Square, to |-> Square]

\* Out of one room into the other
Exits(r) == Rooms \ {r}

\* The Green shows the Wisp Mother if the village's state does.
Synchronized == wisp_here = (absent = "no")

\* World(), and the rows it was restored from
Init ==
  /\ players = [r \in Rooms |-> {}] /\ departing = [r \in Rooms |-> {}]
  /\ room = [p \in Players |-> None]
  /\ health = InitialHealth
  /\ attached = [p \in Players |-> FALSE] /\ playing = [p \in Players |-> FALSE]
  /\ running = [p \in Players |-> TRUE]
  /\ lock = [p \in Players |-> None]
  /\ todo = [t \in Threads |-> <<>>]
  /\ frame = [t \in Threads |-> Noone]
  /\ warded = FALSE /\ absent \in {"no", "dark"}
  /\ Synchronized
  /\ torn = FALSE /\ late = {}

-------------------------------------------------------------------------------
(* Threads *)

At(t, step) == todo[t] # <<>> /\ Head(todo[t]) = step
Idle(t) == todo[t] = <<>>

\* The step is done; `more` comes before the rest.
Goes(t, more) == todo' = [todo EXCEPT ![t] = more \o Tail(@)]
Calls(t, more, f) == Goes(t, more) /\ frame' = [frame EXCEPT ![t] = f]
Starts(t, steps, f) == todo' = [todo EXCEPT ![t] = steps] /\ frame' = [frame EXCEPT ![t] = f]
Who(t) == frame[t].who

\* Fault: a thread that finds the state_lock taken goes on without it.
AcquireOrNot(t) ==
  /\ At(t, "lock")
  /\ lock' = [lock EXCEPT ![Who(t)] = IF @ = None THEN t ELSE @]
  /\ Goes(t, <<>>)
  /\ UNCHANGED <<bodies, wisp, running, frame>>

\* with self.state_lock
Acquire(t) ==
  /\ At(t, "lock") /\ lock[Who(t)] = None
  /\ lock' = [lock EXCEPT ![Who(t)] = t]
  /\ Goes(t, <<>>)
  /\ UNCHANGED <<bodies, wisp, running, frame>>

Release(t) ==
  /\ At(t, "unlock")
  /\ lock' = [lock EXCEPT ![Who(t)] = None]
  /\ Calls(t, <<>>, IF Len(todo[t]) = 1 THEN Noone ELSE frame[t])
  /\ UNCHANGED <<bodies, wisp, running>>

-------------------------------------------------------------------------------
(* Room *)

\* Room.leave as far as its NPCs' reactions; a player who is not here, or is leaving, stays
\* out of it.
Leave(t) ==
  LET p == Who(t)  r == frame[t].from IN
  /\ At(t, "leave")
  /\ IF p \in players[r] \ departing[r]
     THEN departing' = [departing EXCEPT ![r] = @ \cup {p}] /\ Goes(t, <<>>)
     ELSE UNCHANGED departing /\ todo' = [todo EXCEPT ![t] = Tail(Tail(@))]
  /\ UNCHANGED <<players, room, health, attached, playing, late, wisp, running, lock, frame>>

\* The rest of Room.leave.
Depart(t) ==
  LET p == Who(t)  r == frame[t].from IN
  /\ At(t, "depart")
  /\ players' = [players EXCEPT ![r] = @ \ {p}]
  /\ departing' = [departing EXCEPT ![r] = @ \ {p}]
  /\ room' = [room EXCEPT ![p] = IF @ = r THEN None ELSE @]
  /\ Goes(t, <<>>)
  /\ UNCHANGED <<health, attached, playing, late, wisp, running, lock, frame>>

\* Room.enter, after leaving the room the player is still in.
Enter(t) ==
  LET p == Who(t)  r == frame[t].to IN
  /\ At(t, "enter")
  /\ IF room[p] \notin {None, r}
     THEN /\ Calls(t, <<"leave", "depart", "enter">>, [frame[t] EXCEPT !.from = room[p]])
          /\ UNCHANGED <<players, room>>
     ELSE /\ players' = [players EXCEPT ![r] = @ \cup {p}]
          /\ room' = [room EXCEPT ![p] = r]
          /\ Goes(t, <<>>) /\ UNCHANGED frame
  /\ UNCHANGED <<departing, health, attached, playing, late, wisp, running, lock>>

\* What describe_to does besides telling: the Green looks after the Wisp Mother first.
Notice(r) == IF r = Green THEN <<"refresh", "seek">> ELSE <<>>

-------------------------------------------------------------------------------
(* The Village Green and VillageState *)

Busy(step) == \E t \in Threads : At(t, step)

\* refresh_wisp
Refresh(t) ==
  /\ At(t, "refresh")
  /\ IF absent = "over" THEN absent' = "no" /\ warded' = FALSE /\ torn' = FALSE
     ELSE UNCHANGED <<absent, warded, torn>>
  /\ Goes(t, <<>>)
  /\ UNCHANGED <<bodies, wisp_here, running, lock, frame>>

\* Fault: she is brought back whatever the village's state says.
SeekBlindly(t) ==
  /\ At(t, "seek")
  /\ Goes(t, <<"place">>)
  /\ UNCHANGED <<bodies, wisp, running, lock, frame>>

\* _refresh_wisp_mother: wisp_is_present(), then ...
Seek(t) ==
  /\ At(t, "seek")
  /\ Goes(t, IF absent = "no" THEN <<"place">> ELSE <<>>)
  /\ UNCHANGED <<bodies, wisp, running, lock, frame>>

\* ... if she is not here, Room.add_npc up to the end of its lock, and ...
Place(t) ==
  /\ At(t, "place")
  /\ wisp_here' = TRUE
  /\ Goes(t, <<>>)
  /\ UNCHANGED <<bodies, warded, absent, torn, running, lock, frame>>

\* protect_wisp
Protect(t) ==
  /\ At(t, "protect")
  /\ warded' = (warded \/ absent = "no")
  /\ Goes(t, <<>>)
  /\ UNCHANGED <<bodies, absent, wisp_here, torn, running, lock, frame>>

\* attack_wisp; she goes only if nothing wards her, and then the room removes her.
Attack(t) ==
  /\ At(t, "attack")
  /\ IF absent = "no" /\ ~warded
     THEN /\ absent' = "dark"
          /\ torn' = (torn \/ Busy("place"))
          /\ Goes(t, <<"strike">>)
     ELSE Goes(t, <<>>) /\ UNCHANGED <<absent, torn>>
  /\ warded' = FALSE
  /\ UNCHANGED <<bodies, wisp_here, running, lock, frame>>

\* remove_npc up to the end of its lock, and ...
Strike(t) ==
  /\ At(t, "strike")
  /\ wisp_here' = FALSE
  /\ Goes(t, <<>>)
  /\ UNCHANGED <<bodies, warded, absent, torn, running, lock, frame>>

\* The clock reaches wisp_absent_until.
DarknessEnds ==
  /\ absent = "dark"
  /\ \A step \in {"place", "strike"} : ~Busy(step)
  /\ absent' = "over"
  /\ UNCHANGED <<bodies, warded, wisp_here, torn, control>>

-------------------------------------------------------------------------------
(* Sessions *)

Steady == UNCHANGED <<bodies, wisp>>

\* The gameplay thread begins: the login chose a room.
Begin(p) ==
  /\ ~playing[p] /\ running[p]
  /\ playing' = [playing EXCEPT ![p] = TRUE] /\ attached' = [attached EXCEPT ![p] = TRUE]
  /\ \E r \in Rooms : Starts(p, <<"lock", "enter">> \o Notice(r) \o <<"unlock">>,
                             [who |-> p, from |-> r, to |-> r])
  /\ UNCHANGED <<players, departing, room, health, late, wisp, running, lock>>

\* /quit, a lost connection, a kick
HangUp(p) ==
  /\ playing[p] /\ running[p]
  /\ running' = [running EXCEPT ![p] = FALSE]
  /\ Steady /\ UNCHANGED <<lock, todo, frame>>

Here(p) == [who |-> p, from |-> room[p], to |-> room[p]]

\* A line comes.
Read(p) ==
  /\ Idle(p) /\ playing[p] /\ running[p]
  /\ Starts(p, <<"lock", "dispatch", "unlock">>, Here(p))
  /\ Steady /\ UNCHANGED <<running, lock>>

\* handle_command of most commands: the room, where the player is by now, has
\* the first word, and looks after the Wisp Mother before that.
Words(r) == IF r = Green THEN {"protect", "attack"} ELSE {}
OnCommand(p, word) == Calls(p, Notice(room[p]) \o word, Here(p))

\* A bare /look describes the room.
Look(p) == Calls(p, Notice(room[p]), Here(p))

\* Ordinary text is said, ...
Say(p) == Calls(p, <<>>, Here(p))

\* ... and an emote, or what is nobody's command, offered to the room: neither changes more.
Emote(p) == OnCommand(p, <<>>)

\* Session.move: out, a look at what lies ahead, and in.
Move(to) == <<"leave", "depart">> \o Notice(to) \o <<"enter">>

\* /go and the names of the directions
Go(p) ==
  \E r \in Exits(room[p]) :
    Calls(p, Notice(room[p]) \o Move(r), [Here(p) EXCEPT !.to = r])

Dispatch(p) ==
  /\ At(p, "dispatch")
  /\ \/ \E word \in Words(room[p]) : OnCommand(p, <<word>>)
     \/ Look(p) \/ Say(p) \/ Emote(p) \/ Go(p)
     \/ Calls(p, <<"ask">>, Here(p))        \* /admin, which no room may claim
  /\ Steady /\ UNCHANGED <<running, lock>>

\* Fault: the end of the connection does not end the question.
AskForEver(p) ==
  /\ At(p, "ask") /\ running[p]
  /\ Goes(p, <<>>)
  /\ Steady /\ UNCHANGED <<running, lock, frame>>

\* /admin reads its password: the next line comes, or the end of the connection.
Ask(p) ==
  /\ At(p, "ask")
  /\ Goes(p, <<>>)
  /\ Steady /\ UNCHANGED <<running, lock, frame>>

\* Fault: the room is left without the lock.
DisconnectUnlocked(p) ==
  /\ Idle(p) /\ playing[p] /\ ~running[p]
  /\ Starts(p, <<"farewell", "lock", "detach", "unlock">>, Here(p))
  /\ Steady /\ UNCHANGED <<running, lock>>

\* disconnect(), after the final save (SessionSave's)
Disconnect(p) ==
  /\ Idle(p) /\ playing[p] /\ ~running[p]
  /\ Starts(p, <<"lock", "farewell", "unlock", "lock", "detach", "unlock">>, Here(p))
  /\ Steady /\ UNCHANGED <<running, lock>>

Farewell(p) ==
  /\ At(p, "farewell")
  /\ Calls(p, IF room[p] # None THEN <<"leave", "depart">> ELSE <<>>, Here(p))
  /\ Steady /\ UNCHANGED <<running, lock>>

Detach(p) ==
  /\ At(p, "detach")
  /\ attached' = [attached EXCEPT ![p] = FALSE] /\ playing' = [playing EXCEPT ![p] = FALSE]
  /\ Goes(p, <<>>)
  /\ UNCHANGED <<players, departing, room, health, late, wisp, running, lock, frame>>

-------------------------------------------------------------------------------
(* The falling acorn *)

\* FallingAcornBehavior.tick: while the tree is dangerous it picks somebody in the Green.
Aim ==
  /\ Idle(Ticker)
  /\ \E p \in players[Green] :
       Starts(Ticker, <<"hit">>, [who |-> p, from |-> Green, to |-> Square])
  /\ Steady /\ UNCHANGED <<running, lock>>

\* perform_action, of whoever still has a session
Hit ==
  /\ At(Ticker, "hit")
  /\ Goes(Ticker, IF attached[Who(Ticker)] THEN <<"lock", "hurt", "unlock">> ELSE <<>>)
  /\ Steady /\ UNCHANGED <<running, lock, frame>>

\* damage_player; who has no health left collapses, and leaves the room for it.
Hurt ==
  LET p == Who(Ticker)  left == health[p] - 1 IN
  /\ At(Ticker, "hurt")
  /\ IF ~playing[p] THEN Goes(Ticker, <<>>) /\ UNCHANGED <<health, late, frame>>
     ELSE /\ health' = [health EXCEPT ![p] = left]
          /\ late' = IF left = 0 /\ room[p] = None THEN late \cup {p} ELSE late
          /\ Calls(Ticker,
               IF left > 0 THEN <<>>
               ELSE (IF room[p] \in {None, Square} THEN <<>> ELSE <<"leave", "depart">>) \o <<"revive">>,
               [frame[Ticker] EXCEPT !.from = room[p]])
  /\ UNCHANGED <<players, departing, room, attached, playing, wisp, running, lock>>

\* Fault: who collapses gets no health back.
ReviveEmpty ==
  LET p == Who(Ticker) IN
  /\ At(Ticker, "revive")
  /\ Goes(Ticker, IF room[p] = Square THEN <<>> ELSE <<"enter">>)
  /\ UNCHANGED <<bodies, wisp, running, lock, frame>>

\* _collapse_player wakes the player up in the Town Square.
Revive ==
  LET p == Who(Ticker) IN
  /\ At(Ticker, "revive")
  /\ health' = [health EXCEPT ![p] = 1]
  /\ Goes(Ticker, IF room[p] = Square THEN <<>> ELSE <<"enter">>)
  /\ UNCHANGED <<players, departing, room, attached, playing, late, wisp, running, lock, frame>>

-------------------------------------------------------------------------------
Tends(t) ==
  \/ Refresh(t) \/ Seek(t) \/ Place(t)
  \/ Protect(t) \/ Attack(t) \/ Strike(t)
Walks(t) == Leave(t) \/ Depart(t) \/ Enter(t)

\* What a thread goes on doing: only a password is up to the player.
Works(t) == Acquire(t) \/ Release(t) \/ Walks(t) \/ Tends(t)
Serves(p) == Works(p) \/ Dispatch(p) \/ Disconnect(p) \/ Farewell(p) \/ Detach(p)
Falls == Works(Ticker) \/ Hit \/ Hurt \/ Revive

Next ==
  \/ \E p \in Players : Begin(p) \/ HangUp(p) \/ Read(p) \/ Ask(p) \/ Serves(p)
  \/ Aim \/ Falls
  \/ DarknessEnds

\* Threads run; the ticker is not refused a lock for ever that comes free again and again; the
\* end of its connection ends a question.
Fairness ==
  /\ \A p \in Players : WF_vars(Serves(p)) /\ WF_vars(~running[p] /\ Ask(p))
  /\ SF_vars(Acquire(Ticker)) /\ WF_vars(Falls)

Spec == Init /\ [][Next]_vars /\ Fairness

-------------------------------------------------------------------------------
(* Properties *)

Steps == {"lock", "unlock", "leave", "depart", "enter", "refresh", "seek", "place",
          "protect", "attack", "strike", "dispatch", "ask", "farewell", "detach", "hit", "hurt", "revive"}

\* The shapes of the variables.
VillageTypeOK ==
  /\ players \in [Rooms -> SUBSET Players] /\ departing \in [Rooms -> SUBSET Players]
  /\ room \in [Players -> Rooms \cup {None}]
  /\ health \in [Players -> Nat] /\ \A p \in Players : health[p] <= InitialHealth[p]
  /\ {attached, playing, running} \subseteq [Players -> BOOLEAN]
  /\ lock \in [Players -> Threads \cup {None}]
  /\ todo \in [Threads -> Seq(Steps)]
  /\ frame \in [Threads -> [who : Players \cup {None}, from : Rooms \cup {None},
                            to : Rooms \cup {None}]]
  /\ {warded, wisp_here, torn} \subseteq BOOLEAN /\ absent \in {"no", "dark", "over"}
  /\ late \subseteq Players

\* Nobody is between two rooms, in two, or dead, once the session's lock is free: commands
\* and collapses of one player, on whatever threads, do not mix.
Whole(p) ==
  /\ \A r \in Rooms : (p \in players[r] <=> room[p] = r) /\ p \notin departing[r]
  /\ health[p] > 0
PlayerIsWhole == \A p \in Players : lock[p] = None => Whole(p)

\* Who has left is in no room: nobody sees a player without a session.  The exception is an
\* acorn that was falling all through the farewell and makes the player collapse after it.
NobodyLingers ==
  \A p \in Players \ late, r \in Rooms : ~running[p] /\ ~playing[p] => p \notin players[r]

\* While nobody is about it the Wisp Mother is in the Green, and is ticked, exactly when the
\* village's state says so.  The exception is an attack between somebody's wisp_is_present()
\* and the end of add_npc, after which she may be seen though she is gone.
WispMatchesState ==
  (\A step \in {"seek", "place", "strike"} : ~Busy(step)) /\ ~torn =>
    (wisp_here <=> absent = "no")

\* The ticker, and with it every NPC, goes on for ever, but for a player who is asked for the
\* administrator's password and, holding the lock the ticker wants, does not answer.
TickerGoesOn ==
  []<>Idle(Ticker) \/ <>[](\E p \in Players : running[p] /\ At(p, "ask") /\ At(Ticker, "lock"))
===============================================================================
