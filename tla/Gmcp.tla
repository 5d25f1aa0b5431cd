---------------------------------- MODULE Gmcp ----------------------------------
(***************************************************************************)
(* GMCP, over which a client is told what is true of its player: what it   *)
(* has subscribed to (gmcp.py), and how one session's snapshots are sent   *)
(* by its gameplay thread, which before the login stands for the selector, *)
(* and by others: the ticker that hurts the player and the selector that   *)
(* sobers him, which hold the session's state_lock as its commands do, and *)
(* administrators who heal him, who no longer hold it when they send.      *)
(*                                                                         *)
(* A thread works through its `todo`, names of steps, as in Village.  Of   *)
(* the packages two are here, one that other threads change and one that   *)
(* is the player's own but for a collapse; the rest are like the second.   *)
(* A subscription names packages, or a family of them; versions, the       *)
(* client's name and Core.Ping are left out, with all that is ignored.     *)
(***************************************************************************)
EXTENDS Naturals, Sequences, FiniteSets

CONSTANTS
  Others,      \* threads that are not the player's own
  Own,         \* its gameplay thread
  Values,      \* of a snapshot
  Covers,      \* Covers[n]: the packages with the name or the prefix n
  GMCP_MAX_SUBSCRIPTIONS,
  None

Packages == {"Char.Vitals", "Room.Info"}
Names == DOMAIN Covers
Threads == Others \cup {Own}

ASSUME GmcpAssumption ==
  /\ Own \notin Others /\ None \notin Threads \cup Values
  /\ Covers \in [Names -> SUBSET Packages]
  /\ IsFiniteSet(Names)  \* of at most GMCP_MAX_PACKAGE_LENGTH letters
  /\ GMCP_MAX_SUBSCRIPTIONS \in Nat

VARIABLES
  enabled, subscriptions,  \* GmcpProtocol
  truth,       \* truth[p]: what a snapshot of p would say
  cache,       \* cache[p]: gmcp_cache
  shown,       \* shown[p]: what the client was told last
  playing,     \* session.player is not None
  running,     \* session.running
  lock,        \* the thread that holds the state_lock
  todo,        \* todo[t]: the steps thread t has to do
  batch,       \* batch[t]: the snapshots it has still to send
  torn,        \* history: the packages sent last while somebody was about to cache another sending
  crossed      \* history: the last flush met another flush or a change without a lock between them

protocol == <<enabled, subscriptions>>
session == <<playing, running, lock>>
board == <<cache, shown, torn>>
vars == <<protocol, truth, board, session, todo, batch, crossed>>

Init ==
  /\ enabled = FALSE /\ subscriptions = {}
  /\ truth \in [Packages -> Values]
  /\ cache = [p \in Packages |-> None] /\ shown = cache
  /\ playing = FALSE /\ running = TRUE /\ lock = None
  /\ todo = [t \in Threads |-> <<>>] /\ batch = todo
  /\ torn = {} /\ crossed = FALSE

-------------------------------------------------------------------------------
(* Threads *)

At(t, step) == todo[t] # <<>> /\ Head(todo[t]) = step
Idle(t) == todo[t] = <<>>
Goes(t, more) == todo' = [todo EXCEPT ![t] = more \o Tail(@)]
Starts(t, steps) == Idle(t) /\ todo' = [todo EXCEPT ![t] = steps]

Snapshots == <<"Char.Vitals", "Room.Info">>

\* flush_gmcp
Flush == Snapshots \o <<"check">>
Forced == <<"clear">> \o Flush

Flushing(t) == \E step \in {"Room.Info", "check", "gate", "send", "write"} : At(t, step)
\* What it has to do it does without the state_lock, as a Telnet event's or /heal's flush.
Bare(t) == \A i \in DOMAIN todo[t] : todo[t][i] # "unlock"
Meets(t) == \E u \in Threads \ {t} : Flushing(u) /\ (Bare(t) \/ Bare(u))

\* Fault: a thread that finds the state_lock taken goes on without it.
AcquireOrNot(t) ==
  /\ At(t, "lock")
  /\ lock' = IF lock = None THEN t ELSE lock
  /\ Goes(t, <<>>)
  /\ UNCHANGED <<protocol, truth, board, playing, running, batch, crossed>>

Acquire(t) ==
  /\ At(t, "lock") /\ lock = None
  /\ lock' = t
  /\ Goes(t, <<>>)
  /\ UNCHANGED <<protocol, truth, board, playing, running, batch, crossed>>

Release(t) ==
  /\ At(t, "unlock")
  /\ lock' = None
  /\ Goes(t, <<>>)
  /\ UNCHANGED <<protocol, truth, board, playing, running, batch, crossed>>

-------------------------------------------------------------------------------
(* GmcpProtocol *)

\* supports
Supports(p) == enabled /\ \E n \in subscriptions : p \in Covers[n]

Forgets == <<"clear">> \o (IF playing THEN Forced ELSE <<>>)

\* What handle_telnet_event does after one event, by its GmcpAction's refresh.
Refresh(on, subs) == IF on # enabled \/ subs # subscriptions THEN Forgets ELSE <<>>

Becomes(on, subs) ==
  /\ running
  /\ Starts(Own, Refresh(on, subs))
  /\ enabled' = on /\ subscriptions' = subs
  /\ UNCHANGED <<truth, board, session, batch, crossed>>

\* handle_negotiation
Do == Becomes(TRUE, subscriptions)
Dont == Becomes(FALSE, {})

\* Core.Supports of a client that has enabled GMCP; a list too long is ignored.
Set(names) == enabled /\ Cardinality(names) <= GMCP_MAX_SUBSCRIPTIONS /\ Becomes(TRUE, names)
\* Fault: the limit is on the list, not on what comes of it.
AddLoosely(names) ==
  enabled /\ Cardinality(names) <= GMCP_MAX_SUBSCRIPTIONS /\ Becomes(TRUE, subscriptions \cup names)
Add(names) ==
  LET combined == subscriptions \cup names IN
  enabled /\ Cardinality(combined) <= GMCP_MAX_SUBSCRIPTIONS /\ Becomes(TRUE, combined)
Remove(names) ==
  enabled /\ Cardinality(names) <= GMCP_MAX_SUBSCRIPTIONS /\ Becomes(TRUE, subscriptions \ names)

Event == Do \/ Dont \/ \E names \in SUBSET Names : Set(names) \/ Add(names) \/ Remove(names)

-------------------------------------------------------------------------------
(* flush_gmcp *)

\* force, or handle_telnet_event: under gmcp_cache_lock
Clear(t) ==
  /\ At(t, "clear")
  /\ cache' = [p \in Packages |-> None]
  /\ Goes(t, <<>>)
  /\ UNCHANGED <<protocol, truth, shown, torn, session, batch, crossed>>

\* _gmcp_snapshots, a package at a time.  A player between two rooms has no Room.Info.
Absent(t, p) == p = "Room.Info" /\ \E u \in Threads \ {t} : At(u, "alter")
Snapshot(t, p) ==
  /\ At(t, p)
  /\ \/ playing /\ Supports(p) /\ batch' = [batch EXCEPT ![t] = Append(@, <<p, truth[p]>>)]
     \/ (~playing \/ ~Supports(p) \/ Absent(t, p)) /\ UNCHANGED batch
  /\ crossed' = IF p = Head(Snapshots) THEN Meets(t) ELSE crossed
  /\ Goes(t, <<>>)
  /\ UNCHANGED <<protocol, truth, board, session>>

Package(t) == Head(batch[t])[1]
Value(t) == Head(batch[t])[2]

\* Fault: the cache is told before the client.
CheckAndWrite(t) ==
  /\ At(t, "check")
  /\ IF batch[t] = <<>> THEN Goes(t, <<>>) /\ UNCHANGED <<batch, cache>>
     ELSE IF cache[Package(t)] = Value(t)
     THEN batch' = [batch EXCEPT ![t] = Tail(@)] /\ UNCHANGED <<todo, cache>>
     ELSE /\ Goes(t, <<"gate", "send", "write", "check">>) /\ UNCHANGED batch
          /\ cache' = [cache EXCEPT ![Package(t)] = Value(t)]
  /\ UNCHANGED <<protocol, truth, shown, torn, session, crossed>>

\* A snapshot equal to the cached one is passed over.
Check(t) ==
  /\ At(t, "check")
  /\ IF batch[t] = <<>> THEN Goes(t, <<>>) /\ UNCHANGED batch
     ELSE IF cache[Package(t)] = Value(t)
     THEN batch' = [batch EXCEPT ![t] = Tail(@)] /\ UNCHANGED todo
     ELSE Goes(t, <<"gate", "send", "write", "check">>) /\ UNCHANGED batch
  /\ UNCHANGED <<protocol, truth, board, session, crossed>>

\* The loop is left: what follows the flush is left to do.
Break(t) ==
  /\ batch' = [batch EXCEPT ![t] = <<>>]
  /\ todo' = [todo EXCEPT ![t] = IF Bare(t) THEN <<>> ELSE <<"unlock">>]

\* send_gmcp looks whether it may, ...
Gate(t) ==
  /\ At(t, "gate")
  /\ IF running /\ enabled THEN Goes(t, <<>>) /\ UNCHANGED batch ELSE Break(t)
  /\ UNCHANGED <<protocol, truth, board, session, crossed>>

\* ... and sends, ...
Send(t) ==
  /\ At(t, "send")
  /\ shown' = [shown EXCEPT ![Package(t)] = Value(t)]
  /\ LET raced == \E u \in Threads \ {t} : At(u, "write") /\ Package(u) = Package(t)
     IN  torn' = IF raced THEN torn \cup {Package(t)} ELSE torn \ {Package(t)}
  /\ Goes(t, <<>>)
  /\ UNCHANGED <<protocol, truth, cache, session, batch, crossed>>

\* ... which may fail.
SendFails(t) ==
  /\ At(t, "send")
  /\ running' = FALSE
  /\ Break(t)
  /\ UNCHANGED <<protocol, truth, board, playing, lock, crossed>>

\* What was sent is cached.
Write(t) ==
  /\ At(t, "write")
  /\ cache' = [cache EXCEPT ![Package(t)] = Value(t)]
  /\ batch' = [batch EXCEPT ![t] = Tail(@)]
  /\ Goes(t, <<>>)
  /\ UNCHANGED <<protocol, truth, shown, torn, session, crossed>>

Flushes(t) ==
  \/ Clear(t) \/ (\E p \in Packages : Snapshot(t, p))
  \/ Check(t) \/ Gate(t) \/ Send(t) \/ SendFails(t) \/ Write(t)

-------------------------------------------------------------------------------
(* What changes the player *)

Changes(t, new) ==
  /\ truth' = IF playing THEN new ELSE truth
  /\ crossed' = (crossed \/ Meets(t))
  /\ Goes(t, <<>>)
  /\ UNCHANGED <<protocol, board, session, batch>>

\* A command, or damage_player, which may end in a collapse and move the player.
Alter(t) == At(t, "alter") /\ \E new \in [Packages -> Values] : Changes(t, new)

\* Player.heal
Heal(t) == At(t, "heal") /\ \E v \in Values : Changes(t, [truth EXCEPT !["Char.Vitals"] = v])

Altering == <<"lock", "alter">>

\* The login is over: the gameplay thread enters the first room.
LogIn ==
  /\ ~playing /\ running
  /\ playing' = TRUE
  /\ Starts(Own, Altering \o Forced \o <<"unlock">>)
  /\ UNCHANGED <<protocol, truth, board, running, lock, batch, crossed>>

\* Threads of others, and of lines
Begins(t, steps) ==
  /\ playing /\ running
  /\ Starts(t, steps)
  /\ UNCHANGED <<protocol, truth, board, session, batch, crossed>>

\* A line of the player, or an acorn, or a minute of sobering up
Command == Begins(Own, Altering \o Flush \o <<"unlock">>)
Hurt(t) == Begins(t, Altering \o Flush \o <<"unlock">>)

\* /heal by another player waits a second for the lock, and flushes after it has returned it.
Healing == <<"lock", "heal", "unlock">> \o Flush
HealCommand(t) == Begins(t, Healing)

\* "That player is busy"
GiveUp(t) ==
  /\ todo[t] = Healing /\ lock # None
  /\ todo' = [todo EXCEPT ![t] = <<>>]
  /\ UNCHANGED <<protocol, truth, board, session, batch, crossed>>

\* The connection ends, and the gameplay thread finds out.
HangUp ==
  /\ running /\ running' = FALSE
  /\ UNCHANGED <<protocol, truth, board, playing, lock, todo, batch, crossed>>

Disconnect ==
  /\ ~running /\ playing /\ Starts(Own, <<"lock", "detach", "unlock">>)
  /\ UNCHANGED <<protocol, truth, board, session, batch, crossed>>

Detach ==
  /\ At(Own, "detach")
  /\ playing' = FALSE
  /\ Goes(Own, <<>>)
  /\ UNCHANGED <<protocol, truth, board, running, lock, batch, crossed>>

Next ==
  \/ Event \/ LogIn \/ Command \/ HangUp \/ Disconnect \/ Detach
  \/ \E t \in Others : Hurt(t) \/ HealCommand(t) \/ GiveUp(t)
  \/ \E t \in Threads : Acquire(t) \/ Release(t) \/ Alter(t) \/ Heal(t) \/ Flushes(t)

Spec == Init /\ [][Next]_vars

-------------------------------------------------------------------------------
(* Properties *)

Steps == {"lock", "unlock", "clear", "check", "gate", "send", "write", "alter", "heal", "detach"} \cup Packages

\* The shapes of the variables, the limit on what a client can make the server remember, and
\* that a client without GMCP has nothing remembered.
GmcpTypeOK ==
  /\ {enabled, playing, running, crossed} \subseteq BOOLEAN
  /\ subscriptions \subseteq Names /\ Cardinality(subscriptions) <= GMCP_MAX_SUBSCRIPTIONS
  /\ ~enabled => subscriptions = {}
  /\ truth \in [Packages -> Values]
  /\ {cache, shown} \subseteq [Packages -> Values \cup {None}]
  /\ lock \in Threads \cup {None}
  /\ todo \in [Threads -> Seq(Steps)] /\ batch \in [Threads -> Seq(Packages \X Values)]
  /\ torn \subseteq Packages

\* Once a sending is cached, the cache says what the client was told last: a snapshot that is
\* passed over is one the client has.  The exception is a value that was sent between another
\* thread's sending and its caching.
CacheIsShown ==
  \A p \in Packages \ torn :
    running /\ cache[p] # None /\ ~(\E t \in Threads : At(t, "write") /\ Package(t) = p) =>
      shown[p] = cache[p]

\* While no thread is at work, the client knows the truth of what it has subscribed to: every
\* change, by whichever thread, and every subscription is followed by what it takes.  The
\* exception is a flush made without the state_lock, /heal's or one a Telnet event asks for,
\* that met another flush or a change: it may have told the client what was true before.
PictureIsCurrent ==
  \A p \in Packages \ torn :
    playing /\ running /\ ~crossed /\ (\A t \in Threads : Idle(t)) /\ Supports(p) => shown[p] = truth[p]
===============================================================================
