------------------------------- MODULE Connection -------------------------------
(***************************************************************************)
(* The selector thread of server_runtime.py with its connections, and the  *)
(* threads that meet it there: each player's gameplay thread, which reads  *)
(* lines and sends, other threads that send to the same session, and the   *)
(* administrator who kicks or stops the server.                            *)
(*                                                                         *)
(* The parts of a pass of serve_once (pool results, controls, sockets,     *)
(* idleness, graceful stop) come round for ever and each does what it      *)
(* finds: here they come in any order, theirs included.  An unread or      *)
(* unsent piece of data is one entry of a queue; OutputLimit counts writes *)
(* instead of bytes.  What the login says is Login's; here a result of the *)
(* pool only promotes or refuses.  Time is what it decides: the clock may  *)
(* find any connection idle, and any grace period over.                    *)
(***************************************************************************)
EXTENDS Naturals, Sequences, FiniteSets

CONSTANTS
  Connections, Addresses,
  TotalLimit,       \* TOTAL_CONNECTION_LIMIT
  PerAddressLimit,  \* PER_IP_CONNECTION_LIMIT
  PlayerLimit,      \* AUTHENTICATED_CONNECTION_LIMIT
  LoginLimit,       \* PREAUTH_CONNECTION_LIMIT
  OutputLimit,      \* OUTPUT_QUEUE_LIMIT
  InputLimit        \* INPUT_QUEUE_LIMIT

ASSUME ConnectionAssumption ==
  /\ IsFiniteSet(Connections) /\ Addresses # {}
  /\ {TotalLimit, PerAddressLimit, PlayerLimit, LoginLimit, OutputLimit, InputLimit} \subseteq Nat \ {0}

VARIABLES
  conn,       \* conn[c]: the SelectorConnection, or what its place was last used for
  running,    \* session.running
  worker,     \* worker[c]: where the session's gameplay thread is, or "none"
  kicker,     \* kicker[c]: a thread inside request_kick of the session
  closes,     \* the connections with a "close" in the control queue
  shutdown,   \* of /shutdown: "none", "announced", "queued", "draining" or "late"
  server      \* "serving", "stopping" or "closed"

selector == <<shutdown, server>>
vars == <<conn, running, worker, kicker, closes, shutdown, server>>

Links == {"none", "open", "closing", "closed"}
WorkerPc == {"none", "prompting", "testing", "reading", "event", "handling", "leaving"}

Blank == [link |-> "none", address |-> CHOOSE a \in Addresses : TRUE, authenticated |-> FALSE,
          close_requested |-> FALSE, close_after_output |-> FALSE,
          output |-> <<>>, input_lines |-> <<>>]

Init ==
  /\ conn = [c \in Connections |-> Blank]
  /\ running = [c \in Connections |-> FALSE]
  /\ worker = [c \in Connections |-> "none"]
  /\ kicker = [c \in Connections |-> "idle"]
  /\ closes = {}
  /\ shutdown = "none"
  /\ server = "serving"

-------------------------------------------------------------------------------
(* SelectorConnection *)

Open(k) == k.link = "open"
Accepts(k) == Open(k) /\ ~k.close_requested
Overflows(k) == Accepts(k) /\ Len(k.output) >= OutputLimit

\* sendall
Write(k, m) ==
  CASE Overflows(k) -> [k EXCEPT !.close_requested = TRUE]
    [] Accepts(k) /\ ~Overflows(k) -> [k EXCEPT !.output = Append(@, m)]
    [] OTHER -> k

\* request_close
Request(k) == IF Open(k) THEN [k EXCEPT !.close_requested = TRUE] ELSE k

\* request_close_after_output
RequestAfterOutput(k) == IF Accepts(k) THEN [k EXCEPT !.close_after_output = TRUE] ELSE k

\* put_nowait of a line or an event for the gameplay thread
Deliver(k, event) ==
  IF Len(k.input_lines) >= InputLimit THEN Request(k)
  ELSE [k EXCEPT !.input_lines = Append(@, event)]

\* Session.send of m to every session of C: their connections afterwards ...
Sent(C, m) == [c \in Connections |-> IF c \in C /\ running[c] THEN Write(conn[c], m) ELSE conn[c]]
\* ... and whether they still run: a session whose output overflows stops.
StillRunning(C) == [c \in Connections |-> running[c] /\ ~(c \in C /\ Overflows(conn[c]))]

\* Whoever sets close_requested puts the connection into the control queue.
QueueCloses == closes' = closes \cup {c \in Connections : conn'[c].close_requested /\ ~conn[c].close_requested}

\* Session.send, or prompt, to one session
Says(c) == conn' = Sent({c}, "text") /\ running' = StillRunning({c}) /\ QueueCloses

-------------------------------------------------------------------------------
(* The selector thread *)

\* The selector is not in the middle of closing a connection.
Serving == server = "serving" /\ \A c \in Connections : conn[c].link # "closing"

\* _close_connection of every connection of C, up to mark_closed's session.running = False
Closed(C) == [c \in Connections |->
  IF c \in C /\ Open(conn[c])
  THEN [Blank EXCEPT !.link = "closing", !.close_requested = TRUE,
                     !.input_lines = conn[c].input_lines]
  ELSE conn[c]]
Close(C) ==
  /\ conn' = Closed(C)
  /\ running' = [c \in Connections |-> running[c] /\ ~(c \in C /\ Open(conn[c]))]
  /\ UNCHANGED <<worker, kicker>>

\* Fault: the queue is emptied after the end marker was put.
SealAndDrain(c) ==
  /\ conn[c].link = "closing"
  /\ conn' = [conn EXCEPT ![c].link = "closed", ![c].input_lines = <<>>]
  /\ UNCHANGED <<running, worker, kicker, closes, selector>>

\* The end of mark_closed: the queue is emptied and gets the end marker.
Seal(c) ==
  /\ conn[c].link = "closing"
  /\ conn' = [conn EXCEPT ![c].link = "closed", ![c].input_lines = <<"LINE_CLOSED">>]
  /\ UNCHANGED <<running, worker, kicker, closes, selector>>

\* _drain_controls
DrainControls ==
  /\ Serving
  /\ closes # {} \/ shutdown = "queued"
  /\ Close(closes)
  /\ closes' = {}
  /\ shutdown' = IF shutdown = "queued" THEN "draining" ELSE shutdown
  /\ UNCHANGED server

\* Fault: connections before login are not counted apart.
AdmittedByTotal(a) == Cardinality({c \in Connections : Open(conn[c])}) < TotalLimit

\* rejection_reason finds none.
Admitted(a) ==
  LET open == {c \in Connections : conn[c].link = "open"}
      players == {c \in open : conn[c].authenticated}
  IN  /\ Cardinality(open) < TotalLimit
      /\ Cardinality({c \in open : conn[c].address = a}) < PerAddressLimit
      /\ Cardinality(players) < PlayerLimit
      /\ Cardinality(open \ players) < LoginLimit

\* _accept_ready: an admitted connection gets its session, and that its banner and prompt.
\* The listener is closed once a shutdown is known to the selector.
Accept(c, a) ==
  /\ Serving
  /\ shutdown \notin {"draining", "late"}
  /\ Admitted(a)
  /\ conn[c].link \in {"none", "closed"} /\ worker[c] = "none"
  /\ kicker[c] = "idle" /\ c \notin closes
  /\ conn' = [conn EXCEPT ![c] = [Blank EXCEPT !.link = "open", !.address = a, !.output = <<"text">>]]
  /\ running' = [running EXCEPT ![c] = TRUE]
  /\ UNCHANGED <<worker, kicker, closes, selector>>

\* _deliver_line to a player's gameplay thread, after the echo of the line's end
ReceiveLine(c) ==
  /\ Serving /\ Open(conn[c]) /\ conn[c].authenticated
  /\ conn' = [conn EXCEPT ![c] = Deliver(Write(conn[c], "text"), "line")]
  /\ QueueCloses
  /\ UNCHANGED <<running, worker, kicker, selector>>

\* _deliver_tab, or _deliver_protocol
ReceiveEvent(c) ==
  /\ Serving /\ Open(conn[c]) /\ conn[c].authenticated
  /\ conn' = [conn EXCEPT ![c] = Deliver(conn[c], "event")]
  /\ QueueCloses
  /\ UNCHANGED <<running, worker, kicker, selector>>

\* _deliver_line before login: the handler answers, gives up on the client, or raises.
ReceiveLoginLine(c) ==
  /\ Serving /\ Open(conn[c]) /\ ~conn[c].authenticated
  /\ LET answered == IF running[c] THEN Write(conn[c], "text") ELSE conn[c]
     IN  conn' \in {[conn EXCEPT ![c] = k] :
                      k \in {answered, RequestAfterOutput(answered), Request(answered)}}
  /\ running' = [running EXCEPT ![c] = @ /\ ~Overflows(conn[c])]
  /\ QueueCloses
  /\ UNCHANGED <<worker, kicker, selector>>

\* _write_ready: the oldest output is gone.
Transmit(c) ==
  /\ Serving /\ Open(conn[c]) /\ conn[c].output # <<>>
  /\ conn' = [conn EXCEPT ![c].output = Tail(@)]
  /\ UNCHANGED <<running, worker, kicker, closes, selector>>

\* The client is gone: recv returns nothing, or a socket function raises.
HangUp(c) ==
  /\ Serving /\ Open(conn[c])
  /\ Close({c})
  /\ UNCHANGED <<closes, selector>>

\* can_promote
Promotes == Cardinality({c \in Connections : Open(conn[c]) /\ conn[c].authenticated}) < PlayerLimit

\* auth_pool.drain runs _finish_authenticated: the session gets its player and its thread.
LogIn(c) ==
  /\ Serving /\ Open(conn[c]) /\ ~conn[c].authenticated
  /\ IF Promotes
     THEN /\ conn' = [conn EXCEPT ![c].authenticated = TRUE]
          /\ worker' = [worker EXCEPT ![c] = "prompting"]
          /\ UNCHANGED running
     ELSE /\ conn' = [conn EXCEPT ![c] = RequestAfterOutput(Sent({c}, "text")[c])]
          /\ running' = StillRunning({c})
          /\ UNCHANGED worker
  /\ QueueCloses
  /\ UNCHANGED <<kicker, selector>>

\* _check_idle_connections: who was to be closed after its output is closed when the output is
\* gone, or when its grace is over, which may be at once.  Of the others, ...
CloseDue(c) ==
  /\ Serving /\ Open(conn[c]) /\ conn[c].close_after_output
  /\ Close({c})
  /\ UNCHANGED <<closes, selector>>

\* ... a player idle for ten hours is warned, ...
Warn(c) ==
  /\ Serving /\ Open(conn[c]) /\ conn[c].authenticated /\ ~conn[c].close_after_output
  /\ Says(c)
  /\ UNCHANGED <<worker, kicker, selector>>

\* ... and who is idle for too long is closed in the same way.
Expel(c) ==
  /\ Serving /\ Open(conn[c]) /\ ~conn[c].close_after_output
  /\ conn' = [conn EXCEPT ![c] = RequestAfterOutput(Sent({c}, "text")[c])]
  /\ running' = StillRunning({c})
  /\ QueueCloses
  /\ UNCHANGED <<worker, kicker, selector>>

\* Fault: one connection without output is enough.
DrainedSomewhere == \E c \in Connections : Open(conn[c]) /\ conn[c].output = <<>>

Drained == \A c \in Connections : Open(conn[c]) => conn[c].output = <<>>

\* _check_graceful_shutdown, the last thing of a pass
CheckGraceful ==
  /\ Serving
  /\ shutdown = "late" \/ (shutdown = "draining" /\ Drained)
  /\ server' = "stopping"
  /\ UNCHANGED <<conn, running, worker, kicker, closes, shutdown>>

\* serve_forever has returned, and main calls server_close.
ServerClose ==
  /\ server = "stopping"
  /\ server' = "closed"
  /\ Close(Connections)
  /\ UNCHANGED <<closes, shutdown>>

-------------------------------------------------------------------------------
(* Time *)

\* graceful_shutdown_deadline has come.
DeadlineComes ==
  /\ shutdown = "draining"
  /\ shutdown' = "late"
  /\ UNCHANGED <<conn, running, worker, kicker, closes, server>>

-------------------------------------------------------------------------------
(* The gameplay thread: _gameplay_loop, read_line and disconnect *)

Goes(c, from, to) == worker[c] = from /\ worker' = [worker EXCEPT ![c] = to]

Quiet == UNCHANGED <<conn, running, closes>>

\* The greeting is part of the first prompt.
Prompt(c) ==
  /\ Goes(c, "prompting", "testing")
  /\ Says(c)
  /\ UNCHANGED <<kicker, selector>>

\* read_line's own test.  When it fails at once there is no line to return, and the exception
\* takes the thread to disconnect().
Test(c) ==
  /\ Goes(c, "testing", IF running[c] THEN "reading" ELSE "leaving")
  /\ Quiet /\ UNCHANGED <<kicker, selector>>

\* The blocking get.  A line of a session that has stopped meanwhile is not looked at.
Read(c) ==
  /\ conn[c].input_lines # <<>>
  /\ LET event == Head(conn[c].input_lines)
     IN  /\ Goes(c, "reading",
                 CASE event = "event" -> "event"
                   [] event = "line" /\ running[c] -> "handling"
                   [] OTHER -> "leaving")
         /\ running' = [running EXCEPT ![c] = @ /\ event # "LINE_CLOSED"]
  /\ conn' = [conn EXCEPT ![c].input_lines = Tail(@)]
  /\ UNCHANGED <<kicker, closes, selector>>

\* handle_tab_completion, or handle_telnet_event; then read_line's test again
HandleEvent(c) ==
  /\ \/ Quiet /\ Goes(c, "event", IF running[c] THEN "reading" ELSE "leaving")
     \/ Says(c) /\ Goes(c, "event", IF StillRunning({c})[c] THEN "reading" ELSE "leaving")
  /\ UNCHANGED <<kicker, selector>>

\* A command has had the state_lock, and ends: it may have sent something, or have been /quit.
EndCommand(c) ==
  /\ \/ Quiet /\ Goes(c, "handling", IF running[c] THEN "prompting" ELSE "leaving")
     \/ Says(c) /\ Goes(c, "handling", IF StillRunning({c})[c] THEN "prompting" ELSE "leaving")
     \/ /\ Goes(c, "handling", "leaving")
        /\ conn' = Sent({c}, "text") /\ running' = [running EXCEPT ![c] = FALSE] /\ QueueCloses
  /\ UNCHANGED <<kicker, selector>>

\* /shutdown announces, ...
Announce(c) ==
  /\ worker[c] = "handling"
  /\ shutdown = "none"
  /\ LET players == {d \in Connections : worker[d] # "none"}
     IN  conn' = Sent(players, "notice") /\ running' = StillRunning(players)
  /\ QueueCloses
  /\ shutdown' = "announced"
  /\ UNCHANGED <<worker, kicker, server>>

\* ... and then asks the selector.
RequestShutdown ==
  /\ shutdown = "announced"
  /\ shutdown' = "queued"
  /\ UNCHANGED <<conn, running, worker, kicker, closes, server>>

\* Fault: the thread leaves its connection open.
LeaveOpen(c) ==
  /\ Goes(c, "leaving", "none")
  /\ running' = [running EXCEPT ![c] = FALSE]
  /\ UNCHANGED <<conn, closes, kicker, selector>>

\* disconnect(), whose waits are bounded: the final save, then the end of the connection
Disconnect(c) ==
  /\ Goes(c, "leaving", "none")
  /\ running' = [running EXCEPT ![c] = FALSE]
  /\ conn' = [conn EXCEPT ![c] = Request(@)]
  /\ QueueCloses
  /\ UNCHANGED <<kicker, selector>>

-------------------------------------------------------------------------------
(* Other threads *)

InPlay(c) == worker[c] # "none"

\* Another player's, or an NPC's, message
Tell(c) ==
  /\ InPlay(c)
  /\ Says(c)
  /\ UNCHANGED <<worker, kicker, selector>>

\* request_kick: the message and the request to close, ...
Kick(c) ==
  /\ kicker[c] = "idle"
  /\ InPlay(c) /\ running[c]
  /\ conn' = [conn EXCEPT ![c] = RequestAfterOutput(Sent({c}, "text")[c])]
  /\ running' = StillRunning({c})
  /\ QueueCloses
  /\ kicker' = [kicker EXCEPT ![c] = "stopping"]
  /\ UNCHANGED <<worker, selector>>

\* ... and then running = False.
EndKick(c) ==
  /\ kicker[c] = "stopping"
  /\ kicker' = [kicker EXCEPT ![c] = "idle"]
  /\ running' = [running EXCEPT ![c] = FALSE]
  /\ UNCHANGED <<conn, worker, closes, selector>>

-------------------------------------------------------------------------------

Sockets(c) ==
  \/ ReceiveLine(c) \/ ReceiveEvent(c) \/ ReceiveLoginLine(c) \/ Transmit(c) \/ HangUp(c)
  \/ \E a \in Addresses : Accept(c, a)
Worker(c) ==
  \/ Prompt(c) \/ Test(c) \/ Read(c) \/ HandleEvent(c) \/ EndCommand(c)
  \/ Disconnect(c)
Selector == DrainControls \/ CheckGraceful \/ ServerClose

Next ==
  \/ Selector \/ RequestShutdown \/ DeadlineComes
  \/ \E c \in Connections :
       \/ Seal(c) \/ Sockets(c) \/ LogIn(c)
       \/ Worker(c) \/ Announce(c)
       \/ Tell(c) \/ Kick(c) \/ EndKick(c)
       \/ CloseDue(c) \/ Warn(c) \/ Expel(c)

Spec == Init /\ [][Next]_vars

-------------------------------------------------------------------------------
(* Properties *)

ConnectionRecord ==
  [link : Links, address : Addresses, authenticated : BOOLEAN, close_requested : BOOLEAN,
   close_after_output : BOOLEAN, output : Seq({"text", "notice"}),
   input_lines : Seq({"line", "event", "LINE_CLOSED"})]

\* The limits of both queues, and on connections in all, per address, before login and in play,
\* whatever promotions, closings and admissions follow each other.
LimitsHold ==
  LET open == {c \in Connections : Open(conn[c])}
      players == {c \in open : conn[c].authenticated}
  IN  /\ \A c \in Connections :
           Len(conn[c].output) <= OutputLimit /\ Len(conn[c].input_lines) <= InputLimit
      /\ Cardinality(open) <= TotalLimit
      /\ \A a \in Addresses : Cardinality({c \in open : conn[c].address = a}) <= PerAddressLimit
      /\ Cardinality(players) <= PlayerLimit
      /\ Cardinality(open \ players) <= LoginLimit

\* Types and limits
ConnectionTypeOK ==
  /\ conn \in [Connections -> ConnectionRecord]
  /\ running \in [Connections -> BOOLEAN]
  /\ worker \in [Connections -> WorkerPc]
  /\ kicker \in [Connections -> {"idle", "stopping"}]
  /\ closes \subseteq Connections
  /\ shutdown \in {"none", "announced", "queued", "draining", "late"}
  /\ server \in {"serving", "stopping", "closed"}
  /\ LimitsHold

\* The end marker is never missed: a gameplay thread that will read from a closed connection, or
\* reads from it already, finds the marker, and nothing before or after it.
NobodyReadsInVain ==
  \A c \in Connections : conn[c].link = "closed" =>
    /\ worker[c] = "reading" => conn[c].input_lines = <<"LINE_CLOSED">>
    /\ ~running[c]

\* "The listener closes, queued notices receive a one-second drain opportunity": the server
\* does not stop before the deadline while somebody's shutdown notice is unsent.
NoticesAreDrained ==
  server = "stopping" /\ shutdown # "late" =>
    \A c \in Connections : Open(conn[c]) => \A i \in DOMAIN conn[c].output : conn[c].output[i] # "notice"

\* No closing is lost: who asked to close a connection has left it in the control queue, and a
\* session that has stopped is never left with its thread blocked in a read, or without a thread,
\* and a connection that nobody is about to close.
NoCloseIsLost ==
  \A c \in Connections : Open(conn[c]) =>
    /\ conn[c].close_requested => c \in closes
    /\ ~running[c] /\ worker[c] \in {"none", "reading"} => c \in closes \/ conn[c].close_after_output
===============================================================================
