--------------------------- MODULE ConnectionProofs ---------------------------
(***************************************************************************)
(* Proofs about the selector server and the threads that meet it.          *)
(*                                                                         *)
(* Most steps do no more to a connection than write to it, read from it or *)
(* ask for its end: Ordinary says what such a step may do, and each        *)
(* invariant has to be kept by Ordinary and by the few other steps, which  *)
(* close, seal, accept or promote a connection.                            *)
(***************************************************************************)
EXTENDS Connection, FiniteSetTheorems, TLAPS

-------------------------------------------------------------------------------
(* Records *)

\* A connection's record with both queues within their limits
Within ==
  {k \in ConnectionRecord : Len(k.output) <= OutputLimit /\ Len(k.input_lines) <= InputLimit}

Unnoticed(k) == \A i \in DOMAIN k.output : k.output[i] # "notice"

\* The connection is the same, and nobody takes back that it shall end.
Same(k, n) ==
  /\ n.link = k.link /\ n.address = k.address /\ n.authenticated = k.authenticated
  /\ k.close_requested => n.close_requested
  /\ k.close_after_output => n.close_after_output

\* The limits are numbers, and nobody is shut out by them altogether.
LEMMA ConstantsType ==
  /\ TotalLimit \in Nat /\ PerAddressLimit \in Nat /\ PlayerLimit \in Nat /\ LoginLimit \in Nat
  /\ OutputLimit \in Nat /\ InputLimit \in Nat
  /\ TotalLimit >= 1 /\ PerAddressLimit >= 1 /\ LoginLimit >= 1 /\ PlayerLimit >= 1
  /\ OutputLimit >= 1 /\ InputLimit >= 1
  /\ IsFiniteSet(Connections) /\ Addresses # {}
BY ConnectionAssumption

\* A place nobody has used is well formed.
LEMMA BlankType ==
  /\ Blank \in Within /\ Unnoticed(Blank) /\ Blank.link = "none" /\ ~Blank.close_requested
<1>1. (CHOOSE a \in Addresses : TRUE) \in Addresses
  BY ConstantsType
<1> QED BY <1>1, ConstantsType DEF Blank, Within, ConnectionRecord, Links, Unnoticed

\* A write stays within the limit, or ends the connection; and brings no notice that it was not.
LEMMA WriteType ==
  ASSUME NEW k \in Within, NEW m \in {"text", "notice"}
  PROVE  /\ Write(k, m) \in Within /\ Same(k, Write(k, m))
         /\ Write(k, m).input_lines = k.input_lines
         /\ Overflows(k) => Write(k, m).close_requested
         /\ m = "text" /\ Unnoticed(k) => Unnoticed(Write(k, m))
<1> DEFINE w == Write(k, m)
<1>1. /\ k \in ConnectionRecord /\ k.output \in Seq({"text", "notice"}) /\ Len(k.output) \in Nat
      /\ Len(k.output) <= OutputLimit /\ Len(k.input_lines) <= InputLimit
  BY DEF Within, ConnectionRecord
<1>2. CASE Overflows(k)
  <2>1. w = [k EXCEPT !.close_requested = TRUE]
    BY <1>2 DEF Write
  <2> QED BY <1>1, <1>2, <2>1 DEF Within, ConnectionRecord, Same, Unnoticed
<1>3. CASE Accepts(k) /\ ~Overflows(k)
  <2>1. w = [k EXCEPT !.output = Append(@, m)]
    BY <1>3 DEF Write
  <2>2. Append(k.output, m) \in Seq({"text", "notice"}) /\ Len(Append(k.output, m)) <= OutputLimit
    BY <1>1, <1>3, ConstantsType DEF Overflows
  <2>3. m = "text" /\ Unnoticed(k) => Unnoticed(w)
    BY <1>1, <2>1 DEF Unnoticed, ConnectionRecord
  <2> QED BY <1>1, <1>3, <2>1, <2>2, <2>3 DEF Within, ConnectionRecord, Same
<1>4. CASE ~Accepts(k)
  <2>1. w = k /\ ~Overflows(k)
    BY <1>4 DEF Write, Overflows
  <2> QED BY <2>1 DEF Same
<1> QED BY <1>2, <1>3, <1>4

\* Asking for the end of a connection changes nothing else.
LEMMA RequestType ==
  ASSUME NEW k \in Within
  PROVE  /\ Request(k) \in Within /\ Same(k, Request(k))
         /\ Request(k).output = k.output /\ Request(k).input_lines = k.input_lines
         /\ Open(k) => Request(k).close_requested
  BY DEF Request, Within, ConnectionRecord, Same, Open

\* Asking for it after the output does neither, and one of the two is asked for from then on.
LEMMA RequestAfterOutputType ==
  ASSUME NEW k \in Within
  PROVE  /\ RequestAfterOutput(k) \in Within /\ Same(k, RequestAfterOutput(k))
         /\ RequestAfterOutput(k).output = k.output
         /\ RequestAfterOutput(k).input_lines = k.input_lines
         /\ Open(k) => \/ RequestAfterOutput(k).close_requested
                       \/ RequestAfterOutput(k).close_after_output
  BY DEF RequestAfterOutput, Accepts, Within, ConnectionRecord, Same, Open

\* What is delivered to a gameplay thread stays within the limit, or ends the connection.
LEMMA DeliverType ==
  ASSUME NEW k \in Within, NEW e \in {"line", "event"}
  PROVE  /\ Deliver(k, e) \in Within /\ Same(k, Deliver(k, e))
         /\ Deliver(k, e).output = k.output
<1>1. /\ k \in ConnectionRecord /\ Len(k.input_lines) \in Nat /\ Len(k.output) <= OutputLimit
      /\ k.input_lines \in Seq({"line", "event", "LINE_CLOSED"})
  BY DEF Within, ConnectionRecord
<1>2. CASE Len(k.input_lines) >= InputLimit
  BY <1>2, RequestType DEF Deliver
<1>3. CASE ~(Len(k.input_lines) >= InputLimit)
  <2>1. Deliver(k, e) = [k EXCEPT !.input_lines = Append(@, e)]
    BY <1>3 DEF Deliver
  <2>2. /\ Append(k.input_lines, e) \in Seq({"line", "event", "LINE_CLOSED"})
        /\ Len(Append(k.input_lines, e)) <= InputLimit
    BY <1>1, <1>3, ConstantsType
  <2> QED BY <1>1, <2>1, <2>2 DEF Within, ConnectionRecord, Same
<1> QED BY <1>2, <1>3

\* One change after another leaves the connection the same.
LEMMA SameTwice ==
  ASSUME NEW k, NEW l, NEW n, Same(k, l), Same(l, n)
  PROVE  Same(k, n)
  BY DEF Same

-------------------------------------------------------------------------------
(* Ordinary steps *)

\* ConnectionTypeOK without the numbers of connections
ConnectionShape ==
  /\ conn \in [Connections -> Within]
  /\ running \in [Connections -> BOOLEAN]
  /\ worker \in [Connections -> WorkerPc]
  /\ kicker \in [Connections -> {"idle", "stopping"}]
  /\ closes \subseteq Connections
  /\ shutdown \in {"none", "announced", "queued", "draining", "late"}
  /\ server \in {"serving", "stopping", "closed"}

\* Why connection d, should it be open, is not left with a stopped session that nobody ends
Accounted(d) ==
  \/ running'[d] \/ worker'[d] \notin {"none", "reading"}
  \/ conn'[d].close_requested \/ conn'[d].close_after_output
  \/ kicker[d] = "stopping"
  \/ ~running[d] /\ worker'[d] = worker[d]

\* What a step may do to one connection: it starts no session, puts whoever asks for an end into
\* the control queue, brings no notice once shutdown has begun, and takes nothing that a
\* closed connection's reader is to find.
Handled(d) ==
  /\ Same(conn[d], conn'[d])
  /\ running'[d] => running[d]
  /\ conn'[d].close_requested /\ ~conn[d].close_requested => d \in closes'
  /\ Unnoticed(conn[d]) => Unnoticed(conn'[d]) \/ shutdown = "none"
  /\ kicker'[d] = "stopping" /\ Open(conn[d]) =>
       kicker[d] = "stopping" \/ conn'[d].close_requested \/ conn'[d].close_after_output
  /\ Open(conn[d]) => Accounted(d)
  /\ worker'[d] = "reading" =>
       running'[d] \/ (worker[d] = "reading" /\ conn[d].input_lines = conn'[d].input_lines)
       \/ Open(conn[d])

Ordinary ==
  /\ conn' \in [Connections -> Within]
  /\ running' \in [Connections -> BOOLEAN]
  /\ worker' \in [Connections -> WorkerPc]
  /\ kicker' \in [Connections -> {"idle", "stopping"}]
  /\ closes \subseteq closes' /\ closes' \subseteq Connections
  /\ \A d \in Connections : Handled(d)

\* The queue of controls grows by those who ask for an end.
LEMMA QueueType ==
  ASSUME ConnectionShape, QueueCloses
  PROVE  /\ closes \subseteq closes' /\ closes' \subseteq Connections
         /\ \A d \in Connections :
              conn'[d].close_requested /\ ~conn[d].close_requested => d \in closes'
  BY DEF ConnectionShape, QueueCloses

\* What is sent to some sessions stops those whose connection it ends, and starts none.
LEMMA SentType ==
  ASSUME ConnectionShape, NEW C, NEW m \in {"text", "notice"}
  PROVE  /\ Sent(C, m) \in [Connections -> Within]
         /\ StillRunning(C) \in [Connections -> BOOLEAN]
         /\ \A d \in Connections :
              /\ Same(conn[d], Sent(C, m)[d])
              /\ Sent(C, m)[d].input_lines = conn[d].input_lines
              /\ m = "text" /\ Unnoticed(conn[d]) => Unnoticed(Sent(C, m)[d])
              /\ StillRunning(C)[d] => running[d]
              /\ running[d] /\ ~StillRunning(C)[d] => Sent(C, m)[d].close_requested
<1>1. \A d \in Connections : conn[d] \in Within /\ running[d] \in BOOLEAN
  BY DEF ConnectionShape
<1>2. ASSUME NEW d \in Connections
      PROVE  /\ Sent(C, m)[d] \in Within /\ StillRunning(C)[d] \in BOOLEAN
             /\ Same(conn[d], Sent(C, m)[d])
             /\ Sent(C, m)[d].input_lines = conn[d].input_lines
             /\ m = "text" /\ Unnoticed(conn[d]) => Unnoticed(Sent(C, m)[d])
             /\ StillRunning(C)[d] => running[d]
             /\ running[d] /\ ~StillRunning(C)[d] => Sent(C, m)[d].close_requested
  <2>1. StillRunning(C)[d] = (running[d] /\ ~(d \in C /\ Overflows(conn[d])))
    BY DEF StillRunning
  <2>2. CASE d \in C /\ running[d]
    <3>1. Sent(C, m)[d] = Write(conn[d], m)
      BY <2>2 DEF Sent
    <3> QED BY <1>1, <2>1, <2>2, <3>1, WriteType
  <2>3. CASE ~(d \in C /\ running[d])
    <3>1. Sent(C, m)[d] = conn[d]
      BY <2>3 DEF Sent
    <3> QED BY <1>1, <2>1, <2>3, <3>1 DEF Same
  <2> QED BY <2>2, <2>3
<1>3. Sent(C, m) = [d \in Connections |-> Sent(C, m)[d]]
      /\ StillRunning(C) = [d \in Connections |-> StillRunning(C)[d]]
  BY DEF Sent, StillRunning
<1> QED BY <1>2, <1>3

\* The same, followed by a request to close after it.
LEMMA LastWordsType ==
  ASSUME ConnectionShape, NEW c \in Connections,
         conn' = [conn EXCEPT ![c] = RequestAfterOutput(Sent({c}, "text")[c])]
  PROVE  /\ conn' \in [Connections -> Within]
         /\ \A d \in Connections :
              /\ Same(conn[d], conn'[d])
              /\ conn'[d].input_lines = conn[d].input_lines
              /\ Unnoticed(conn[d]) => Unnoticed(conn'[d])
              /\ running[d] /\ ~StillRunning({c})[d] => conn'[d].close_requested
         /\ Open(conn[c]) => conn'[c].close_requested \/ conn'[c].close_after_output
<1> DEFINE s == Sent({c}, "text")[c]
<1>1. /\ s \in Within /\ Same(conn[c], s) /\ s.input_lines = conn[c].input_lines
      /\ Unnoticed(conn[c]) => Unnoticed(s)
      /\ running[c] /\ ~StillRunning({c})[c] => s.close_requested
  BY SentType
<1>2. conn[c] \in Within /\ \A d \in Connections : conn[d] \in Within
  BY DEF ConnectionShape
<1> HIDE DEF s
<1> DEFINE n == RequestAfterOutput(s)
<1>3. /\ n \in Within /\ Same(s, n) /\ n.output = s.output /\ n.input_lines = s.input_lines
      /\ Open(s) => n.close_requested \/ n.close_after_output
  BY <1>1, RequestAfterOutputType
<1>4. Same(conn[c], n)
  BY <1>1, <1>3, SameTwice
<1>5. conn' = [conn EXCEPT ![c] = n]
  BY DEF s
<1> HIDE DEF n
<1>6. conn' \in [Connections -> Within] /\ conn'[c] = n
  BY <1>3, <1>5 DEF ConnectionShape
<1>7. Unnoticed(conn[c]) => Unnoticed(n)
  BY <1>1, <1>3 DEF Unnoticed
<1>8. Open(conn[c]) => n.close_requested \/ n.close_after_output
  BY <1>1, <1>3 DEF Open, Same
<1>9. running[c] /\ ~StillRunning({c})[c] => n.close_requested
  BY <1>1, <1>3 DEF Same
<1>10. ASSUME NEW d \in Connections, d # c
       PROVE  conn'[d] = conn[d] /\ (StillRunning({c})[d] = running[d])
  BY <1>5, <1>10 DEF StillRunning, ConnectionShape
<1> QED BY <1>1, <1>3, <1>4, <1>6, <1>7, <1>8, <1>9, <1>10 DEF Same

\* Where gameplay threads may go in a step after which they have not left: to a read only while
\* the session runs.
ThreadsMove ==
  /\ worker' \in [Connections -> WorkerPc]
  /\ \A d \in Connections :
       \/ worker'[d] = worker[d] \/ worker'[d] \notin {"none", "reading"}
       \/ worker'[d] = "reading" /\ running'[d]

\* One thread's move is a move of the threads.
LEMMA ThreadMoves ==
  ASSUME ConnectionShape, NEW c \in Connections, NEW pc \in WorkerPc \ {"none"},
         worker' = [worker EXCEPT ![c] = pc], pc = "reading" => running'[c]
  PROVE  ThreadsMove
  BY DEF ThreadsMove, ConnectionShape

\* Threads that stay where they are move no thread to a read.
LEMMA ThreadsStay ==
  ASSUME ConnectionShape, UNCHANGED worker
  PROVE  ThreadsMove
  BY DEF ThreadsMove, ConnectionShape

\* Saying something to some sessions is an ordinary step, whatever the thread that says it does.
LEMMA SayingIsOrdinary ==
  ASSUME ConnectionShape, NEW C, NEW m \in {"text", "notice"}, m = "notice" => shutdown = "none",
         conn' = Sent(C, m), running' = StillRunning(C), QueueCloses, UNCHANGED kicker,
         ThreadsMove
  PROVE  Ordinary
<1>1. /\ conn' \in [Connections -> Within] /\ running' \in [Connections -> BOOLEAN]
      /\ \A d \in Connections :
           /\ Same(conn[d], conn'[d])
           /\ conn'[d].input_lines = conn[d].input_lines
           /\ Unnoticed(conn[d]) => Unnoticed(conn'[d]) \/ shutdown = "none"
           /\ running'[d] => running[d]
           /\ running[d] /\ ~running'[d] => conn'[d].close_requested
  BY SentType
<1>2. worker' \in [Connections -> WorkerPc] /\ kicker' \in [Connections -> {"idle", "stopping"}]
  BY DEF ThreadsMove, ConnectionShape
<1>3. ASSUME NEW d \in Connections PROVE Handled(d)
  <2>1. conn'[d].close_requested /\ ~conn[d].close_requested => d \in closes'
    BY QueueType
  <2>2. Accounted(d)
    BY <1>1 DEF Accounted, ThreadsMove
  <2>3. worker'[d] = "reading" => running'[d] \/ worker[d] = "reading"
    BY DEF ThreadsMove
  <2> QED BY <1>1, <2>1, <2>2, <2>3 DEF Handled
<1> QED BY <1>1, <1>2, <1>3, QueueType DEF Ordinary

\* So is saying something last.
LEMMA LastWordsAreOrdinary ==
  ASSUME ConnectionShape, NEW c \in Connections,
         conn' = [conn EXCEPT ![c] = RequestAfterOutput(Sent({c}, "text")[c])],
         running' = StillRunning({c}), QueueCloses, UNCHANGED worker,
         kicker' \in [Connections -> {"idle", "stopping"}],
         \A d \in Connections : d # c => kicker'[d] = kicker[d]
  PROVE  Ordinary
<1>1. /\ conn' \in [Connections -> Within] /\ running' \in [Connections -> BOOLEAN]
      /\ \A d \in Connections :
           /\ Same(conn[d], conn'[d])
           /\ conn'[d].input_lines = conn[d].input_lines
           /\ Unnoticed(conn[d]) => Unnoticed(conn'[d])
           /\ running'[d] => running[d]
           /\ running[d] /\ ~running'[d] => conn'[d].close_requested
      /\ Open(conn[c]) => conn'[c].close_requested \/ conn'[c].close_after_output
  BY LastWordsType, SentType
<1>2. ASSUME NEW d \in Connections PROVE Handled(d)
  <2>1. conn'[d].close_requested /\ ~conn[d].close_requested => d \in closes'
    BY QueueType
  <2>2. Accounted(d)
    BY <1>1 DEF Accounted
  <2> QED BY <1>1, <2>1, <2>2 DEF Handled
<1> QED BY <1>1, <1>2, QueueType DEF Ordinary, ConnectionShape

\* So is what the selector or a thread does to one connection without stopping its session in a
\* way that is not told, and without taking what a closed connection's reader is to find.
LEMMA HandlingIsOrdinary ==
  ASSUME ConnectionShape, NEW c \in Connections, NEW k \in Within, Same(conn[c], k),
         Unnoticed(conn[c]) => Unnoticed(k),
         conn' = [conn EXCEPT ![c] = k], UNCHANGED kicker,
         QueueCloses \/ (UNCHANGED closes /\ k.close_requested = conn[c].close_requested),
         running' \in [Connections -> BOOLEAN],
         \A d \in Connections : d # c => running'[d] = running[d],
         running'[c] => running[c],
         ThreadsMove,
         running[c] /\ ~running'[c] => k.close_requested \/ worker'[c] \notin {"none", "reading"},
         Open(conn[c]) \/ k.input_lines = conn[c].input_lines \/ worker'[c] # "reading"
  PROVE  Ordinary
<1>1. /\ conn' \in [Connections -> Within] /\ conn'[c] = k
      /\ \A d \in Connections : d # c => conn'[d] = conn[d]
  BY DEF ConnectionShape
<1>2. closes \subseteq closes' /\ closes' \subseteq Connections
      /\ \A d \in Connections : conn'[d].close_requested /\ ~conn[d].close_requested => d \in closes'
  BY <1>1, QueueType DEF ConnectionShape
<1>3. worker' \in [Connections -> WorkerPc] /\ kicker' \in [Connections -> {"idle", "stopping"}]
  BY DEF ThreadsMove, ConnectionShape
<1>4. ASSUME NEW d \in Connections PROVE Handled(d)
  <2>1. Same(conn[d], conn'[d]) /\ (running'[d] => running[d])
    BY <1>1 DEF Same
  <2>2. Unnoticed(conn[d]) => Unnoticed(conn'[d])
    BY <1>1
  <2>3. running[d] /\ ~running'[d] =>
          conn'[d].close_requested \/ worker'[d] \notin {"none", "reading"}
    BY <1>1
  <2>4. Accounted(d)
    BY <2>1, <2>3 DEF Accounted, ThreadsMove
  <2>5. worker'[d] = "reading" => running'[d] \/ worker[d] = "reading"
    BY DEF ThreadsMove
  <2>6. Open(conn[d]) \/ conn[d].input_lines = conn'[d].input_lines \/ worker'[d] # "reading"
    BY <1>1
  <2> QED BY <1>2, <2>1, <2>2, <2>4, <2>5, <2>6 DEF Handled
<1> QED BY <1>1, <1>2, <1>3, <1>4 DEF Ordinary

\* What the selector does at the sockets of an open connection is ordinary.
LEMMA SocketsAreOrdinary ==
  ASSUME ConnectionShape, NEW c \in Connections,
         ReceiveLine(c) \/ ReceiveEvent(c) \/ ReceiveLoginLine(c) \/ Transmit(c)
  PROVE  Ordinary
<1>0. conn[c] \in Within /\ Open(conn[c]) /\ UNCHANGED <<worker, kicker>> /\ ThreadsMove
  BY ThreadsStay DEF ReceiveLine, ReceiveEvent, ReceiveLoginLine, Transmit, ConnectionShape
<1>1. CASE ReceiveLine(c)
  <2> DEFINE w == Write(conn[c], "text")
             k == Deliver(w, "line")
  <2>1. w \in Within /\ Same(conn[c], w) /\ (Unnoticed(conn[c]) => Unnoticed(w))
    BY <1>0, WriteType
  <2> HIDE DEF w
  <2>2. k \in Within /\ Same(w, k) /\ k.output = w.output
    BY <2>1, DeliverType
  <2>3. conn' = [conn EXCEPT ![c] = k] /\ QueueCloses /\ UNCHANGED running
    BY <1>1 DEF ReceiveLine, w
  <2> HIDE DEF k
  <2>4. Same(conn[c], k) /\ (Unnoticed(conn[c]) => Unnoticed(k))
    BY <2>1, <2>2, SameTwice DEF Unnoticed
  <2> QED BY <1>0, <2>2, <2>3, <2>4, HandlingIsOrdinary DEF ConnectionShape
<1>2. CASE ReceiveEvent(c)
  <2> DEFINE k == Deliver(conn[c], "event")
  <2>1. k \in Within /\ Same(conn[c], k) /\ k.output = conn[c].output
    BY <1>0, DeliverType
  <2>2. conn' = [conn EXCEPT ![c] = k] /\ QueueCloses /\ UNCHANGED running
    BY <1>2 DEF ReceiveEvent
  <2> HIDE DEF k
  <2>3. Unnoticed(conn[c]) => Unnoticed(k)
    BY <2>1 DEF Unnoticed
  <2> QED BY <1>0, <2>1, <2>2, <2>3, HandlingIsOrdinary DEF ConnectionShape
<1>3. CASE ReceiveLoginLine(c)
  <2> DEFINE a == IF running[c] THEN Write(conn[c], "text") ELSE conn[c]
  <2>1. /\ a \in Within /\ Same(conn[c], a) /\ (Unnoticed(conn[c]) => Unnoticed(a))
        /\ running[c] /\ Overflows(conn[c]) => a.close_requested
    BY <1>0, WriteType DEF Same
  <2>2. PICK k \in {a, RequestAfterOutput(a), Request(a)} : conn' = [conn EXCEPT ![c] = k]
    BY <1>3 DEF ReceiveLoginLine
  <2>3. QueueCloses /\ running' = [running EXCEPT ![c] = running[c] /\ ~Overflows(conn[c])]
    BY <1>3 DEF ReceiveLoginLine
  <2> HIDE DEF a
  <2>4. k \in Within /\ Same(a, k) /\ k.output = a.output
    BY <2>1, <2>2, RequestType, RequestAfterOutputType DEF Same
  <2>5. Same(conn[c], k) /\ (Unnoticed(conn[c]) => Unnoticed(k))
    BY <2>1, <2>4, SameTwice DEF Unnoticed
  <2>6. /\ running' \in [Connections -> BOOLEAN]
        /\ \A d \in Connections : d # c => running'[d] = running[d]
        /\ running'[c] => running[c]
        /\ running[c] /\ ~running'[c] => k.close_requested
    BY <2>1, <2>3, <2>4 DEF ConnectionShape, Same
  <2> QED BY <1>0, <2>2, <2>3, <2>4, <2>5, <2>6, HandlingIsOrdinary
<1>4. CASE Transmit(c)
  <2> DEFINE k == [conn[c] EXCEPT !.output = Tail(@)]
  <2>1. /\ conn[c].output \in Seq({"text", "notice"}) /\ conn[c].output # <<>>
        /\ Len(conn[c].output) <= OutputLimit /\ conn[c] \in ConnectionRecord
    BY <1>0, <1>4 DEF Transmit, Within, ConnectionRecord
  <2>2. /\ Tail(conn[c].output) \in Seq({"text", "notice"})
        /\ Len(Tail(conn[c].output)) = Len(conn[c].output) - 1
        /\ \A i \in DOMAIN Tail(conn[c].output) :
             i + 1 \in DOMAIN conn[c].output /\ Tail(conn[c].output)[i] = conn[c].output[i + 1]
    BY <2>1
  <2>3. Len(Tail(conn[c].output)) <= OutputLimit
    BY <2>1, <2>2, ConstantsType
  <2>4. k \in Within /\ Same(conn[c], k) /\ k.close_requested = conn[c].close_requested
    BY <1>0, <2>1, <2>2, <2>3 DEF Within, ConnectionRecord, Same
  <2>5. Unnoticed(conn[c]) => Unnoticed(k)
    BY <2>1, <2>2 DEF Unnoticed, ConnectionRecord
  <2>6. conn' = [conn EXCEPT ![c] = k] /\ UNCHANGED <<closes, running>>
    BY <1>4 DEF Transmit
  <2> HIDE DEF k
  <2> QED BY <1>0, <2>4, <2>5, <2>6, HandlingIsOrdinary DEF ConnectionShape
<1> QED BY <1>1, <1>2, <1>3, <1>4

\* What a gameplay thread does before it leaves is ordinary, /shutdown and its notices included.
LEMMA ThreadsAreOrdinary ==
  ASSUME ConnectionShape, NEW c \in Connections,
         Prompt(c) \/ Test(c) \/ Read(c) \/ HandleEvent(c) \/ EndCommand(c) \/ Announce(c)
  PROVE  Ordinary
<1>0. conn[c] \in Within /\ UNCHANGED kicker /\ running \in [Connections -> BOOLEAN]
  BY DEF Prompt, Test, Read, HandleEvent, EndCommand, Announce, ConnectionShape
<1>a. "text" \in {"text", "notice"} /\ "notice" \in {"text", "notice"} /\ "text" # "notice"
  OBVIOUS
<1>1. CASE Prompt(c)
  <2>1. ThreadsMove
    BY <1>1, ThreadMoves DEF Prompt, Goes, WorkerPc
  <2> QED BY <1>0, <1>1, <1>a, <2>1, SayingIsOrdinary DEF Prompt, Says
<1>2. ASSUME Quiet, ThreadsMove
      PROVE  Ordinary
  <2> DEFINE k == conn[c]
  <2>1. conn' = [conn EXCEPT ![c] = k] /\ UNCHANGED <<closes, running>>
    BY <1>2 DEF Quiet, ConnectionShape
  <2>2. Same(conn[c], k) /\ k.close_requested = conn[c].close_requested
    BY DEF Same
  <2> QED BY <1>0, <1>2, <2>1, <2>2, HandlingIsOrdinary
<1>3. CASE Test(c)
  <2> DEFINE pc == IF running[c] THEN "reading" ELSE "leaving"
  <2>1. pc \in WorkerPc \ {"none"} /\ (pc = "reading" => running'[c])
        /\ worker' = [worker EXCEPT ![c] = pc]
    BY <1>3 DEF Test, Goes, WorkerPc, Quiet
  <2> HIDE DEF pc
  <2>2. ThreadsMove
    BY <2>1, ThreadMoves
  <2> QED BY <1>2, <1>3, <2>2 DEF Test
<1>4. CASE Read(c)
  <2> DEFINE k == [conn[c] EXCEPT !.input_lines = Tail(@)]
  <2>1. /\ conn[c].input_lines \in Seq({"line", "event", "LINE_CLOSED"})
        /\ conn[c].input_lines # <<>>
        /\ Len(conn[c].input_lines) <= InputLimit /\ conn[c] \in ConnectionRecord
    BY <1>0, <1>4 DEF Read, Within, ConnectionRecord
  <2>2. /\ Tail(conn[c].input_lines) \in Seq({"line", "event", "LINE_CLOSED"})
        /\ Len(Tail(conn[c].input_lines)) <= InputLimit
    BY <2>1, ConstantsType
  <2>3. /\ k \in Within /\ Same(conn[c], k) /\ k.close_requested = conn[c].close_requested
        /\ k.output = conn[c].output
    BY <1>0, <2>1, <2>2 DEF Within, ConnectionRecord, Same
  <2>4. Unnoticed(conn[c]) => Unnoticed(k)
    BY <2>3 DEF Unnoticed
  <2>5. conn' = [conn EXCEPT ![c] = k] /\ UNCHANGED closes
    BY <1>4 DEF Read
  <2>6. /\ running' \in [Connections -> BOOLEAN]
        /\ \A d \in Connections : d # c => running'[d] = running[d]
        /\ running'[c] => running[c]
    BY <1>0, <1>4 DEF Read
  <2>7. PICK pc \in {"event", "handling", "leaving"} : worker' = [worker EXCEPT ![c] = pc]
    BY <1>4 DEF Read, Goes
  <2>8. ThreadsMove /\ worker'[c] \notin {"none", "reading"}
    <3>1. pc \in WorkerPc \ {"none"} /\ pc # "reading"
      BY <2>7 DEF WorkerPc
    <3> QED BY <2>7, <3>1, ThreadMoves DEF ConnectionShape
  <2> HIDE DEF k
  <2> QED BY <1>0, <2>3, <2>4, <2>5, <2>6, <2>8, HandlingIsOrdinary
<1>5. CASE HandleEvent(c)
  <2>1. CASE Quiet /\ Goes(c, "event", IF running[c] THEN "reading" ELSE "leaving")
    <3> DEFINE pc == IF running[c] THEN "reading" ELSE "leaving"
    <3>1. pc \in WorkerPc \ {"none"} /\ (pc = "reading" => running'[c])
          /\ worker' = [worker EXCEPT ![c] = pc]
      BY <2>1 DEF Goes, WorkerPc, Quiet
    <3> HIDE DEF pc
    <3> QED BY <1>2, <2>1, <3>1, ThreadMoves
  <2>2. CASE Says(c) /\ Goes(c, "event", IF StillRunning({c})[c] THEN "reading" ELSE "leaving")
    <3> DEFINE pc == IF StillRunning({c})[c] THEN "reading" ELSE "leaving"
    <3>1. pc \in WorkerPc \ {"none"} /\ (pc = "reading" => running'[c])
          /\ worker' = [worker EXCEPT ![c] = pc]
      BY <2>2 DEF Goes, WorkerPc, Says
    <3> HIDE DEF pc
    <3>2. ThreadsMove
      BY <3>1, ThreadMoves
    <3> QED BY <1>0, <1>a, <2>2, <3>2, SayingIsOrdinary DEF Says
  <2> QED BY <1>5, <2>1, <2>2 DEF HandleEvent
<1>6. CASE EndCommand(c)
  <2>1. PICK pc \in {"prompting", "leaving"} : worker' = [worker EXCEPT ![c] = pc]
    BY <1>6 DEF EndCommand, Goes
  <2>2. ThreadsMove
    BY <2>1, ThreadMoves DEF WorkerPc
  <2>3. CASE Quiet
    BY <1>2, <2>2, <2>3
  <2>4. CASE Says(c)
    BY <1>0, <1>a, <2>2, <2>4, SayingIsOrdinary DEF Says
  <2>5. CASE /\ Goes(c, "handling", "leaving")
             /\ conn' = Sent({c}, "text") /\ running' = [running EXCEPT ![c] = FALSE] /\ QueueCloses
    <3> DEFINE k == Sent({c}, "text")[c]
    <3>1. k \in Within /\ Same(conn[c], k) /\ (Unnoticed(conn[c]) => Unnoticed(k))
          /\ k.input_lines = conn[c].input_lines
      BY SentType
    <3>2. conn' = [conn EXCEPT ![c] = k]
      BY <2>5 DEF Sent, ConnectionShape
    <3>3. /\ running' \in [Connections -> BOOLEAN]
          /\ \A d \in Connections : d # c => running'[d] = running[d]
          /\ ~running'[c] /\ worker'[c] = "leaving"
      BY <1>0, <2>5 DEF Goes, ConnectionShape
    <3> HIDE DEF k
    <3> QED BY <1>0, <2>2, <2>5, <3>1, <3>2, <3>3, HandlingIsOrdinary
  <2> QED BY <1>6, <2>3, <2>4, <2>5 DEF EndCommand
<1>7. CASE Announce(c)
  <2> DEFINE players == {d \in Connections : worker[d] # "none"}
  <2>1. /\ shutdown = "none" /\ QueueCloses /\ ThreadsMove
        /\ conn' = Sent(players, "notice") /\ running' = StillRunning(players)
    BY <1>7, ThreadsStay DEF Announce
  <2> QED BY <1>0, <1>a, <2>1, SayingIsOrdinary
<1> QED BY <1>1, <1>3, <1>4, <1>5, <1>6, <1>7

\* So are the end of a gameplay thread, other threads' messages and kicks, idleness, and the
\* refusal of a login for want of room.
LEMMA OthersAreOrdinary ==
  ASSUME ConnectionShape, NEW c \in Connections,
         \/ Disconnect(c) \/ Tell(c) \/ Kick(c) \/ EndKick(c) \/ Warn(c) \/ Expel(c)
         \/ LogIn(c) /\ ~Promotes
  PROVE  Ordinary
<1>0. conn[c] \in Within /\ running \in [Connections -> BOOLEAN]
      /\ kicker \in [Connections -> {"idle", "stopping"}]
  BY DEF ConnectionShape
<1>1. CASE Disconnect(c)
  <2> DEFINE k == Request(conn[c])
  <2>1. /\ k \in Within /\ Same(conn[c], k) /\ k.output = conn[c].output
        /\ k.input_lines = conn[c].input_lines
        /\ Open(conn[c]) => k.close_requested
    BY <1>0, RequestType
  <2>2. /\ conn' = [conn EXCEPT ![c] = k] /\ QueueCloses /\ UNCHANGED kicker
        /\ running' = [running EXCEPT ![c] = FALSE]
        /\ worker' = [worker EXCEPT ![c] = "none"] /\ worker[c] = "leaving"
    BY <1>1 DEF Disconnect, Goes
  <2> HIDE DEF k
  <2>3. conn' \in [Connections -> Within] /\ conn'[c] = k
        /\ \A d \in Connections : d # c => conn'[d] = conn[d]
    BY <2>1, <2>2 DEF ConnectionShape
  <2>4. ASSUME NEW d \in Connections PROVE Handled(d)
    <3>1. Same(conn[d], conn'[d]) /\ (Unnoticed(conn[d]) => Unnoticed(conn'[d]))
      BY <2>1, <2>3 DEF Same, Unnoticed
    <3>2. conn'[d].close_requested /\ ~conn[d].close_requested => d \in closes'
      BY <2>2, QueueType
    <3>3. running'[d] => running[d]
      BY <1>0, <2>2
    <3>4. Open(conn[d]) => Accounted(d)
      <4>1. CASE d = c
        BY <2>1, <2>3, <4>1 DEF Accounted
      <4>2. CASE d # c
        BY <1>0, <2>2, <4>2 DEF Accounted, ConnectionShape
      <4> QED BY <4>1, <4>2
    <3>5. worker'[d] = "reading" => worker[d] = "reading" /\ d # c
      BY <2>2 DEF ConnectionShape
    <3> QED BY <2>2, <2>3, <3>1, <3>2, <3>3, <3>4, <3>5 DEF Handled
  <2> QED BY <1>0, <2>2, <2>3, <2>4, QueueType DEF Ordinary, ConnectionShape, WorkerPc
<1>2. CASE Tell(c) \/ Warn(c)
  <2>1. Says(c) /\ UNCHANGED kicker /\ ThreadsMove
    BY <1>2, ThreadsStay DEF Tell, Warn
  <2>2. "text" \in {"text", "notice"} /\ "text" # "notice"
    OBVIOUS
  <2> QED BY <2>1, <2>2, SayingIsOrdinary DEF Says
<1>3. CASE Kick(c) \/ Expel(c) \/ (LogIn(c) /\ ~Promotes)
  <2>1. /\ conn' = [conn EXCEPT ![c] = RequestAfterOutput(Sent({c}, "text")[c])]
        /\ running' = StillRunning({c}) /\ QueueCloses /\ UNCHANGED worker
    BY <1>3 DEF Kick, Expel, LogIn
  <2>2. kicker' = kicker \/ kicker' = [kicker EXCEPT ![c] = "stopping"]
    BY <1>3 DEF Kick, Expel, LogIn
  <2>3. /\ kicker' \in [Connections -> {"idle", "stopping"}]
        /\ \A d \in Connections : d # c => kicker'[d] = kicker[d]
    BY <1>0, <2>2
  <2> QED BY <2>1, <2>3, LastWordsAreOrdinary
<1>4. CASE EndKick(c)
  <2>1. /\ UNCHANGED <<conn, worker, closes>> /\ kicker[c] = "stopping"
        /\ kicker' = [kicker EXCEPT ![c] = "idle"] /\ running' = [running EXCEPT ![c] = FALSE]
    BY <1>4 DEF EndKick
  <2>2. ASSUME NEW d \in Connections PROVE Handled(d)
    <3>1. Accounted(d)
      BY <1>0, <2>1 DEF Accounted
    <3>2. (running'[d] => running[d]) /\ (kicker'[d] = "stopping" => kicker[d] = "stopping")
      BY <1>0, <2>1
    <3> QED BY <2>1, <3>1, <3>2 DEF Handled, Same
  <2> QED BY <1>0, <2>1, <2>2 DEF Ordinary, ConnectionShape
<1> QED BY <1>1, <1>2, <1>3, <1>4

\* Steps that touch neither connections nor sessions are ordinary.
LEMMA NothingIsOrdinary ==
  ASSUME ConnectionShape, UNCHANGED <<conn, running, worker, kicker, closes>>
  PROVE  Ordinary
<1>1. ASSUME NEW d \in Connections PROVE Handled(d)
  <2>1. Accounted(d)
    BY DEF Accounted
  <2> QED BY <2>1 DEF Handled, Same
<1> QED BY <1>1 DEF Ordinary, ConnectionShape

-------------------------------------------------------------------------------
(* Shapes *)

\* A closed connection is left with what its reader has not read, and its session has stopped.
LEMMA CloseType ==
  ASSUME ConnectionShape, NEW C, Close(C)
  PROVE  /\ conn' \in [Connections -> Within] /\ running' \in [Connections -> BOOLEAN]
         /\ UNCHANGED <<worker, kicker>>
         /\ \A d \in Connections :
              \/ conn'[d] = conn[d] /\ running'[d] = running[d] /\ ~(d \in C /\ Open(conn[d]))
              \/ /\ d \in C /\ Open(conn[d]) /\ conn'[d].link = "closing" /\ ~running'[d]
                 /\ conn'[d].output = <<>>
<1>1. /\ conn' = Closed(C) /\ UNCHANGED <<worker, kicker>>
      /\ running' = [c \in Connections |-> running[c] /\ ~(c \in C /\ Open(conn[c]))]
  BY DEF Close
<1>2. ASSUME NEW d \in Connections, d \in C, Open(conn[d])
      PROVE  /\ conn'[d] \in Within /\ conn'[d].link = "closing" /\ ~running'[d]
             /\ conn'[d].output = <<>>
  <2>1. conn[d] \in Within /\ Blank \in Within /\ Blank.output = <<>>
    BY BlankType DEF ConnectionShape, Blank
  <2>2. conn'[d] = [Blank EXCEPT !.link = "closing", !.close_requested = TRUE,
                                 !.input_lines = conn[d].input_lines]
    BY <1>1, <1>2 DEF Closed
  <2>3. ~running'[d]
    BY <1>1, <1>2
  <2> QED BY <2>1, <2>2, <2>3, ConstantsType DEF Within, ConnectionRecord, Links
<1>3. ASSUME NEW d \in Connections, ~(d \in C /\ Open(conn[d]))
      PROVE  conn'[d] = conn[d] /\ running'[d] = running[d] /\ conn'[d] \in Within
  BY <1>1, <1>3 DEF Closed, ConnectionShape
<1>4. conn' = [c \in Connections |-> conn'[c]] /\ running' \in [Connections -> BOOLEAN]
  BY <1>1 DEF Closed, ConnectionShape
<1> QED BY <1>1, <1>2, <1>3, <1>4

\* A sealed connection is closed, and has the end marker alone.
LEMMA SealType ==
  ASSUME ConnectionShape, NEW c \in Connections, Seal(c)
  PROVE  /\ conn[c].link = "closing" /\ conn' \in [Connections -> Within]
         /\ conn'[c].link = "closed" /\ conn'[c].input_lines = <<"LINE_CLOSED">>
         /\ \A d \in Connections : d # c => conn'[d] = conn[d]
         /\ UNCHANGED <<running, worker, kicker, closes, selector>>
<1>1. /\ conn[c].link = "closing" /\ UNCHANGED <<running, worker, kicker, closes, selector>>
      /\ conn' = [conn EXCEPT ![c].link = "closed", ![c].input_lines = <<"LINE_CLOSED">>]
  BY DEF Seal
<1>2. conn[c] \in Within /\ conn \in [Connections -> Within]
  BY DEF ConnectionShape
<1> DEFINE k == [conn[c] EXCEPT !.link = "closed", !.input_lines = <<"LINE_CLOSED">>]
<1>3. conn' = [conn EXCEPT ![c] = k]
  BY <1>1, <1>2
<1>4. k \in Within /\ k.link = "closed" /\ k.input_lines = <<"LINE_CLOSED">>
  <2>1. <<"LINE_CLOSED">> \in Seq({"line", "event", "LINE_CLOSED"})
        /\ Len(<<"LINE_CLOSED">>) <= InputLimit
    BY ConstantsType
  <2> QED BY <1>2, <2>1 DEF Within, ConnectionRecord, Links
<1> HIDE DEF k
<1> QED BY <1>1, <1>2, <1>3, <1>4

\* An accepted connection is open, before login, with its greeting, and its session runs.
LEMMA AcceptType ==
  ASSUME ConnectionShape, NEW c \in Connections, NEW a \in Addresses, Accept(c, a)
  PROVE  /\ ~Open(conn[c]) /\ worker[c] = "none" /\ kicker[c] = "idle" /\ Serving
         /\ conn' \in [Connections -> Within] /\ running' \in [Connections -> BOOLEAN]
         /\ Open(conn'[c]) /\ conn'[c].address = a /\ running'[c]
         /\ ~conn'[c].authenticated /\ ~conn'[c].close_requested
         /\ \A d \in Connections : d # c => conn'[d] = conn[d] /\ running'[d] = running[d]
         /\ UNCHANGED <<worker, kicker, closes, selector>>
<1>1. /\ Serving /\ conn[c].link \in {"none", "closed"} /\ worker[c] = "none" /\ kicker[c] = "idle"
      /\ conn' = [conn EXCEPT ![c] = [Blank EXCEPT !.link = "open", !.address = a, !.output = <<"text">>]]
      /\ running' = [running EXCEPT ![c] = TRUE]
      /\ UNCHANGED <<worker, kicker, closes, selector>>
  BY DEF Accept
<1> DEFINE k == [Blank EXCEPT !.link = "open", !.address = a, !.output = <<"text">>]
<1>2. k \in Within /\ k.link = "open" /\ k.address = a /\ ~k.authenticated /\ ~k.close_requested
  <2>1. <<"text">> \in Seq({"text", "notice"}) /\ Len(<<"text">>) <= OutputLimit
    BY ConstantsType
  <2>2. <<>> \in Seq({"line", "event", "LINE_CLOSED"}) /\ Len(<<>>) <= InputLimit
    BY ConstantsType
  <2> QED BY <2>1, <2>2 DEF Blank, Within, ConnectionRecord, Links
<1>3. conn' = [conn EXCEPT ![c] = k]
  BY <1>1
<1> HIDE DEF k
<1> QED BY <1>1, <1>2, <1>3 DEF ConnectionShape, Open

\* A promoted connection is a player's, and its gameplay thread begins.
LEMMA PromoteType ==
  ASSUME ConnectionShape, NEW c \in Connections, LogIn(c), Promotes
  PROVE  /\ Open(conn[c]) /\ conn' \in [Connections -> Within]
         /\ conn'[c].authenticated /\ conn'[c].link = conn[c].link
         /\ conn'[c].address = conn[c].address /\ conn'[c].output = conn[c].output
         /\ conn'[c].close_requested = conn[c].close_requested
         /\ conn'[c].close_after_output = conn[c].close_after_output
         /\ \A d \in Connections : d # c => conn'[d] = conn[d]
         /\ worker' = [worker EXCEPT ![c] = "prompting"]
         /\ UNCHANGED <<running, kicker, selector>> /\ closes' = closes
<1>1. /\ Open(conn[c]) /\ conn' = [conn EXCEPT ![c].authenticated = TRUE] /\ QueueCloses
      /\ worker' = [worker EXCEPT ![c] = "prompting"] /\ UNCHANGED <<running, kicker, selector>>
  BY DEF LogIn
<1>2. conn \in [Connections -> Within] /\ conn[c] \in Within
  BY DEF ConnectionShape
<1> DEFINE k == [conn[c] EXCEPT !.authenticated = TRUE]
<1>3. conn' = [conn EXCEPT ![c] = k]
  BY <1>1, <1>2
<1>4. /\ k \in Within /\ k.authenticated /\ k.link = conn[c].link /\ k.address = conn[c].address
      /\ k.output = conn[c].output /\ k.close_requested = conn[c].close_requested
      /\ k.close_after_output = conn[c].close_after_output
  BY <1>2 DEF Within, ConnectionRecord
<1> HIDE DEF k
<1>5. \A d \in Connections : conn'[d].close_requested = conn[d].close_requested
  BY <1>2, <1>3, <1>4
<1>6. closes' = closes
  BY <1>1, <1>5 DEF QueueCloses
<1> QED BY <1>1, <1>2, <1>3, <1>4, <1>6

\* Every step that is not ordinary, or all of Next
LEMMA KindsOfSteps ==
  ASSUME ConnectionShape, [Next]_vars
  PROVE  \/ Ordinary
         \/ \E C \in {closes} : DrainControls /\ Close(C)
         \/ ServerClose
         \/ \E c \in Connections :
              \/ HangUp(c) \/ CloseDue(c) \/ Seal(c) \/ (LogIn(c) /\ Promotes)
              \/ \E a \in Addresses : Accept(c, a)
<1>1. CASE UNCHANGED vars \/ CheckGraceful \/ RequestShutdown \/ DeadlineComes
  BY <1>1, NothingIsOrdinary DEF vars, CheckGraceful, RequestShutdown, DeadlineComes
<1>2. CASE DrainControls
  BY <1>2 DEF DrainControls
<1>3. ASSUME NEW c \in Connections,
             \/ Seal(c) \/ Sockets(c) \/ LogIn(c) \/ Worker(c) \/ Announce(c)
             \/ Tell(c) \/ Kick(c) \/ EndKick(c) \/ CloseDue(c) \/ Warn(c) \/ Expel(c)
      PROVE  \/ Ordinary
             \/ HangUp(c) \/ CloseDue(c) \/ Seal(c) \/ (LogIn(c) /\ Promotes)
             \/ \E a \in Addresses : Accept(c, a)
  BY <1>3, SocketsAreOrdinary, ThreadsAreOrdinary, OthersAreOrdinary DEF Sockets, Worker
<1> QED BY <1>1, <1>2, <1>3 DEF Next, Selector

\* The server stops only from a shutdown that is under way, when its outputs are drained or its
\* deadline has come; and a shutdown under way goes on.
LEMMA SelectorMoves ==
  ASSUME ConnectionShape, [Next]_vars
  PROVE  /\ shutdown' \in {"none", "announced", "queued", "draining", "late"}
         /\ server' \in {"serving", "stopping", "closed"}
         /\ server' = "stopping" =>
              \/ server = "stopping"
              \/ /\ UNCHANGED <<conn, shutdown>>
                 /\ shutdown = "late" \/ (shutdown = "draining" /\ Drained)
         /\ shutdown \in {"draining", "late"} => shutdown' \in {"draining", "late"}
         /\ shutdown' = "none" => shutdown = "none"
         /\ shutdown = "late" => shutdown' = "late"
<1>1. CASE UNCHANGED selector
  BY <1>1 DEF selector, ConnectionShape
<1>2. CASE DrainControls \/ CheckGraceful \/ ServerClose \/ RequestShutdown \/ DeadlineComes
  BY <1>2 DEF DrainControls, CheckGraceful, ServerClose, RequestShutdown, DeadlineComes,
     ConnectionShape
<1>3. ASSUME NEW c \in Connections, Announce(c)
      PROVE  server' = server /\ shutdown = "none" /\ shutdown' = "announced"
  BY <1>3 DEF Announce
<1>4. ASSUME NEW c \in Connections, Seal(c) \/ Sockets(c) \/ LogIn(c) \/ HangUp(c) \/ CloseDue(c)
      PROVE  UNCHANGED selector
  BY <1>4 DEF Seal, Sockets, LogIn, ReceiveLine, ReceiveEvent, ReceiveLoginLine, Transmit, HangUp,
     Accept, CloseDue
<1>5. ASSUME NEW c \in Connections, Worker(c)
      PROVE  UNCHANGED selector
  BY <1>5 DEF Worker, Prompt, Test, Read, HandleEvent, EndCommand, Disconnect
<1>6. ASSUME NEW c \in Connections, Tell(c) \/ Kick(c) \/ EndKick(c) \/ Warn(c) \/ Expel(c)
      PROVE  UNCHANGED selector
  BY <1>6 DEF Tell, Kick, EndKick, Warn, Expel
<1>7. ASSUME UNCHANGED vars
      PROVE  UNCHANGED selector
  BY <1>7 DEF vars, selector
<1>8. CASE \E c \in Connections : Announce(c)
  BY <1>3, <1>8 DEF ConnectionShape
<1>9. \/ UNCHANGED selector
      \/ DrainControls \/ CheckGraceful \/ ServerClose \/ RequestShutdown \/ DeadlineComes
      \/ \E c \in Connections : Announce(c)
  BY <1>4, <1>5, <1>6, <1>7 DEF Next, Selector
<1> QED BY <1>1, <1>2, <1>8, <1>9

\* Whoever is closed in a pass had nobody else's control forgotten: the queue is emptied only
\* when all of it is closed, and only the selector at work closes one connection.
LEMMA ClosingSteps ==
  ASSUME ConnectionShape,
         \/ DrainControls \/ ServerClose
         \/ \E c \in Connections : HangUp(c) \/ CloseDue(c)
  PROVE  \E C : Close(C) /\ closes' \subseteq closes /\ closes \ closes' \subseteq C
<1>1. CASE DrainControls
  BY <1>1 DEF DrainControls
<1>2. CASE ServerClose
  BY <1>2 DEF ServerClose
<1>3. ASSUME NEW c \in Connections, HangUp(c) \/ CloseDue(c)
      PROVE  Close({c}) /\ closes' = closes
  BY <1>3 DEF HangUp, CloseDue
<1> QED BY <1>1, <1>2, <1>3

\* A server that nobody has connected to is well formed.
LEMMA ShapeInit == Init => ConnectionShape
  BY BlankType DEF Init, ConnectionShape, WorkerPc

\* Every step keeps the shapes.
LEMMA ShapeStep == ConnectionShape /\ [Next]_vars => ConnectionShape'
<1> SUFFICES ASSUME ConnectionShape, [Next]_vars PROVE ConnectionShape'
  OBVIOUS
<1>0. /\ shutdown' \in {"none", "announced", "queued", "draining", "late"}
      /\ server' \in {"serving", "stopping", "closed"}
  BY SelectorMoves
<1>1. CASE Ordinary
  BY <1>0, <1>1 DEF Ordinary, ConnectionShape
<1>2. ASSUME NEW C, Close(C), closes' \subseteq closes
      PROVE  ConnectionShape'
  BY <1>0, <1>2, CloseType DEF ConnectionShape
<1>3. ASSUME NEW c \in Connections, Seal(c)
      PROVE  ConnectionShape'
  BY <1>0, <1>3, SealType DEF ConnectionShape
<1>4. ASSUME NEW c \in Connections, NEW a \in Addresses, Accept(c, a)
      PROVE  ConnectionShape'
  BY <1>0, <1>4, AcceptType DEF ConnectionShape
<1>5. ASSUME NEW c \in Connections, LogIn(c), Promotes
      PROVE  ConnectionShape'
  BY <1>0, <1>5, PromoteType DEF ConnectionShape, WorkerPc
<1>6. CASE DrainControls \/ ServerClose \/ \E c \in Connections : HangUp(c) \/ CloseDue(c)
  BY <1>2, <1>6, ClosingSteps
<1> QED BY <1>1, <1>3, <1>4, <1>5, <1>6, KindsOfSteps

-------------------------------------------------------------------------------
(* Limits *)

Opened  == {c \in Connections : Open(conn[c])}
From(a) == {c \in Opened : conn[c].address = a}
Players == {c \in Opened : conn[c].authenticated}

CountsHold ==
  /\ Cardinality(Opened) <= TotalLimit
  /\ \A a \in Addresses : Cardinality(From(a)) <= PerAddressLimit
  /\ Cardinality(Players) <= PlayerLimit
  /\ Cardinality(Opened \ Players) <= LoginLimit

\* Sets of connections are finite, and their numbers are numbers.
LEMMA SubsetType ==
  ASSUME NEW S, S \subseteq Connections
  PROVE  IsFiniteSet(S) /\ Cardinality(S) \in Nat
  BY ConstantsType, FS_Subset, FS_CardinalityType

\* A set of connections that is part of another is no larger.
LEMMA FewerHold ==
  ASSUME NEW S, NEW T, S \subseteq T, T \subseteq Connections, NEW n \in Nat, Cardinality(T) <= n
  PROVE  Cardinality(S) <= n
<1>1. IsFiniteSet(T) /\ Cardinality(T) \in Nat /\ Cardinality(S) \in Nat
  BY SubsetType
<1>2. Cardinality(S) <= Cardinality(T)
  BY <1>1, FS_Subset
<1> QED BY <1>1, <1>2

\* A set that gains one connection below a limit keeps to it.
LEMMA OneMoreHolds ==
  ASSUME NEW S, S \subseteq Connections, NEW c \in Connections, NEW n \in Nat, Cardinality(S) < n
  PROVE  Cardinality(S \cup {c}) <= n
<1>1. IsFiniteSet(S) /\ Cardinality(S) \in Nat /\ Cardinality(S \cup {c}) \in Nat
  BY SubsetType
<1>2. Cardinality(S \cup {c}) = IF c \in S THEN Cardinality(S) ELSE Cardinality(S) + 1
  BY <1>1, FS_AddElement
<1> QED BY <1>1, <1>2

\* Connections that end make room.
LEMMA CountsShrink ==
  ASSUME CountsHold, Opened' \subseteq Opened,
         \A c \in Opened' : /\ conn'[c].address = conn[c].address
                            /\ conn'[c].authenticated = conn[c].authenticated
  PROVE  CountsHold'
<1>1. Opened \subseteq Connections /\ Players \subseteq Opened
  BY DEF Opened, Players
<1>2. Cardinality(Opened') <= TotalLimit
  BY <1>1, FewerHold, ConstantsType DEF CountsHold
<1>3. ASSUME NEW a \in Addresses PROVE Cardinality(From(a)') <= PerAddressLimit
  <2>1. From(a)' \subseteq From(a) /\ From(a) \subseteq Connections
    BY <1>1 DEF From
  <2> QED BY <2>1, FewerHold, ConstantsType DEF CountsHold
<1>4. Cardinality(Players') <= PlayerLimit
  <2>1. Players' \subseteq Players /\ Players \subseteq Connections
    BY <1>1 DEF Players
  <2> QED BY <2>1, FewerHold, ConstantsType DEF CountsHold
<1>5. Cardinality(Opened' \ Players') <= LoginLimit
  <2>1. Opened' \ Players' \subseteq Opened \ Players /\ Opened \ Players \subseteq Connections
    BY <1>1 DEF Players
  <2> QED BY <2>1, FewerHold, ConstantsType DEF CountsHold
<1> QED BY <1>2, <1>3, <1>4, <1>5 DEF CountsHold

\* An admission is counted where there was room.
LEMMA AdmissionCounts ==
  ASSUME ConnectionShape, CountsHold, NEW c \in Connections, NEW a \in Addresses, Accept(c, a)
  PROVE  CountsHold'
<1>1. /\ Cardinality(Opened) < TotalLimit /\ Cardinality(From(a)) < PerAddressLimit
      /\ Cardinality(Opened \ Players) < LoginLimit
  <2>1. /\ Opened = {d \in Connections : conn[d].link = "open"}
        /\ Players = {d \in Opened : conn[d].authenticated}
        /\ From(a) = {d \in Opened : conn[d].address = a}
    BY DEF Opened, Players, From, Open
  <2> QED BY <2>1 DEF Accept, Admitted
<1>2. /\ Opened \subseteq Connections /\ Players \subseteq Connections /\ c \notin Opened
      /\ \A b \in Addresses : From(b) \subseteq Connections
  BY AcceptType DEF Opened, Players, From
<1>3. /\ Opened' = Opened \cup {c} /\ Players' = Players
      /\ From(a)' = From(a) \cup {c} /\ \A b \in Addresses \ {a} : From(b)' = From(b)
  <2>1. /\ Open(conn'[c]) /\ ~Open(conn[c]) /\ conn'[c].address = a /\ ~conn'[c].authenticated
        /\ \A d \in Connections : d # c => conn'[d] = conn[d]
    BY AcceptType
  <2>2. Opened' = Opened \cup {c}
    BY <2>1 DEF Opened
  <2> QED BY <1>2, <2>1, <2>2 DEF Players, From
<1>4. Opened' \ Players' = (Opened \ Players) \cup {c}
  BY <1>2, <1>3 DEF Players
<1>5. Cardinality(Opened') <= TotalLimit /\ Cardinality(From(a)') <= PerAddressLimit
  BY <1>1, <1>2, <1>3, OneMoreHolds, ConstantsType
<1>6. Cardinality(Opened' \ Players') <= LoginLimit
  BY <1>1, <1>2, <1>4, OneMoreHolds, ConstantsType
<1> QED BY <1>3, <1>5, <1>6 DEF CountsHold

\* A promotion is counted where there was room, and leaves some before login.
LEMMA PromotionCounts ==
  ASSUME ConnectionShape, CountsHold, NEW c \in Connections, LogIn(c), Promotes
  PROVE  CountsHold'
<1>1. Cardinality(Players) < PlayerLimit
  <2>1. Players = {d \in Connections : Open(conn[d]) /\ conn[d].authenticated}
    BY DEF Players, Opened
  <2> QED BY <2>1 DEF Promotes
<1>2. /\ Open(conn[c]) /\ Open(conn'[c]) /\ conn'[c].authenticated
      /\ conn'[c].address = conn[c].address
      /\ \A d \in Connections : d # c => conn'[d] = conn[d]
  BY PromoteType DEF Open
<1>3. Opened' = Opened /\ Opened \subseteq Connections /\ Players \subseteq Connections
  BY <1>2 DEF Opened, Players
<1>4. /\ Players' = Players \cup {c} /\ \A a \in Addresses : From(a)' = From(a)
  BY <1>2, <1>3 DEF Players, From, Opened
<1>5. Cardinality(Players') <= PlayerLimit
  BY <1>1, <1>3, <1>4, OneMoreHolds, ConstantsType
<1>6. Cardinality(Opened' \ Players') <= LoginLimit
  <2>1. Opened' \ Players' \subseteq Opened \ Players /\ Opened \ Players \subseteq Connections
    BY <1>3, <1>4
  <2> QED BY <2>1, FewerHold, ConstantsType DEF CountsHold
<1> QED BY <1>3, <1>4, <1>5, <1>6 DEF CountsHold

\* No step goes beyond the limits.
LEMMA CountsStep == ConnectionShape /\ CountsHold /\ [Next]_vars => CountsHold'
<1> SUFFICES ASSUME ConnectionShape, CountsHold, [Next]_vars PROVE CountsHold'
  OBVIOUS
<1>1. CASE Ordinary
  <2>1. \A c \in Connections : Same(conn[c], conn'[c])
    BY <1>1 DEF Ordinary, Handled
  <2> QED BY <2>1, CountsShrink DEF Opened, Open, Same
<1>2. ASSUME NEW C, Close(C)
      PROVE  CountsHold'
  BY <1>2, CloseType, CountsShrink DEF Opened, Open
<1>3. ASSUME NEW c \in Connections, Seal(c)
      PROVE  CountsHold'
  <2>1. \A d \in Connections : Open(conn'[d]) => conn'[d] = conn[d]
    BY <1>3, SealType DEF Open
  <2> QED BY <2>1, CountsShrink DEF Opened
<1>4. CASE DrainControls \/ ServerClose \/ \E c \in Connections : HangUp(c) \/ CloseDue(c)
  BY <1>2, <1>4, ClosingSteps
<1> QED BY <1>1, <1>3, <1>4, KindsOfSteps, AdmissionCounts, PromotionCounts

\* Nothing that is accepted, promoted, queued for a player or queued by one is ever beyond the
\* server's limits.
THEOREM ConnectionTypeCorrect == Spec => []ConnectionTypeOK
<1>1. Init => CountsHold
  <2> SUFFICES ASSUME Init PROVE CountsHold
    OBVIOUS
  <2>1. Opened = {} /\ Players = {} /\ Opened \ Players = {} /\ \A a \in Addresses : From(a) = {}
    BY BlankType DEF Init, Opened, Players, From, Open
  <2> QED BY <2>1, FS_EmptySet, ConstantsType DEF CountsHold
<1>2. ConnectionShape /\ CountsHold => ConnectionTypeOK
  <2> SUFFICES ASSUME ConnectionShape, CountsHold PROVE ConnectionTypeOK
    OBVIOUS
  <2>1. LimitsHold
    BY DEF LimitsHold, CountsHold, Opened, From, Players, ConnectionShape, Within
  <2>2. conn \in [Connections -> ConnectionRecord]
    BY DEF ConnectionShape, Within
  <2> QED BY <2>1, <2>2 DEF ConnectionTypeOK, ConnectionShape
<1> QED BY <1>1, <1>2, ShapeInit, ShapeStep, CountsStep, PTL DEF Spec

\* Shapes, for the proofs that follow.
LEMMA ShapeInvariant == Spec => []ConnectionShape
BY ShapeInit, ShapeStep, PTL DEF Spec

-------------------------------------------------------------------------------
(* Ends *)

\* Only an open connection's session runs.
OpenWhileRunning == \A c \in Connections : running[c] => Open(conn[c])

\* A session that somebody is stopping from outside is going to be closed.
KicksEnd ==
  \A c \in Connections :
    Open(conn[c]) /\ kicker[c] = "stopping" => c \in closes \/ conn[c].close_after_output

EndsInv == OpenWhileRunning /\ KicksEnd /\ NoCloseIsLost /\ NobodyReadsInVain

\* Ordinary steps lose no end.
LEMMA OrdinaryEnds ==
  ASSUME ConnectionShape, EndsInv, Ordinary
  PROVE  EndsInv'
<1>1. ASSUME NEW c \in Connections
      PROVE  /\ Same(conn[c], conn'[c]) /\ Handled(c)
             /\ running'[c] => running[c] /\ Open(conn'[c])
             /\ c \in closes => c \in closes'
             /\ Open(conn'[c]) /\ conn'[c].close_requested => c \in closes'
  <2>1. Handled(c) /\ Same(conn[c], conn'[c]) /\ (c \in closes => c \in closes')
    BY DEF Ordinary, Handled
  <2>2. running'[c] => running[c] /\ Open(conn'[c])
    BY <2>1 DEF Handled, EndsInv, OpenWhileRunning, Open, Same
  <2>3. ASSUME Open(conn'[c]), conn'[c].close_requested PROVE c \in closes'
    <3>1. Open(conn[c])
      BY <2>1, <2>3 DEF Same, Open
    <3>2. CASE conn[c].close_requested
      BY <2>1, <3>1, <3>2 DEF EndsInv, NoCloseIsLost
    <3>3. CASE ~conn[c].close_requested
      BY <2>1, <2>3, <3>3 DEF Handled
    <3> QED BY <3>2, <3>3
  <2> QED BY <2>1, <2>2, <2>3
<1>2. OpenWhileRunning'
  BY <1>1 DEF OpenWhileRunning
<1>3. ASSUME NEW c \in Connections, Open(conn'[c]), kicker'[c] = "stopping"
      PROVE  c \in closes' \/ conn'[c].close_after_output
  <2>1. Open(conn[c])
    BY <1>1, <1>3 DEF Same, Open
  <2>2. kicker[c] = "stopping" \/ conn'[c].close_requested \/ conn'[c].close_after_output
    BY <1>1, <1>3, <2>1 DEF Handled
  <2>3. kicker[c] = "stopping" => c \in closes \/ conn[c].close_after_output
    BY <2>1 DEF EndsInv, KicksEnd
  <2> QED BY <1>1, <1>3, <2>2, <2>3 DEF Same
<1>4. ASSUME NEW c \in Connections, Open(conn'[c]), ~running'[c], worker'[c] \in {"none", "reading"}
      PROVE  c \in closes' \/ conn'[c].close_after_output
  <2>1. Open(conn[c]) /\ Accounted(c)
    BY <1>1, <1>4 DEF Same, Open, Handled
  <2>2. CASE conn'[c].close_requested \/ conn'[c].close_after_output
    BY <1>1, <1>4, <2>2
  <2>3. CASE kicker[c] = "stopping"
    <3>1. c \in closes \/ conn[c].close_after_output
      BY <2>1, <2>3 DEF EndsInv, KicksEnd
    <3> QED BY <1>1, <3>1 DEF Same
  <2>4. CASE ~running[c] /\ worker'[c] = worker[c]
    <3>1. c \in closes \/ conn[c].close_after_output
      BY <1>4, <2>1, <2>4 DEF EndsInv, NoCloseIsLost
    <3> QED BY <1>1, <3>1 DEF Same
  <2> QED BY <1>4, <2>1, <2>2, <2>3, <2>4 DEF Accounted
<1>5. ASSUME NEW c \in Connections, conn'[c].link = "closed"
      PROVE  /\ worker'[c] = "reading" => conn'[c].input_lines = <<"LINE_CLOSED">>
             /\ ~running'[c]
  <2>1. conn[c].link = "closed" /\ ~Open(conn[c]) /\ ~Open(conn'[c])
    BY <1>1, <1>5 DEF Same, Open
  <2>2. ~running'[c]
    BY <1>1, <2>1
  <2>3. worker'[c] = "reading" => worker[c] = "reading" /\ conn[c].input_lines = conn'[c].input_lines
    BY <1>1, <2>1, <2>2 DEF Handled
  <2> QED BY <2>1, <2>2, <2>3 DEF EndsInv, NobodyReadsInVain
<1>6. KicksEnd'
  BY <1>3 DEF KicksEnd
<1>7. NoCloseIsLost'
  BY <1>1, <1>4 DEF NoCloseIsLost
<1>8. NobodyReadsInVain'
  BY <1>5 DEF NobodyReadsInVain
<1> QED BY <1>2, <1>6, <1>7, <1>8 DEF EndsInv

\* No step loses an end, or leaves a reader without the end marker.
LEMMA EndsStep == ConnectionShape /\ EndsInv /\ [Next]_vars => EndsInv'
<1> SUFFICES ASSUME ConnectionShape, EndsInv, [Next]_vars PROVE EndsInv'
  OBVIOUS
<1> USE DEF EndsInv, OpenWhileRunning, KicksEnd, NoCloseIsLost, NobodyReadsInVain
<1>1. CASE Ordinary
  BY <1>1, OrdinaryEnds
<1>2. ASSUME NEW C, Close(C), closes' \subseteq closes, closes \ closes' \subseteq C
      PROVE  EndsInv'
  <2>1. /\ UNCHANGED <<worker, kicker>>
        /\ \A d \in Connections :
             \/ conn'[d] = conn[d] /\ running'[d] = running[d] /\ ~(d \in C /\ Open(conn[d]))
             \/ conn'[d].link = "closing" /\ ~running'[d]
    BY <1>2, CloseType
  <2>2. \A d \in Connections : Open(conn'[d]) => /\ conn'[d] = conn[d] /\ running'[d] = running[d]
                                                   /\ d \in closes => d \in closes'
    BY <1>2, <2>1 DEF Open
  <2>3. \A d \in Connections : conn'[d].link = "closed" => /\ conn'[d] = conn[d]
                                                             /\ running'[d] = running[d]
    BY <2>1
  <2>4. \A d \in Connections : running'[d] => conn'[d] = conn[d] /\ running[d]
    BY <2>1
  <2>5. OpenWhileRunning' /\ NobodyReadsInVain'
    BY <2>1, <2>3, <2>4
  <2>6. KicksEnd'
    BY <2>1, <2>2 DEF Open
  <2>7. NoCloseIsLost'
    BY <2>1, <2>2 DEF Open
  <2> QED BY <2>5, <2>6, <2>7
<1>3. ASSUME NEW c \in Connections, Seal(c)
      PROVE  EndsInv'
  <2>1. /\ ~Open(conn[c]) /\ ~Open(conn'[c]) /\ conn'[c].input_lines = <<"LINE_CLOSED">>
        /\ \A d \in Connections : d # c => conn'[d] = conn[d]
        /\ UNCHANGED <<running, worker, kicker, closes>>
    BY <1>3, SealType DEF Open
  <2> QED BY <2>1
<1>4. ASSUME NEW c \in Connections, NEW a \in Addresses, Accept(c, a)
      PROVE  EndsInv'
  <2>1. /\ Open(conn'[c]) /\ conn'[c].link # "closed" /\ running'[c] /\ ~conn'[c].close_requested
        /\ kicker[c] = "idle"
        /\ \A d \in Connections : d # c => conn'[d] = conn[d] /\ running'[d] = running[d]
        /\ UNCHANGED <<worker, kicker, closes>>
    BY <1>4, AcceptType DEF Open
  <2> QED BY <2>1
<1>5. ASSUME NEW c \in Connections, LogIn(c), Promotes
      PROVE  EndsInv'
  <2>1. /\ Open(conn[c]) /\ Open(conn'[c]) /\ conn'[c].link # "closed"
        /\ conn'[c].close_requested = conn[c].close_requested
        /\ conn'[c].close_after_output = conn[c].close_after_output
        /\ \A d \in Connections : d # c => conn'[d] = conn[d]
        /\ UNCHANGED <<running, kicker>> /\ closes' = closes
        /\ worker'[c] = "prompting" /\ \A d \in Connections : d # c => worker'[d] = worker[d]
    BY <1>5, PromoteType DEF Open, ConnectionShape
  <2> QED BY <2>1
<1>6. CASE DrainControls \/ ServerClose \/ \E c \in Connections : HangUp(c) \/ CloseDue(c)
  BY <1>2, <1>6, ClosingSteps
<1> QED BY <1>1, <1>3, <1>4, <1>5, <1>6, KindsOfSteps

\* Ends, as an invariant
LEMMA EndsInvariant == Spec => []EndsInv
<1>1. Init => EndsInv
  BY BlankType
     DEF Init, EndsInv, OpenWhileRunning, KicksEnd, NoCloseIsLost, NobodyReadsInVain, Open
<1> QED BY <1>1, EndsStep, ShapeInvariant, PTL DEF Spec

\* However closings from the client, the thread, a kick, an overflow, idleness and the server's
\* end overlap: nobody who has asked for the end of a connection is forgotten, and no stopped
\* session is left in a read, or without a thread, on a connection that stays.
THEOREM NoCloseLost == Spec => []NoCloseIsLost
BY EndsInvariant, PTL DEF EndsInv

\* No gameplay thread waits on a closed connection for a line that never comes: it finds the end
\* marker, or it has stopped reading.
THEOREM NoReadInVain == Spec => []NobodyReadsInVain
BY EndsInvariant, PTL DEF EndsInv

-------------------------------------------------------------------------------
(* Notices *)

NoticesInv ==
  /\ server = "stopping" => shutdown \in {"draining", "late"}
  /\ NoticesAreDrained

\* The server that stops does so with its notices sent, and sends none after that.
LEMMA NoticesStep == ConnectionShape /\ NoticesInv /\ [Next]_vars => NoticesInv'
<1> SUFFICES ASSUME ConnectionShape, NoticesInv, [Next]_vars PROVE NoticesInv'
  OBVIOUS
<1>1. server' = "stopping" => shutdown' \in {"draining", "late"}
  BY SelectorMoves DEF NoticesInv
<1>2. ASSUME server' = "stopping", shutdown' # "late", NEW c \in Connections, Open(conn'[c])
      PROVE  Unnoticed(conn'[c])
  <2>1. CASE server # "stopping"
    <3>1. conn' = conn /\ shutdown' = shutdown /\ Drained
      BY <1>2, <2>1, SelectorMoves
    <3>2. conn'[c].output = <<>>
      BY <1>2, <3>1 DEF Drained
    <3> QED BY <3>2 DEF Unnoticed
  <2>2. CASE server = "stopping"
    <3>1. shutdown = "draining"
      BY <1>2, <2>2, SelectorMoves DEF NoticesInv
    <3>2. \A d \in Connections : Open(conn[d]) => Unnoticed(conn[d])
      BY <2>2, <3>1 DEF NoticesInv, NoticesAreDrained, Unnoticed
    <3>3. CASE Ordinary
      <4>1. Same(conn[c], conn'[c]) /\ (Unnoticed(conn[c]) => Unnoticed(conn'[c]))
        BY <3>1, <3>3 DEF Ordinary, Handled
      <4> QED BY <1>2, <3>2, <4>1 DEF Same, Open
    <3>4. ASSUME NEW C, Close(C) PROVE Unnoticed(conn'[c])
      <4>1. conn'[c] = conn[c]
        BY <1>2, <3>4, CloseType DEF Open
      <4> QED BY <1>2, <3>2, <4>1
    <3>5. ASSUME NEW d \in Connections, Seal(d) PROVE Unnoticed(conn'[c])
      <4>1. conn'[c] = conn[c]
        BY <1>2, <3>5, SealType DEF Open
      <4> QED BY <1>2, <3>2, <4>1
    <3>6. ASSUME NEW d \in Connections, LogIn(d) \/ \E a \in Addresses : Accept(d, a)
          PROVE  FALSE
      BY <2>2, <3>6 DEF LogIn, Accept, Serving
    <3>7. CASE DrainControls \/ ServerClose \/ \E d \in Connections : HangUp(d) \/ CloseDue(d)
      BY <3>4, <3>7, ClosingSteps
    <3> QED BY <3>3, <3>5, <3>6, <3>7, KindsOfSteps
  <2> QED BY <2>1, <2>2
<1> QED BY <1>1, <1>2 DEF NoticesInv, NoticesAreDrained, Unnoticed

\* A shutdown's notices are sent before the server stops, unless the deadline has come: whatever
\* other players, kicks and closings send and queue in the meantime.
THEOREM NoticesDrained == Spec => []NoticesAreDrained
<1>1. Init => NoticesInv
  BY DEF Init, NoticesInv, NoticesAreDrained
<1> QED BY <1>1, NoticesStep, ShapeInvariant, PTL DEF NoticesInv, Spec
===============================================================================
