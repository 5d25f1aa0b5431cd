-------------------------------- MODULE Advisory --------------------------------
(***************************************************************************)
(* The optional remote voice of one NPC: AdvisoryFSMBehavior (llm_fsm.py), *)
(* which wraps the local behaviour, and NPCAdvisorRuntime                  *)
(* (npc_ai_runtime.py), whose threads ask the provider.  What is said to   *)
(* the NPC is answered locally, or the local answer is withheld until the  *)
(* provider's arrives, fails, or five seconds are over.                    *)
(*                                                                         *)
(* The NPC's actor (NPCActor) runs one callback at a time and its callers  *)
(* speak what the callbacks return; the provider (Provider) here answers   *)
(* well or not.  An utterance is said once.  The request counts of an hour *)
(* are left open: the runtime may refuse any frame.  The five seconds of a *)
(* withheld answer may end at any time.  A refresh of the catalogue is a   *)
(* frame too, of the lowest priority and with nobody to hear of it: it is  *)
(* left to Provider.  Prompts, candidates, hints, the conversation's       *)
(* history and the statistics carry no control.                            *)
(***************************************************************************)
EXTENDS Naturals, Sequences, FiniteSets, SequencesExt

CONSTANTS
  Utterances,   \* what players say to the NPC, each with its request id
  Workers,      \* the runtime's threads
  Scores,       \* what priority_score may give an utterance
  QueueLimit,   \* `queued` of the runtime (16)
  PendingLimit, \* the 4 withheld answers of _dispatch
  OutputLimit   \* maxlen of _pending_outputs (8)

ASSUME AdvisoryAssumption ==
  /\ Utterances # {}
  /\ Scores \subseteq Nat \ {0}
  /\ {QueueLimit, PendingLimit, OutputLimit} \subseteq Nat \ {0}

VARIABLES
  actor,      \* the NPC's actor inside _dispatch: pc, the utterance, live_speech, a tick's outputs
  pending,    \* _pending_speech: the utterances whose local answer is withheld
  due,        \* those of them whose deadline has passed
  outputs,    \* _pending_outputs
  local_only,
  decided,    \* what callbacks returned and their callers have not yet spoken
  queue,      \* the runtime's queue, in the order of arrival
  worker,     \* worker[w]: the job of thread w, how far it is, and whether its answer is good
  enabled, closed, ready,  \* of the runtime; ready: the NPC is in ready_npcs
  occupied,   \* whether a player is in the NPC's room
  said,       \* history: the utterances said, and which of them as live speech
  heard,      \* history: how often each was answered locally and remotely
  gone        \* history: answers given up, for want of room or of listeners

behaviour == <<actor, pending, due, outputs, decided>>
runtime == <<queue, worker, enabled, closed, ready>>
history == <<said, heard, gone>>
vars == <<behaviour, local_only, runtime, occupied, history>>

Ready == [pc |-> "idle", u |-> CHOOSE u \in Utterances : TRUE, live |-> FALSE, outputs |-> <<>>]
NoJob == [pc |-> "idle", u |-> CHOOSE u \in Utterances : TRUE, live |-> FALSE, good |-> FALSE]

Init ==
  /\ actor = Ready
  /\ pending = {} /\ due = {} /\ outputs = <<>> /\ decided = {}
  /\ local_only = FALSE
  /\ queue = <<>> /\ worker = [w \in Workers |-> NoJob]
  /\ enabled = TRUE /\ closed = FALSE
  /\ ready \in BOOLEAN             \* an answer before the first of Utterances may have made it so
  /\ occupied = FALSE
  /\ said = [u \in Utterances |-> "no"]
  /\ heard = [u \in Utterances |-> [local |-> 0, remote |-> 0]]
  /\ gone = {}

-------------------------------------------------------------------------------
(* Shared by the behaviour's methods *)

\* mode = MODE_LLM_FSM
Live == ~local_only /\ enabled /\ ready
Blocked == local_only \/ ~enabled

Answer(u, text) == [u |-> u, text |-> text]
Local(u) == {Answer(u, "local")}

\* What a full deque(maxlen) keeps of s, and the answers it pushed out
Newest(s) == IF Len(s) > OutputLimit THEN SubSeq(s, Len(s) - OutputLimit + 1, Len(s)) ELSE s
PushedOut(s) == {s[i].u : i \in 1..(Len(s) - OutputLimit)}

\* An output put to speak: the local answer withheld for u, or the remote one with the local
\* one, if it was withheld, beside it
Fallback(u) == [u |-> u, remote |-> FALSE, withheld |-> TRUE]
Remote(u, withheld) == [u |-> u, remote |-> TRUE, withheld |-> withheld]

Put(s) ==
  /\ outputs' = Newest(outputs \o s)
  /\ gone' = gone \cup PushedOut(outputs \o s)

Withdraw(U) == pending' = pending \ U /\ due' = due \ U

-------------------------------------------------------------------------------
(* _dispatch of on_say, on the NPC's actor *)

\* The local behaviour decides; live_speech is fixed before.
OnSay(u) ==
  /\ actor.pc = "idle" /\ occupied /\ said[u] = "no"
  /\ said' = [said EXCEPT ![u] = IF Live THEN "live" ELSE "local"]
  /\ actor' = [actor EXCEPT !.pc = "deciding", !.u = u, !.live = Live]
  /\ UNCHANGED <<pending, due, outputs, decided, local_only, runtime, occupied, heard, gone>>

ReturnLocal == actor' = Ready /\ decided' = decided \cup Local(actor.u)

\* Local mode, nobody there, or too many answers withheld already
StayLocal ==
  /\ actor.pc = "deciding"
  /\ local_only \/ ~occupied \/ (actor.live /\ Cardinality(pending) >= PendingLimit)
  /\ ReturnLocal
  /\ UNCHANGED <<pending, due, outputs, local_only, runtime, occupied, history>>

\* Fault: there is no limit.
WithholdAll ==
  /\ actor.pc = "deciding" /\ ~local_only /\ occupied
  /\ pending' = IF actor.live THEN pending \cup {actor.u} ELSE pending
  /\ actor' = [actor EXCEPT !.pc = "observing"]
  /\ UNCHANGED <<due, outputs, decided, local_only, runtime, occupied, history>>

Withhold ==
  /\ actor.pc = "deciding" /\ ~local_only /\ occupied
  /\ actor.live => Cardinality(pending) < PendingLimit
  /\ pending' = IF actor.live THEN pending \cup {actor.u} ELSE pending
  /\ actor' = [actor EXCEPT !.pc = "observing"]
  /\ UNCHANGED <<due, outputs, decided, local_only, runtime, occupied, history>>

\* observe admits the frame ...
Admit ==
  /\ actor.pc = "observing" /\ ~closed /\ enabled
  /\ actor' = [actor EXCEPT !.pc = "queueing"]
  /\ UNCHANGED <<pending, due, outputs, decided, local_only, runtime, occupied, history>>

\* ... or it is closed or disabled, or its hour is used up: the local answer is returned.
Refuse ==
  /\ actor.pc = "observing"
  /\ Withdraw({actor.u}) /\ ReturnLocal
  /\ UNCHANGED <<outputs, local_only, runtime, occupied, history>>

-------------------------------------------------------------------------------
(* The runtime's queue *)

Job(u, live, score) == [u |-> u, live |-> live, score |-> score]
Positions == 1..Len(queue)

\* The one a full queue gives up: the lowest score and, of these, the first that came
Worst == CHOOSE i \in Positions : \A j \in Positions :
  queue[i].score < queue[j].score \/ (queue[i].score = queue[j].score /\ i <= j)
\* The one a thread takes: the highest score and, of these, the first that came
Best == CHOOSE i \in Positions : \A j \in Positions :
  queue[i].score > queue[j].score \/ (queue[i].score = queue[j].score /\ i <= j)

Full == Len(queue) >= QueueLimit
Outranks(score) == score > queue[Worst].score
Enqueued(job) == Append(IF actor.pc = "displacing" THEN RemoveAt(queue, Worst) ELSE queue, job)

QueueAs(score) ==
  /\ queue' = Enqueued(Job(actor.u, actor.live, score))
  /\ actor' = Ready
  /\ decided' = IF actor.live THEN decided ELSE decided \cup Local(actor.u)

\* The frame is queued, and live speech says nothing for now.
Queue ==
  /\ actor.pc = "queueing" /\ ~Full
  /\ \E score \in Scores : QueueAs(score)
  /\ UNCHANGED <<pending, due, outputs, local_only, worker, enabled, closed, ready, occupied, history>>

\* The queue was full a moment ago ...
FindFull ==
  /\ actor.pc = "queueing" /\ Full
  /\ actor' = [actor EXCEPT !.pc = "displacing"]
  /\ UNCHANGED <<pending, due, outputs, decided, local_only, runtime, occupied, history>>

\* ... and the frame takes the place of a worse one, of which nobody hears again, ...
Displace ==
  /\ actor.pc = "displacing" /\ queue # <<>>
  /\ \E score \in Scores : Outranks(score) /\ QueueAs(score)
  /\ UNCHANGED <<pending, due, outputs, local_only, worker, enabled, closed, ready, occupied, history>>

\* ... or is refused, also when nothing is left in the queue.
QueueRefuses ==
  /\ actor.pc = "displacing"
  /\ queue # <<>> => \E score \in Scores : ~Outranks(score)
  /\ Withdraw({actor.u}) /\ ReturnLocal
  /\ UNCHANGED <<outputs, local_only, runtime, occupied, history>>

-------------------------------------------------------------------------------
(* _dispatch of tick, on the NPC's actor: what is due, or no longer wanted, is answered locally *)

Expired == {u \in pending : ~Live \/ u \in due}
Overdue == outputs \o SetToSeq({Fallback(u) : u \in Expired})

\* Fault: only speech that is still to be asked for is blocked.
SpokenAsQueued(o) == IF o.remote THEN {Answer(o.u, "remote")} ELSE Local(o.u)

\* What an output is spoken as: a remote answer that is blocked gives way to the withheld one,
\* if there was one.
Spoken(o) ==
  IF ~o.remote THEN Local(o.u)
  ELSE IF ~Blocked THEN {Answer(o.u, "remote")}
  ELSE IF o.withheld THEN Local(o.u) ELSE {}

Tick ==
  /\ actor.pc = "idle"
  /\ Withdraw(Expired)
  /\ gone' = gone \cup PushedOut(Overdue)
  /\ outputs' = <<>>
  /\ actor' = [actor EXCEPT !.pc = IF Overdue = <<>> THEN "idle" ELSE "ticking",
                            !.outputs = [i \in 1..Len(Newest(Overdue)) |-> Spoken(Newest(Overdue)[i])]]
  /\ UNCHANGED <<decided, local_only, runtime, occupied, said, heard>>

\* The outputs have left the queue: without a listener they are gone.
TickReturns ==
  /\ actor.pc = "ticking"
  /\ LET taken == UNION ToSet(actor.outputs) IN
     IF occupied
     THEN decided' = decided \cup taken /\ UNCHANGED gone
     ELSE gone' = gone \cup {a.u : a \in taken} /\ UNCHANGED decided
  /\ actor' = Ready
  /\ UNCHANGED <<pending, due, outputs, local_only, runtime, occupied, said, heard>>

DeadlinePasses(u) ==
  /\ u \in pending \ due
  /\ due' = due \cup {u}
  /\ UNCHANGED <<actor, pending, outputs, decided, local_only, runtime, occupied, history>>

\* The caller of the callback performs its actions.
Speak(a) ==
  /\ a \in decided
  /\ decided' = decided \ {a}
  /\ heard' = [heard EXCEPT ![a.u][a.text] = @ + 1]
  /\ UNCHANGED <<actor, pending, due, outputs, local_only, runtime, occupied, said, gone>>

-------------------------------------------------------------------------------
(* _run, on a thread of the runtime, with _store_hint *)

Goto(w, pc) == worker' = [worker EXCEPT ![w].pc = pc]

Take(w) ==
  /\ worker[w].pc = "idle" /\ queue # <<>>
  /\ worker' = [worker EXCEPT ![w] =
                  [pc |-> "asking", u |-> queue[Best].u, live |-> queue[Best].live, good |-> FALSE]]
  /\ queue' = RemoveAt(queue, Best)
  /\ UNCHANGED <<behaviour, local_only, enabled, closed, ready, occupied, history>>

Good(w) ==
  /\ worker[w].pc = "asking"
  /\ worker' = [worker EXCEPT ![w].pc = "storing", ![w].good = TRUE]
  /\ UNCHANGED <<behaviour, local_only, queue, enabled, closed, ready, occupied, history>>

\* No answer, an invalid one, or one the behaviour turned down: the NPC is no longer ready, and
\* the handler is told.
Fails(w) ==
  /\ \/ worker[w].pc = "asking"
     \/ worker[w].pc = "stale"
  /\ ready' = FALSE
  /\ worker' = [worker EXCEPT ![w].pc = "storing", ![w].good = FALSE]
  /\ UNCHANGED <<behaviour, local_only, queue, enabled, closed, occupied, history>>

\* The handler returns what `_run` makes of it: after a failure nothing more.
Handled(w, accepted) ==
  worker' = [worker EXCEPT ![w] = IF ~worker[w].good THEN NoJob
                                  ELSE [@ EXCEPT !.pc = IF accepted THEN "stored" ELSE "stale"]]

\* _store_hint without listeners
StoreDeserted(w) ==
  /\ worker[w].pc = "storing" /\ ~occupied
  /\ Withdraw({worker[w].u})
  /\ gone' = gone \cup (pending \cap {worker[w].u})
  /\ Handled(w, FALSE)
  /\ UNCHANGED <<actor, outputs, decided, local_only, queue, enabled, closed, ready, occupied, said, heard>>

\* ... with remote speech switched off
StoreBlocked(w) ==
  /\ worker[w].pc = "storing" /\ occupied /\ Blocked
  /\ Withdraw({worker[w].u})
  /\ Put(IF worker[w].u \in pending THEN <<Fallback(worker[w].u)>> ELSE <<>>)
  /\ Handled(w, FALSE)
  /\ UNCHANGED <<actor, decided, local_only, queue, enabled, closed, ready, occupied, said, heard>>

\* ... and with it on: the second hold of the lock comes later.
StoreOpen(w) ==
  /\ worker[w].pc = "storing" /\ occupied /\ ~Blocked
  /\ Goto(w, "open")
  /\ UNCHANGED <<behaviour, local_only, queue, enabled, closed, ready, occupied, history>>

\* Fault: the withheld answer is forgotten with the request.
ForgetFailure(w) ==
  /\ worker[w].pc = "open" /\ ~worker[w].good
  /\ Withdraw({worker[w].u})
  /\ Handled(w, TRUE)
  /\ UNCHANGED <<actor, outputs, decided, local_only, queue, enabled, closed, ready, occupied, history>>

StoreFailure(w) ==
  /\ worker[w].pc = "open" /\ ~worker[w].good
  /\ Withdraw({worker[w].u})
  /\ Put(IF worker[w].u \in pending THEN <<Fallback(worker[w].u)>> ELSE <<>>)
  /\ Handled(w, TRUE)
  /\ UNCHANGED <<actor, decided, local_only, queue, enabled, closed, ready, occupied, said, heard>>

\* The deadline was first: the answer is late.
StoreLate(w) ==
  /\ worker[w].pc = "open" /\ worker[w].good
  /\ worker[w].live /\ worker[w].u \notin pending
  /\ Handled(w, FALSE)
  /\ UNCHANGED <<behaviour, local_only, queue, enabled, closed, ready, occupied, history>>

\* Fault: a late answer is spoken like any other.
StoreAnyAnswer(w) ==
  /\ worker[w].pc = "open" /\ worker[w].good
  /\ Withdraw({worker[w].u})
  /\ Put(<<Remote(worker[w].u, worker[w].live)>>)
  /\ Handled(w, TRUE)
  /\ UNCHANGED <<actor, decided, local_only, queue, enabled, closed, ready, occupied, said, heard>>

StoreAnswer(w) ==
  /\ worker[w].pc = "open" /\ worker[w].good
  /\ worker[w].live => worker[w].u \in pending
  /\ Withdraw({worker[w].u})
  /\ Put(<<Remote(worker[w].u, worker[w].live)>>)
  /\ Handled(w, TRUE)
  /\ UNCHANGED <<actor, decided, local_only, queue, enabled, closed, ready, occupied, said, heard>>

Stored(w) ==
  /\ worker[w].pc = "stored"
  /\ ready' = TRUE
  /\ worker' = [worker EXCEPT ![w] = NoJob]
  /\ UNCHANGED <<behaviour, local_only, queue, enabled, closed, occupied, history>>

-------------------------------------------------------------------------------
(* The administrator, the players, and the end *)

SetEnabled(b) ==
  /\ enabled # b
  /\ ~(closed /\ b)
  /\ enabled' = b
  /\ UNCHANGED <<behaviour, local_only, queue, worker, closed, ready, occupied, history>>

SetLocalOnly(b) ==
  /\ local_only # b
  /\ local_only' = b
  /\ UNCHANGED <<behaviour, runtime, occupied, history>>

\* Frames on their way into the queue are not held up: Queue may still come.
Shutdown ==
  /\ ~closed
  /\ closed' = TRUE
  /\ queue' = <<>>
  /\ UNCHANGED <<behaviour, local_only, worker, enabled, ready, occupied, history>>

ComeAndGo ==
  /\ occupied' = ~occupied
  /\ UNCHANGED <<behaviour, local_only, runtime, history>>

-------------------------------------------------------------------------------
Actor ==
  \/ StayLocal \/ Withhold \/ Admit \/ Refuse \/ Queue \/ FindFull \/ Displace \/ QueueRefuses
  \/ TickReturns

Worker(w) ==
  \/ Take(w) \/ Good(w) \/ Fails(w)
  \/ StoreDeserted(w) \/ StoreBlocked(w) \/ StoreOpen(w)
  \/ StoreFailure(w) \/ StoreLate(w) \/ StoreAnswer(w) \/ Stored(w)

Next ==
  \/ \E u \in Utterances : OnSay(u) \/ DeadlinePasses(u)
  \/ Actor \/ Tick
  \/ \E a \in decided : Speak(a)
  \/ \E w \in Workers : Worker(w)
  \/ \E b \in BOOLEAN : SetEnabled(b) \/ SetLocalOnly(b)
  \/ Shutdown \/ ComeAndGo

\* The actor and the callers go on, the clock too; the ticker ticks while the room is occupied.
\* The provider may never answer, and nobody need say or administer anything.
Fairness ==
  /\ WF_vars(Actor)
  /\ WF_vars(Tick /\ occupied)
  /\ \A u \in Utterances : WF_vars(DeadlinePasses(u))
  /\ WF_vars(\E a \in decided : Speak(a))

Spec == Init /\ [][Next]_vars /\ Fairness

-------------------------------------------------------------------------------
AdvisoryTypeOK ==
  /\ actor.pc \in {"idle", "deciding", "observing", "queueing", "displacing", "ticking"}
  /\ due \subseteq pending /\ pending \subseteq Utterances
  /\ Cardinality(pending) <= PendingLimit /\ Len(outputs) <= OutputLimit
  /\ Len(queue) <= QueueLimit
  /\ \A w \in Workers : worker[w].pc \in {"idle", "asking", "storing", "open", "stale", "stored"}

\* What was said as live speech is answered once, remotely or locally and never both, whichever
\* of the provider's answer, its failure, the deadline, a refusal, a switch and an empty room
\* come first; what was answered locally at once may get the provider's first answer after it
\* but no second local one (llm_fsm.py:112-128, :223-231, :278-288).
OneAnswer == \A u \in Utterances :
  /\ said[u] = "live" => heard[u].local + heard[u].remote <= 1
  /\ heard[u].local <= 1 /\ heard[u].remote <= 1

\* "Disabling advisory AI globally or for one NPC prevents already queued remote speech from
\* leaking through" (README.md:85): while it is off no further remote answer is taken for
\* speaking.  One a tick has taken before may still be spoken.
Taken == {a \in decided \cup UNION ToSet(actor.outputs) : a.text = "remote"}
NothingLeaks == [][Blocked /\ Blocked' => Taken' \subseteq Taken]_vars

\* A withheld answer is not forgotten: in a room that stays occupied every utterance is answered
\* even if the provider never is, a better request takes its place in the queue, or the runtime
\* is shut down.  Given up are answers a room without players lost, and the oldest ones when
\* more than OutputLimit are waiting for a tick.
EveryoneIsAnswered == \A u \in Utterances :
  said[u] # "no" ~> (heard[u].local + heard[u].remote > 0 \/ u \in gone \/ []<>(~occupied))
===============================================================================
