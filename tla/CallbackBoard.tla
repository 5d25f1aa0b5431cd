----------------------------- MODULE CallbackBoard -----------------------------
(***************************************************************************)
(* What an NPC's actor (class NPCActor in core.py) promises the threads    *)
(* that hand it callbacks: the callbacks run one at a time and only while  *)
(* their caller waits for them, every job gets one answer and keeps it,    *)
(* and the actions a callback decided on are performed once, and only for  *)
(* a job that was answered with them.                                      *)
(***************************************************************************)
EXTENDS Naturals

CONSTANT Jobs

VARIABLES
  answer,     \* answer[j]: "unused", "open", "result" or "error"
  running,    \* the jobs whose callbacks run
  performed   \* the jobs whose actions have been performed

boardVars == <<answer, running, performed>>

BoardInit ==
  /\ answer = [j \in Jobs |-> "unused"]
  /\ running = {}
  /\ performed = {}

Offer(j) ==
  /\ answer[j] = "unused"
  /\ answer' = [answer EXCEPT ![j] = "open"]
  /\ UNCHANGED <<running, performed>>

\* No callback begins for a job that is answered, or beside another one.
Begin(j) ==
  /\ answer[j] = "open"
  /\ running = {}
  /\ running' = {j}
  /\ UNCHANGED <<answer, performed>>

\* A late callback's decision is thrown away.
End(j, a) ==
  /\ j \in running
  /\ running' = running \ {j}
  /\ answer' = [answer EXCEPT ![j] = IF @ = "open" THEN a ELSE @]
  /\ UNCHANGED performed

\* The actor gives up on some of its jobs, whether their callbacks run or not.
GiveUp(S) ==
  /\ S # {} /\ \A j \in S : answer[j] = "open"
  /\ answer' = [j \in Jobs |-> IF j \in S THEN "error" ELSE answer[j]]
  /\ UNCHANGED <<running, performed>>

Perform(j) ==
  /\ answer[j] = "result" /\ j \notin performed
  /\ performed' = performed \cup {j}
  /\ UNCHANGED <<answer, running>>

\* Nobody refers to an answered job any more.
Forget(j) ==
  /\ answer[j] \in {"result", "error"} /\ j \notin running
  /\ answer' = [answer EXCEPT ![j] = "unused"]
  /\ performed' = performed \ {j}
  /\ UNCHANGED running

BoardNext ==
  \/ \E j \in Jobs : Offer(j) \/ Begin(j) \/ Perform(j) \/ Forget(j)
  \/ \E j \in Jobs, a \in {"result", "error"} : End(j, a)
  \/ \E S \in SUBSET Jobs : GiveUp(S)

BoardSpec == BoardInit /\ [][BoardNext]_boardVars
===============================================================================
