----------------------------- MODULE MCSessionSave -----------------------------
(* The session under TLC. *)
EXTENDS SessionSave

\* Every property excepts the sessions that were saved before set_persisted_state, and once early
\* a session is early for ever: the search need not go on from them, and the behaviours that are cut
\* all satisfy StableStateIsSaved.
NotEarly == ~early

\* What FinalSaveStands can still ask of a session.
Final == IF overtaken \/ muddled \/ result \notin {"none", "queued", "unchanged"} THEN <<>>
         ELSE <<since>>

\* No action and no property here reads the writer's histories, accepted and lost, or the
\* session's once FinalSaveStands has nothing left to ask: states that differ in them only
\* are one.
View == <<started, closing, order, saveOf, in_flight, pc, job, success, receipt, durable, main,
          bookVars, lifeVars, Final, saver>>
===============================================================================
