\* The own thread, and another that makes the selector's and the administrators' calls; a second
\* session, which can fill the one place of the queue.
CONSTANTS
  Keys = {user, other}
  States = {blank, rich}
  Receipts = {r1, r2}
  InitialState = blank
  NoKey = nokey
  PendingKeyLimit = 1
  User = user
  Own = own
  Autosavers = {other_thread}
  Admins = {other_thread}
  NoReceipt = none
  NoState = nostate
SPECIFICATION SessionSpec
CONSTRAINT NotEarly
VIEW View
INVARIANTS
  SessionTypeOK
  BeliefIsTrue
  FinalSaveStands
PROPERTIES
  StableStateIsSaved
\* The character has left and the writer has stopped: the system is over.
CHECK_DEADLOCK FALSE
