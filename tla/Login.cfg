\* Two connections and one name, which is created, used and used again; two pool threads, so that
\* two answers are due at once, and no further place, so that the pool refuses; room for one player.
CONSTANTS
  Connections = {c1, c2}
  Names = {anna}
  States = {blank, rich}
  Receipts = {r1}
  InitialState = blank
  Registered = {}
  None = none
  Workers = 2
  QueueLimit = 0
  PlayerLimit = 1
  FailureLimit = 2
  CreationLimit = 1
SPECIFICATION Spec
INVARIANTS
  LoginTypeOK
  ResourcesAreAccounted
  AnswerFitsQuestion
PROPERTIES
  SessionsBeginRight
  LineIsAnswered
\* The server has stopped and every session has left: the system is over.
CHECK_DEADLOCK FALSE
