\* The smallest instance in which a second connection reads the account record too early.
CONSTANTS
  Connections = {c1, c2}
  Names = {anna}
  States = {blank, rich}
  Receipts = {r1}
  InitialState = blank
  Registered = {}
  None = none
  Workers = 1
  QueueLimit = 0
  PlayerLimit = 1
  FailureLimit = 2
  CreationLimit = 2
SPECIFICATION Spec
PROPERTIES
  LoginContinues
\* The server has stopped and every session has left: the system is over.
CHECK_DEADLOCK FALSE
