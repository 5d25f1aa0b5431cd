\* The smallest instance in which an autosave overtakes the final save.
CONSTANTS
  Keys = {user}
  States = {blank, rich}
  Receipts = {r1, r2}
  InitialState = blank
  NoKey = nokey
  PendingKeyLimit = 1
  User = user
  Own = own
  Autosavers = {selector}
  Admins = {}
  NoReceipt = none
  NoState = nostate
SPECIFICATION SessionSpec
INVARIANTS
  LogoutKeepsFinalSnapshot
\* The character has left and the writer has stopped: the system is over.
CHECK_DEADLOCK FALSE
