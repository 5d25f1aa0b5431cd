\* The gameplay thread and one other, which hurts and heals in turn.
CONSTANTS
  Others = {other}
  Own = own
  Values = {1, 2}
  Covers <- MCCovers
  GMCP_MAX_SUBSCRIPTIONS = 2
  None = none
SPECIFICATION Spec
INVARIANTS
  GmcpTypeOK
  CacheIsShown
  PictureIsCurrent
\* The player has left.
CHECK_DEADLOCK FALSE
