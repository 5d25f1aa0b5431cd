\* Two threads, a budget for three requests, each of which may cost twice what it reserved,
\* a log that fills up, one midnight and one crash.
CONSTANTS
  Workers = {w1, w2}
  cheap = cheap
  dear = dear
  free = free
  Models <- MCModels
  Price <- MCPrice
  Catalogues <- MCCatalogues
  Daily = 3
  Dearest = 2
  LogLimit = 7
  AuditRoom = 2
  Attempts = 2
  LastDay = 2
  MaxCrashes = 1
SPECIFICATION Spec
VIEW View
SYMMETRY Symmetry
INVARIANTS
  ProviderTypeOK
  TodayIsCounted
  AnswersFitTheLog
\* The audit log never shrinks: once it is full nothing is asked any more.
CHECK_DEADLOCK FALSE
