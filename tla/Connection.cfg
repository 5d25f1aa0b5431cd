\* Two connections that may both be players, only one of them before login; every queue full
\* with one entry.
CONSTANTS
  Connections = {c1, c2}
  Addresses = {a1}
  TotalLimit = 2
  PerAddressLimit = 2
  PlayerLimit = 2
  LoginLimit = 1
  OutputLimit = 1
  InputLimit = 1
SPECIFICATION Spec
SYMMETRY Symmetry
INVARIANTS
  ConnectionTypeOK
  NobodyReadsInVain
  NoticesAreDrained
  NoCloseIsLost
\* The server is closed and everybody has left: the system is over.
CHECK_DEADLOCK FALSE
