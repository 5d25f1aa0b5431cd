\* Two players, one of whom the first acorn knocks out.
CONSTANTS
  anna = anna
  bert = bert
  Players <- MCPlayers
  Ticker = ticker
  None = none
  InitialHealth <- MCHealth
SPECIFICATION Spec
INVARIANTS
  VillageTypeOK
  PlayerIsWhole
  NobodyLingers
  WispMatchesState
PROPERTIES
  TickerGoesOn
\* Everybody has left: the rooms are empty.
CHECK_DEADLOCK FALSE
