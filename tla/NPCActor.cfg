\* A gameplay thread, the ticker and another caller of tick(), and one thread that removes the
\* NPC or stops it; a mailbox of one place, so that it fills.
CONSTANTS
  Callers = {room, ticker, direct}
  Tickers = {ticker, direct}
  Stoppers = {stopper}
  Jobs = {j1, j2}
  Workers = {w1, w2}
  None = none
  mailbox_limit = 1
SPECIFICATION Spec
INVARIANTS
  ActorTypeOK
  OneWorker
  SleepsOnlyWhenIdle
  NothingIsLeftBehind
PROPERTIES
  ImplementsBoard
  EveryJobIsAnswered
