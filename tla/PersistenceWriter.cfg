\* Two keys that can be resubmitted for ever, in a queue with room for both, so that resubmission
\* changes their order; a third to be refused, with a receipt of its own.
CONSTANTS
  Keys = {anna, bert, cleo}
  States = {blank, rich}
  Receipts = {r1, r2, r3}
  InitialState = blank
  NoKey = nokey
  PendingKeyLimit = 2
  Excess = cleo
  Spare = r3
SPECIFICATION Spec
CONSTRAINT ExcessIsRefused
INVARIANTS
  TypeOK
  QuietKeyIsSettled
PROPERTIES
  ReportsAreTrue
  ImplementsStore
  LeftAloneIsSettled
  ClosingEnds
