\* Two utterances, one of which may be withheld at a time, and one place in the queue; two
\* threads, so that a late answer meets the next one.
\* One output fits, so that a second one pushes it out (the code has room for eight, twice the
\* answers that may be withheld).
CONSTANTS
  Utterances = {u1, u2}
  Workers = {w1, w2}
  Scores = {1, 2}
  QueueLimit = 1
  PendingLimit = 1
  OutputLimit = 1
SPECIFICATION Spec
INVARIANTS
  AdvisoryTypeOK
  OneAnswer
PROPERTIES
  NothingLeaks
  EveryoneIsAnswered
