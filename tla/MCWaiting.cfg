SPECIFICATION Spec
CONSTANTS
  Moves <- MCMoves
  Interval = 2
  Delay = 3
  Unit = 1
  CallTime = 1
  RetryAfter = 1
  Timeouts = {0, 1, 5}
  Tries = {0, 2}
  MaxChanges = 3
INVARIANTS
  KeptIsSeen
  EndsInTime
  NilIsTrue
  RefusedByOthers
  SentOnce
  AzureEndIsSeen
PROPERTIES
  EventuallyReturns
CHECK_DEADLOCK FALSE
