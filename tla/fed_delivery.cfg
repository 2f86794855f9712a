SPECIFICATION FairSpec
CONSTANTS
  Deliveries = {d1}
  Workers = {w1, w2}
  Operators = {o1}
  NoOne = NoOne
  MaxAttempts = 2
  MaxCrashes = 1
  MaxMoves = 1
  MaxRequests = 1
INVARIANTS DeliveredIsTruthful DuplicateExplained
PROPERTIES EventuallySettled
CHECK_DEADLOCK FALSE
