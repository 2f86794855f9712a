SPECIFICATION FairSpec
CONSTANTS
  Mails = {m1}
  Workers = {w1, w2}
  Operators = {o1}
  NoOne = NoOne
  MaxAttempts = 2
  Flock = FALSE
  MaxRetries = 2
  MaxCrashes = 1
INVARIANTS SentIsTruthful DuplicateExplained
PROPERTIES EventuallySettled
CHECK_DEADLOCK FALSE
