SPECIFICATION QueuesSpec
CONSTANTS
  Events = {e1}
  Endpoints = {s1}
  PushWorkers = {p1, p2}
  PushAttempts = 3
  MaxPushCrashes = 2
  RemoteFollows = {}
  Notes = {n1}
  InboxWorkers = {i1, i2}
  Nobody = Nobody
  MaxTries = 2
  MaxInboxCrashes = 1
  MaxFailures = 1
  MaxOverlaps = 1
INVARIANTS PushDuplicateExplained OptOutHolds
PROPERTIES PushSettles IntakeSettles
CHECK_DEADLOCK FALSE
