SPECIFICATION FollowsSpec
CONSTANTS
  RemoteFollows = {r1, r2}
  Notes = {}
  InboxWorkers = {i1, i2}
  Nobody = Nobody
  MaxTries = 2
  MaxInboxCrashes = 0
  MaxFailures = 1
  MaxOverlaps = 1
  Follows = {f1, f2, f3}
  Sessions = {s1, s2}
  NoOne = NoOne
SYMMETRY Symmetry
INVARIANTS AcceptedIsAnswered UndoOwnsFollow AcceptedIsOurs UndoQueued
CHECK_DEADLOCK FALSE
