SPECIFICATION MaintenanceSpec
CONSTANTS
  Plans <- SafePlans
  NoJournal = NoJournal
  MaxCrashes = 3
  MaxFaults = 2
  Media = {m1}
  Commands = {c1, c2}
  MaxBackups = 2
  MaxMishaps = 1
  Admins = {a1}
  MaxRestarts = 1
  MaxPings = 2
  MaxProcs = 2
  MaxOrders = 2
  MaxVersion = 2
  MaxKills = 2
  Jobs = {j1}
  JobWorkers = {w1, w2}
  JobAttempts = 2
  MaxOpenJobs = 1
  MaxLapses = 2
  MaxMoves = 3
INVARIANTS NothingLost BackupConsistent ManagedProcess StartsWhole JobRunsExplained
PROPERTIES ImplementsAtomicRestore RestoreEndsOrRefuses BackupRemains LateAnswerHeals
CHECK_DEADLOCK FALSE
