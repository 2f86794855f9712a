SPECIFICATION Spec
CONSTANTS
  Plans <- InsidePlan
  NoJournal = NoJournal
  MaxCrashes = 2
  MaxFaults = 0
INVARIANT ServesOneInstance
CHECK_DEADLOCK FALSE
