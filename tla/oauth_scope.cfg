SPECIFICATION Spec
CONSTANTS
  Scopes = {read, write}
  Codes = {c1}
  Families = {a1}
  Requests = {r1, r2}
  NoOne = NoOne
  MaxPairs = 1
  MaxEpochs = 1
SYMMETRY Symmetry
INVARIANT ScopesAllowed
CHECK_DEADLOCK FALSE
