SPECIFICATION Spec
CONSTANTS
  Scopes = {read}
  Codes = {c1, c2}
  Families = {a1}
  Requests = {r1, r2}
  NoOne = NoOne
  MaxPairs = 1
  MaxEpochs = 0
SYMMETRY Symmetry
INVARIANT RevocationComplete
CHECK_DEADLOCK FALSE
