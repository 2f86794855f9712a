SPECIFICATION Spec
CONSTANTS
  Follows = {f1, f2}
  Sessions = {s1}
  NoOne = NoOne
INVARIANT UndoSent
CHECK_DEADLOCK FALSE
