SPECIFICATION RecoverySpec
CONSTANTS
  Fido = {f1, f2}
  Totp = {t1}
  Enrolled = {f1}
  MaxSession = 2
  MaxPending = 2
  MaxResets = 2
  Workers = {w1, w2}
  Limit = 1
SYMMETRY Symmetry
INVARIANTS Exclusive
PROPERTY RecoveryReplaces
CHECK_DEADLOCK FALSE
