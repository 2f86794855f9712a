SPECIFICATION AccountsSpec
CONSTANTS
  WebAuthnKeys = {c1, c2}
  TotpDevices = {t1}
  Idents = {i1}
  Users = {u1, u2, u3}
  Callers = {r1, r2}
  MaxGrants = 2
  Threshold = 2
  MaxWrong = 4
  Scopes = {read}
  Codes = {c1, c2}
  Families = {a1, a2}
  Requests = {r1, r2}
  NoOne = NoOne
  MaxPairs = 3
  MaxEpochs = 1
SYMMETRY Symmetry
INVARIANTS
  PathRemains GrantOneShot AdminRemains LockoutBound
  OneLiveRefresh ReuseIsFatal ChangeInvalidates RevocationHolds
CHECK_DEADLOCK FALSE
