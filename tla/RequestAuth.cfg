SPECIFICATION Spec
CONSTANTS
  Installs = {i1}
  Keys = {k1, k2}
  Nonces = {n1, n2}
  Workers = {w1, w2}
  Skew = 1
  NonceTtl = 3
  Lag = 1
  Window = 2
  Limit = 1
  ClockErrors <- MCClockErrors
  MaxTime = 5
  MaxEnrols = 1
  NoKey = NoKey
  NoMessage = NoMessage
  NoRequest = NoRequest
SYMMETRY Symmetric
CHECK_DEADLOCK FALSE
INVARIANTS  BudgetIsOwn
