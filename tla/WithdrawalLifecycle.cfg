CONSTANTS
  a1 = a1  d1 = d1  i1 = i1  i2 = i2
  Accounts = {a1}
  Intents = {d1, i1, i2}
  Owner <- MCOwner
  Amount <- MCAmount
  Agreements = {}
  Withdrawals = {i1, i2}
  Workers = {w1, w2}
  Hashes = {h1, h2}
  FailureCodes = {c1}
  Slots = {s1, s2}
  Overlapping = {}
SPECIFICATION Spec
INVARIANTS
  TypeOK
  ProjectionMatchesLedger
  EveryReservationFollowsStatus
  TxFollowsStatus
PROPERTIES
  ForwardOnly
  PromiseKept
SYMMETRY Symmetry
CHECK_DEADLOCK FALSE
