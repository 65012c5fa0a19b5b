CONSTANTS
  a1 = a1  d1 = d1  i1 = i1  i2 = i2  i3 = i3
  h10 = h10  h11 = h11  h20 = h20  h21 = h21
  Accounts = {a1}
  Intents = {d1, i1}
  Owner <- MCOwner
  Amount <- MCAmount
  Agreements = {}
  Withdrawals = {i1}
  Workers = {w1, w2}
  Hashes = {h10, h11}
  FailureCodes = {c1}
  Slots = {s1, s2}
  Overlapping = {i1}
  Pays <- MCPays
  NonceOf <- MCNonceOf
  Direct = {h10, h11}
  PrepareError <- Executable
  MaxFaults = 2
SPECIFICATION ExecSpec
INVARIANTS
  PaidAtMostOnce
SYMMETRY Symmetry
CHECK_DEADLOCK FALSE
