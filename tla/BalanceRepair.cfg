CONSTANTS
  a1 = a1  a2 = a2  d1 = d1  i1 = i1  t1 = t1  t2 = t2  t3 = t3
  Accounts = {a1, a2}
  Intents = {d1, i1, t1, t2, t3}
  Owner <- MCOwner
  Amount <- MCAmount
  Agreements = {}
  Withdrawals = {i1}
  Workers = {w1}
  Hashes = {h1}
  FailureCodes = {c1}
  Slots = {s1}
  Overlapping = {}
  Transfers = {t1, t2, t3}
  Recipient <- MCRecipient
  ReviewedTransfers = {t1, t2}
  Deciders = {o1, o2}
  Contended = {}
  Scanners = {k1}
SPECIFICATION ReconciliationSpec
PROPERTIES
  RepairRebuildsFromLedger
CHECK_DEADLOCK FALSE
