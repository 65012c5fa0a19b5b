CONSTANTS
  a1 = a1  d1 = d1  d2 = d2  h1 = h1  h2 = h2
  Accounts = {a1}
  Intents = {d1, d2}
  Owner <- MCOwner
  Amount <- MCAmount
  Agreements = {}
  Deposits = {d1, d2}
  AutoApproved = {}
  Hashes = {h1, h2}
  Slots = {s1, s2}
  Overlapping = {}
  MaxReviews = 1
  Workers = {w1, w2}
  Pays <- MCPays
  Native = {d1, d2}
  Malformed = {d2}
  MaxFaults = 1
SPECIFICATION FairSpec
INVARIANTS
  CreditWasFunded
PROPERTIES
  RecordedIsConcluded
CHECK_DEADLOCK FALSE
