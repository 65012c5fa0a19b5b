CONSTANTS
  a1 = a1  d1 = d1  d2 = d2
  Accounts = {a1}
  Intents = {d1, d2}
  Owner <- MCOwner
  Amount <- MCAmount
  Agreements = {}
  Deposits = {d1, d2}
  AutoApproved = {d2}
  Hashes = {h1, h2}
  Slots = {s1, s2}
  Overlapping = {}
  MaxReviews = 2
  Operators = {o1, o2}
  Replays = {r1, r2}
  MaxReplays = 2
SPECIFICATION ReplaySpec
INVARIANTS
  CreditFollowsProof
  RecordedIsNeverRequeued
  ReviewFollowsStatus
  ReplayTookEffect
SYMMETRY Symmetry
CHECK_DEADLOCK FALSE
