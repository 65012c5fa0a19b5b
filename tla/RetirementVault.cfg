CONSTANTS
  a1 = a1  d1 = d1  f1 = f1  f2 = f2  r1 = r1  c1 = c1
  Accounts = {a1}
  Intents = {d1, f1, f2, r1}
  Owner <- MCOwner
  Amount <- MCAmount
  Agreements = {}
  Fundings = {f1, f2}
  Releases = {r1}
  RuleChanges = {c1}
  RuleOwner <- MCRuleOwner
  Days = {0, 7, 21}
  VaultHandlers = {h1}
  Sweepers = {s1}
  Racing = {}
  MaxCrashes = 1
SPECIFICATION VaultFairSpec
INVARIANTS
  VaultMatchesLedger
PROPERTIES
  LockHolds
  ReleaseConcludes
CHECK_DEADLOCK FALSE
