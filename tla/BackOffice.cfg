SPECIFICATION BackOfficeSpec
CONSTANTS
  Operators = {o1, o2}
  Snapshots = {n1, n2, n3}
  Resumes = {q1}
  WarningRatioBps = 11000
  Worlds <- MCWorlds
  Anchors = {a1}
  AnchorWorkers = {w1, w2}
  AnchorTxs = {t1, t2}
  Overrides = {v1, v2}
  MaxIncidents = 2
  MaxRestrictions = 2
  MaxCases = 2
  CaseOperators = {c1}
  MaxHandlers = 2
  StakedPools = {k1}
  StakeOps = {i1, i2, i3}
  Amounts = {1}
  MaxFunded = 1
  Pools = {k1, k2}
  PoolRequests = {g1}
  MaxSessions = 2
  MaxVersion = 2
  MaxIssuing = 2
  Recoveries = {r1}
  Checks = {e1}
  MaxPacks = 2
  MaxApprovals = 3
  MaxReviews = 2
  x1 = x1
  x2 = x2
  Agreements = {x1, x2}
  Collateral <- MCCollateral
  MaxRepaid = 1
  Authorizations = {1, 2, 3, 4, 5}
  AuthNonce <- MCAuthNonce
  AuthSigner <- MCAuthSigner
  Signers = {"s1", "s2"}
  Funds = 3
  Packages = {p1}
  AlertKeys = {y1}
  CriticalAlerts = {y1}
  AutoRouted = {y1}
  z1 = z1
  z2 = z2
  Targets = {z1, z2}
  DirectTargets = {z1}
  Failover <- MCFailover
  Subscribes <- MCSubscribes
  Senders = {b1, b2}
  MaxAlertCalls = 1
  MaxDeliveries = 2
INVARIANTS
  DualControl
  
  
  ActiveRestrictionHolds
  StakeIsBacked
  NothingOutlivesRevocation
  LineageIsHealthy
  CollateralIsHeld
  PaidAsAuthorized
  FailuresEscalate

  
CHECK_DEADLOCK FALSE
