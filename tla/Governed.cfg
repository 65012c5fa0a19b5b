CONSTANTS
  r1 = r1  t1 = t1
  Requests = {r1}
  Target <- MCTarget
  Workers = {w1, w2}
  Executors = {e1}
  MaxDispatches = 2
SPECIFICATION GovernedFairSpec

  
PROPERTIES
  
  PublishedIsDispatched
CHECK_DEADLOCK FALSE
