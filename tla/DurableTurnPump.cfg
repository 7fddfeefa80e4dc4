SPECIFICATION Spec
CONSTANTS
  r1 = r1
  r2 = r2
  r3 = r3
  Nobody = Nobody
  Request <- ThreeRequests
  MaxAgents = 1
  MaxRuns = 1
  MaxSaid = 3
CHECK_DEADLOCK FALSE
INVARIANT NothingLost
SYMMETRY Symmetric
