SPECIFICATION FairSpec
CONSTANTS
  r1 = r1
  r2 = r2
  r3 = r3
  Nobody = Nobody
  Request <- TwoRequests
  MaxAgents = 2
  MaxRuns = 2
  MaxSaid = 2
INVARIANTS TypeOK FreeIsSettled PumpIsOwn UndeliveredStaysQueued
PROPERTIES NoToolCallTwice LockIsReleased
CHECK_DEADLOCK FALSE
