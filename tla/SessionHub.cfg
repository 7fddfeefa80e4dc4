CONSTANTS
  s1 = s1
  s2 = s2
  s3 = s3
  plain = plain
  delegated = delegated
  Session <- MCSession
  Call <- MCCall
  CallsOf <- MCCallsOf
  Delegated = {delegated}
  Limits <- MCLimits
  NoTime = NoTime
SPECIFICATION FairSpec
INVARIANTS OrderIsLru TimerMatchesSlot DeadlineCoversHolds NoHoldForgotten
PROPERTIES HoldsGetTheirTtl EvictionSpares CapacityKept AwaitingEnds
CHECK_DEADLOCK FALSE
