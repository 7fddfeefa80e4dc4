SPECIFICATION FairSpec
CONSTANTS
  Log = {l1, l2}
  Session = {s1}
  NoAgent = NoAgent
  MaxTotal = 2
  MaxAttempts = 3
  Concurrency = 1
  MaxSwitches = 1
INVARIANTS BookedOnce
PROPERTIES AskedUntilBooked EveryTaskEnds
CHECK_DEADLOCK FALSE
