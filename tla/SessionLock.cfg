CONSTANTS
  Request = {r1, r2, r3, r4}
  Abortable = {r1, r2}
  NoTicket = NoTicket
SPECIFICATION FairSpec
INVARIANTS TypeOK SerialWhileAttached FreeMeansFree
PROPERTIES NoOvertaking EveryWaiterServed ImplementsLine
CHECK_DEADLOCK FALSE
