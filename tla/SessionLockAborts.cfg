CONSTANTS
  Request = {r1, r2, r3}
  Abortable = {r2}
  NoTicket = NoTicket
SPECIFICATION Spec
INVARIANTS Serial
CHECK_DEADLOCK FALSE
