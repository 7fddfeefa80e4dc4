CONSTANTS
  k1 = k1
  k2 = k2
  b1 = b1
  b2 = b2
  g1 = g1
  g2 = g2
  s = s
  r1 = r1
  r2 = r2
  Key = {k1, k2}
  NoKey = NoKey
  Sentinel = Sentinel
  Bucket = {b1, b2}
  Session = {s}
  NoSession = NoSession
  Gateway = {g1, g2}
  Granted <- MCGrantedUnlimited
  Request = {r1, r2}
  From <- MCFrom
  Threshold = 2
  MaxAttempts = 2
  MaxSoft = 2
  MaxEvents = 1
SPECIFICATION Spec
PROPERTIES OtherMarksSurvive
CHECK_DEADLOCK FALSE
