CONSTANTS
  t1 = t1  t2 = t2  h1 = h1  h2 = h2
  Task = {t1, t2}
  Host = {h1, h2}
  HostOf <- OnOneHost
  Attempts <- OneAndTwo
  Thread = {w1, w2}
  Loop = loop
  MaxInFlight = 2
SPECIFICATION Spec
SYMMETRY Alike
CONSTRAINT TwoOfOneKind
INVARIANTS
  TypeOK
PROPERTIES
  ReservationNeverReturns
  AttemptClaimedOnce
CHECK_DEADLOCK FALSE
