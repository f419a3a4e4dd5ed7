CONSTANTS
  t1 = t1  t2 = t2  h1 = h1  h2 = h2
  Task = {t1, t2}
  Host = {h1, h2}
  HostOf <- OnTwoHosts
  Attempts <- OneEach
  Thread = {w1}
  Loop = loop
  MaxInFlight = 2
SPECIFICATION Spec
INVARIANTS
  EndedHasNoSlot
CHECK_DEADLOCK FALSE
