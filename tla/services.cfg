CONSTANTS
  q1 = q1  q2 = q2  q3 = q3  nA = nA  nB = nB  d1 = d1  d2 = d2
  Session = {x1, x2}
  Report = {q1, q2, q3}
  Collected <- ByAge
  Name <- Renamed
  NoReport = NoReport
  NoName = NoName
  MaxPending = 1
  Thread = {y1, y2}
  Loop = loop
  MaxInFlight = 2
  Handler = {x1, x2}
  Generations = 3
  Lifetime = 4
  Grace = 2
  MaxTime = 9
  Digest = {d1, d2}
  Size <- Sizes
  MaxBytes = 2
  Block = {b1, b2}
  Worker = {x1, x2}
  Reader = {y1, y2}
  NoDigest = NoDigest
  NoBlock = NoBlock
  NoOne = NoOne
  Steps = 3
  Retries <- OneRetry
  WithRollback = {1, 3}
  Receiver = {x1, x2}
  Pieces = 3
  MaxIndices = 2
SPECIFICATION Spec
SYMMETRY Alike
INVARIANTS
  ServicesTypeOK
  PendingBounded
  HostShowsLatest
  OverlapBounded
  CachedIsWhole
  LeasedStays
  SuccessHasEffects
  RefusalMeansProgress
CHECK_DEADLOCK FALSE
