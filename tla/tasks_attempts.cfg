CONSTANTS
  t1 = t1  t2 = t2  t3 = t3  h1 = h1  h2 = h2  i1 = i1  i2 = i2
  Task = {t1, t2}
  Image = {i1}
  Host = {h1, h2}
  NoImage = NoImage
  HostOf <- OnOneHost
  Operation <- CaptureThenRestore
  MaxAttempts = 3
  Lease = 1
SPECIFICATION FairSpec
INVARIANTS
  TypeOK
  SlotFollowsStatus
  CapturingHasCapture
  SucceededIsPublished
PROPERTIES
  LegalTransitions
  EndedAttemptsStayEnded
  KeepsReservations
  SlotComesBack
CHECK_DEADLOCK FALSE
