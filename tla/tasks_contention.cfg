CONSTANTS
  t1 = t1  t2 = t2  t3 = t3  h1 = h1  h2 = h2  i1 = i1  i2 = i2
  Task = {t1, t2, t3}
  Image = {i1, i2}
  Host = {h1, h2}
  NoImage = NoImage
  HostOf <- ThreeOnTwoHosts
  Operation <- TwoCapturesAndClone
  MaxAttempts = 1
  Lease = 1
SPECIFICATION Spec
SYMMETRY Images
INVARIANTS
  OneTransfer
  OneTaskPerHost
  ReservationFollowsStatus
  DeploymentHasImage
CHECK_DEADLOCK FALSE
