CONSTANTS
  t1 = t1  t2 = t2  t3 = t3  h1 = h1  h2 = h2  i1 = i1  i2 = i2
  Task = {t1, t2}
  Image = {i1}
  Host = {h1, h2}
  NoImage = NoImage
  HostOf <- OnOneHost
  Operation <- CaptureThenRestore
  MaxAttempts = 2
  Lease = 1
SPECIFICATION Spec
PROPERTIES
  InterventionNeedsExpiry
CHECK_DEADLOCK FALSE
