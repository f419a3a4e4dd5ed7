CONSTANTS
  Machine <- AllMachines
  Growth = {0, 2}
  Tool = {"table", "ext4", "lvm", "resize", "swap", "gzip"}
SPECIFICATION Spec
INVARIANTS TypeOK
  RefusedBeforeWrite
  SuccessIsComplete
  OthersAreRestorable
CHECK_DEADLOCK FALSE
