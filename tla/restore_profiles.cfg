CONSTANTS
  Machine <- RaidMachines
  Growth = {0}
  Tool = {}
SPECIFICATION Spec
INVARIANTS
  PublishedIsRestorable
CHECK_DEADLOCK FALSE
