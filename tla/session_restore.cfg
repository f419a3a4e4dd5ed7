CONSTANTS
  BootSector = 1
  Artifacts <- TwoArtifacts
  DiskSize = 10
  Script <- AgentScript
  Lease = 2
SPECIFICATION Spec
INVARIANTS
  RestorationsNeverGoBack
CHECK_DEADLOCK FALSE
