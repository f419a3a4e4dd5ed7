CONSTANTS
  BootSector = 1
  Artifacts <- TwoArtifacts
  DiskSize = 10
  Script <- AgentScript
  Lease = 2
SPECIFICATION FairSpec
INVARIANTS
  TypeOK
  CapturesNeverGoBack
  EventsNumberedOnce
  NotLeftFrozen
  SuccessIsFinal
PROPERTIES
  TaskIsReleased
CHECK_DEADLOCK FALSE
