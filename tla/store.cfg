CONSTANTS
  Run = {r1, r2}
  NoRun = NoRun
  NoDir = NoDir
  Chunks = 2
SPECIFICATION Spec
SYMMETRY Runs
INVARIANTS
  TypeOK
  WholeWhenReady
  AtRestVerifies
  LostAgentsStayOut
CHECK_DEADLOCK FALSE
