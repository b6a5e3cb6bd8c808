SPECIFICATION MCSpec
CONSTANTS
  Procs = 3
  TreeMax = 2
  Root = "/"
  None = None
  SafedelDepth = 2
  Sites <- MCTrashSites
INVARIANTS
  SweepProves
CHECK_DEADLOCK FALSE
