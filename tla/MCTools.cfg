SPECIFICATION MCSpec
CONSTANTS
  Procs = 3
  TreeMax = 2
  Root = "/"
  None = None
  SafedelDepth = 2
  Sites <- MCSites
INVARIANTS
  NormalMeansGone
  FrozenComplete
  StatusTrue
  WithinCeiling
PROPERTIES
  CommandBounded
  ProtectedStay
  AnswersTrue
CHECK_DEADLOCK FALSE
