SPECIFICATION MCSpec
CONSTANTS
  MaxInstances = 2
  MaxBuffers = 2
  MaxLeases = 2
  MaxBytes = 2
  TokenEnd = 5
  Byte = {0, 1}
  Zero = 0
  Key = {0, 1, 2, 3, 4}
  Value = {0, 1}
  KeyHash <- MCKeyHash
  SparseFirstCap = 2
  SparseMaxCap = 16
  Bytes = {"", "x", "y", "z"}
  Empty = ""
  Hash <- MCHash
  Name = {"p"}
  FirstCap = 2
  MaxCap = 16
  MaxTableBlobs = 3
  MaxChanges = 2
  MaxSteps = 2
  MaxActions = 3
  MaxLength = 1
  MaxFrames = 3
  MaxBlobs = 2
  MaxStack = 1
INVARIANTS
  TypeOK
  LeasesBacked
  BorrowsExact
  AccountsExact
  TokensUnique
  InternExact
  FindStable
  FramesBacked
  NothingLeaks
PROPERTIES
  SharedViewFrozen
  ExclusiveWritesInView
  ImplementsOwnership
  NoRevival
  ImplementsWords
  MachineEnds
CHECK_DEADLOCK FALSE
