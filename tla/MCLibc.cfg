SPECIFICATION MCSpec
CONSTANTS
  file1 = file1
  file2 = file2
  File = {file1, file2}
  None = None
  Fd = {3, 4, 5}
  BufSize = 2
  Scopes <- MCScopes
  Base = {1, 17}
  Space = 24
  Top = 1
  Size <- MCSize
  Page = 8
  Chunk = 8
  Requests <- MCRequests
  Values = {1}
SYMMETRY Twins
INVARIANTS
  SlotsOfOpenStreams
  ListsExact
  BlocksApart
  ContentsKept
PROPERTIES
  ImplementsStreams
  OthersKept
  CloseExact
CHECK_DEADLOCK FALSE
