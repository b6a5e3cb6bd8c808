SPECIFICATION MCSpec
CONSTANTS
  file1 = file1
  file2 = file2
  File = {file1}
  None = None
  Fd = {3, 4, 5}
  BufSize = 2
  Scopes <- MCLossScopes
  Base = {1, 17}
  Space = 24
  Top = 1
  Size <- MCSize
  Page = 8
  Chunk = 8
  Requests <- MCRequests
  Values = {1}
INVARIANTS
  LossObservable
CHECK_DEADLOCK FALSE
