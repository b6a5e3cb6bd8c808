SPECIFICATION MCSpec
CONSTANTS
  p1 = p1
  p2 = p2
  Proc = {p1, p2}
  ModelKey = {1, 2}
  RunKey = {3}
  Size <- MCSize
  Short <- MCShort
  Limit <- MCLimit
  Ino = {1, 2, 3, 4, 5, 6, 7, 8}
  MaxSeq = 1
  MaxClock = 2
  MaxFaults = 1
  MaxDamage = 0
  None = None
INVARIANTS
  OneEntryOver
PROPERTIES
  EvictsOldest
  CallsEnd
  LockComesFree
CHECK_DEADLOCK FALSE
