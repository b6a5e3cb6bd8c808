SPECIFICATION Spec
CONSTANTS
  p1 = p1
  p2 = p2
  Proc = {p1, p2}
  ModelKey = {1}
  RunKey = {2}
  Size <- MCSize
  Short <- MCShort
  Limit <- MCLimit
  Ino = {1, 2, 3, 4, 5, 6}
  MaxSeq = 1
  MaxClock = 1
  MaxFaults = 1
  MaxDamage = 1
  None = None
INVARIANTS
  NoTornEntry
  TrimmedToLimit
PROPERTIES
  HitExact
  OpenFileKept
  EvictsOverBudgetOnly
CHECK_DEADLOCK FALSE
