SPECIFICATION Spec
CONSTANTS
  p1 = p1
  p2 = p2
  Proc = {p1, p2}
  ModelKey = {1}
  RunKey = {}
  Size <- MCSize
  Short <- MCShort
  Limit <- MCLimit
  Ino = {1, 2, 3, 4, 5}
  MaxSeq = 1
  MaxClock = 0
  MaxFaults = 1
  MaxDamage = 0
  None = None
PROPERTIES
  OwnTempKept
CHECK_DEADLOCK FALSE
