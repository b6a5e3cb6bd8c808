SPECIFICATION MCSpec
CHECK_DEADLOCK FALSE
CONSTANTS
  Proc = {p1, p2}
  Opt = {1, 2}
  Header = {"a", "b"}
  Source = source
  Product = product
  Search <- MCSearch
  Versions <- MCVersions
  Includes <- MCIncludes
  First <- MCFirst
  Alike = {1, 2}
  MaxEdits = 2
  None = None
SYMMETRY Twins
PROPERTIES
  HitFresh
  MissForCause
