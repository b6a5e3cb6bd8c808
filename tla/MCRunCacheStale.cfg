SPECIFICATION MCSpec
CHECK_DEADLOCK FALSE
CONSTANTS
  Proc = {p1}
  Opt = {1}
  Header = {"a", "b"}
  Source = source
  Product = product
  Search <- MCSearch
  Versions <- MCVersions
  Includes <- MCIncludes
  First <- MCFirst
  Alike = {}
  MaxEdits = 2
  None = None
PROPERTIES
  CachedAsFresh
