SPECIFICATION Spec
CONSTANTS
  None = None
  d1 = d1
  d2 = d2
  Domains = {d1, d2}
  Zoned = {d1, d2}
  g = g
  Groups = {g}
  Modes = {"active", "maintenance"}
  Kinds = {"call", "lost", "status", "disk", "db", "kill"}
  MaxRequests = 2
  MaxActive = 1
  MaxMishaps = 1
INVARIANTS
  TypeOK
  StoresMatchRows
  DeleteIsComplete
CHECK_DEADLOCK FALSE
