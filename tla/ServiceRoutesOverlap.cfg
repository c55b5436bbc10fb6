SPECIFICATION FairSpec
CONSTANTS
  None = None
  d1 = d1
  Domains = {d1}
  Zoned = {}
  Groups = {}
  Modes = {"active", "maintenance", "disabled"}
  Kinds = {"disk", "db", "kill"}
  MaxRequests = 2
  MaxActive = 2
  MaxMishaps = 2
INVARIANTS
  SyncRepairs
PROPERTIES
  RowsKeepIdentity
  MaintenanceEnds
CHECK_DEADLOCK FALSE
