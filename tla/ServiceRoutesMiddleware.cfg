SPECIFICATION Spec
CONSTANTS
  None = None
  d1 = d1
  Domains = {d1}
  Zoned = {d1}
  Groups = {}
  Modes = {"active", "maintenance", "disabled"}
  Kinds = {"call"}
  MaxRequests = 1
  MaxActive = 1
  MaxMishaps = 1
INVARIANTS
  MiddlewareWhileUsed
CHECK_DEADLOCK FALSE
