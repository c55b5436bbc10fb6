SPECIFICATION FairSpec
CONSTANTS
  None = None
  Versions = {1, 2}
  Opts = {"a", "b"}
  Broken <- OptionsBroken
  MaxRequests = 1
  MaxManual = 1
  MaxOutside = 1
  MaxMishaps = 1
INVARIANTS
  NoFalseUnmanaged
  CheckpointHealthy
PROPERTIES
  RequestConsumed
