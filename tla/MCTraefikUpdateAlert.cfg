SPECIFICATION FairSpec
CONSTANTS
  None = None
  Versions = {1, 2}
  Opts = {"a"}
  Broken <- NothingBroken
  MaxRequests = 0
  MaxManual = 0
  MaxOutside = 1
  MaxMishaps = 1
PROPERTIES
  UnmanagedAlerted
