SPECIFICATION Spec
CONSTANTS
  v1 = v1
  v2 = v2
  v3 = v3
  Versions = {v1, v2}
  Head <- GrowingHead
  Compatible = {2}
  NoState = NoState
  MaxDeploys = 1
  MaxMishaps = 1
INVARIANT SecondFaultForRollbackFailure
CHECK_DEADLOCK FALSE
