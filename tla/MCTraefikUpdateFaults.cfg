SPECIFICATION Spec
CONSTANTS
  None = None
  Versions = {1, 2, 3, 4}
  Opts = {"a"}
  Broken <- NewestBroken
  MaxRequests = 3
  MaxManual = 0
  MaxOutside = 0
  MaxMishaps = 2
INVARIANTS
  TypeOK
  SettledBetweenRuns
  SuccessNeverDowngrades
PROPERTIES
  OneOutcome
  SentAlertStays
