SPECIFICATION Spec
CONSTANTS
  v1 = v1
  v2 = v2
  v3 = v3
  Versions = {v1, v2}
  Head <- SameHead
  Compatible = {}
  NoState = NoState
  MaxDeploys = 2
  MaxMishaps = 2
INVARIANTS
  TypeOK SingleLeader RoutedSlotStarted UninterruptedService LeaderLineIsFresh
  StateFileFaithful SecondFaultForRollbackFailure
PROPERTIES
  HistoryTruthful RefinesActiveSlot
CHECK_DEADLOCK FALSE
