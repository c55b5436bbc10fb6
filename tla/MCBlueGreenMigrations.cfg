SPECIFICATION FairSpec
CONSTANTS
  v1 = v1
  v2 = v2
  v3 = v3
  Versions = {v1, v2, v3}
  Head <- GrowingHead
  Compatible = {2}
  NoState = NoState
  MaxDeploys = 2
  MaxMishaps = 1
INVARIANT MixedReleasesCompatible
PROPERTIES DeploymentEnds LeaderFollowsRoute
CHECK_DEADLOCK FALSE
