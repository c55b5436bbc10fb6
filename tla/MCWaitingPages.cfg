SPECIFICATION Spec
CONSTANTS
    MaxSaves = 2
    MaxDiagnoses = 2
    MaxOpens = 2
    MaxPolls = 2
    MaxTime = 2
    GithubRuns = {1, 2}
    Ailing = {"backend"}
    AlertCooldown = 3
    LastRevision = 2
    MaxVisits = 3
    ShopFlaws <- MCShopFlaws
    FailureThreshold = 2
    StorefrontCooldown = 2
    MaxSlips = 1
    MaxRotations = 2
    MaxCuts = 1
INVARIANTS
    AnnouncementsTrue
PROPERTIES
    WaitsEnd
CHECK_DEADLOCK FALSE
