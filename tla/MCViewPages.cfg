SPECIFICATION Spec
CONSTANTS
    LogPages = 2
    LogDays = {1, 2}
    Deployments <- MCDeployments
    HistoryPanels = {"deployment", "traefik", "maintenance", "watchdog", "bottleneck"}
    GeneratedFor <- MCGeneratedFor
    Names <- MCNames
    NameKey <- MCNameKey
    SavedLimit = 2
    FilterFiles <- MCFilterFiles
    MaxQuotaErrors = 1
    Runs = {1, 2, 3}
    EntryType <- MCEntryType
    EntryDay <- MCEntryDay
    Today = 9
    HistoryPages = 2
    UnclassifiedRuns = {1, 2}
    WindowDays = 0
    ThresholdPercent = 50
    MinRuns = 2
    ListLimit = 2
    MaxSmokeRuns = 3
    LastSmokeDay = 1
    Retention = 2
    SoonWindow = 1
    ShownRuns = 2
    MaxFailedRuns = 3
    LastTime = 3
    ScheduleIds = {"s1", "s2"}
    CollapsedRows = 1
    MaxHours = 2
    MaxUpdates = 2
    ListFieldNames = {"domains", "networks"}
    MaxKeys = 4
    Containers <- MCContainers
    StoredServices <- MCStoredServices
INVARIANTS
    LinksRestore ShownAgreesWithData SentAsChosen
PROPERTIES
    ChangesAsAsked
CHECK_DEADLOCK FALSE
