SPECIFICATION Spec
CONSTANTS
    Sections = {"upstream", "alert", "thresholds", "retention", "bottleneck", "smoke", "cloudflare"}
    MaxTurns = 2
    BackupFiles <- MCBackupFiles
    MaxClicks = 4
    ServiceIds = {"s1", "s2"}
    MaxServiceEvents = 2
    TemplateIds = {"t1", "t2"}
    AssignableIds = {"s1", "s2"}
    MaxAssignments = 2
    CatalogKinds = {"redirects", "users"}
    EntryIds = {1, 2}
    MaxRequests = 2
    Logs = {"l1", "l2"}
    MaxRowRequests = 2
    RotationDays = {1}
    MaxHostRequests = 2
    TraefikReleases <- MCTraefikReleases
    CertDomains = {"d1", "d2"}
    VolatileDomains = {"d1"}
    MaxPreflights = 3
    Probes = {"fine", "defaultCert"}
    AlertThreshold = 2
    RepeatWindow = 0
    Cooldown = 1
    LastDay = 1
    BoardMonitors = {"watchdog", "selfban", "systemd", "api", "latency"}
    StaleAfter = 2
    BoardCooldown = 2
    None = None
    Users = {1, 2}
    SessionIds = {1, 2, 3}
    Requests = {1, 2}
    Campaigns <- MCCampaigns
    MaxAccountRequests = 3
    MAX_AUTO_RETRY_ATTEMPTS = 2
    MAX_RETRIES_PER_RUN = 1
    Window = 2
    MaxAlerts = 2
    MaxManual = 1
    MaxCutOffs = 1
    LogRows = {1, 2}
    Processes = {"blue", "green"}
    AUDIT_RETENTION_BATCH_SIZE = 1
    MaxRetentionRuns = 2
    MaxRestores = 1
    MaxRetentionMishaps = 1
INVARIANTS
    AnswersBelong AdminRemains RevokedStays RetriesBounded NoLogLost
PROPERTIES
    WritesConfined OldPasswordRefused
CHECK_DEADLOCK FALSE
