\* Two rows, one per round: the wake edge, the leases and the journal.
SPECIFICATION WorkerSpec
CONSTANTS
    N = 2
    Deadline <- BriefDeadlines
    ExpiresAt <- LongExpiries
    MaxAge <- LongExpiries
    Size <- PairSizes
    ForgetKey <- OneSource
    MaxItems = 2
    MaxBytes = 2
    LeaseDuration = 1
    MaxAttempts = 1
    BackoffBase = 1
    BackoffMax = 1
    ReceiptRetention = 1
    MaxQueueItems = 2
    MaxQueueBytes = 4
    SweepRows = 1
    ReapBudget = 1
    ScanRows = 1
    ProviderOutcomes = {"applied"}
    MaxTime = 1
    MaxRounds = 2
    MaxProofAttempts = 1
    InstanceIds = {"i", "j"}
    MaxFaults = 1
INVARIANTS
    WorkerTypeOK
    NoBacklogWithoutWake
    LeasesHaveHolders
PROPERTIES
    LateAnswersNeverSettle
    DrivesTheJournal
    ClaimsUnderProvedInstance
CHECK_DEADLOCK FALSE
