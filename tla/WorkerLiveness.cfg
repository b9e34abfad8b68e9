\* One row and a provider that may be replaced: shutdown ends the worker, no
\* cancelled instance comes back, a lost wake never strands the row.
SPECIFICATION FairWorkerSpec
CONSTANTS
    N = 1
    Deadline <- OneDeadline
    ExpiresAt <- OneExpiry
    MaxAge <- OneExpiry
    Size <- LargeSize
    ForgetKey <- OneKey
    MaxItems = 2
    MaxBytes = 2
    LeaseDuration = 1
    MaxAttempts = 1
    BackoffBase = 1
    BackoffMax = 1
    ReceiptRetention = 1
    MaxQueueItems = 2
    MaxQueueBytes = 4
    SweepRows = 1
    ReapBudget = 1
    ScanRows = 1
    ProviderOutcomes = {"applied"}
    MaxTime = 1
    MaxRounds = 2
    MaxProofAttempts = 2
    InstanceIds = {"i", "j"}
    MaxFaults = 1
PROPERTIES
    InstanceNotRevived
    ShutdownStopsWorker
    FreshRowsAreClaimed
CHECK_DEADLOCK FALSE
