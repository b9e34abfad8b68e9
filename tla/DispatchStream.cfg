\* Two rows of one stream: the watermark, and the outbox the journal implements.
SPECIFICATION Spec
CONSTANTS
    N = 2
    Deadline <- TightDeadlines
    ExpiresAt <- TightExpiries
    MaxAge <- TightAges
    Size <- PairSizes
    ForgetKey <- TwoKeys
    MaxItems = 2
    MaxBytes = 2
    LeaseDuration = 1
    MaxAttempts = 1
    BackoffBase = 1
    BackoffMax = 2
    ReceiptRetention = 1
    MaxQueueItems = 2
    MaxQueueBytes = 4
    SweepRows = 1
    ReapBudget = 1
    ScanRows = 1
    ProviderOutcomes = {"applied"}
    MaxTime = 2
INVARIANTS
    WatermarkJustified
PROPERTIES
    WatermarkMonotone
    ImplementsOutbox
