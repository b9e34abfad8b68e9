\* More exhausted rows than one lease call exhausts.
SPECIFICATION Spec
CONSTANTS
    N = 2
    Deadline <- TightDeadlines
    ExpiresAt <- TightExpiries
    MaxAge <- TightAges
    Size <- PairSizes
    ForgetKey <- TwoKeys
    MaxItems = 1
    MaxBytes = 4
    LeaseDuration = 1
    MaxAttempts = 1
    BackoffBase = 1
    BackoffMax = 2
    ReceiptRetention = 1
    MaxQueueItems = 2
    MaxQueueBytes = 4
    SweepRows = 1
    ReapBudget = 1
    ScanRows = 1
    ProviderOutcomes = {"applied"}
    MaxTime = 3
INVARIANT AttemptsBounded
