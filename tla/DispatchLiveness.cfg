\* Two rows and every bound one: a round of leasing, reaping or sweeping leaves
\* one behind.  Rows admitted at the start age out at the end of time, so both
\* can be outdated at once; rows admitted later must settle without the sweep.
SPECIFICATION FairSpec
CONSTANTS
    N = 2
    Deadline <- TightDeadlines
    ExpiresAt <- LongExpiries
    MaxAge <- EqualAges
    Size <- UnitSizes
    ForgetKey <- SameKey
    MaxItems = 1
    MaxBytes = 1
    LeaseDuration = 1
    MaxAttempts = 1
    BackoffBase = 1
    BackoffMax = 2
    ReceiptRetention = 2
    MaxQueueItems = 2
    MaxQueueBytes = 2
    SweepRows = 1
    ReapBudget = 1
    ScanRows = 1
    ProviderOutcomes = {}
    MaxTime = 2
PROPERTIES
    EveryAdmissionSettles
    ContentIsPurged
