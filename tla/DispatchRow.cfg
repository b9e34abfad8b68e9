\* The whole life of one row, every operation.
SPECIFICATION Spec
CONSTANTS
    N = 1
    Deadline <- OneDeadline
    ExpiresAt <- OneExpiry
    MaxAge <- OneAge
    Size <- UnitSizes
    ForgetKey <- OneKey
    MaxItems = 1
    MaxBytes = 1
    LeaseDuration = 1
    MaxAttempts = 2
    BackoffBase = 1
    BackoffMax = 2
    ReceiptRetention = 1
    MaxQueueItems = 1
    MaxQueueBytes = 1
    SweepRows = 1
    ReapBudget = 1
    ScanRows = 1
    ProviderOutcomes = 
        {"applied", "provider_unavailable", "effect_unknown", "cancelled",
         "rejected_privacy_policy"}
    MaxTime = 5
INVARIANTS
    TypeOK
    AttemptsNeverReused
    LeaseUnanswered
    OneReceiptPerAttempt
    SettledHasEvidence
    NothingUndeliverable
PROPERTIES
    OnlyOwnerSettles
