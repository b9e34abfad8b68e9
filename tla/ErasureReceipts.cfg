\* Forgetting, sweeping and verifying at once, with crashes and open snapshots.
SPECIFICATION FairErasureSpec
CONSTANTS
    Rows <- TwoRows
    Key <- TwoSources
    Sweeping = TRUE
    MaxCrashes = 1
    MaxReads = 2
INVARIANTS
    ErasureTypeOK
    TruncatedReceiptMeansErased
    VerifiedCoversEarlierPurges
PROPERTIES
    PurgedContentLeavesDisk
