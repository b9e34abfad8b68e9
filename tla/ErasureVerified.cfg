\* A verification that overlaps a forget, with no sweeper at all.
SPECIFICATION ErasureSpec
CONSTANTS
    Rows <- OneRow
    Key <- TwoSources
    Sweeping = FALSE
    MaxCrashes = 0
    MaxReads = 0
INVARIANTS
    VerifiedMeansErased
