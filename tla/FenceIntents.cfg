\* Three host operations on one source, retried, started over and cut short.
SPECIFICATION FenceSpec
CONSTANTS
    Ops = {o1, o2, o3}
    Revisions = {"r1", "r2"}
    MaxFailures = 1
SYMMETRY Symmetric
INVARIANTS
    FenceTypeOK
    AppliedOnce
    StrongIntentIsFinal
    AdmissionsFollowDeletions
PROPERTIES
    RetriesGetTheirReceipt
