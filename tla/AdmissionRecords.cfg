\* Records of every kind, two registrations and a remount or restart: everything is
\* decided in the end.
SPECIFICATION FairAdmissionSpec
CONSTANTS
    N = 4
    Session <- OneThenOthers
    NonMessages = {1}
    Withholdable = {4}
    Suspect = {3}
    Optional = {2}
    PageItems = 2
    MaxQueueItems = 2
    ShedOptionalAt = 1
    RefuseAt = 2
    BreachStreak = 1
    MaxTasks = 2
    MaxReg = 2
    MaxMounts = 1
INVARIANTS
    AdmissionTypeOK
    NoGapBelowWatermark
    LaneBounded
    DecidedOnce
PROPERTIES
    ReadmittedOnlyAtPosition
    EveryRecordDecided
CHECK_DEADLOCK FALSE
