\* Two handles that append, commit, acknowledge and reclaim through crashes; the
\* record limit is out of reach.
SPECIFICATION SpoolSpec
CONSTANTS
    Procs = {p, q}
    Events = {e1, e2}
    Sessions = {{e1}, {e2}}
    Ids = {f1, f2, f3}
    NoFile = NoFile
    Nobody = Nobody
    MaxRecords = 3
    MaxBytes = 2
    MaxSession = 1
    MaxSeq = 2
SYMMETRY Symmetric
INVARIANTS
    SpoolTypeOK
    CommittedNeverLost
    OpensHealthy
    SettledStaysSettled
