\* One handle and a record limit of two.
SPECIFICATION SpoolSpec
CONSTANTS
    Procs = {p}
    Events = {e1, e2, e3}
    Sessions = {{e1, e2, e3}}
    Ids = {f1, f2, f3}
    NoFile = NoFile
    Nobody = Nobody
    MaxRecords = 2
    MaxBytes = 4
    MaxSession = 3
    MaxSeq = 3
INVARIANTS
    RecordsBounded
