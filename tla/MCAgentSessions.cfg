CONSTANTS
    Ids = {s1, s2, s3}
    NoId = none
    Actions <- MCActions
    MaxSessions = 2
    MaxActions = 2
    MaxObservations = 2
    MaxTombstones = 1
    MaxRun = 2
    MaxReceipts = 2

SPECIFICATION Spec

CHECK_DEADLOCK FALSE

INVARIANTS
    TypeOK
    NoOrphan
    ExecutedIsRecorded
PROPERTIES
    KeepsLedger
    CallsEnd
