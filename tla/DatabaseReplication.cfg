SPECIFICATION FairSpec
CONSTANTS
    Replicas = {r1}
    Requests = {q1}
    Checkers = {c1, c2}
    MaxRequests = 2
    Nobody = Nobody
    NTables = 2
    NBatches = 2
    Excluded = {2}
    Jobs = {j1, j2}
    MaxWrites = 1
    MaxFaults = 1
INVARIANTS CleanReplace AlertedOnce
PROPERTY StandbyRefreshed
CHECK_DEADLOCK FALSE
