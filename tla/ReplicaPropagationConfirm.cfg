CONSTANTS
    Replicas = {r1}
    Restarts = {r1}
    MaxConn = 2
    MaxRuns = 1
SPECIFICATION Spec
INVARIANT RestartConfirmed
