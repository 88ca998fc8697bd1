CONSTANTS
    Replicas = {r1}
    Restarts = {r1}
    MaxConn = 2
    MaxRuns = 3
SPECIFICATION Spec
INVARIANT SuccessEarned
