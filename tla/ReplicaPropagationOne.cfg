CONSTANTS
    Replicas = {r1}
    Restarts = {r1}
    MaxConn = 2
    MaxRuns = 2
SPECIFICATION Spec
INVARIANT OneAtATime
