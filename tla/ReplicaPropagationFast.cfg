CONSTANTS
    Replicas = {r1, r2}
    Restarts = {r1}
    MaxConn = 2
    MaxRuns = 1
SPECIFICATION Spec
PROPERTY FastRestartSeen
