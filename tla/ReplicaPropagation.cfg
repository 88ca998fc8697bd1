CONSTANTS
    Replicas = {r1, r2}
    Restarts = {r1}
    MaxConn = 2
    MaxRuns = 1
SPECIFICATION FairSpec
INVARIANTS TypeOK DoneMeansSettled SuccessEarned
PROPERTIES SettledOnce PropagationEnds
