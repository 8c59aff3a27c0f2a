SPECIFICATION FairSpec
CONSTANTS
    Deployments <- MCDeployments
    Jobs = {j1, j2}
    Threads = {t1, t2}
    NoJob = NoJob
    MaxAttempts = 2
    MaxFaults = 1
INVARIANTS TypeOK RunningIsHeld RetriesBound
PROPERTY JobsSettle
