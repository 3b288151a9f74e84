SPECIFICATION FairSpec
CONSTANTS
    MaxRuns = 3
    MaxWorkers = 3
    None = None
    Size = 1
    MaxJobs = 2
    MaxDeaths = 1
INVARIANTS TypeOK TokensConserved WorkersAccounted
PROPERTIES PoolSettles
CHECK_DEADLOCK FALSE
