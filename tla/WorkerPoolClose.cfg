SPECIFICATION Spec
CONSTANTS
    MaxRuns = 3
    MaxWorkers = 3
    None = None
    Size = 1
    MaxJobs = 2
    MaxDeaths = 0
INVARIANT CloseLeavesNothing
CHECK_DEADLOCK FALSE
