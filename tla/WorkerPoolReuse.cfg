SPECIFICATION Spec
CONSTANTS
    MaxRuns = 3
    MaxWorkers = 3
    None = None
    Size = 1
    MaxJobs = 2
    MaxDeaths = 1
INVARIANT OneProcessPerSlot
CHECK_DEADLOCK FALSE
