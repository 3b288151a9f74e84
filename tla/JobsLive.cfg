SPECIFICATION FairSpec
CONSTANTS
    j1 = j1
    j2 = j2
    u1 = u1
    u2 = u2
    u3 = u3
    Jobs = {j1, j2}
    Urls = {u1}
    Nobody = Nobody
    MaxActive = 1
    Concurrency = 2
    Timeout = 1
    Ttl = 3
    LostAfter = 1
    Slack = 1
    Readers = {}
    PageLimit = 1
    LastSubmit = 0
    MaxTime = 4
    MaxFaults = 1
    MaxCrashes = 1
INVARIANTS ActiveBound
PROPERTIES EveryJobEnds ShutdownMarksJobs
CHECK_DEADLOCK FALSE
