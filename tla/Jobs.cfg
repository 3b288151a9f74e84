SPECIFICATION Spec
CONSTANTS
    j1 = j1
    j2 = j2
    u1 = u1
    u2 = u2
    u3 = u3
    Jobs = {j1}
    Urls = {u1, u2, u3}
    Nobody = Nobody
    MaxActive = 1
    Concurrency = 2
    Timeout = 1
    Ttl = 2
    LostAfter = 1
    Slack = 1
    Readers = {j1}
    PageLimit = 1
    LastSubmit = 0
    MaxTime = 5
    MaxFaults = 1
    MaxCrashes = 1
INVARIANTS TypeOK RowsGapFree RowsBackRecord ResultsBound
PROPERTIES ImplementsContract ReaderComplete
CHECK_DEADLOCK FALSE
SYMMETRY UrlSymmetry
