SPECIFICATION PartsSpec
CONSTANTS
    Burst = 3
    Rate = 1
    Second = 2
    MaxUrls = 5
    MaxTime = 8
    a1 = a1
    a2 = a2
    a3 = a3
    p1 = p1
    p2 = p2
    h1 = h1
    h2 = h2
    Attempts = {a1, a2, a3}
    Processes = {p1, p2}
    Home <- MCHome
    Hosts = {h1, h2}
    Host <- MCHost
    Global = global
    GlobalInterval = 1
    Intervals = {0, 1}
    Remainings = {1}
    Timeout = 1
    Horizon = 3
    Margin = 1
    Delay = 1
    None = None
    MaxClock = 3
    MaxFaults = 1
    Requests = {a, b, c, d, e}
    Limit = 2
    MaxQueue = 3
    v1 = v1
    v2 = v2
    v3 = v3
    Visits = {v1, v2, v3}
    Transport <- MCTransport
    Permitted = {v1}
    KeepSeconds = 2
    RetrySeconds = 1
    FetchTime = 1
    StoreDelay = 1
    MaxRobotsTime = 3
    ExtractOptions <- MCOptions
    Statuses = {0, 200, 304, 403}
    Recorders = {r1, r2}
    Ring = 2
    Latencies = {1, 2, 3, 4}
    Bounds <- MCBounds
    Patience = 1
    MaxRecords = 3
    MaxMinute = 3
    ByteLimit = 1
    ChunkSize = 2
    Many = 3
    MaxUnits = 6
    MaxBytes = 2
    Drainable = 3
    Pieces = {0, 1, 2}
    MaxSent = 9
    Calls = {c1, c2}
    UrlsAllowed = 2
    UrlCeiling = 3
    MaxTokens = 1
    MaxJobs = 1
INVARIANTS PartsTypeOK WindowBound RetryIsEnough SlotsApart BacklogBounded RefusedForCause CapacityInv RobotsAnswersOwnAndRecent ExtractHonest MetricsHonest BodyHonest BodyKept PartsOutliveTheirUsers CallsInOrder
CHECK_DEADLOCK FALSE
