SPECIFICATION RequestsSpec
CONSTANTS
    Requests = {a, b, c}
    Nobody = Nobody
    Limit = 1
    MaxQueue = 1
    MaxStruck = 1
    MaxFaults = 0
    MaxExpiries = 0
    u1 = u1
    u2 = u2
    u3 = u3
    Pages = {u1, u2, u3}
    Requested = u1
    NoPage = NoPage
    Issuers = {u1, u2, NoPage}
    Retries = 2
    MaxHops = 2
    Deadline = 3
    RetryAfters <- MCRetryAfters
    NoHint = NoHint
    MaxDelay = 2
    MaxBackoff = 2
    BrowserRetries = 2
    MaxBlocked = 2
    PageRequests = {r1}
    Selectors = {s1}
    MaxText = 1
    MinimumWaits = {1}
    StableFor = 1
    RequestWait = 2
    AutoWaitLimit = 1
    ChallengeLimit = 1
    PageDeadline = 2
    Conns = {c1, c2}
    MaxConnections = 1
INVARIANTS RequestsTypeOK AnswersTrue BrowserSound SettledIsTrue EgressSound
PROPERTIES RequestsCleared RequestsEnd
CHECK_DEADLOCK FALSE
