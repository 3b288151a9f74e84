SPECIFICATION CrawlSpec
CONSTANTS
    Requests = {a, b, c}
    Nobody = Nobody
    Limit = 1
    MaxQueue = 1
    MaxStruck = 3
    MaxFaults = 1
    MaxExpiries = 1
INVARIANTS OneFetch FutureAlive SlotsMatch
PROPERTIES NoRepeatFetch CancelStaysPrivate
SYMMETRY RequestSymmetry
CHECK_DEADLOCK FALSE
