SPECIFICATION CrawlSpec
CONSTANTS
    Requests = {a, b, c}
    Nobody = Nobody
    Limit = 1
    MaxQueue = 1
    MaxStruck = 3
    MaxFaults = 1
    MaxExpiries = 1
PROPERTY DeadlineStaysPrivate
SYMMETRY RequestSymmetry
CHECK_DEADLOCK FALSE
