SPECIFICATION EgressSpec
CONSTANTS
    Conns = {c1, c2}
    MaxConnections = 1
INVARIANT HandlersFinished
CHECK_DEADLOCK FALSE
