SPECIFICATION Spec
CONSTANTS
    c1 = c1
    c2 = c2
    Commands = {c1}
    Expiring = {c1}
    Sends <- MCSends
    AckEvents = {e1, e2}
    Workers = {w1, w2}
    PollLimit = 1
    ExpireLimit = 1
PROPERTY TerminalStays
CHECK_DEADLOCK FALSE
