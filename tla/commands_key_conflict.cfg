SPECIFICATION Spec
CONSTANTS
    c1 = c1
    c2 = c2
    Commands = {c1}
    Expiring = {}
    Sends <- MCSends
    AckEvents = {e1}
    Workers = {w1}
    PollLimit = 1
    ExpireLimit = 1
INVARIANT RefusedKeysDiffer
CHECK_DEADLOCK FALSE
