SPECIFICATION FairSpec
CONSTANTS
    c1 = c1
    c2 = c2
    Commands = {c1, c2}
    Expiring = {c1}
    Sends <- MCSends
    AckEvents = {e1, e2}
    Workers = {w1, w2}
    PollLimit = 2
    ExpireLimit = 1
INVARIANTS
    TypeOK
    HandedOutOnce
    RowsAgreeWithAnswers
    ProcessedAckLeftMark
PROPERTIES
    ImplementsQueue
    LapsedCommandsSettle
\* Every key and event is used at most once: the instance runs out.
CHECK_DEADLOCK FALSE
