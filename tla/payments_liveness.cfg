SPECIFICATION FairSpec
CONSTANTS
    CoinPayments = {c1}
    QrPayments = {q1}
    CoinEvents = {e1, e2}
    Workers = {w1}
    Timers = {t1}
    Price = 2
    CoinValues <- MCCoinValues
    BatchLimit = 1
    MaxRefundCalls = 1
PROPERTY StalePaymentsEnd
\* Every idempotency key and event is used at most once: the instance runs out.
CHECK_DEADLOCK FALSE
