SPECIFICATION Spec
CONSTANTS
    CoinPayments = {c1}
    QrPayments = {q1}
    CoinEvents = {e1}
    Workers = {w1, w2}
    Timers = {t1}
    Price = 2
    CoinValues <- MCCoinValues
    BatchLimit = 1
    MaxRefundCalls = 1
PROPERTY ConfirmedIsOnlyRefunded
CHECK_DEADLOCK FALSE
