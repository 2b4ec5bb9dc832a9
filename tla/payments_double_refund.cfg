SPECIFICATION Spec
CONSTANTS
    CoinPayments = {c1}
    QrPayments = {q1}
    CoinEvents = {e1}
    Workers = {w1, w2}
    Timers = {t1}
    Price = 2
    CoinValues <- MCCoinValues
    BatchLimit = 1
    MaxRefundCalls = 2
INVARIANT RefundedOnce
CHECK_DEADLOCK FALSE
