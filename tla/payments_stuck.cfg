SPECIFICATION FairSpec
CONSTANTS
    CoinPayments = {c1}
    QrPayments = {q1}
    CoinEvents = {e1}
    Workers = {w1}
    Timers = {t1}
    Price = 2
    CoinValues <- MCCoinValues
    BatchLimit = 1
    MaxRefundCalls = 1
PROPERTY EveryLivePaymentEnds
CHECK_DEADLOCK FALSE
