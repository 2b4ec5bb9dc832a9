SPECIFICATION Spec
CONSTANTS
    CoinPayments = {c1}
    QrPayments = {q1}
    CoinEvents = {e1, e2}
    Workers = {w1, w2}
    Timers = {t1}
    Price = 2
    CoinValues <- MCCoinValues
    BatchLimit = 2
    MaxRefundCalls = 2
SYMMETRY Symmetry
INVARIANTS
    TypeOK
    ConfirmedIffPaid
    ProviderAgrees
    CoinsAreCredited
    ProcessedCoinHasRow
    RefundsAreDue
PROPERTIES
    ImplementsLedger
    ConfirmedIsKept
\* Every idempotency key and event is used at most once: the instance runs out.
CHECK_DEADLOCK FALSE
