SPECIFICATION Spec
CONSTANTS
    l1 = l1
    Payments = {p1, p2}
    Lockers = {l1}
    Ports = {q1}
    LockerOf <- MCLockerOf
    Tokens = {t1, t2}
    Pins = {k1, k2}
    Workers = {w1, w2, w3}
SYMMETRY Symmetry
INVARIANTS
    TypeOK
    LockersAreExclusive
    PinOpensLocker
    StoresKeepOrder
    OfferStandsForLatest
PROPERTY ImplementsAllocation
