SPECIFICATION Spec
CONSTANTS
    l1 = l1
    Payments = {p1}
    Lockers = {l1}
    Ports = {q1}
    LockerOf <- MCLockerOf
    Tokens = {t1, t2}
    Pins = {k1}
    Workers = {w1}
INVARIANT OfferStands
