SPECIFICATION Spec
CONSTANTS
    Payments = {p1}
    NoPayment = NoPayment
    Rails = {PIX}
    AdapterRails = {PIX}
    NoRail = NoRail
    AckIds = {a1}
    Callers = {c1}
    MaxRetries = 0
    MaxDbErrors = 1
    MaxCrashes = 0
INVARIANT CompensatedAcksAreReversed
CHECK_DEADLOCK FALSE
