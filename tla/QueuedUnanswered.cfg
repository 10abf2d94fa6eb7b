SPECIFICATION Spec
CONSTANTS
    Payments = {p1}
    NoPayment = NoPayment
    Rails = {PIX}
    AdapterRails = {PIX}
    NoRail = NoRail
    AckIds = {a1}
    Callers = {}
    MaxRetries = 0
    MaxDbErrors = 0
    MaxCrashes = 0
INVARIANT QueuedMeansUnanswered
CHECK_DEADLOCK FALSE
