SPECIFICATION Spec
CONSTANTS
    Payments = {p1}
    NoPayment = NoPayment
    Rails = {PIX, SWIFT}
    AdapterRails = {PIX}
    NoRail = NoRail
    AckIds = {a1}
    Callers = {c1, c2}
    MaxRetries = 1
    MaxDbErrors = 1
    MaxCrashes = 1
SYMMETRY Interchangeable
INVARIANTS TypeOK StrandedOnlyByFaults AcksAreKept AnswersAreAnnounced
PROPERTIES PreparationOnlyAdvances HistoryIsCausal
CHECK_DEADLOCK FALSE
