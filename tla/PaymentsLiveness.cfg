SPECIFICATION FairSpec
CONSTANTS
    Payments = {p1}
    NoPayment = NoPayment
    Rails = {PIX, SWIFT}
    AdapterRails = {PIX}
    NoRail = NoRail
    AckIds = {a1}
    Callers = {c1}
    MaxRetries = 1
    MaxDbErrors = 1
    MaxCrashes = 1

PROPERTIES HandlersEnd DeadLettersAreRecorded RailIsHeard UnreachableRailFails
CHECK_DEADLOCK FALSE
