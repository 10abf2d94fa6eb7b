SPECIFICATION FairSpec
CONSTANTS
    Calls = {a, b, c}
    FailureThreshold = 3
    FailureRateThreshold = 50
    MinSamples = 3
    Cooldown = 2
    Window = 3
    MaxSuccesses = 7
    MaxFailures = 5
INVARIANTS ClosedBelowThreshold HalfOpenIsProbed
PROPERTIES Recovers
