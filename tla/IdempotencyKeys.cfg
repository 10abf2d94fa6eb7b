SPECIFICATION FairSpec
CONSTANTS
    Requests = {r1, r2, r3}
    Nobody = Nobody
    Keys = {k1}
    NoKey = NoKey
    Bodies = {b1, b2}
    MaxDbErrors = 1
    MaxCrashes = 1

INVARIANTS OneExecutionPerKey  UnansweredKeysExplained
PROPERTIES ClaimsAreFinal EveryRequestIsAnswered
CHECK_DEADLOCK FALSE
