SPECIFICATION Spec
CONSTANTS
    Requests = {r1, r2}
    Nobody = Nobody
    Keys = {k1}
    NoKey = NoKey
    Bodies = {b1, b2}
    MaxDbErrors = 0
    MaxCrashes = 0
SYMMETRY Interchangeable
INVARIANT OtherBodiesConflict
CHECK_DEADLOCK FALSE
