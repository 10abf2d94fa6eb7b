SPECIFICATION Spec
CONSTANTS
    Payments = {p1, p2}
    None = None
    Rejected = Rejected
    Needs = {{"mappings"}, {"rates"}}
    TTL = 3
    MaxLoad = 1
    MaxChanges = 1
    MaxFailures = 1
SYMMETRY Interchangeable
INVARIANTS RateAndAmountAgree
PROPERTIES PreparedWithRecentData CachesGoBackOnlyByOverlap
