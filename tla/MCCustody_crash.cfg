\* Finding.
SPECIFICATION Spec
CONSTANTS
    v1 = v1  v2 = v2  v3 = v3  v4 = v4
    Validator <- Four  Leader = v1  Quorum = 3
    Fragile <- LeaderOrOther  MaxCrashed = 1
INVARIANTS
    VotersPersist
CHECK_DEADLOCK FALSE
