\* Two timers expire in one view whose block is certified.
SPECIFICATION LiveSpec
CONSTANTS
    v1 = v1  v2 = v2  v3 = v3  v4 = v4
    Validator <- Four  Quorum = 3
    Target = 1  MaxLate = 2
PROPERTIES
    ChainGrows
CHECK_DEADLOCK FALSE
