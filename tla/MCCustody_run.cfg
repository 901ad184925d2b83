\* One view of four validators; the leader or another may crash, again and again.
SPECIFICATION LiveSpec
CONSTANTS
    v1 = v1  v2 = v2  v3 = v3  v4 = v4
    Validator <- Four  Leader = v1  Quorum = 3
    Fragile <- LeaderOrOther  MaxCrashed = 1
INVARIANTS
    TypeOK VotersKeep CertifiedBlockHeld
PROPERTIES
    VotersNeedNoFetch CertifiedBlockSpreads
CHECK_DEADLOCK FALSE
