SPECIFICATION FairSpec
CONSTANTS
    MAX_SHIFT = 2
    MAX_BITNUMBER = 2
    BITNUMBER_BASE = 4
    Timeout = 1
    MAX_RETRIES = 1
    PostDelay = 1
INVARIANTS TypeOK ResetIdAccepted
PROPERTIES IdsGrowInEpoch AlwaysRecovers
