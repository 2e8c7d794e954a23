SPECIFICATION FairSpec
CONSTANTS
    Worker = {p1, p2}
    Wallet = {w1}
    Faults = {}
    LockTTL = 2
    HoldLimit = 1
    MAX_SHIFT = 3
    MAX_BITNUMBER = 2
    BITNUMBER_BASE = 4
    Timeout = 1
    MAX_RETRIES = 1
    Provers = {a1}
    Executes = {}
    Refunds = {r1}
    Poor = {}
    Task <- MCTask
    Job <- MCJob
    GasEstimates <- MCGasEstimates
    NoTask = NoTask
    HTTP_RETRIES = 1
    ForeignId <- MCForeignId
INVARIANT NothingLeaked
PROPERTY TasksEnd
CHECK_DEADLOCK FALSE
