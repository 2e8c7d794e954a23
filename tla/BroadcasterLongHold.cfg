SPECIFICATION Spec
CONSTANTS
    Worker = {p1, p2}
    Wallet = {w1}
    Faults = {"redis", "crash"}
    LockTTL = 2
    HoldLimit = 2
    MAX_SHIFT = 3
    MAX_BITNUMBER = 2
    BITNUMBER_BASE = 4
    Timeout = 1
    MAX_RETRIES = 1
    Provers = {a1}
    Executes = {}
    Refunds = {r1}
    Poor = {}
    Task <- MCTask
    Job <- MCJob
    GasEstimates <- MCGasEstimates
    NoTask = NoTask
    HTTP_RETRIES = 0
    ForeignId <- MCForeignId
SYMMETRY Symmetry
INVARIANT ExclusiveAccess
CHECK_DEADLOCK FALSE
