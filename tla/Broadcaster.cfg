SPECIFICATION Spec
CONSTANTS
    Worker = {p1, p2}
    Wallet = {w1}
    Faults = {"redis", "crash"}
    LockTTL = 2
    HoldLimit = 1
    MAX_SHIFT = 3
    MAX_BITNUMBER = 2
    BITNUMBER_BASE = 4
    Timeout = 1
    MAX_RETRIES = 1
    Provers = {}
    Executes = {e1, e2}
    Refunds = {}
    Poor = {poor}
    Task <- MCTask
    Job <- MCJob
    GasEstimates <- MCGasEstimates
    NoTask = NoTask
    HTTP_RETRIES = 2
    ForeignId <- MCForeignId
SYMMETRY Symmetry
INVARIANTS TypeOK SentIsExecuted DistinctInFlight ExecutedOnce
CHECK_DEADLOCK FALSE
