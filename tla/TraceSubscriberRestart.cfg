SPECIFICATION Spec
CONSTANTS
    Account = {gateway, gas}
    both = both
    Trace = {both, single}
    AccountsOf <- MCAccountsOf
    Retry = Retry
    MaxLt = 3
    RETRIES = 1
    PageLimit = 2
    Faults = {"crash"}
INVARIANT CursorPassesRecorded
CHECK_DEADLOCK FALSE
