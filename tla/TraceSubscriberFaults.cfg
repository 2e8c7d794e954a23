SPECIFICATION Spec
CONSTANTS
    Account = {gateway, gas}
    both = both
    Trace = {both, single}
    AccountsOf <- MCAccountsOf
    Retry = Retry
    MaxLt = 3
    RETRIES = 1
    PageLimit = 1
    Faults = {"store", "db", "crash"}
INVARIANTS PublishedIsComplete CursorNeverAhead
CHECK_DEADLOCK FALSE
