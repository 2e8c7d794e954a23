SPECIFICATION FairSpec
CONSTANTS
    Account = {gateway, gas}
    both = both
    Trace = {both, single}
    AccountsOf <- MCAccountsOf
    Retry = Retry
    MaxLt = 3
    RETRIES = 2
    PageLimit = 2
    Faults = {}
INVARIANTS TypeOK RecordedIsPublished CursorPassesRecorded
PROPERTY CompleteIsPublished
CHECK_DEADLOCK FALSE
