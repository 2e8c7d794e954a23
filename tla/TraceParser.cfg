SPECIFICATION Spec
CONSTANTS
    MaxAny = 3
    MaxPaired = 4
    Traces <- MCTraces
    OurAddresses <- MCOurAddresses
    NoDestination = NoDestination
    JettonPrice = 3
    TonPrice = 2
    PriceFails = TRUE
INVARIANTS TypeOK EventIdsUnique CreditBelongsToCall PaidCallIsCredited
    ITSPairedInOrder ApprovalCostsAddUp ChargedIsLost OneOutcome
CHECK_DEADLOCK FALSE
