SPECIFICATION IngestorSpec
CONSTANTS
    MaxAny = 0
    MaxPaired = 0
    Traces <- MCIngestorTraces
    MaxPublished = 2
    MaxFaults = 2
    OurAddresses <- MCOurAddresses
    NoDestination = NoDestination
    JettonPrice = 3
    TonPrice = 2
    PriceFails = TRUE
INVARIANTS IngestorTypeOK PostedIsStored AllOrNothing
PROPERTY DeliveredIsPosted
CHECK_DEADLOCK FALSE
