SPECIFICATION Spec
CONSTANTS
    Lengths = {5, 96, 97}
    Boundary = {0, 1, 95, 96, 97, 192, 193}
    Requests <- MCRequests
    Refunds <- MCRefunds
    Logs <- MCLogs
    Proofs <- MCProofs
INVARIANTS TypeOK DecodedIsWritten WrittenIsRead JettonsToldApart ExecutionNamesMessage
CHECK_DEADLOCK FALSE
