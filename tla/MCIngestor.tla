----------------------------- MODULE MCIngestor -----------------------------
(***************************************************************************)
(* Ingestor over a handful of the traces of MCTraceParser.                 *)
(***************************************************************************)
EXTENDS Ingestor, MCTraceParser

\* A call with its payment and its ITS log, a payment in jettons before its call,
\* a payment that belongs to no call and has no event, a call nobody paid for.
MCWellFormed ==
    {<<Call("h1"), Paid("PAY_GAS", "h1"), Transfer>>,
     <<Jetton("JettonGasPaid"), Call("h1")>>,
     <<Paid("PAY_GAS", "h2")>>,
     <<Plain, Call("h2")>>}

\* A log that does not decode after one that does, an ITS log without a call, and a
\* failed execution that this relayer did not send.
MCMalformed ==
    {<<Call("h1"), MCTx("its", "none", NoBody,
                        <<LogMsg("INTERCHAIN_TRANSFER_LOG", NoBody)>>)>>,
     <<Call("h2"), Transfer, Transfer>>,
     <<Plain, Forward, Refused>>}

MCIngestorTraces == MCWellFormed \cup MCMalformed

\* The transactions of the runs are what the proofs about the parser assume.
ASSUME RecognisedAssumption ==
    LogsRecognised /\ \A tx \in Paired \cup Others : LogRecognised(tx)

ASSUME MalformedAssumption == {t \in Traces : Malformed(t)} = MCMalformed

=============================================================================
