--------------------------- MODULE MCTraceParser ---------------------------
(***************************************************************************)
(* TraceParser over the traces of bounded length that can be put together  *)
(* from one transaction of every kind the gateway, the gas service and the *)
(* ITS contract produce.                                                   *)
(***************************************************************************)
EXTENDS TraceParser

CONSTANTS
    MaxAny,     \* length of the traces made of any transactions
    MaxPaired   \* length of the traces made of calls, payments and ITS logs

Body(form, payload_hash, message_id, amount) ==
    [form |-> form, destination_chain |-> "avalanche", destination_address |-> "0x",
     payload_hash |-> payload_hash, message_id |-> <<"ref", message_id>>,
     amount |-> amount]

NoBody == Body("none", "none", 0, 0)

\* A log costs its forwarding; a message carries money to another account.
LogMsg(op, body) ==
    [destination |-> NoDestination, value |-> 0, fwd_fee |-> 2, op |-> op, body |-> body]
Sent(destination, value, op, body) ==
    [destination |-> destination, value |-> value, fwd_fee |-> 1, op |-> op, body |-> body]

MCTx(account, op, body, outs) ==
    [account |-> account, op |-> op, body |-> body, outs |-> outs,
     exit_code |-> 0, result_code |-> 0, fees |-> 3]

Call(hash) == MCTx("gateway", "CALL_CONTRACT", NoBody,
                   <<LogMsg("CALL_CONTRACT", Body("CallContract", hash, 0, 0))>>)
Paid(op, hash) == MCTx("gas_service", op, NoBody,
                       <<LogMsg("none", Body("NativeGasPaid", hash, 0, 3))>>)
Jetton(form) == MCTx("gas_service", "TRANSFER_NOTIFICATION", NoBody,
                     <<LogMsg("none", Body(form, "h1", 1, 5))>>)
ItsLog(form, op) == MCTx("its", "none", NoBody,
                         <<Sent("user", 4, "none", NoBody), LogMsg(op, Body(form, "none", 0, 2))>>)
Nullified(id) == Body("MessageExecuted", "none", id, 0)

Transfer == ItsLog("ITSInterchainTransfer", "INTERCHAIN_TRANSFER_LOG")

\* Calls, the payments for them, and the ITS logs they carry.
Paired ==
    {Call("h1"), Call("h2"), Paid("PAY_GAS", "h1"),
     Paid("PAY_NATIVE_GAS_FOR_CONTRACT_CALL", "h2"), Jetton("JettonGasPaid"), Transfer}

\* The root of a relayer_execute: the wallet sends the wrapped message to itself.
Root == MCTx("wallet", "none", NoBody,
             <<Sent("wallet", 20, "none", Body("RelayerExecuteWrapped", "none", 1, 0))>>)

Executed(outs) == MCTx("gateway", "NULLIFIED_SUCCESSFULLY", Nullified(1), outs)
Execute == Sent("app", 5, "GATEWAY_EXECUTE", NoBody)

\* The other transactions: a gateway that executes (its log first or second) or
\* approves, gas that is added or refunded, ITS logs, a rotation of the signers,
\* a notification that is neither kind of payment, a log that does not decode.
Others ==
    {Root, Executed(<<LogMsg("none", NoBody), Execute>>),
     Executed(<<Execute, LogMsg("none", NoBody)>>),
     MCTx("gateway", "MESSAGE_APPROVED", NoBody,
          <<LogMsg("none", Body("MessageApproved", "h1", 1, 0))>>),
     MCTx("gas_service", "ADD_NATIVE_GAS", NoBody,
          <<LogMsg("none", Body("NativeGasAdded", "none", 1, 3))>>),
     Jetton("JettonGasAdded"), Jetton("none"),
     MCTx("gas_service", "NATIVE_REFUND", NoBody,
          <<Sent("user", 6, "none", NoBody),
            LogMsg("none", Body("NativeGasRefunded", "none", 1, 6))>>),
     MCTx("its", "REGISTER_TOKEN_METADATA", NoBody,
          <<LogMsg("none", Body("ITSTokenMetadataRegistered", "none", 0, 0))>>),
     ItsLog("ITSInterchainTokenDeploymentStarted",
            "INTERCHAIN_TOKEN_DEPLOYMENT_STARTED_LOG"),
     ItsLog("ITSLinkTokenStarted", "LINK_TOKEN_STARTED_LOG"),
     MCTx("gateway", "none", NoBody,
          <<LogMsg("SIGNERS_ROTATED_LOG", Body("SignersRotated", "none", 0, 0))>>),
     MCTx("its", "none", NoBody, <<LogMsg("INTERCHAIN_TRANSFER_LOG", NoBody)>>)}

\* A relayer_execute that fails: the gateway refuses it, or the nullification runs
\* out of money in its action phase, after which it has sent nothing.  A root that
\* some other wallet sent does not decode.
Forward == MCTx("wallet", "none", NoBody,
                <<Sent("gateway", 15, "RELAYER_EXECUTE", NoBody)>>)
Refused == [MCTx("gateway", "RELAYER_EXECUTE", NoBody, <<>>) EXCEPT !.exit_code = 106]
Unfunded == [Executed(<<>>) EXCEPT !.result_code = 37]
Plain == MCTx("user", "none", NoBody, <<Sent("gas_service", 8, "none", NoBody)>>)

Uncaused == MCTx("user", NoInMsg, NoBody, <<>>)

Insufficient ==
    {<<root, Forward, Refused>> : root \in {Root, Plain}}
        \cup {<<root, Forward, Plain, tx, Unfunded>> : root \in {Root, Plain},
                                                        tx \in {Plain, Uncaused}}

\* Money that comes in from a user, and an execution or a refund that it pays for, or
\* more than pays for.
Rich == MCTx("user", "none", NoBody, <<Sent("wallet", 30, "none", NoBody)>>)

Relayed ==
    {<<root, Forward, last>> : root \in {Root, Plain, Rich}, last \in Others}

MCTraces ==
    BoundedSeq(Paired \cup Others, MaxAny) \cup BoundedSeq(Paired, MaxPaired)
        \cup Insufficient \cup Relayed

MCOurAddresses == {"wallet", "gateway", "gas_service"}

\* The executions of the runs are what the proofs about the parser assume.
ASSUME ExecutionAssumption == OneExecutionPerTrace

=============================================================================
