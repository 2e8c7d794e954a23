---------------------------- MODULE TraceParser ----------------------------
(***************************************************************************)
(* TraceParser::parse_trace of the Ingestor: how the transactions of one   *)
(* completed trace become the events that are sent to the GMP API.         *)
(*                                                                         *)
(* A first pass (create_parsers) hands every transaction to the first      *)
(* parser whose check_match accepts it; the rest of parse_trace pairs the  *)
(* parsers with one another, since gas payments and ITS logs carry the     *)
(* message_id of a contract call found elsewhere in the trace, and turns   *)
(* them into events.  Any error discards the whole trace.                  *)
(*                                                                         *)
(* A transaction is a record: its account, the opcode and body of its      *)
(* in_msg, its out_msgs, and the result codes of its compute and action    *)
(* phases.  A message body is a record whose form names the one BOC layout *)
(* it decodes as; an out_msg without destination is a log.  What the       *)
(* transactions cost is GasCalculator's.  A transaction is named by its    *)
(* position in the trace, which stands for its hash.                       *)
(***************************************************************************)
EXTENDS GasCalculator, FiniteSets

CONSTANTS
    Traces,         \* the traces to parse: sequences of transactions
    JettonPrice,    \* the price of a jetton and of TON in USD, as PriceView
    TonPrice,       \*   answers it, in a common unit
    PriceFails      \* BOOLEAN: PriceView may have no price to give

ASSUME ParserAssumption ==
    /\ \A t \in Traces : Len(t) \in Nat /\ DOMAIN t = 1..Len(t)
    /\ JettonPrice \in Nat
    /\ TonPrice \in Nat \ {0}
    /\ PriceFails \in BOOLEAN

\* A transaction after the first was caused by a message of the first; the amounts in
\* the messages are unsigned.
IsTrace(t) ==
    /\ Len(t) > 1 => 1 \in DOMAIN t[1].outs
    /\ \A i \in DOMAIN t :
          /\ IsTransaction(t[i])
          /\ t[i].body.amount \in Nat
          /\ \A m \in DOMAIN t[i].outs : t[i].outs[m].body.amount \in Nat

ASSUME TraceAssumption == \A t \in Traces : IsTrace(t)

VARIABLES
    trace,          \* the trace being parsed
    pc,             \* where parse_trace stands
    pos,            \* the next element of the loop that is running
    call_contract,  \* positions of the contract calls, in trace order
    gas_credit_map, \* key |-> position of the gas payment for that key
    its,            \* positions of the ITS logs, in trace order
    parsers,        \* positions of the others; 0 is the trace itself
    approved,       \* message_approved_count
    events          \* the events produced so far

vars ==
    <<trace, pc, pos, call_contract, gas_credit_map, its, parsers, approved, events>>

-----------------------------------------------------------------------------
(* Matching a transaction with a parser. *)

is_log(msg) == msg.destination = NoDestination

is_log_emmitted_in_opcode(tx, op, i) ==
    /\ tx.op = op
    /\ i \in DOMAIN tx.outs
    /\ is_log(tx.outs[i])

\* The position of the first log with this opcode, 0 if there is none.
is_log_emitted(tx, op) ==
    SelectInSeq(tx.outs, LAMBDA msg : is_log(msg) /\ msg.op = op)

CallContract(tx) ==
    tx.account = "gateway" /\ is_log_emmitted_in_opcode(tx, "CALL_CONTRACT", 1)

\* Mutant: the opcode alone decides.
MessageExecutedByOpcode(tx) ==
    tx.account = "gateway" /\ tx.op = "NULLIFIED_SUCCESSFULLY"

\* A nullified message is executed when the gateway logged it and sends the
\* execution on, in either order.
MessageExecuted(tx) ==
    LET first_log == is_log_emmitted_in_opcode(tx, "NULLIFIED_SUCCESSFULLY", 1)
        second_log == is_log_emmitted_in_opcode(tx, "NULLIFIED_SUCCESSFULLY", 2)
        sent == IF first_log THEN 2 ELSE 1
    IN  /\ tx.account = "gateway"
        /\ first_log \/ second_log
        /\ sent \in DOMAIN tx.outs
        /\ tx.outs[sent].op = "GATEWAY_EXECUTE"

MessageApproved(tx) ==
    tx.account = "gateway" /\ is_log_emmitted_in_opcode(tx, "MESSAGE_APPROVED", 1)

\* Mutant: only one of the two ways to pay is recognised.
NativeGasPaidOneOpcode(tx) ==
    /\ tx.account = "gas_service"
    /\ is_log_emmitted_in_opcode(tx, "PAY_NATIVE_GAS_FOR_CONTRACT_CALL", 1)

NativeGasPaid(tx) ==
    /\ tx.account = "gas_service"
    /\ \/ is_log_emmitted_in_opcode(tx, "PAY_NATIVE_GAS_FOR_CONTRACT_CALL", 1)
       \/ is_log_emmitted_in_opcode(tx, "PAY_GAS", 1)

NativeGasAdded(tx) ==
    tx.account = "gas_service" /\ is_log_emmitted_in_opcode(tx, "ADD_NATIVE_GAS", 1)

\* Jetton payments and additions arrive under one opcode and are told apart by
\* whether the log decodes.
JettonGasAdded(tx) ==
    /\ tx.account = "gas_service"
    /\ is_log_emmitted_in_opcode(tx, "TRANSFER_NOTIFICATION", 1)
    /\ tx.outs[1].body.form = "JettonGasAdded"

JettonGasPaid(tx) ==
    /\ tx.account = "gas_service"
    /\ is_log_emmitted_in_opcode(tx, "TRANSFER_NOTIFICATION", 1)
    /\ tx.outs[1].body.form = "JettonGasPaid"

NativeGasRefunded(tx) ==
    tx.account = "gas_service" /\ is_log_emmitted_in_opcode(tx, "NATIVE_REFUND", 2)

ITSTokenMetadataRegistered(tx) ==
    tx.account = "its" /\ is_log_emmitted_in_opcode(tx, "REGISTER_TOKEN_METADATA", 1)

ITSInterchainTokenDeploymentStarted(tx) ==
    /\ tx.account = "its"
    /\ is_log_emitted(tx, "INTERCHAIN_TOKEN_DEPLOYMENT_STARTED_LOG") > 0

ITSInterchainTransfer(tx) ==
    tx.account = "its" /\ is_log_emitted(tx, "INTERCHAIN_TRANSFER_LOG") > 0

ITSLinkTokenStarted(tx) ==
    tx.account = "its" /\ is_log_emitted(tx, "LINK_TOKEN_STARTED_LOG") > 0

SignersRotated(tx) ==
    tx.account = "gateway" /\ is_log_emitted(tx, "SIGNERS_ROTATED_LOG") > 0

\* create_parsers tries the parsers in this order; the first match wins.
ParserOrder ==
    <<"CallContract", "MessageExecuted", "MessageApproved", "NativeGasPaid",
      "NativeGasAdded", "JettonGasAdded", "JettonGasPaid", "NativeGasRefunded",
      "ITSTokenMetadataRegistered", "ITSInterchainTokenDeploymentStarted",
      "ITSInterchainTransfer", "ITSLinkTokenStarted", "SignersRotated">>

Matches(kind, tx) ==
    CASE kind = "CallContract" -> CallContract(tx)
      [] kind = "MessageExecuted" -> MessageExecuted(tx)
      [] kind = "MessageApproved" -> MessageApproved(tx)
      [] kind = "NativeGasPaid" -> NativeGasPaid(tx)
      [] kind = "NativeGasAdded" -> NativeGasAdded(tx)
      [] kind = "JettonGasAdded" -> JettonGasAdded(tx)
      [] kind = "JettonGasPaid" -> JettonGasPaid(tx)
      [] kind = "NativeGasRefunded" -> NativeGasRefunded(tx)
      [] kind = "ITSTokenMetadataRegistered" -> ITSTokenMetadataRegistered(tx)
      [] kind = "ITSInterchainTokenDeploymentStarted" -> ITSInterchainTokenDeploymentStarted(tx)
      [] kind = "ITSInterchainTransfer" -> ITSInterchainTransfer(tx)
      [] kind = "ITSLinkTokenStarted" -> ITSLinkTokenStarted(tx)
      [] kind = "SignersRotated" -> SignersRotated(tx)

IsFirstMatch(k, tx) ==
    /\ Matches(ParserOrder[k], tx)
    /\ \A j \in 1..(k - 1) : ~Matches(ParserOrder[j], tx)

Kind(tx) ==
    IF \E k \in DOMAIN ParserOrder : Matches(ParserOrder[k], tx)
    THEN ParserOrder[CHOOSE k \in DOMAIN ParserOrder : IsFirstMatch(k, tx)]
    ELSE "none"

GasPaid == {"NativeGasPaid", "JettonGasPaid"}

ITS ==
    {"ITSTokenMetadataRegistered", "ITSInterchainTokenDeploymentStarted",
     "ITSInterchainTransfer", "ITSLinkTokenStarted"}

\* The opcode of a transaction that no message has caused.
NoInMsg == "no in_msg"

\* A relayer_execute that ran out of gas, seen from the trace as a whole: the
\* gateway refuses it, or the nullification fails in its action phase.
ExecuteInsufficientGas(txs) ==
    \/ /\ Len(txs) >= 3
       /\ txs[3].account = "gateway"
       /\ Len(txs[2].outs) = 1
       /\ txs[2].outs[1].op = "RELAYER_EXECUTE"
       /\ txs[3].exit_code = 106
    \/ /\ Len(txs) = 5
       /\ txs[4].op # NoInMsg
       /\ txs[5].op = "NULLIFIED_SUCCESSFULLY"
       /\ txs[5].result_code = 37

-----------------------------------------------------------------------------
(* From a parser to its event. *)

Tx(i) == trace[i]

\* The message the parser of transaction i of a trace decodes; parser 0 reads the
\* relayer_execute from the root of the trace.
LogIn(txs, i) ==
    LET At(op) == txs[i].outs[is_log_emitted(txs[i], op)].body
    IN  IF i = 0 THEN txs[1].outs[1].body
        ELSE CASE Kind(txs[i]) = "MessageExecuted" -> txs[i].body
               [] Kind(txs[i]) = "NativeGasRefunded" -> txs[i].outs[2].body
               [] Kind(txs[i]) = "ITSInterchainTokenDeploymentStarted" ->
                      At("INTERCHAIN_TOKEN_DEPLOYMENT_STARTED_LOG")
               [] Kind(txs[i]) = "ITSInterchainTransfer" ->
                      At("INTERCHAIN_TRANSFER_LOG")
               [] Kind(txs[i]) = "ITSLinkTokenStarted" -> At("LINK_TOKEN_STARTED_LOG")
               [] Kind(txs[i]) = "SignersRotated" -> At("SIGNERS_ROTATED_LOG")
               [] OTHER -> txs[i].outs[1].body

\* parse succeeds when the body has the layout of the parser's message.
ParsesIn(txs, i) ==
    LogIn(txs, i).form = IF i = 0 THEN "RelayerExecuteWrapped" ELSE Kind(txs[i])

Log(i) == LogIn(trace, i)
Parses(i) == ParsesIn(trace, i)

\* Mutant: the payload hash is left out of the key.
key_without_hash(log) ==
    [destination_chain |-> log.destination_chain,
     destination_address |-> log.destination_address]

key(log) ==
    [destination_chain |-> log.destination_chain,
     destination_address |-> log.destination_address,
     payload_hash |-> log.payload_hash]

\* hash_to_message_id of the hash of transaction i.
MessageIdOf(i) == <<"tx", i>>

\* event(message_id) of the parser of transaction i.  Events are named after the
\* transaction, with a suffix per type; a payment in jettons carries a token_id.
Event(type, suffix, i, message_id) ==
    [type |-> type, event_id |-> <<i, suffix>>, message_id |-> message_id,
     amount |-> Log(i).amount,
     token_id |-> i # 0 /\ Kind(Tx(i)) \in {"JettonGasPaid", "JettonGasAdded"},
     cost |-> 0]

CallEvent(i) == Event("CALL", "", i, MessageIdOf(i))

GasCreditEvent(i, message_id) == Event("GAS_CREDIT", "gas", i, message_id)

ITSEvent(i, message_id) == Event("ITS", Kind(Tx(i)), i, message_id)

\* The parsers that know their own message_id.
OtherEvent(i) ==
    IF i = 0 THEN Event("CANNOT_EXECUTE", "cannot-execute", 0, Log(0).message_id)
    ELSE CASE Kind(Tx(i)) = "MessageExecuted" ->
                  Event("MESSAGE_EXECUTED", "", i, Log(i).message_id)
           [] Kind(Tx(i)) = "MessageApproved" ->
                  Event("MESSAGE_APPROVED", "", i, Log(i).message_id)
           [] Kind(Tx(i)) \in {"NativeGasAdded", "JettonGasAdded"} ->
                  GasCreditEvent(i, Log(i).message_id)
           [] Kind(Tx(i)) = "NativeGasRefunded" ->
                  Event("GAS_REFUNDED", "", i, Log(i).message_id)
           [] Kind(Tx(i)) = "SignersRotated" ->
                  Event("SIGNERS_ROTATED", "signers-rotated", i, MessageIdOf(i))

\* Decimal::round: to the nearest, a half to the even neighbour.
convert_jetton_to_native(amount) ==
    LET q == (amount * JettonPrice) \div TonPrice
        r == (amount * JettonPrice) % TonPrice
    IN  IF 2 * r > TonPrice \/ (2 * r = TonPrice /\ q % 2 = 1) THEN q + 1 ELSE q

-----------------------------------------------------------------------------
(* parse_trace. *)

Init ==
    /\ trace \in Traces
    /\ pc = "begin"
    /\ pos = 1
    /\ call_contract = <<>>
    /\ gas_credit_map = <<>>
    /\ its = <<>>
    /\ parsers = <<>>
    /\ approved = 0
    /\ events = <<>>

\* Any error returns early: what was collected is dropped.
Fail ==
    /\ pc' = "failed"
    /\ events' = <<>>
    /\ UNCHANGED <<trace, pos, call_contract, gas_credit_map, its, parsers, approved>>

Begin ==
    /\ pc = "begin"
    /\ ExecuteInsufficientGas(trace) => Parses(0)
    /\ parsers' = IF ExecuteInsufficientGas(trace) THEN <<0>> ELSE <<>>
    /\ pc' = "match"
    /\ UNCHANGED <<trace, pos, call_contract, gas_credit_map, its, approved, events>>

BeginFails ==
    /\ pc = "begin"
    /\ ExecuteInsufficientGas(trace) /\ ~Parses(0)
    /\ Fail

\* One iteration of the loop over the transactions of the trace.
AtTx == pc = "match" /\ pos \in DOMAIN trace

AddNothing ==
    /\ AtTx /\ Kind(Tx(pos)) = "none"
    /\ pos' = pos + 1
    /\ UNCHANGED <<trace, pc, call_contract, gas_credit_map, its, parsers,
                   approved, events>>

\* Mutant: a log that does not decode is passed over.
ParseFailsSkips ==
    /\ AtTx /\ Kind(Tx(pos)) # "none"
    /\ ~Parses(pos)
    /\ pos' = pos + 1
    /\ UNCHANGED <<trace, pc, call_contract, gas_credit_map, its, parsers,
                   approved, events>>

ParseFails ==
    /\ AtTx /\ Kind(Tx(pos)) # "none"
    /\ ~Parses(pos)
    /\ Fail

AddCallContract ==
    /\ AtTx /\ Kind(Tx(pos)) = "CallContract" /\ Parses(pos)
    /\ call_contract' = Append(call_contract, pos)
    /\ pos' = pos + 1
    /\ UNCHANGED <<trace, pc, gas_credit_map, its, parsers, approved, events>>

\* HashMap::insert: a later payment for the same key replaces an earlier one.
With(k, i) ==
    [x \in DOMAIN gas_credit_map \cup {k} |->
        IF x = k THEN i ELSE gas_credit_map[x]]

AddGasPaid ==
    /\ AtTx /\ Kind(Tx(pos)) \in GasPaid /\ Parses(pos)
    /\ gas_credit_map' = With(key(Log(pos)), pos)
    /\ pos' = pos + 1
    /\ UNCHANGED <<trace, pc, call_contract, its, parsers, approved, events>>

AddITS ==
    /\ AtTx /\ Kind(Tx(pos)) \in ITS /\ Parses(pos)
    /\ its' = Append(its, pos)
    /\ pos' = pos + 1
    /\ UNCHANGED <<trace, pc, call_contract, gas_credit_map, parsers, approved, events>>

\* Mutant: approvals are not counted beyond the first.
AddOtherCountsOne ==
    /\ AtTx /\ Kind(Tx(pos)) \notin GasPaid \cup ITS \cup {"CallContract", "none"}
    /\ Parses(pos)
    /\ parsers' = Append(parsers, pos)
    /\ approved' = IF Kind(Tx(pos)) = "MessageApproved" THEN 1 ELSE approved
    /\ pos' = pos + 1
    /\ UNCHANGED <<trace, pc, call_contract, gas_credit_map, its, events>>

AddOther ==
    /\ AtTx /\ Kind(Tx(pos)) \notin GasPaid \cup ITS \cup {"CallContract", "none"}
    /\ Parses(pos)
    /\ parsers' = Append(parsers, pos)
    /\ approved' = IF Kind(Tx(pos)) = "MessageApproved" THEN approved + 1 ELSE approved
    /\ pos' = pos + 1
    /\ UNCHANGED <<trace, pc, call_contract, gas_credit_map, its, events>>

\* The credit for a contract call, if gas was paid for its key.
CreditFor(cc) ==
    IF key(Log(cc)) \in DOMAIN gas_credit_map
    THEN <<GasCreditEvent(gas_credit_map[key(Log(cc))], MessageIdOf(cc))>>
    ELSE <<>>

\* HashMap::remove.
Without(k) == [x \in DOMAIN gas_credit_map \ {k} |-> gas_credit_map[x]]

\* Mutant: the credit stays in the map.
EmitCallKeeps ==
    /\ pc = "calls" /\ pos \in DOMAIN call_contract
    /\ events' = Append(events, CallEvent(call_contract[pos]))
                     \o CreditFor(call_contract[pos])
    /\ pos' = pos + 1
    /\ UNCHANGED <<trace, pc, call_contract, gas_credit_map, its, parsers, approved>>

\* A call is followed by its credit, which is taken out of the map.
EmitCall ==
    /\ pc = "calls" /\ pos \in DOMAIN call_contract
    /\ events' = Append(events, CallEvent(call_contract[pos]))
                     \o CreditFor(call_contract[pos])
    /\ gas_credit_map' = Without(key(Log(call_contract[pos])))
    /\ pos' = pos + 1
    /\ UNCHANGED <<trace, pc, call_contract, its, parsers, approved>>

\* Mutant: every ITS log takes the first contract call.
EmitITSFirst ==
    /\ pc = "its" /\ pos \in DOMAIN its
    /\ call_contract # <<>>
    /\ events' = Append(events, ITSEvent(its[pos], MessageIdOf(call_contract[1])))
    /\ pos' = pos + 1
    /\ UNCHANGED <<trace, pc, call_contract, gas_credit_map, its, parsers, approved>>

\* The i-th ITS log takes the message_id of the i-th contract call.
EmitITS ==
    /\ pc = "its" /\ pos \in DOMAIN its
    /\ pos \in DOMAIN call_contract
    /\ events' = Append(events, ITSEvent(its[pos], MessageIdOf(call_contract[pos])))
    /\ pos' = pos + 1
    /\ UNCHANGED <<trace, pc, call_contract, gas_credit_map, its, parsers, approved>>

ITSWithoutPair ==
    /\ pc = "its" /\ pos \in DOMAIN its
    /\ pos \notin DOMAIN call_contract
    /\ Fail

EmitOther ==
    /\ pc = "parsers" /\ pos \in DOMAIN parsers
    /\ events' = Append(events, OtherEvent(parsers[pos]))
    /\ pos' = pos + 1
    /\ UNCHANGED <<trace, pc, call_contract, gas_credit_map, its, parsers, approved>>

\* One iteration of add_gas_used_and_convert.
AtEvent == pc = "costs" /\ pos \in DOMAIN events

Costed(e) ==
    CASE e.type = "MESSAGE_APPROVED" ->
             [e EXCEPT !.cost = IF approved = 0 THEN 0
                              ELSE calc_message_gas(trace) \div approved]
      [] e.type = "MESSAGE_EXECUTED" -> [e EXCEPT !.cost = calc_message_gas(trace)]
      [] e.type = "GAS_REFUNDED" ->
             [e EXCEPT !.cost = calc_message_gas_native_gas_refunded(trace)]
      [] OTHER -> e

AddCost ==
    /\ AtEvent /\ ~events[pos].token_id
    /\ events' = [events EXCEPT ![pos] = Costed(@)]
    /\ pos' = pos + 1
    /\ UNCHANGED <<trace, pc, call_contract, gas_credit_map, its, parsers, approved>>

ConvertCredit ==
    /\ AtEvent /\ events[pos].token_id
    /\ events' = [events EXCEPT ![pos].token_id = FALSE,
                                ![pos].amount = convert_jetton_to_native(@)]
    /\ pos' = pos + 1
    /\ UNCHANGED <<trace, pc, call_contract, gas_credit_map, its, parsers, approved>>

ConvertFails ==
    /\ AtEvent /\ events[pos].token_id
    /\ PriceFails
    /\ Fail

\* The loops run one after the other.
EndLoop(from, list, to) ==
    /\ pc = from /\ pos \notin DOMAIN list
    /\ pc' = to
    /\ pos' = 1
    /\ UNCHANGED <<trace, call_contract, gas_credit_map, its, parsers, approved, events>>

NextLoop ==
    \/ EndLoop("match", trace, "calls")
    \/ EndLoop("calls", call_contract, "its")
    \/ EndLoop("its", its, "parsers")
    \/ EndLoop("parsers", parsers, "costs")
    \/ EndLoop("costs", events, "returned")

\* What parse_trace does as long as it gets the prices it asks for.
Step ==
    \/ Begin \/ BeginFails
    \/ AddNothing \/ ParseFails
    \/ AddCallContract \/ AddGasPaid \/ AddITS \/ AddOther
    \/ EmitCall \/ EmitITS \/ ITSWithoutPair \/ EmitOther
    \/ AddCost \/ ConvertCredit
    \/ NextLoop

Next == Step \/ ConvertFails

Spec == Init /\ [][Next]_vars

-----------------------------------------------------------------------------
(* What the events say about the trace.  These definitions read the trace    *)
(* itself, not what the parser made of it.                                   *)

\* The account emitted a log with a body of one of these forms.
Emits(tx, account, forms) ==
    /\ tx.account = account
    /\ \E m \in DOMAIN tx.outs : is_log(tx.outs[m]) /\ tx.outs[m].body.form \in forms

Logs(account, forms) == {i \in DOMAIN trace : Emits(Tx(i), account, forms)}

Calls == Logs("gateway", {"CallContract"})
Payments == Logs("gas_service", GasPaid)

\* The contracts log under the opcode and at the place where check_match looks.
LogRecognised(tx) ==
    /\ Emits(tx, "gateway", {"CallContract"}) => Kind(tx) = "CallContract"
    /\ Emits(tx, "gas_service", GasPaid) => Kind(tx) \in GasPaid
    /\ Emits(tx, "its", ITS) => Kind(tx) \in ITS

LogsRecognised == \A t \in Traces : \A i \in DOMAIN t : LogRecognised(t[i])

\* A transaction that failed in its compute or action phase emits no log, and the wallet
\* sends one relayer_execute per trace: a trace in which one fails nullifies nothing else.
Failed(tx) == tx.exit_code \notin {0, 1} \/ tx.result_code # 0

OneExecution(t) ==
    /\ \A i \in DOMAIN t : Failed(t[i]) => \A m \in DOMAIN t[i].outs : ~is_log(t[i].outs[m])
    /\ ExecuteInsufficientGas(t) =>
          \A i \in DOMAIN t :
              t[i].account = "gateway" /\ t[i].op = "NULLIFIED_SUCCESSFULLY" => Failed(t[i])

OneExecutionPerTrace == \A t \in Traces : OneExecution(t)

\* A payment and a call are for the same message when all parts of the key agree.
SameMessage(i, j) ==
    LET a == Tx(i).outs[1].body
        b == Tx(j).outs[1].body
    IN  /\ a.destination_chain = b.destination_chain
        /\ a.destination_address = b.destination_address
        /\ a.payload_hash = b.payload_hash

EventsOf(type) == {e \in DOMAIN events : events[e].type = type}

TxOf(e) == events[e].event_id[1]

\* Types; the lists hold transactions of the trace, and no event has a negative amount
\* or cost, though messages from outside may leave our accounts with more than they had.
TypeOK ==
    /\ trace \in Traces
    /\ pc \in {"begin", "match", "calls", "its", "parsers", "costs", "returned", "failed"}
    /\ pos \in Nat \ {0}
    /\ call_contract \in Seq(DOMAIN trace)
    /\ \A k \in DOMAIN gas_credit_map : gas_credit_map[k] \in DOMAIN trace
    /\ its \in Seq(DOMAIN trace)
    /\ parsers \in Seq(DOMAIN trace \cup {0})
    /\ approved \in 0..Len(trace)
    /\ \A e \in DOMAIN events : events[e].amount \in Nat /\ events[e].cost \in Nat

\* No two events of a trace have one event_id: a transaction is reported by one
\* parser, a gas payment is credited to one call.  (The GMP API and the trace's
\* row identify an event by its event_id.)
EventIdsUnique ==
    \A d, e \in DOMAIN events : events[d].event_id = events[e].event_id => d = e

\* A gas payment is credited only under the message_id of a call of the same
\* trace for the same destination chain, address and payload hash, and that call
\* is reported too.
CreditBelongsToCall ==
    \A e \in EventsOf("GAS_CREDIT") :
        TxOf(e) \in Payments =>
            \E c \in EventsOf("CALL") :
                /\ events[c].message_id = events[e].message_id
                /\ SameMessage(TxOf(c), TxOf(e))

\* When the trace is reported, the first call for which somebody paid gas has its
\* credit, wherever in the trace and in whatever currency the payment was made.
PaidCallIsCredited ==
    pc = "returned" =>
        \A c \in Calls :
            /\ \E p \in Payments : SameMessage(c, p)
            /\ \A d \in Calls : SameMessage(c, d) => c <= d
            => \E e \in EventsOf("GAS_CREDIT") : events[e].message_id = MessageIdOf(c)

\* Every ITS log of a reported trace has its event, under the message_id of a
\* call of the trace; different logs have different calls, in the same order.
ITSPairedInOrder ==
    pc = "returned" =>
        /\ \A i \in Logs("its", ITS) : \E e \in EventsOf("ITS") : TxOf(e) = i
        /\ \A e \in EventsOf("ITS") :
               \E c \in EventsOf("CALL") : events[c].message_id = events[e].message_id
        /\ \A d, e \in EventsOf("ITS") :
               TxOf(d) < TxOf(e) => events[d].message_id[2] < events[e].message_id[2]

\* The gas of a trace that approves several messages is shared out among them:
\* together they are charged no more than our accounts lost, and less than one
\* unit per approval is lost to the division.
ApprovalCostsAddUp ==
    pc = "returned" /\ EventsOf("MESSAGE_APPROVED") # {} =>
        LET approvals == EventsOf("MESSAGE_APPROVED")
            charged == SumFunction([e \in approvals |-> events[e].cost])
            lost == AtLeastZero(BalanceLoss(trace))
        IN  /\ charged <= lost
            /\ charged > lost - Cardinality(approvals)

\* An execution is charged what our accounts lost in its trace, however often the
\* money moved between them, and a refund that the relayer sent (its third
\* transaction) what they lost beyond the amount refunded.
ChargedIsLost ==
    pc = "returned" =>
        /\ \A e \in EventsOf("MESSAGE_EXECUTED") :
               events[e].cost = AtLeastZero(BalanceLoss(trace))
        /\ \A e \in EventsOf("GAS_REFUNDED") :
               TxOf(e) = 3 =>
                   events[e].cost
                       = AtLeastZero(BalanceLoss(trace) - Tx(3).outs[1].value)

\* A message is never reported both as executed and as not executable.
OneOutcome ==
    \A e \in EventsOf("MESSAGE_EXECUTED"), c \in EventsOf("CANNOT_EXECUTE") :
        events[e].message_id # events[c].message_id

=============================================================================
