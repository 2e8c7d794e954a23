---------------------------- MODULE BocMessages ----------------------------
(***************************************************************************)
(* The messages that the relayer writes to TON and reads from it (boc/):   *)
(* RelayerExecuteMessage and NativeRefundMessage are written, wrapped by   *)
(* out_action and the highload wallet; everything else is read from the    *)
(* bodies of messages and logs that the contracts emit.                    *)
(*                                                                         *)
(* A decoder is a layout, the sequence of loads that from_boc makes, and   *)
(* the checks it makes on the values.  What a contract writes into a cell  *)
(* is external: its bits and its references, each in their own order.  A   *)
(* behaviour writes one message and reads it back as far as the relayer    *)
(* does.                                                                   *)
(***************************************************************************)
EXTENDS Cells

CONSTANTS
    Requests,   \* executions that one external message carries: [kind, actions]
    Refunds,    \* refunds that are asked for: [kind, a field each]
    Logs,       \* messages the contracts emit: [kind, a field each]
    Proofs      \* approved messages that the prover hands over: [kind, messages]

\* The values of fields.  A string is in ASCII and fits a chain of cells; contracts are
\* in workchain 0.
Octets(n) == {b \in Seq(0..255) : Len(b) = n}
AnyWord == Octets(32)
AnyAddress == Octets(33)
AnyContract == {a \in AnyAddress : a[1] = 0}
AnyCoins == {b \in Seq(0..255) : Len(b) <= 15}
AnyBuffer == {b \in Seq(0..255) : Len(b) <= BYTES_PER_CELL * MAX_CELL_DEPTH}
AnyText == {b \in Seq(0..127) : Len(b) <= BYTES_PER_CELL * MAX_CELL_DEPTH}

Executions ==
    [message_id : AnyText, source_chain : AnyText, source_address : AnyText,
     destination_chain : AnyText, destination_address : AnyAddress, payload : AnyBuffer,
     payload_hash : AnyWord, relayer_address : AnyAddress]

ApprovedMessages ==
    [message_id : AnyText, source_chain : AnyText, source_address : AnyText,
     destination_chain : AnyText, destination_address : AnyBuffer, payload_hash : AnyWord]

\* A dictionary is modelled by the references of a cell, of which there are four.
ASSUME RelayerAssumption ==
    /\ Requests \subseteq [kind : {"RelayerExecute"}, actions : Seq(Executions) \ {<<>>}]
    /\ Refunds \subseteq [kind : {"NativeRefund"}, tx_hash : AnyWord, address : AnyAddress,
                          amount : AnyCoins]
    /\ Proofs \subseteq [kind : {"ApproveMessages"}, messages : Seq(ApprovedMessages)]
    /\ \A proof \in Proofs : Len(proof.messages) <= MAX_CELL_REFERENCES

\* The fields of the messages that the contracts emit.
LogsOf(k) ==
    CASE k = "CallContract" ->
             [kind : {k}, source_address : AnyAddress, payload_hash : AnyWord,
              destination_chain : AnyText, destination_address : AnyText,
              payload : AnyBuffer]
      [] k = "NativeGasPaid" ->
             [kind : {k}, sender : AnyAddress, payload_hash : AnyWord, msg_value : AnyWord,
              refund_address : AnyAddress, destination_chain : AnyText,
              destination_address : AnyText]
      [] k = "NativeGasAdded" ->
             [kind : {k}, tx_hash : AnyWord, refund_address : AnyAddress,
              msg_value : AnyWord]
      [] k = "JettonGasPaid" ->
             [kind : {k}, minter : AnyAddress, amount : AnyCoins, payload_hash : AnyWord,
              refund_address : AnyAddress, destination_chain : AnyText,
              destination_address : AnyText]
      [] k = "JettonGasAdded" ->
             [kind : {k}, minter : AnyAddress, sender : AnyAddress, amount : AnyCoins,
              tx_hash : AnyWord, refund_address : AnyAddress]
      [] k = "MessageApproved" ->
             [kind : {k}, message_id : AnyText, source_chain : AnyText,
              source_address : AnyText, payload_hash : AnyWord,
              destination_address : AnyContract, destination_chain : AnyText]
      [] k = "SignersRotated" ->
             [kind : {k}, signers_hash : AnyWord, epoch : AnyWord]
      [] k = "ITSInterchainTokenDeploymentStarted" ->
             [kind : {k}, token_id : AnyWord, token_name : AnyText, token_symbol : AnyText,
              decimals : Octets(1), destination_chain : AnyText]
      [] k = "ITSInterchainTransfer" ->
             [kind : {k}, token_id : AnyWord, jetton_amount : AnyWord,
              sender_address : AnyContract, destination_chain : AnyText,
              destination_address : AnyBuffer, data : AnyBuffer]
      [] k = "ITSLinkTokenStarted" ->
             [kind : {k}, token_id : AnyWord, token_manager_type : Octets(1),
              destination_chain : AnyText, source_token_address : AnyContract,
              destination_token_address : AnyBuffer]
      [] k = "ITSTokenMetadataRegistered" ->
             [kind : {k}, address : AnyAddress, decimals : Octets(1)]

LogKinds ==
    {"CallContract", "NativeGasPaid", "NativeGasAdded", "JettonGasPaid", "JettonGasAdded",
     "MessageApproved", "SignersRotated", "ITSInterchainTokenDeploymentStarted",
     "ITSInterchainTransfer", "ITSLinkTokenStarted", "ITSTokenMetadataRegistered"}

ASSUME LogsAssumption ==
    \A log \in Logs : log.kind \in LogKinds /\ log \in LogsOf(log.kind)

VARIABLES
    message,    \* what was to be written: a member of the four sets
    kind,       \* the decoder that is to read it
    cell,       \* the cell that carries it
    read        \* what the decoder made of it

vars == <<message, kind, cell, read>>

NotRead == [pending |-> TRUE]

-----------------------------------------------------------------------------
(* Layouts and how they are read. *)

Word(name) == [load |-> "bits", n |-> 256, as |-> name]
Uint8(name) == [load |-> "bits", n |-> 8, as |-> name]
OpCode == [load |-> "bits", n |-> 32, as |-> "op"]
Address(name) == [load |-> "address", as |-> name]
Coins(name) == [load |-> "coins", as |-> name]
Text(name) == [load |-> "string", as |-> name]
Buffer(name) == [load |-> "buffer", as |-> name]
Data(name) == [load |-> "data", as |-> name]
Skip == [load |-> "skip"]
Inner(layout) == [load |-> "inner", layout |-> layout]

NoFields == <<>>

Field(name, value) == [x \in {name} |-> value]

\* The fields of both, the new ones before the old.
Merged(new, old) ==
    [x \in DOMAIN new \cup DOMAIN old |-> IF x \in DOMAIN new THEN new[x] ELSE old[x]]

Stuck(p) == [p EXCEPT !.ok = FALSE]

\* Parser p has loaded field f from the bits, or could not.
TakeBits(p, f, loaded) ==
    IF loaded.ok
    THEN [p EXCEPT !.at = loaded.next, !.fields = Merged(Field(f.as, loaded.value), @)]
    ELSE Stuck(p)

\* Parser p takes the next reference of c and the fields it gives, if it is readable.
TakeRef(c, p, readable, fields) ==
    IF p.ref \in DOMAIN c.refs /\ readable
    THEN [p EXCEPT !.ref = @ + 1, !.fields = Merged(fields, @)]
    ELSE Stuck(p)

\* One load of layout field f by parser p.
LoadField(c, p, f) ==
    LET ref == c.refs[p.ref]
    IN  CASE f.load = "bits" -> TakeBits(p, f, load_bits(c.bits, p.at, f.n))
          [] f.load = "address" -> TakeBits(p, f, load_address(c.bits, p.at))
          [] f.load = "coins" -> TakeBits(p, f, load_coins(c.bits, p.at))
          [] f.load = "string" -> TakeRef(c, p, is_utf8(cell_to_buffer(ref)),
                                          Field(f.as, cell_to_buffer(ref)))
          [] f.load = "buffer" -> TakeRef(c, p, TRUE, Field(f.as, cell_to_buffer(ref)))
          [] f.load = "data" -> TakeRef(c, p, TRUE, Field(f.as, Bytes(ref.bits)))
          [] f.load = "skip" -> TakeRef(c, p, TRUE, NoFields)

\* All loads of a layout, in order, from the start of cell c, until one fails.
Walk(Load(_, _, _), c, layout) ==
    LET after[i \in 0..Len(layout)] ==
            IF i = 0 THEN [ok |-> TRUE, at |-> 0, ref |-> 1, fields |-> NoFields]
            ELSE IF after[i - 1].ok THEN Load(c, after[i - 1], layout[i])
            ELSE after[i - 1]
    IN  after[Len(layout)]

ReadFlat(c, layout) == Walk(LoadField, c, layout)

\* A load that may read a referenced cell: the layouts are nested at most once.
LoadNested(c, p, f) ==
    LET inner == ReadFlat(c.refs[p.ref], f.layout)
    IN  IF f.load = "inner" THEN TakeRef(c, p, inner.ok, inner.fields)
        ELSE LoadField(c, p, f)

Read(c, layout) == Walk(LoadNested, c, layout)

\* What from_boc returns: the fields, if every load and every check succeeds.
Returned(p, Accepts(_)) ==
    IF p.ok /\ Accepts(p.fields) THEN [ok |-> TRUE, fields |-> p.fields] ELSE Failed

Anything(fields) == TRUE

compare_op_code(expected, op_code) == op_code = expected

\* The last two bytes of the opcodes of the system, whose first two are zero.
Op(high, low) == <<0, 0, high, low>>

OP_NULLIFIED_SUCCESSFULLY == Op(0, 5)
OP_RELAYER_EXECUTE == Op(0, 8)
OP_APPROVE_MESSAGES == Op(0, 40)
OP_SIGNERS_ROTATED_LOG == Op(0, 42)
OP_NATIVE_REFUND == Op(0, 70)
OP_TOKEN_METADATA_REGISTERED_LOG == Op(1, 4)
OP_LINK_TOKEN_STARTED_LOG == Op(1, 5)
OP_INTERCHAIN_TOKEN_DEPLOYMENT_STARTED_LOG == Op(1, 7)
OP_INTERCHAIN_TRANSFER_LOG == Op(1, 16)

-----------------------------------------------------------------------------
(* The decoders. *)

CallContractMessage(c) ==
    Returned(Read(c, <<Text("destination_chain"), Text("destination_address"),
                       Buffer("payload"), Address("source_address"),
                       Word("payload_hash")>>), Anything)

NativeGasPaidMessage(c) ==
    Returned(Read(c, <<Address("sender"), Word("payload_hash"), Word("msg_value"),
                       Inner(<<Address("refund_address")>>),
                       Text("destination_chain"), Text("destination_address")>>),
             Anything)

NativeGasAddedMessage(c) ==
    Returned(Read(c, <<Word("tx_hash"), Address("refund_address"), Word("msg_value")>>),
             Anything)

NativeGasRefundedMessage(c) ==
    Returned(Read(c, <<Word("tx_hash"), Address("address"), Coins("amount")>>), Anything)

\* Mutant: the amount is read as it is in a native payment.
JettonGasPaidMessageNative(c) ==
    Returned(Read(c, <<Address("minter"), Word("amount"), Word("payload_hash"),
                       Inner(<<Address("refund_address")>>),
                       Text("destination_chain"), Text("destination_address")>>),
             Anything)

JettonGasPaidMessage(c) ==
    Returned(Read(c, <<Address("minter"), Coins("amount"), Word("payload_hash"),
                       Inner(<<Address("refund_address")>>),
                       Text("destination_chain"), Text("destination_address")>>),
             Anything)

\* Mutant: the sender, which nobody uses, is not read.
JettonGasAddedMessageNoSender(c) ==
    Returned(Read(c, <<Address("minter"), Coins("amount"), Word("tx_hash"),
                       Inner(<<Address("refund_address")>>)>>), Anything)

JettonGasAddedMessage(c) ==
    Returned(Read(c, <<Address("minter"), Address("sender"), Coins("amount"),
                       Word("tx_hash"), Inner(<<Address("refund_address")>>)>>),
             Anything)

NullifiedSuccessfullyMessage(c) ==
    LET OpMatches(fields) == fields.op = OP_NULLIFIED_SUCCESSFULLY
    IN  Returned(Read(c, <<OpCode, Text("message_id"), Text("source_chain"),
                           Text("source_address"),
                           Inner(<<Buffer("payload"), Buffer("destination_address"),
                                   Text("destination_chain")>>)>>), OpMatches)

\* Mutant: the first reference of the action, the previous action, is followed.
RelayerExecuteWrappedMessagePrevious(c) ==
    LET found == Descend(c, <<1, 1, 1, 1>>)
    IN  IF found.ok
        THEN Returned(Read(found.cell, <<Text("message_id"), Text("source_chain")>>),
                      Anything)
        ELSE Failed

\* From the wallet's message to itself down to the message that its last action
\* sends to the gateway.
RelayerExecuteWrappedMessage(c) ==
    LET found == Descend(c, <<1, 2, 1, 1>>)
    IN  IF found.ok
        THEN Returned(Read(found.cell, <<Text("message_id"), Text("source_chain")>>),
                      Anything)
        ELSE Failed

\* BigUint::to_bytes_be: without leading zeros, one zero byte for zero.
to_bytes_be(word) ==
    LET first == SelectInSeq(word, LAMBDA b : b # 0)
    IN  IF first = 0 THEN <<0>> ELSE SubSeq(word, first, Len(word))

\* The epoch must fit 64 bits; the hash is formatted from its number.
LogSignersRotatedMessage(c) ==
    LET Accepts(fields) ==
            /\ compare_op_code(OP_SIGNERS_ROTATED_LOG, fields.op)
            /\ Len(to_bytes_be(fields.epoch)) <= 8
        r == Returned(Read(c, <<OpCode, Skip, Word("signers_hash"), Word("epoch")>>),
                      Accepts)
    IN  IF r.ok THEN [r EXCEPT !.fields.signers_hash = to_bytes_be(@)] ELSE r

\* The minter's address is loaded, and the outcome ignored.
LogITSInterchainTokenDeploymentStartedMessage(c) ==
    LET Accepts(fields) ==
            compare_op_code(OP_INTERCHAIN_TOKEN_DEPLOYMENT_STARTED_LOG, fields.op)
    IN  Returned(Read(c, <<OpCode, Word("token_id"), Text("token_name"),
                           Text("token_symbol"), Uint8("decimals"), Skip,
                           Text("destination_chain")>>), Accepts)

\* TonAddress::from_str of "0:" and the hexadecimal digits of a number: there must
\* be 64 of them, and to_str_radix gives no leading zeros.
ParsesAsAddress(word) == word[1] >= 16

ToAddress(word) == <<0>> \o word

\* Of the data only the bytes of the first cell are taken.
LogITSInterchainTransferMessage(c) ==
    LET Accepts(fields) ==
            /\ compare_op_code(OP_INTERCHAIN_TRANSFER_LOG, fields.op)
            /\ ParsesAsAddress(fields.sender_address)
        r == Returned(Read(c, <<OpCode, Word("token_id"), Inner(<<Word("sender_address")>>),
                                Text("destination_chain"), Buffer("destination_address"),
                                Word("jetton_amount"), Data("data")>>), Accepts)
    IN  IF r.ok THEN [r EXCEPT !.fields.sender_address = ToAddress(@)] ELSE r

LogITSLinkTokenStartedMessage(c) ==
    LET Accepts(fields) ==
            /\ compare_op_code(OP_LINK_TOKEN_STARTED_LOG, fields.op)
            /\ ParsesAsAddress(fields.source_token_address)
            /\ fields.token_manager_type[1] <= 4
        r == Returned(Read(c, <<OpCode, Word("token_id"), Text("destination_chain"),
                                Inner(<<Word("source_token_address")>>),
                                Buffer("destination_token_address"),
                                Uint8("token_manager_type")>>), Accepts)
    IN  IF r.ok THEN [r EXCEPT !.fields.source_token_address = ToAddress(@)] ELSE r

LogTokenMetadataRegisteredMessage(c) ==
    LET Accepts(fields) == compare_op_code(OP_TOKEN_METADATA_REGISTERED_LOG, fields.op)
    IN  Returned(Read(c, <<OpCode, Address("address"), Uint8("decimals")>>), Accepts)

\* The destination is a hash, to which the workchain is added.
TonCCMessage(c) ==
    LET Accepts(fields) == Len(fields.destination_address) = 32
        r == Returned(Read(c, <<Text("message_id"), Text("source_chain"),
                                Text("source_address"),
                                Inner(<<Word("payload_hash"), Buffer("destination_address"),
                                        Text("destination_chain")>>)>>), Accepts)
    IN  IF r.ok THEN [r EXCEPT !.fields.destination_address = ToAddress(@)] ELSE r

parse_approve_messages(c) ==
    Returned(Read(c, <<Word("payload_hash"), Text("message_id"), Text("source_chain"),
                       Text("source_address"),
                       Inner(<<Buffer("destination_address"),
                               Text("destination_chain")>>)>>), Anything)

\* The dictionary is abstracted to the references of its cell; its values come in
\* no particular order.
ApproveMessages(c) ==
    LET op == load_bits(c.bits, 0, 32)
        values == {parse_approve_messages(v) : v \in ToSet(c.refs[2].refs)}
    IN  IF /\ op.ok /\ compare_op_code(OP_APPROVE_MESSAGES, op.value)
           /\ Len(c.refs) >= 2
           /\ \A v \in values : v.ok
        THEN [ok |-> TRUE, fields |-> [approve_messages |-> {v.fields : v \in values}]]
        ELSE Failed

Decoder(k, c) ==
    CASE k = "CallContract" -> CallContractMessage(c)
      [] k = "NativeGasPaid" -> NativeGasPaidMessage(c)
      [] k = "NativeGasAdded" -> NativeGasAddedMessage(c)
      [] k = "NativeGasRefunded" -> NativeGasRefundedMessage(c)
      [] k = "JettonGasPaid" -> JettonGasPaidMessage(c)
      [] k = "JettonGasAdded" -> JettonGasAddedMessage(c)
      [] k = "MessageApproved" -> TonCCMessage(c)
      [] k = "MessageExecuted" -> NullifiedSuccessfullyMessage(c)
      [] k = "RelayerExecuteWrapped" -> RelayerExecuteWrappedMessage(c)
      [] k = "SignersRotated" -> LogSignersRotatedMessage(c)
      [] k = "ITSInterchainTokenDeploymentStarted" ->
             LogITSInterchainTokenDeploymentStartedMessage(c)
      [] k = "ITSInterchainTransfer" -> LogITSInterchainTransferMessage(c)
      [] k = "ITSLinkTokenStarted" -> LogITSLinkTokenStartedMessage(c)
      [] k = "ITSTokenMetadataRegistered" -> LogTokenMetadataRegisteredMessage(c)
      [] k = "ApproveMessages" -> ApproveMessages(c)

-----------------------------------------------------------------------------
(* What the relayer writes. *)

EmptyCell == Cell(<<>>, <<>>)

HashPart(address) == SubSeq(address, 2, 33)

\* RelayerExecuteMessage::to_cell.
RelayerExecuteMessage(m) ==
    LET inner == Cell(Bits(m.payload_hash),
                      <<buffer_to_cell(m.payload),
                        buffer_to_cell(HashPart(m.destination_address)),
                        buffer_to_cell(m.destination_chain)>>)
        msg == Cell(<<>>, <<buffer_to_cell(m.message_id), buffer_to_cell(m.source_chain),
                            buffer_to_cell(m.source_address), inner>>)
    IN  Cell(Bits(OP_RELAYER_EXECUTE) \o AddressBits(m.relayer_address), <<msg>>)

\* NativeRefundMessage::to_cell.
NativeRefundMessage(m) ==
    Cell(Bits(OP_NATIVE_REFUND) \o Bits(m.tx_hash) \o AddressBits(m.address)
             \o CoinsBits(m.amount), <<>>)

\* The body goes into a reference; of the header nothing but the room it takes is
\* kept.
out_action(body) == Cell([i \in 1..400 |-> 0], <<body>>)

\* A longer list of actions is a panic: nothing is written.
MAX_ACTIONS == 254

\* OutList: every action refers to the previous one and to its message; the body
\* has an opcode and the query id.
internal_transfer_body(actions) ==
    LET out_list[i \in 0..Len(actions)] ==
            IF i = 0 THEN EmptyCell
            ELSE Cell([j \in 1..40 |-> 0], <<out_list[i - 1], actions[i]>>)
    IN  Cell(Bits(<<174, 66, 229, 164>>) \o [i \in 1..64 |-> 0], <<out_list[Len(actions)]>>)

-----------------------------------------------------------------------------
(* What the contracts write (external). *)

\* The gateway passes the message of a relayer_execute on under its own opcode.
Nullified(execute) ==
    Cell(Bits(OP_NULLIFIED_SUCCESSFULLY), execute.refs[1].refs)

\* The gas service logs a refund as it was asked for, without the opcode.
Refunded(request) == Cell(SubSeq(request.bits, 33, Len(request.bits)), <<>>)

LogCell(m) ==
    CASE m.kind = "CallContract" ->
             Cell(AddressBits(m.source_address) \o Bits(m.payload_hash),
                  <<buffer_to_cell(m.destination_chain),
                    buffer_to_cell(m.destination_address), buffer_to_cell(m.payload)>>)
      [] m.kind = "NativeGasPaid" ->
             Cell(AddressBits(m.sender) \o Bits(m.payload_hash) \o Bits(m.msg_value),
                  <<Cell(AddressBits(m.refund_address), <<>>),
                    buffer_to_cell(m.destination_chain),
                    buffer_to_cell(m.destination_address)>>)
      [] m.kind = "NativeGasAdded" ->
             Cell(Bits(m.tx_hash) \o AddressBits(m.refund_address) \o Bits(m.msg_value),
                  <<>>)
      [] m.kind = "JettonGasPaid" ->
             Cell(AddressBits(m.minter) \o CoinsBits(m.amount) \o Bits(m.payload_hash),
                  <<Cell(AddressBits(m.refund_address), <<>>),
                    buffer_to_cell(m.destination_chain),
                    buffer_to_cell(m.destination_address)>>)
      [] m.kind = "JettonGasAdded" ->
             Cell(AddressBits(m.minter) \o AddressBits(m.sender) \o CoinsBits(m.amount)
                      \o Bits(m.tx_hash),
                  <<Cell(AddressBits(m.refund_address), <<>>)>>)
      [] m.kind = "MessageApproved" ->
             Cell(<<>>,
                  <<buffer_to_cell(m.message_id), buffer_to_cell(m.source_chain),
                    buffer_to_cell(m.source_address),
                    Cell(Bits(m.payload_hash),
                         <<buffer_to_cell(HashPart(m.destination_address)),
                           buffer_to_cell(m.destination_chain)>>)>>)
      [] m.kind = "SignersRotated" ->
             Cell(Bits(OP_SIGNERS_ROTATED_LOG) \o Bits(m.signers_hash) \o Bits(m.epoch),
                  <<EmptyCell>>)
      [] m.kind = "ITSInterchainTokenDeploymentStarted" ->
             Cell(Bits(OP_INTERCHAIN_TOKEN_DEPLOYMENT_STARTED_LOG) \o Bits(m.token_id)
                      \o Bits(m.decimals),
                  <<buffer_to_cell(m.token_name), buffer_to_cell(m.token_symbol),
                    EmptyCell, buffer_to_cell(m.destination_chain)>>)
      [] m.kind = "ITSInterchainTransfer" ->
             Cell(Bits(OP_INTERCHAIN_TRANSFER_LOG) \o Bits(m.token_id)
                      \o Bits(m.jetton_amount),
                  <<Cell(Bits(HashPart(m.sender_address)), <<>>),
                    buffer_to_cell(m.destination_chain),
                    buffer_to_cell(m.destination_address), buffer_to_cell(m.data)>>)
      [] m.kind = "ITSLinkTokenStarted" ->
             Cell(Bits(OP_LINK_TOKEN_STARTED_LOG) \o Bits(m.token_id)
                      \o Bits(m.token_manager_type),
                  <<buffer_to_cell(m.destination_chain),
                    Cell(Bits(HashPart(m.source_token_address)), <<>>),
                    buffer_to_cell(m.destination_token_address)>>)
      [] m.kind = "ITSTokenMetadataRegistered" ->
             Cell(Bits(OP_TOKEN_METADATA_REGISTERED_LOG) \o AddressBits(m.address)
                      \o Bits(m.decimals), <<>>)

\* The prover's approve_messages with its proof and its dictionary.
ProofCell(messages) ==
    LET Approved(m) ==
            Cell(Bits(m.payload_hash),
                 <<buffer_to_cell(m.message_id), buffer_to_cell(m.source_chain),
                   buffer_to_cell(m.source_address),
                   Cell(<<>>, <<buffer_to_cell(m.destination_address),
                                buffer_to_cell(m.destination_chain)>>)>>)
    IN  Cell(Bits(OP_APPROVE_MESSAGES),
             <<EmptyCell, Cell(<<1>>, [i \in DOMAIN messages |-> Approved(messages[i])])>>)

-----------------------------------------------------------------------------
(* One message is written and read. *)

Init ==
    /\ message = [kind |-> "none"] /\ kind = "none" /\ cell = EmptyCell /\ read = NotRead

\* Cell c carries m, for the decoder of k to read.
Written(m, k, c) ==
    /\ message' = m /\ kind' = k /\ cell' = c /\ read' = NotRead

\* broadcast_execute_message, up to the message of the wallet to itself.
SendExecute ==
    /\ kind = "none"
    /\ \E request \in Requests :
           /\ Len(request.actions) <= MAX_ACTIONS
           /\ Written(request, "RelayerExecuteWrapped",
                      internal_transfer_body(
                          [i \in DOMAIN request.actions |->
                              out_action(RelayerExecuteMessage(request.actions[i]))]))

\* The gateway executes what the last action of the wallet asked for.
GatewayNullifies ==
    /\ kind = "RelayerExecuteWrapped"
    /\ Written(message, "MessageExecuted", Nullified(Descend(cell, <<1, 2, 1>>).cell))

SendRefund ==
    /\ kind = "none"
    /\ \E refund \in Refunds :
           Written(refund, "NativeGasRefunded", Refunded(NativeRefundMessage(refund)))

ContractLogs ==
    /\ kind = "none"
    /\ \E log \in Logs : Written(log, log.kind, LogCell(log))

ProverApproves ==
    /\ kind = "none"
    /\ \E proof \in Proofs : Written(proof, "ApproveMessages", ProofCell(proof.messages))

Decode ==
    /\ kind # "none" /\ read = NotRead
    /\ read' = Decoder(kind, cell)
    /\ UNCHANGED <<message, kind, cell>>

Next ==
    \/ SendExecute \/ GatewayNullifies \/ SendRefund \/ ContractLogs
    \/ ProverApproves \/ Decode

Spec == Init /\ [][Next]_vars

-----------------------------------------------------------------------------

\* The cells are ones that the builder and TON accept: at most 1023 bits and four
\* references, here in the first ten levels, whatever the lengths of the strings.
TypeOK ==
    /\ message.kind = "none" <=> kind = "none"
    /\ kind # "none" => Fits(cell, 10)
    /\ read # NotRead => read.ok \in BOOLEAN

ReadAs(k) == kind = k /\ read # NotRead /\ read.ok

FromContract == message.kind \notin {"none", "RelayerExecute", "ApproveMessages"}

\* A field that was read against the one that was written.  A signers' hash is
\* the same number, and the data of a transfer lacks what follows its first cell.
SameField(f, x, y) ==
    CASE f = "signers_hash" -> x = to_bytes_be(y)
      [] f = "data" -> IsPrefix(x, y) /\ Len(x) >= (IF Len(y) < 96 THEN Len(y) ELSE 96)
      [] OTHER -> x = y

\* What a decoder returns is what the contract wrote, field by field: strings of
\* any length around the boundaries of the cells, amounts of any size, addresses
\* and none.  Only two fields are passed on altered (SameField): a signers' hash
\* without its leading zeros, and the data of a transfer cut after its first cell.
DecodedIsWritten ==
    /\ FromContract /\ read # NotRead /\ read.ok =>
           \A f \in DOMAIN message \ {"kind"} :
               f \in DOMAIN read.fields /\ SameField(f, read.fields[f], message[f])
    /\ ReadAs("ApproveMessages") =>
           ToSet(message.messages)
               = {[f \in DOMAIN m \ {"op"} |-> m[f]] : m \in read.fields.approve_messages}

\* The logs that the code cannot read: an ITS address whose hash starts with a
\* zero digit, an epoch of more than 64 bits, an unknown token manager.
Unreadable(m) ==
    \/ m.kind = "ITSInterchainTransfer" /\ m.sender_address[2] < 16
    \/ m.kind = "ITSLinkTokenStarted" /\ m.source_token_address[2] < 16
    \/ m.kind = "ITSLinkTokenStarted" /\ m.token_manager_type[1] > 4
    \/ m.kind = "SignersRotated" /\ \E i \in 1..24 : m.epoch[i] # 0

\* Every other log is read: an error would discard all events of its trace.
WrittenIsRead ==
    FromContract /\ read # NotRead =>
        (read.ok <=> ~Unreadable(message))

\* Gas paid in jettons and gas added in jettons arrive under one opcode, and
\* create_parsers takes a log for an addition when it decodes as one: no payment
\* does, whatever its amount.
JettonsToldApart ==
    kind = "JettonGasPaid" => ~JettonGasAddedMessage(cell).ok

\* The relayer recognises its own execution again, from the wallet's message when
\* the gateway refuses it and from the gateway's message when it is executed:
\* both name the message of the wallet's last action.
ExecutionNamesMessage ==
    kind \in {"RelayerExecuteWrapped", "MessageExecuted"} /\ read # NotRead =>
        /\ read.ok
        /\ read.fields.message_id = Last(message.actions).message_id
        /\ read.fields.source_chain = Last(message.actions).source_chain
        /\ kind = "MessageExecuted" =>
               /\ read.fields.payload = Last(message.actions).payload
               /\ read.fields.source_address = Last(message.actions).source_address
               /\ read.fields.destination_address
                      = HashPart(Last(message.actions).destination_address)

=============================================================================
