--------------------------- MODULE MCBocMessages ---------------------------
(***************************************************************************)
(* BocMessages over byte strings whose lengths lie around the boundaries   *)
(* of a cell, amounts of every length, and words with and without leading  *)
(* zeros.                                                                  *)
(***************************************************************************)
EXTENDS BocMessages

CONSTANTS
    Lengths,    \* of strings, in combinations
    Boundary    \* of strings, one at a time

\* Printable characters, all different from their neighbours.
String(n, seed) == [i \in 1..n |-> 33 + ((i + seed) % 90)]
Payload(n) == [i \in 1..n |-> (7 * i) % 256]

Word32(first, rest) == [i \in 1..32 |-> IF i = 1 THEN first ELSE (rest * i) % 256]
Words == {Word32(0, 0), Word32(255, 1), Word32(15, 3), Word32(0, 5), Word32(16, 5)}
Hash == Word32(77, 9)
Small(n) == [i \in 1..32 |-> IF i < 25 THEN 0 ELSE (n * i) % 256]

At(word) == <<0>> \o word
User == At(Word32(200, 3))
Addresses == {NullAddress, User, At(Word32(15, 1))}

\* Every length of coins, with every pair of leading bits.
AllCoins == {[i \in 1..n |-> IF i = 1 THEN first ELSE 85] :
                n \in 0..15, first \in {1, 64, 128, 255}}
SomeCoins == {<<>>, <<1>>, [i \in 1..15 |-> 255]}

Chain == String(8, 1)

Request(id, chain, payload) ==
    [message_id |-> String(id, 2), source_chain |-> String(chain, 3),
     source_address |-> String(42, 4), destination_chain |-> Chain,
     destination_address |-> User, payload |-> Payload(payload),
     payload_hash |-> Hash, relayer_address |-> At(Word32(9, 9))]

MCRequests ==
    [kind : {"RelayerExecute"},
     actions : {<<Request(id, chain, payload)>> :
                   id, chain \in Lengths, payload \in Boundary}
               \cup {<<Request(96, 9, 0), Request(id, 97, 5)>> : id \in Lengths}]

MCRefunds ==
    [kind : {"NativeRefund"}, tx_hash : Words, address : Addresses, amount : SomeCoins]

Call ==
    [kind : {"CallContract"}, source_address : {User}, payload_hash : {Hash},
     destination_chain : {String(n, 1) : n \in Lengths},
     destination_address : {String(n, 2) : n \in Lengths},
     payload : {Payload(n) : n \in Boundary}]
Paid ==
    [kind : {"NativeGasPaid"}, sender : {User}, payload_hash : {Hash}, msg_value : Words,
     refund_address : Addresses, destination_chain : {Chain},
     destination_address : {String(n, 2) : n \in Lengths}]
Added ==
    [kind : {"NativeGasAdded"}, tx_hash : Words, refund_address : Addresses,
     msg_value : Words]
JettonPaid ==
    [kind : {"JettonGasPaid"}, minter : {NullAddress, User}, amount : AllCoins,
     payload_hash : Words, refund_address : {User}, destination_chain : {Chain},
     destination_address : {String(42, 2)}]
JettonAdded ==
    [kind : {"JettonGasAdded"}, minter : {User}, sender : Addresses, amount : AllCoins,
     tx_hash : {Hash}, refund_address : Addresses]
Approved ==
    [kind : {"MessageApproved"}, message_id : {String(n, 2) : n \in Lengths},
     source_chain : {Chain}, source_address : {String(n, 4) : n \in Lengths},
     payload_hash : Words, destination_address : {User}, destination_chain : {Chain}]
Rotated ==
    [kind : {"SignersRotated"}, signers_hash : Words, epoch : Words \cup {Small(0), Small(11)}]
Deployment ==
    [kind : {"ITSInterchainTokenDeploymentStarted"}, token_id : Words,
     token_name : {String(n, 5) : n \in Lengths},
     token_symbol : {String(n, 6) : n \in Lengths}, decimals : {<<0>>, <<18>>, <<255>>},
     destination_chain : {Chain}]
Transfer ==
    [kind : {"ITSInterchainTransfer"}, token_id : {Hash}, jetton_amount : {Small(11)},
     sender_address : {At(w) : w \in Words}, destination_chain : {Chain},
     destination_address : {Payload(n) : n \in Lengths},
     data : {Payload(n) : n \in Boundary}]
Link ==
    [kind : {"ITSLinkTokenStarted"}, token_id : {Hash},
     token_manager_type : {<<0>>, <<4>>, <<5>>}, destination_chain : {Chain},
     source_token_address : {At(w) : w \in Words},
     destination_token_address : {Payload(n) : n \in Lengths}]
Metadata ==
    [kind : {"ITSTokenMetadataRegistered"}, address : Addresses,
     decimals : {<<0>>, <<18>>, <<255>>}]

MCLogs ==
    Call \cup Paid \cup Added \cup JettonPaid \cup JettonAdded \cup Approved
        \cup Rotated \cup Deployment \cup Transfer \cup Link \cup Metadata

Approval(id, payload_hash) ==
    [message_id |-> String(id, 2), source_chain |-> Chain, source_address |-> String(42, 4),
     destination_chain |-> Chain, destination_address |-> Hash,
     payload_hash |-> payload_hash]

MCProofs ==
    [kind : {"ApproveMessages"},
     messages : {<<Approval(n, w)>> : n \in Lengths, w \in Words}
                \cup {<<Approval(n, Hash), Approval(50, w)>> : n \in Lengths, w \in Words}]

=============================================================================
