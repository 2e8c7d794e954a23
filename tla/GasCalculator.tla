--------------------------- MODULE GasCalculator ---------------------------
(***************************************************************************)
(* GasCalculator: what the transactions of a trace cost the relayer, as    *)
(* the change of the balances of its own accounts.                         *)
(*                                                                         *)
(* A transaction is a record with its account, its fees (total_fees) and   *)
(* its outs (out_msgs); a message has a destination, a value and a         *)
(* fwd_fee.  A log has NoDestination.                                      *)
(***************************************************************************)
EXTENDS Integers, Sequences, SequencesExt, FiniteSets, Functions

CONSTANTS
    OurAddresses,   \* our_addresses: the wallets, the gateway, the gas service
    NoDestination

ASSUME AddressAssumption ==
    /\ IsFiniteSet(OurAddresses)
    /\ NoDestination \notin OurAddresses

\* total_fees is unsigned; the values of a message are read as i128.
IsTransaction(tx) ==
    /\ tx.fees \in Nat
    /\ Len(tx.outs) \in Nat /\ DOMAIN tx.outs = 1..Len(tx.outs)
    /\ \A m \in DOMAIN tx.outs : tx.outs[m].value \in Int /\ tx.outs[m].fwd_fee \in Int

is_our_transaction(tx) == tx.account \in OurAddresses

us_receiving(tx, dest) == tx.account \notin OurAddresses /\ dest \in OurAddresses

\* Mutant: what we send to ourselves counts as spent.
us_sending_any(tx, dest) == tx.account \in OurAddresses

us_sending(tx, dest) == tx.account \in OurAddresses /\ dest \notin OurAddresses

\* What one out_msg adds to the balances, and what one transaction does.
MessageCost(tx, msg) ==
    (IF is_our_transaction(tx) THEN msg.fwd_fee ELSE 0)
        + (IF msg.destination = NoDestination THEN 0
           ELSE IF us_sending(tx, msg.destination) THEN msg.value
           ELSE IF us_receiving(tx, msg.destination) THEN 0 - msg.value
           ELSE 0)

TransactionCost(tx) ==
    (IF is_our_transaction(tx) THEN tx.fees ELSE 0)
        + SumFunction([m \in DOMAIN tx.outs |-> MessageCost(tx, tx.outs[m])])

cost(txs) == SumFunction([i \in DOMAIN txs |-> TransactionCost(txs[i])])

AtLeastZero(n) == IF n > 0 THEN n ELSE 0

\* Mutant: a gain is charged as well.
calc_message_gas_signed(txs) == cost(txs)

calc_message_gas(txs) == AtLeastZero(cost(txs))

\* The refund itself is the first message of the third transaction.
calc_message_gas_native_gas_refunded(txs) ==
    IF 3 \in DOMAIN txs /\ 1 \in DOMAIN txs[3].outs
    THEN AtLeastZero(cost(txs) - txs[3].outs[1].value)
    ELSE 0

-----------------------------------------------------------------------------
(* The reference: account by account, everything that leaves it and          *)
(* everything that arrives, ours or not.                                     *)

Carried(msg) == IF msg.destination = NoDestination THEN 0 ELSE msg.value

Spent(a, tx) ==
    IF tx.account # a THEN 0
    ELSE tx.fees
         + SumFunction([m \in DOMAIN tx.outs |-> tx.outs[m].fwd_fee + Carried(tx.outs[m])])

Received(a, tx) ==
    SumFunction([m \in DOMAIN tx.outs |->
                    IF tx.outs[m].destination = a THEN tx.outs[m].value ELSE 0])

\* What our accounts have less after the trace than before it.
BalanceLoss(txs) ==
    SumFunction([a \in OurAddresses |->
                    SumFunction([i \in DOMAIN txs |-> Spent(a, txs[i])])
                        - SumFunction([i \in DOMAIN txs |-> Received(a, txs[i])])])

=============================================================================
