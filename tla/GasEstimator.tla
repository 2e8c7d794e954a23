---------------------------- MODULE GasEstimator ----------------------------
(***************************************************************************)
(* TONGasEstimator: what a refund and an execution are expected to cost,   *)
(* from the configured GasEstimates.                                       *)
(***************************************************************************)
EXTENDS Naturals

CONSTANT GasEstimates   \* section gas_estimates of the configuration

ASSUME EstimatesAssumption ==
    GasEstimates \in
        [native_gas_refund : Nat, native_gas_refund_storage_slippage : Nat,
         execute_base : Nat, execute_payload : Nat, execute_storage_slippage : Nat,
         its_execute_minimum : Nat]

native_gas_refund_estimate ==
    GasEstimates.native_gas_refund + GasEstimates.native_gas_refund_storage_slippage

AtLeast(n, minimum) == IF n < minimum THEN minimum ELSE n

execute_estimate(payload) ==
    AtLeast(GasEstimates.execute_base + GasEstimates.execute_payload * payload
                + GasEstimates.execute_storage_slippage,
            GasEstimates.its_execute_minimum)

=============================================================================
