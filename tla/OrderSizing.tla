---------------------------- MODULE OrderSizing ----------------------------
(***************************************************************************)
(* The simulated dispatch of one order, manual_dispatch_service:           *)
(*   process_manual_simulated_dispatch_for_account                         *)
(* sizes the order (sizing/position_sizing.py), validates the request made *)
(* of it (core/order_validation.py) and decides on the result              *)
(* (order_request_validation_service.py).  The three look at the same      *)
(* numbers, each with rules of its own (module Sizing).                    *)
(***************************************************************************)
EXTENDS Sizing

CONSTANTS
  Balances, Risks, Leverages, Prices,      \* of the account and the request
  Steps, MinQuantities, MinNotionals,      \* of the market
  Sides                                    \* in lower case

ASSUME SizingAssumption ==
  /\ Balances \cup Risks \cup Leverages \cup Prices \cup Steps \subseteq Int
  /\ (MinQuantities \cup MinNotionals) \ {None} \subseteq Int
  /\ None \notin Int

Inputs ==
  [balance : Balances, risk : Risks, leverage : Leverages, price : Prices,
   step : Steps, min_quantity : MinQuantities, min_notional : MinNotionals,
   side : Sides]

VARIABLES
  input,     \* the account and the request
  stage,     \* how far the dispatch is
  rounded,   \* sizing_result.rounded_quantity
  is_valid,  \* sizing_result.is_valid
  errors,    \* errors of the order request
  status     \* order_result.status

vars == <<input, stage, rounded, is_valid, errors, status>>
-----------------------------------------------------------------------------
Init ==
  /\ input \in Inputs
  /\ stage = "new"
  /\ rounded = 0
  /\ is_valid = FALSE
  /\ errors = {}
  /\ status = "none"

(* calculate_position_size *)
Size ==
  /\ stage = "new"
  /\ stage' = "sized"
  /\ rounded' = Quantity(input)
  /\ is_valid' = (Sizeable(input) /\ WithinMinimums(input, rounded'))
  /\ UNCHANGED <<input, errors, status>>

(* validate_order_request *)
Validate ==
  /\ stage = "sized"
  /\ stage' = "validated"
  /\ errors' = RequestErrors(input, rounded)
  /\ UNCHANGED <<input, rounded, is_valid, status>>

(* build_manual_simulated_order_result *)
Conclude ==
  /\ stage = "validated"
  /\ stage' = "done"
  /\ status' = IF ~is_valid THEN "validation_failed"
               ELSE IF errors # {} THEN "order_request_validation_failed"
               ELSE "simulated_dispatched"
  /\ UNCHANGED <<input, rounded, is_valid, errors>>

Next == Size \/ Validate \/ Conclude

Spec == Init /\ [][Next]_vars
-----------------------------------------------------------------------------
TypeOK ==
  /\ input \in Inputs
  /\ stage \in {"new", "sized", "validated", "done"}
  /\ rounded \in Nat
  /\ is_valid \in BOOLEAN
  /\ status \in {"none", "validation_failed", "order_request_validation_failed",
                 "simulated_dispatched"}

(* A dispatched order can be traded, and costs no more than the risk taken *)
(* allows; one step more would cost more than that.                        *)
DispatchedFitsRiskAndMarket ==
  status = "simulated_dispatched" =>
    /\ rounded > 0
    /\ rounded % input.step = 0
    /\ WithinMinimums(input, rounded)
    /\ rounded * input.price <= Target(input)
    /\ (rounded + input.step) * input.price > Target(input)

(* The two validations agree on every sized order but one of quantity zero *)
(* or of an unknown side, which only the second refuses: its checks of the *)
(* minimums, the step and the notional never find what the first let pass. *)
ValidationsAgree ==
  status = "order_request_validation_failed" =>
    rounded = 0 \/ errors = {"invalid_side"}

(* No order the account can pay for is refused without a reason: a refusal *)
(* means that no multiple of the step is within the risk and the market's  *)
(* minimums, or that the request is not one.                               *)
RefusedForAReason ==
  status \in {"validation_failed", "order_request_validation_failed"} =>
    \/ ~Sizeable(input)
    \/ input.side \notin {"buy", "sell"}
    \/ \A n \in 1 .. Target(input) :
         (n * input.step) * input.price <= Target(input)
         => ~WithinMinimums(input, n * input.step)
=============================================================================
