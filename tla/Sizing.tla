------------------------------- MODULE Sizing -------------------------------
(***************************************************************************)
(* Sizes and validates an order: sizing/position_sizing.py and             *)
(* core/order_validation.py, which both dispatch paths use.  An order's    *)
(* input i is a record of its balance, risk, leverage, price and side, and *)
(* of the market's step and minimums.                                      *)
(*                                                                         *)
(* Balances and notionals are counted in one unit, quantities in another,  *)
(* prices in the first per the second, so that all are integers and only   *)
(* the quotient of target and price is not.  The code's Decimal keeps 28   *)
(* significant digits, which is exact enough for the quotient never to be  *)
(* rounded across a multiple of the step.                                  *)
(***************************************************************************)
EXTENDS Integers

CONSTANT None    \* a minimum the market lacks

Below(amount, minimum) == minimum # None /\ amount < minimum

Target(i) == i.balance * i.risk * i.leverage

(* Mutants of RoundDown: to the nearest multiple instead of the one below; *)
(* to one strictly below.                                                  *)
RoundNearest(target, price, step) ==
  ((2 * target + price * step) \div (2 * price * step)) * step

RoundBelow(target, price, step) == ((target - 1) \div (price * step)) * step

(* round_down_to_step of the raw quantity, target / price. *)
RoundDown(target, price, step) == (target \div (price * step)) * step

(* Mutant of Sizeable: the balance is not looked at.                       *)
SizeableAnyBalance(i) == i.risk > 0 /\ i.leverage > 0 /\ i.price > 0 /\ i.step > 0

(* Only such inputs are sized at all. *)
Sizeable(i) ==
  i.balance > 0 /\ i.risk > 0 /\ i.leverage > 0 /\ i.price > 0 /\ i.step > 0

(* rounded_quantity of the sizing: zero when there is nothing to size with. *)
Quantity(i) == IF Sizeable(i) THEN RoundDown(Target(i), i.price, i.step) ELSE 0

(* Mutant of WithinMinimums: the minimum notional is not looked at.        *)
WithinMinQuantity(i, quantity) == ~Below(quantity, i.min_quantity)

WithinMinimums(i, quantity) ==
  ~Below(quantity, i.min_quantity) /\ ~Below(quantity * i.price, i.min_notional)

(* The notional is the quantity times the price here as in the sizing, so  *)
(* that their consistency is never an error; the mode is "simulated".      *)
RequestErrors(i, quantity) ==
  {e \in {"invalid_side"} : i.side \notin {"buy", "sell"}}
    \cup {e \in {"price_must_be_positive"} : i.price <= 0}
    \cup {e \in {"requested_quantity_must_be_positive"} : quantity <= 0}
    \cup {e \in {"requested_quantity_below_min_quantity"} : Below(quantity, i.min_quantity)}
    \cup {e \in {"final_notional_below_min_notional"} :
            Below(quantity * i.price, i.min_notional)}
    \cup {e \in {"requested_quantity_not_aligned_to_step"} :
            i.step > 0 /\ quantity % i.step # 0}
=============================================================================
