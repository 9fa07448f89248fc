------------------------- MODULE OrderSizingProofs -------------------------
(***************************************************************************)
(* The dispatch of one simulated order, proved for all inputs.             *)
(***************************************************************************)
EXTENDS OrderSizing, SizingProofs

Status ==
  IF ~is_valid THEN "validation_failed"
  ELSE IF errors # {} THEN "order_request_validation_failed"
  ELSE "simulated_dispatched"

(* What each stage has computed is a function of the input.                *)
SizingInv ==
  /\ TypeOK
  /\ stage \in {"sized", "validated", "done"} =>
       /\ rounded = Quantity(input)
       /\ is_valid <=> Sizeable(input) /\ WithinMinimums(input, rounded)
  /\ stage \in {"validated", "done"} => errors = RequestErrors(input, rounded)
  /\ status = (IF stage = "done" THEN Status ELSE "none")

(* The numbers of an input that is sized are positive integers.            *)
LEMMA InputNumbers ==
  ASSUME NEW i \in Inputs
  PROVE  /\ i.step \in Int /\ i.price \in Int
         /\ Sizeable(i) => /\ Target(i) \in Nat \ {0}
                          /\ i.price \in Nat \ {0}
                          /\ i.step \in Nat \ {0}
<1>1. /\ i.balance \in Int /\ i.risk \in Int /\ i.leverage \in Int
      /\ i.price \in Int /\ i.step \in Int
  BY SizingAssumption DEF Inputs
<1>2. ASSUME Sizeable(i) PROVE Target(i) \in Nat \ {0}
  <2>1. i.balance \in Nat \ {0} /\ i.risk \in Nat \ {0} /\ i.leverage \in Nat \ {0}
    BY <1>1, <1>2 DEF Sizeable
  <2>2. i.balance * i.risk \in Nat \ {0}
    BY <2>1, Product
  <2>3. QED
    BY <2>1, <2>2, Product DEF Target
<1>3. QED
  BY <1>1, <1>2 DEF Sizeable

(* The quantity of an input is a natural number.                           *)
LEMMA QuantityType ==
  ASSUME NEW i \in Inputs
  PROVE  Quantity(i) \in Nat
  BY InputNumbers, RoundDownIsBest DEF Quantity

(* Initially nothing is computed.                                          *)
LEMMA SizingInit == Init => SizingInv
<1> SUFFICES ASSUME Init PROVE SizingInv
  OBVIOUS
<1>1. is_valid \in BOOLEAN
  BY Zenon DEF Init
<1>2. QED
  BY <1>1 DEF Init, SizingInv, TypeOK

(* Sizing computes the quantity and compares it with the minimums.         *)
LEMMA SizeStep == ASSUME SizingInv, Size PROVE SizingInv'
<1>1. input' = input /\ errors' = errors /\ status' = status
  BY DEF Size
<1>2. rounded' = Quantity(input)
  BY DEF Size
<1>3. /\ is_valid' \in BOOLEAN
      /\ is_valid' <=> Sizeable(input) /\ WithinMinimums(input, rounded')
  BY Zenon DEF Size, Sizeable
<1>4. stage = "new" /\ stage' = "sized"
  BY DEF Size
<1>5. TypeOK'
  BY <1>1, <1>2, <1>3, <1>4, QuantityType DEF SizingInv, TypeOK
<1>6. status' = "none"
  BY <1>1, <1>4 DEF SizingInv
<1>7. Quantity(input)' = Quantity(input)
  BY <1>1 DEF Quantity, Sizeable, RoundDown, Target
<1>8. is_valid' <=> Sizeable(input') /\ WithinMinimums(input', rounded')
  BY <1>1, <1>3
<1>9. QED
  BY <1>2, <1>4, <1>5, <1>6, <1>7, <1>8 DEF SizingInv

(* Validation computes the errors of the request.                          *)
LEMMA ValidateStep == ASSUME SizingInv, Validate PROVE SizingInv'
<1>1. UNCHANGED <<input, rounded, is_valid, status>>
  BY DEF Validate
<1>2. stage = "sized" /\ stage' = "validated" /\ errors' = RequestErrors(input, rounded)
  BY DEF Validate
<1>3. TypeOK'
  BY <1>1, <1>2 DEF SizingInv, TypeOK
<1>4. rounded' = Quantity(input)' /\ errors' = RequestErrors(input, rounded)'
  BY <1>1, <1>2 DEF SizingInv
<1>5. is_valid' <=> Sizeable(input') /\ WithinMinimums(input', rounded')
  BY <1>1, <1>2 DEF SizingInv
<1>6. status' = "none"
  BY <1>1, <1>2 DEF SizingInv
<1>7. QED
  BY <1>2, <1>3, <1>4, <1>5, <1>6 DEF SizingInv

(* The conclusion is drawn from both.                                      *)
LEMMA ConcludeStep == ASSUME SizingInv, Conclude PROVE SizingInv'
<1>1. UNCHANGED <<input, rounded, is_valid, errors>>
  BY DEF Conclude
<1>2. stage = "validated" /\ stage' = "done" /\ status' = Status
  BY DEF Conclude, Status
<1>3. status' = Status' /\ status' \in {"validation_failed", "order_request_validation_failed",
                                      "simulated_dispatched"}
  BY <1>1, <1>2 DEF Status
<1>4. TypeOK'
  BY <1>1, <1>2, <1>3 DEF SizingInv, TypeOK
<1>5. rounded' = Quantity(input)' /\ errors' = RequestErrors(input, rounded)'
  BY <1>1, <1>2 DEF SizingInv
<1>6. is_valid' <=> Sizeable(input') /\ WithinMinimums(input', rounded')
  BY <1>1, <1>2 DEF SizingInv
<1>7. QED
  BY <1>2, <1>3, <1>4, <1>5, <1>6 DEF SizingInv

(* The invariant is inductive.                                             *)
THEOREM SizingInvariant == Spec => []SizingInv
<1>1. Init => SizingInv
  BY SizingInit
<1>2. SizingInv /\ UNCHANGED vars => SizingInv'
  BY DEF SizingInv, TypeOK, vars, Status
<1>3. SizingInv /\ [Next]_vars => SizingInv'
  BY <1>2, SizeStep, ValidateStep, ConcludeStep DEF Next
<1>4. QED
  BY <1>1, <1>3, PTL DEF Spec

(* More passes the minimums whenever less does.                            *)
LEMMA MinimumsMonotone ==
  ASSUME NEW i \in Inputs, Sizeable(i), NEW a \in Nat, NEW b \in Nat, a <= b,
         WithinMinimums(i, a)
  PROVE  WithinMinimums(i, b)
<1>1. /\ i.min_quantity \in Int \cup {None}
      /\ i.min_notional \in Int \cup {None}
      /\ i.price \in Nat \ {0}
  BY InputNumbers, SizingAssumption DEF Inputs
<1>2. a * i.price \in Nat /\ b * i.price \in Nat /\ a * i.price <= b * i.price
  BY <1>1
<1>3. ~Below(b, i.min_quantity)
  BY <1>1 DEF WithinMinimums, Below
<1>4. ~Below(b * i.price, i.min_notional)
  BY <1>1, <1>2 DEF WithinMinimums, Below
<1>5. QED
  BY <1>3, <1>4 DEF WithinMinimums

(* A dispatched order fits the risk and the market, and is the largest     *)
(* that does.                                                              *)
THEOREM DispatchedOrdersFit == Spec => []DispatchedFitsRiskAndMarket
<1>1. SizingInv => DispatchedFitsRiskAndMarket
  <2> SUFFICES ASSUME SizingInv, status = "simulated_dispatched"
               PROVE  /\ rounded > 0
                      /\ rounded % input.step = 0
                      /\ WithinMinimums(input, rounded)
                      /\ rounded * input.price <= Target(input)
                      /\ (rounded + input.step) * input.price > Target(input)
    BY DEF DispatchedFitsRiskAndMarket
  <2>1. stage = "done" /\ is_valid /\ errors = {}
    BY DEF SizingInv, Status
  <2>2. /\ Sizeable(input) /\ WithinMinimums(input, rounded)
        /\ rounded = Quantity(input) /\ RequestErrors(input, rounded) = {}
    BY <2>1 DEF SizingInv
  <2>3. input \in Inputs /\ rounded \in Nat
    BY DEF SizingInv, TypeOK
  <2>4. rounded > 0
    BY <2>2, <2>3 DEF RequestErrors
  <2>5. /\ Target(input) \in Nat /\ input.price \in Nat \ {0} /\ input.step \in Nat \ {0}
        /\ rounded = RoundDown(Target(input), input.price, input.step)
    BY <2>2, <2>3, InputNumbers DEF Quantity
  <2>6. ASSUME NEW t \in Nat, NEW p \in Nat \ {0}, NEW s \in Nat \ {0}
        PROVE  /\ RoundDown(t, p, s) % s = 0
               /\ RoundDown(t, p, s) * p <= t
               /\ (RoundDown(t, p, s) + s) * p > t
    BY RoundDownIsBest
  <2> DEFINE q == RoundDown(Target(input), input.price, input.step)
  <2>7. /\ q % input.step = 0
        /\ q * input.price <= Target(input)
        /\ (q + input.step) * input.price > Target(input)
    BY <2>5, <2>6
  <2> HIDE DEF q
  <2>8. rounded = q
    BY <2>5 DEF q
  <2>9. QED
    BY <2>2, <2>4, <2>7, <2>8
<1>2. QED
  BY <1>1, SizingInvariant, PTL

(* What the second validation finds in an order the first let pass.        *)
LEMMA SecondFindings ==
  ASSUME SizingInv, status = "order_request_validation_failed"
  PROVE  rounded = 0 \/ errors = {"invalid_side"}
<1>1. stage = "done" /\ is_valid /\ errors # {}
  BY DEF SizingInv, Status
<1>2. /\ Sizeable(input) /\ WithinMinimums(input, rounded)
      /\ rounded = Quantity(input) /\ errors = RequestErrors(input, rounded)
  BY <1>1 DEF SizingInv
<1>3. input \in Inputs /\ rounded \in Nat
  BY DEF SizingInv, TypeOK
<1>4. /\ Target(input) \in Nat /\ input.price \in Nat \ {0} /\ input.step \in Nat \ {0}
      /\ rounded = RoundDown(Target(input), input.price, input.step)
  BY <1>2, <1>3, InputNumbers DEF Quantity
<1>5. rounded % input.step = 0
  BY <1>4, RoundDownIsBest
<1>6. ASSUME rounded # 0 PROVE errors \subseteq {"invalid_side"}
  BY <1>2, <1>3, <1>4, <1>5, <1>6 DEF RequestErrors, WithinMinimums
<1>7. QED
  BY <1>1, <1>6

(* The second validation refuses only quantities of zero and unknown sides *)
(* among the orders the first let pass.                                    *)
THEOREM TheValidationsAgree == Spec => []ValidationsAgree
<1>1. SizingInv => ValidationsAgree
  BY SecondFindings DEF ValidationsAgree
<1>2. QED
  BY <1>1, SizingInvariant, PTL

(* No dispatch that could have been made is refused.                       *)
THEOREM RefusalsHaveReasons == Spec => []RefusedForAReason
<1>1. SizingInv => RefusedForAReason
  <2> SUFFICES ASSUME SizingInv, Sizeable(input), input.side \in {"buy", "sell"},
                      status \in {"validation_failed", "order_request_validation_failed"},
                      NEW n \in 1 .. Target(input),
                      (n * input.step) * input.price <= Target(input),
                      WithinMinimums(input, n * input.step)
               PROVE  FALSE
    BY DEF RefusedForAReason
  <2>1. input \in Inputs /\ rounded \in Nat
    BY DEF SizingInv, TypeOK
  <2>2. stage = "done" /\ rounded = Quantity(input)
    BY DEF SizingInv
  <2>3. /\ Target(input) \in Nat \ {0} /\ input.price \in Nat \ {0}
        /\ input.step \in Nat \ {0}
        /\ rounded = RoundDown(Target(input), input.price, input.step)
    BY <2>1, <2>2, InputNumbers DEF Quantity
  <2>4. n \in Nat \ {0} /\ n * input.step <= rounded
    <3>1. n \in Nat \ {0}
      BY <2>3
    <3>2. \A m \in Nat : (m * input.step) * input.price <= Target(input)
                         => m * input.step <= rounded
      <4>1. Target(input) \in Nat
        BY <2>3
      <4>2. QED
        BY <2>3, <4>1, RoundDownIsBest, Zenon
    <3>3. QED
      BY <3>1, <3>2
  <2>5. n * input.step \in Nat \ {0}
    BY <2>3, <2>4, Product
  <2>6. WithinMinimums(input, rounded)
    BY <2>1, <2>4, <2>5, MinimumsMonotone
  <2>7. is_valid
    BY <2>2, <2>6 DEF SizingInv
  <2>8. status = "order_request_validation_failed" /\ errors = RequestErrors(input, rounded)
    BY <2>2, <2>7 DEF SizingInv, Status
  <2>9. rounded # 0
    BY <2>1, <2>4, <2>5
  <2>10. errors = {"invalid_side"}
    BY <2>8, <2>9, SecondFindings
  <2>11. "invalid_side" \in RequestErrors(input, rounded)
    BY <2>8, <2>10
  <2>12. QED
    BY <2>11 DEF RequestErrors
<1>2. QED
  BY <1>1, SizingInvariant, PTL

(* The variables of a dispatch keep their types.                           *)
THEOREM SizingTypeCorrect == Spec => []TypeOK
<1>1. SizingInv => TypeOK
  BY DEF SizingInv
<1>2. QED
  BY <1>1, SizingInvariant, PTL
=============================================================================
