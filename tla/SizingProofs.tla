---------------------------- MODULE SizingProofs ----------------------------
(***************************************************************************)
(* What the sizing of an order returns, for all integers.                  *)
(***************************************************************************)
EXTENDS Sizing, TLAPS

(* What division without remainder returns.                                *)
LEMMA Quotient ==
  ASSUME NEW a \in Nat, NEW d \in Nat \ {0}
  PROVE  /\ a \div d \in Nat
         /\ (a \div d) * d <= a
         /\ a < ((a \div d) + 1) * d
  BY SMT

(* A product of positive numbers is positive.                              *)
LEMMA Product ==
  ASSUME NEW a \in Nat \ {0}, NEW b \in Nat \ {0}
  PROVE  a * b \in Nat \ {0}
  BY SMT

(* A multiple leaves no remainder.                                         *)
LEMMA Multiple ==
  ASSUME NEW n \in Nat, NEW s \in Nat \ {0}
  PROVE  (n * s) % s = 0
  BY SMT

(* The rounded quantity is the greatest multiple of the step the target    *)
(* can pay for.                                                            *)
LEMMA RoundDownIsBest ==
  ASSUME NEW target \in Nat, NEW price \in Nat \ {0}, NEW step \in Nat \ {0}
  PROVE  LET q == RoundDown(target, price, step)
         IN /\ q \in Nat
            /\ q % step = 0
            /\ q * price <= target
            /\ (q + step) * price > target
            /\ \A n \in Nat : (n * step) * price <= target => n * step <= q
<1> DEFINE ps == price * step
           n == target \div ps
<1>1. ps \in Nat \ {0}
  BY Product
<1> HIDE DEF ps
<1>2. n \in Nat /\ n * ps <= target /\ target < (n + 1) * ps
  BY <1>1, Quotient
<1> HIDE DEF n
<1>3. RoundDown(target, price, step) = n * step
  BY DEF RoundDown, n, ps
<1>4. n * step \in Nat /\ (n * step) % step = 0
  BY <1>2, Multiple
<1>5. (n * step) * price = n * ps /\ (n * step + step) * price = (n + 1) * ps
  BY <1>2 DEF ps
<1>6. ASSUME NEW m \in Nat, (m * step) * price <= target PROVE m * step <= n * step
  <2>1. (m * step) * price = m * ps
    BY DEF ps
  <2>2. m * ps < (n + 1) * ps
    BY <1>1, <1>2, <1>6, <2>1
  <2>3. m < n + 1
    BY <1>1, <1>2, <2>2
  <2>4. QED
    BY <1>2, <2>3
<1>7. QED
  BY <1>2, <1>3, <1>4, <1>5, <1>6

(* A larger factor makes a larger product.                                 *)
LEMMA ProductMonotone ==
  ASSUME NEW a \in Nat, NEW b \in Nat, NEW c \in Nat, a <= b
  PROVE  c * a <= c * b /\ c * a \in Nat /\ c * b \in Nat
  BY SMT

(* The quantity of an input whose numbers are integers can be paid for and *)
(* is a multiple of the step; nothing is sized out of a bad input.         *)
LEMMA QuantityFits ==
  ASSUME NEW i, i.balance \in Int, i.risk \in Int, i.leverage \in Int,
         i.price \in Int, i.step \in Int
  PROVE  /\ Quantity(i) \in Nat
         /\ Quantity(i) # 0 => Sizeable(i)
         /\ Sizeable(i) => /\ Quantity(i) % i.step = 0
                           /\ Quantity(i) * i.price <= Target(i)
<1>1. CASE Sizeable(i)
  <2>1. /\ i.balance \in Nat \ {0} /\ i.risk \in Nat \ {0} /\ i.leverage \in Nat \ {0}
        /\ i.price \in Nat \ {0} /\ i.step \in Nat \ {0}
    BY <1>1 DEF Sizeable
  <2>2. i.balance * i.risk \in Nat \ {0}
    BY <2>1, Product
  <2>3. Target(i) \in Nat
    BY <2>1, <2>2, Product DEF Target
  <2>4. Quantity(i) = RoundDown(Target(i), i.price, i.step)
    BY <1>1 DEF Quantity
  <2>5. ASSUME NEW t \in Nat, NEW p \in Nat \ {0}, NEW s \in Nat \ {0}
        PROVE  /\ RoundDown(t, p, s) \in Nat
               /\ RoundDown(t, p, s) % s = 0
               /\ RoundDown(t, p, s) * p <= t
    BY RoundDownIsBest
  <2> DEFINE q == RoundDown(Target(i), i.price, i.step)
  <2>6. q \in Nat /\ q % i.step = 0 /\ q * i.price <= Target(i)
    BY <2>1, <2>3, <2>5
  <2> HIDE DEF q
  <2>7. Quantity(i) = q
    BY <2>4 DEF q
  <2>8. QED
    BY <1>1, <2>6, <2>7
<1>2. CASE ~Sizeable(i)
  BY <1>2 DEF Quantity
<1>3. QED
  BY <1>1, <1>2
=============================================================================
