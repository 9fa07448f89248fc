-------------------------- MODULE CopierPlanProofs --------------------------
(***************************************************************************)
(* The planning of a copier run, proved for plans of any length: which     *)
(* items an execution has, and in which order.                             *)
(***************************************************************************)
EXTENDS CopierPlan, FiniteSetTheorems, TLAPS

(* Every set of natural numbers has a least element.  The intervals 0 .. m *)
(* are finite sets, on which strict inclusion is well-founded.             *)
LEMMA LeastNatural ==
  ASSUME NEW S \in SUBSET Nat, S # {}
  PROVE  \E m \in S : \A k \in S : m <= k
<1> DEFINE Intervals == {0 .. m : m \in S}
<1>1. Intervals \subseteq FiniteSubsetsOf(Nat) /\ Intervals # {}
  <2>1. ASSUME NEW m \in S PROVE 0 .. m \in SUBSET Nat /\ IsFiniteSet(0 .. m)
    BY FS_Interval
  <2>2. QED
    BY <2>1 DEF FiniteSubsetsOf
<1>2. PICK x \in Intervals :
        \A y \in Intervals : ~(<<y, x>> \in StrictSubsetOrdering(Nat))
  <2> HIDE DEF Intervals
  <2>1. QED
    BY <1>1, WFMin, FS_StrictSubsetOrderingWellFounded
<1>3. PICK m \in S : x = 0 .. m
  OBVIOUS
<1>4. ASSUME NEW k \in S, k < m PROVE FALSE
  <2>1. m \in 0 .. m /\ m \notin 0 .. k /\ 0 .. k \subseteq 0 .. m
    BY <1>4
  <2>2. <<0 .. k, 0 .. m>> \in StrictSubsetOrdering(Nat)
    BY <2>1 DEF StrictSubsetOrdering
  <2>3. QED
    BY <1>2, <1>3, <2>2
<1>5. \A k \in S : m <= k
  BY <1>4
<1>6. QED
  BY <1>5

(* Induction over the natural numbers, of a set.                           *)
LEMMA NaturalsAreReached ==
  ASSUME NEW S \in SUBSET Nat, 0 \in S, \A n \in S : n + 1 \in S
  PROVE  S = Nat
<1> SUFFICES ASSUME Nat \ S # {} PROVE FALSE
  OBVIOUS
<1>1. PICK m \in Nat \ S : \A k \in Nat \ S : m <= k
  BY LeastNatural
<1>2. m # 0 /\ m - 1 \in Nat
  BY <1>1
<1>3. m - 1 \in S
  BY <1>1, <1>2
<1>4. QED
  BY <1>1, <1>2, <1>3

(* Every set of indices of a sequence has a greatest element.              *)
LEMMA GreatestIndex ==
  ASSUME NEW n \in Nat, NEW S \in SUBSET (1 .. n), S # {}
  PROVE  \E m \in S : \A k \in S : k <= m
<1> DEFINE T == {n - k : k \in S}
<1>1. T \in SUBSET Nat /\ T # {}
  <2>1. \A k \in S : n - k \in Nat
    OBVIOUS
  <2>2. QED
    BY <2>1
<1>2. PICK t \in T : \A u \in T : t <= u
  <2> HIDE DEF T
  <2>1. QED
    BY <1>1, LeastNatural
<1>3. PICK m \in S : t = n - m
  OBVIOUS
<1>4. ASSUME NEW k \in S PROVE k <= m
  <2>1. n - k \in T
    OBVIOUS
  <2>2. n - m <= n - k
    BY <1>2, <1>3, <2>1
  <2>3. QED
    BY <2>2
<1>5. QED
  BY <1>4

(* One step of the loop over the planned items.                            *)
ItemsAt(plan, before, n) ==
  IF n = 0 THEN <<>>
  ELSE IF IsExecuted(plan[n]) THEN Append(before, ItemOf(plan[n]))
  ELSE before

(* The recursive function ItemsUpTo is what its equation says: the loop    *)
(* ends for every plan.                                                    *)
LEMMA ItemsUpToEquation ==
  ASSUME NEW plan, Len(plan) \in Nat
  PROVE  LET items == ItemsUpTo(plan)
         IN items = [n \in 0 .. Len(plan) |-> ItemsAt(plan, items[n - 1], n)]
<1> DEFINE Solves(f, m) == f = [n \in 0 .. m |-> ItemsAt(plan, f[n - 1], n)]
           Solved == {m \in Nat : \E f : Solves(f, m)}
<1>1. 0 \in Solved
  <2> DEFINE f == [n \in 0 .. 0 |-> <<>>]
  <2>1. Solves(f, 0)
    BY DEF ItemsAt
  <2>2. QED
    BY <2>1
<1>2. ASSUME NEW m \in Solved PROVE m + 1 \in Solved
  <2>1. PICK f : Solves(f, m)
    OBVIOUS
  <2> DEFINE g == [n \in 0 .. m + 1 |-> IF n = m + 1 THEN ItemsAt(plan, f[m], m + 1)
                                        ELSE f[n]]
  <2>2. Solves(g, m + 1)
    <3>1. ASSUME NEW n \in 0 .. m + 1 PROVE g[n] = ItemsAt(plan, g[n - 1], n)
      <4>1. CASE n = m + 1
        BY <4>1
      <4>2. CASE n = 0
        BY <2>1, <4>2 DEF ItemsAt
      <4>3. CASE n \in 1 .. m
        <5>1. g[n] = f[n] /\ g[n - 1] = f[n - 1]
          BY <4>3
        <5>2. QED
          BY <2>1, <4>3, <5>1
      <4>4. QED
        BY <4>1, <4>2, <4>3
    <3> HIDE DEF g
    <3>2. DOMAIN g = 0 .. m + 1 /\ g = [n \in 0 .. m + 1 |-> g[n]]
      BY DEF g
    <3>3. QED
      BY <3>1, <3>2
  <2>3. QED
    BY <2>2
<1>3. Len(plan) \in Solved
  <2> HIDE DEF Solved
  <2>1. Solved \in SUBSET Nat
    BY DEF Solved
  <2>2. QED
    BY <1>1, <1>2, <2>1, NaturalsAreReached
<1>4. ItemsUpTo(plan) = CHOOSE f : Solves(f, Len(plan))
  BY DEF ItemsUpTo, ItemsAt
<1>5. QED
  BY <1>3, <1>4

(* `at` shows that the items `out` are those made of the first m planned   *)
(* items that are to be executed, in the order of the plan.                *)
Follows(out, plan, m, at) ==
  /\ out \in Seq({ItemOf(plan[n]) : n \in 1 .. Len(plan)})
  /\ Len(out) <= m
  /\ at \in [1 .. Len(out) -> 1 .. m]
  /\ \A i, k \in 1 .. Len(out) : i < k => at[i] < at[k]
  /\ \A i \in 1 .. Len(out) : out[i] = ItemOf(plan[at[i]]) /\ IsExecuted(plan[at[i]])
  /\ \A n \in 1 .. m : IsExecuted(plan[n]) => \E i \in 1 .. Len(out) : at[i] = n

(* What Append does to a sequence.                                         *)
LEMMA Appended ==
  ASSUME NEW T, NEW s \in Seq(T), NEW e \in T
  PROVE  /\ Append(s, e) \in Seq(T)
         /\ Len(s) \in Nat /\ Len(Append(s, e)) = Len(s) + 1
         /\ \A i \in 1 .. Len(s) : Append(s, e)[i] = s[i]
         /\ Append(s, e)[Len(s) + 1] = e
  OBVIOUS

(* One more planned item.                                                  *)
LEMMA FollowsStep ==
  ASSUME NEW plan, Len(plan) \in Nat, NEW m \in Nat, m + 1 <= Len(plan),
         NEW out, NEW at, Follows(out, plan, m, at)
  PROVE  \E next : Follows(ItemsAt(plan, out, m + 1), plan, m + 1, next)
<1> DEFINE T == {ItemOf(plan[n]) : n \in 1 .. Len(plan)}
           e == ItemOf(plan[m + 1])
<1>1. out \in Seq(T)
  BY DEF Follows
<1>2. e \in T
  BY m + 1 \in 1 .. Len(plan)
<1> HIDE DEF T
<1>3. PICK L \in Nat : L = Len(out)
  BY <1>1
<1>4. /\ L <= m /\ at \in [1 .. L -> 1 .. m]
      /\ \A i, k \in 1 .. L : i < k => at[i] < at[k]
      /\ \A i \in 1 .. L : out[i] = ItemOf(plan[at[i]]) /\ IsExecuted(plan[at[i]])
      /\ \A n \in 1 .. m : IsExecuted(plan[n]) => \E i \in 1 .. L : at[i] = n
  BY <1>3 DEF Follows
<1>5. \A i \in 1 .. L : at[i] \in 1 .. m
  BY <1>4
<1>6. CASE IsExecuted(plan[m + 1])
  <2> DEFINE next == [i \in 1 .. L + 1 |-> IF i = L + 1 THEN m + 1 ELSE at[i]]
             longer == Append(out, e)
  <2>1. ItemsAt(plan, out, m + 1) = longer
    BY <1>6 DEF ItemsAt
  <2>2. /\ longer \in Seq(T) /\ Len(longer) = L + 1
        /\ \A i \in 1 .. L : longer[i] = out[i]
        /\ longer[L + 1] = e
    <3> HIDE DEF e
    <3>1. QED
      BY <1>1, <1>2, <1>3, Appended
  <2>3. /\ \A i \in 1 .. L : next[i] = at[i]
        /\ next[L + 1] = m + 1
    OBVIOUS
  <2>4. next \in [1 .. L + 1 -> 1 .. m + 1]
    <3>1. \A i \in 1 .. L : at[i] \in 1 .. m + 1
      BY <1>5
    <3>2. QED
      BY <3>1
  <2> HIDE DEF next, longer
  <2>5. \A i, k \in 1 .. L + 1 : i < k => next[i] < next[k]
    <3> SUFFICES ASSUME NEW i \in 1 .. L + 1, NEW k \in 1 .. L + 1, i < k
                 PROVE  next[i] < next[k]
      OBVIOUS
    <3>1. i \in 1 .. L /\ next[i] = at[i] /\ at[i] \in 1 .. m
      BY <1>5, <2>3
    <3>2. CASE k = L + 1
      BY <2>3, <3>1, <3>2
    <3>3. CASE k \in 1 .. L
      BY <1>4, <2>3, <3>1, <3>3
    <3>4. QED
      BY <3>2, <3>3
  <2>6. ASSUME NEW i \in 1 .. L + 1
        PROVE  longer[i] = ItemOf(plan[next[i]]) /\ IsExecuted(plan[next[i]])
    <3>1. CASE i = L + 1
      BY <1>6, <2>2, <2>3, <3>1
    <3>2. CASE i \in 1 .. L
      BY <1>4, <2>2, <2>3, <3>2
    <3>3. QED
      BY <3>1, <3>2
  <2>7. ASSUME NEW n \in 1 .. m + 1, IsExecuted(plan[n])
        PROVE  \E i \in 1 .. L + 1 : next[i] = n
    <3>1. CASE n = m + 1
      BY <2>3, <3>1, L + 1 \in 1 .. L + 1
    <3>2. CASE n \in 1 .. m
      <4>1. PICK i \in 1 .. L : at[i] = n
        BY <1>4, <2>7, <3>2
      <4>2. QED
        BY <2>3, <4>1, i \in 1 .. L + 1
    <3>3. QED
      BY <3>1, <3>2
  <2>8. L + 1 <= m + 1
    BY <1>4
  <2>9. Follows(longer, plan, m + 1, next)
    BY <2>2, <2>4, <2>5, <2>6, <2>7, <2>8 DEF Follows, T
  <2>10. QED
    BY <2>1, <2>9
<1>7. CASE ~IsExecuted(plan[m + 1])
  <2>1. ItemsAt(plan, out, m + 1) = out
    BY <1>7 DEF ItemsAt
  <2>2. at \in [1 .. L -> 1 .. m + 1]
    <3>1. \A i \in 1 .. L : at[i] \in 1 .. m + 1
      BY <1>5
    <3>2. QED
      BY <1>4, <3>1
  <2>3. ASSUME NEW n \in 1 .. m + 1, IsExecuted(plan[n])
        PROVE  \E i \in 1 .. L : at[i] = n
    <3>1. n \in 1 .. m
      BY <1>7, <2>3
    <3>2. QED
      BY <1>4, <2>3, <3>1
  <2>4. L <= m + 1
    BY <1>4
  <2>5. Follows(out, plan, m + 1, at)
    BY <1>1, <1>3, <1>4, <2>2, <2>3, <2>4 DEF Follows, T
  <2>6. QED
    BY <2>1, <2>5
<1>8. QED
  BY <1>6, <1>7

(* An execution has the items of its plan that are not on hold, all of     *)
(* them, once each and in their order (build_execution_items_from_...).    *)
THEOREM ExecutionFollowsThePlan ==
  ASSUME NEW plan, Len(plan) \in Nat
  PROVE  \E at : Follows(ExecutionItems(plan), plan, Len(plan), at)
<1> DEFINE items == ItemsUpTo(plan)
           Good == {m \in Nat : m <= Len(plan) => \E at : Follows(items[m], plan, m, at)}
<1>1. \A n \in 0 .. Len(plan) : items[n] = ItemsAt(plan, items[n - 1], n)
  <2> HIDE DEF items
  <2>1. items = [n \in 0 .. Len(plan) |-> ItemsAt(plan, items[n - 1], n)]
    BY ItemsUpToEquation DEF items
  <2>2. QED
    BY <2>1
<1> HIDE DEF items
<1>2. 0 \in Good
  <2>1. items[0] = <<>>
    BY <1>1 DEF ItemsAt
  <2>2. Follows(<<>>, plan, 0, <<>>)
    BY DEF Follows
  <2>3. QED
    BY <2>1, <2>2
<1>3. ASSUME NEW m \in Good PROVE m + 1 \in Good
  <2>1. CASE m + 1 <= Len(plan)
    <3>1. PICK at : Follows(items[m], plan, m, at)
      BY <2>1
    <3>2. items[m + 1] = ItemsAt(plan, items[m], m + 1)
      BY <1>1, <2>1
    <3>3. QED
      BY <2>1, <3>1, <3>2, FollowsStep
  <2>2. QED
    BY <2>1
<1>4. Len(plan) \in Good
  <2>1. Good \in SUBSET Nat
    OBVIOUS
  <2> HIDE DEF Good
  <2>2. QED
    BY <1>2, <1>3, <2>1, NaturalsAreReached
<1>5. QED
  BY <1>4 DEF ExecutionItems, items
=============================================================================
