-------------------------- MODULE CopierRunProofs --------------------------
(***************************************************************************)
(* What a copier run guarantees, proved for any number of batches, any     *)
(* requests, any pool and any number of restarts.                          *)
(***************************************************************************)
EXTENDS CopierRun, CopierPlanProofs, SequenceTheorems

Guard == INSTANCE DispatchGuardProofs
-----------------------------------------------------------------------------
(* What a batch is asked for.                                              *)

Sides == {Side(j) : j \in Jobs}
Actions == {"none", "open", "hold", "increase", "reduce"}
ItemType ==
  [account_id : DOMAIN Str, exchange : Seq(STRING), side : Sides, action : Actions]

PlanOf(j) == BuildPlan(Side(j), j.quantity, j.accounts, KnownPositions(j))

(* The n-th account a caller listed gets an item. *)
Executes(j, n) == j.origin = "manual" \/ IsExecuted(PlanOf(j)[n])

(* `at` tells of every item of a job from which of the accounts it comes. *)
Places(j, at) ==
  /\ at \in [1 .. Len(Items[j]) -> 1 .. Len(j.accounts)]
  /\ \A i, k \in 1 .. Len(Items[j]) : i < k => at[i] < at[k]
  /\ \A i \in 1 .. Len(Items[j]) :
       Items[j][i].account_id = Ids(j)[at[i]] /\ Executes(j, at[i])
  /\ \A n \in 1 .. Len(j.accounts) :
       Executes(j, n) => \E i \in 1 .. Len(Items[j]) : at[i] = n

(* Jobs have texts where the code has texts.                               *)
LEMMA JobFields ==
  ASSUME NEW j \in Jobs
  PROVE  /\ j.accounts \in Seq((DOMAIN Str) \X Seq(STRING))
         /\ Len(j.accounts) \in 0 .. MaxItems
         /\ \A i \in 1 .. Len(j.accounts) :
              /\ AccountId(j.accounts[i]) \in DOMAIN Str
              /\ ExchangeName(j.accounts[i]) \in Seq(STRING)
         /\ Ids(j) = [i \in 1 .. Len(j.accounts) |-> AccountId(j.accounts[i])]
         /\ Side(j) \in Sides
<1>1. j.accounts \in Seq((DOMAIN Str) \X Seq(STRING)) /\ Len(j.accounts) <= MaxItems
      /\ MaxItems \in Nat /\ j.side \in STRING
  BY RunAssumption
<1>2. \A i \in 1 .. Len(j.accounts) : j.accounts[i] \in (DOMAIN Str) \X Seq(STRING)
  BY <1>1
<1>3. Len(j.accounts) \in 0 .. MaxItems
  BY <1>1
<1>4. \A i \in 1 .. Len(j.accounts) :
        /\ AccountId(j.accounts[i]) \in DOMAIN Str
        /\ ExchangeName(j.accounts[i]) \in Seq(STRING)
  <2> HIDE DEF Ids
  <2>1. ASSUME NEW a \in (DOMAIN Str) \X Seq(STRING)
        PROVE  AccountId(a) \in DOMAIN Str /\ ExchangeName(a) \in Seq(STRING)
    BY DEF AccountId, ExchangeName
  <2>2. QED
    BY <1>2, <2>1
<1>5. Side(j) \in Sides
  BY DEF Sides
<1>6. Ids(j) = [i \in 1 .. Len(j.accounts) |-> AccountId(j.accounts[i])]
  BY DEF Ids
<1>7. QED
  BY <1>1, <1>3, <1>4, <1>5, <1>6

(* The items of a job come from its accounts, in their order.              *)
LEMMA ItemsFollowAccounts ==
  ASSUME NEW j \in Jobs
  PROVE  /\ Items[j] \in Seq(ItemType)
         /\ Len(Items[j]) \in 0 .. MaxItems
         /\ \E at : Places(j, at)
<1> DEFINE n == Len(j.accounts)
<1>1. CASE j.origin = "manual"
  <2>1. Items[j] = [i \in 1 .. n |->
             [account_id |-> Ids(j)[i], exchange |-> ExchangeName(j.accounts[i]),
              side |-> Side(j), action |-> "none"]]
    BY <1>1 DEF Items
  <2>2. \A i \in 1 .. n : Items[j][i] \in ItemType /\ Items[j][i].account_id = Ids(j)[i]
    <3> TAKE i \in 1 .. n
    <3>1. Items[j][i] =
            [account_id |-> Ids(j)[i], exchange |-> ExchangeName(j.accounts[i]),
             side |-> Side(j), action |-> "none"]
      BY <2>1
    <3>2. Ids(j)[i] \in DOMAIN Str
      BY JobFields
    <3>3. QED
      BY <3>1, <3>2, JobFields DEF ItemType, Actions
  <2>3. n \in 0 .. MaxItems
    BY JobFields
  <2>4. DOMAIN Items[j] = 1 .. n
    BY <2>1
  <2>5. Items[j] \in Seq(ItemType) /\ Len(Items[j]) = n
    <3> DEFINE items == Items[j]
    <3>1. items = [i \in 1 .. n |-> items[i]]
      BY <2>1
    <3> HIDE DEF items, n
    <3>2. QED
      BY <2>2, <2>3, <3>1 DEF items
  <2>6. Places(j, [i \in 1 .. n |-> i])
    BY <1>1, <2>2, <2>3, <2>5 DEF Places, Executes
  <2>7. QED
    BY <2>3, <2>5, <2>6
<1>2. CASE j.origin # "manual"
  <2> DEFINE plan == PlanOf(j)
  <2>1. plan = [i \in 1 .. n |-> plan[i]] /\ n \in Nat
    BY JobFields DEF PlanOf, BuildPlan
  <2>2. \A i \in 1 .. n : /\ ItemOf(plan[i]) \in ItemType
                          /\ ItemOf(plan[i]).account_id = Ids(j)[i]
    <3> TAKE i \in 1 .. n
    <3>1. /\ plan[i].account_id = AccountId(j.accounts[i])
          /\ plan[i].exchange = ExchangeName(j.accounts[i])
          /\ plan[i].side = Side(j)
          /\ plan[i].action =
               SyncAction(j.quantity,
                          CurrentPosition(KnownPositions(j), AccountId(j.accounts[i])))
      BY DEF PlanOf, BuildPlan
    <3>2. plan[i].action \in Actions
      BY <3>1 DEF SyncAction, Actions
    <3> HIDE DEF plan
    <3>3. Ids(j)[i] = AccountId(j.accounts[i])
      BY JobFields
    <3>4. QED
      BY <3>1, <3>2, <3>3, JobFields DEF ItemOf, ItemType
  <2>3. Items[j] = ExecutionItems(plan)
    BY <1>2 DEF Items, PlanOf
  <2> HIDE DEF plan, n
  <2>4. Len(plan) = n
    BY <2>1
  <2>5. PICK at : Follows(Items[j], plan, n, at)
    BY <2>1, <2>3, <2>4, ExecutionFollowsThePlan
  <2>6. Items[j] \in Seq(ItemType)
    <3>1. {ItemOf(plan[i]) : i \in 1 .. n} \subseteq ItemType
      BY <2>2
    <3>2. QED
      BY <2>4, <2>5, <3>1 DEF Follows
  <2>7. Len(Items[j]) \in 0 .. MaxItems
    <3>1. n <= MaxItems /\ MaxItems \in Nat
      BY JobFields, RunAssumption DEF n
    <3>2. Len(Items[j]) \in Nat
      BY <2>6
    <3>3. QED
      BY <2>1, <2>5, <3>1, <3>2 DEF Follows
  <2>8. Places(j, at)
    BY <1>2, <2>2, <2>5 DEF Places, Follows, Executes, plan, n
  <2>9. QED
    BY <2>6, <2>7, <2>8
<1>3. QED
  BY <1>1, <1>2

(* In a route get_account finds the account of every item.                 *)
LEMMA RoutesReachTheirItems ==
  ASSUME NEW j \in Jobs, j.origin # "service", NEW i \in 1 .. Len(Items[j])
  PROVE  Items[j][i].account_id \in Reachable(j)
<1>1. PICK at : Places(j, at)
  BY ItemsFollowAccounts
<1>2. at[i] \in 1 .. Len(j.accounts) /\ Items[j][i].account_id = Ids(j)[at[i]]
  BY <1>1 DEF Places
<1>3. 1 .. Len(j.accounts) = DOMAIN j.accounts
  BY JobFields
<1>4. QED
  BY <1>2, <1>3 DEF Reachable

(* A request that names no account twice has no two items for an account.  *)
LEMMA DistinctItems ==
  ASSUME NEW j \in Jobs, IdsAccepted(Ids(j)),
         NEW i \in 1 .. Len(Items[j]), NEW k \in 1 .. Len(Items[j]), i # k
  PROVE  Items[j][i].account_id # Items[j][k].account_id
<1>1. PICK at : Places(j, at)
  BY ItemsFollowAccounts
<1>2. Len(Items[j]) \in Nat /\ Len(j.accounts) \in Nat
  BY ItemsFollowAccounts, JobFields
<1>3. at[i] # at[k] /\ at[i] \in 1 .. Len(j.accounts) /\ at[k] \in 1 .. Len(j.accounts)
  <2>1. at[i] \in 1 .. Len(j.accounts) /\ at[k] \in 1 .. Len(j.accounts)
    BY <1>1 DEF Places
  <2>2. (i < k => at[i] < at[k]) /\ (k < i => at[k] < at[i])
    BY <1>1 DEF Places
  <2>3. i < k \/ k < i
    BY <1>2
  <2>4. at[i] \in Int /\ at[k] \in Int
    BY <1>2, <2>1
  <2>5. QED
    BY <2>1, <2>2, <2>3, <2>4
<1>4. DOMAIN Ids(j) = 1 .. Len(j.accounts)
  BY DEF Ids
<1>5. QED
  BY <1>1, <1>3, <1>4 DEF Places, IdsAccepted
-----------------------------------------------------------------------------
(* The keys of the calls.                                                  *)

(* Any set that contains what keys are made of. *)
Token == STRING \cup Batches \cup Sides

StartsWith(k, run, a) ==
  /\ \A n \in 1 .. Len(run) : k[n] = run[n]
  /\ k[Len(run) + 1] = Separator
  /\ k[Len(run) + 2] = Str[a]

(* A sequence of elements of a set is one of elements of a larger set.     *)
LEMMA SeqOfMore ==
  ASSUME NEW S, NEW T, S \subseteq T, NEW s \in Seq(S)
  PROVE  s \in Seq(T)
<1>1. Len(s) \in Nat /\ s = [i \in 1 .. Len(s) |-> s[i]]
  OBVIOUS
<1>2. \A i \in 1 .. Len(s) : s[i] \in T
  OBVIOUS
<1>3. QED
  BY <1>1, <1>2

(* Where the parts of a key are.                                           *)
ReadsAs(k, r) ==
  LET n == Len(r.run_id)
      e == Len(r.exchange)
      s == Len(r.symbol)
  IN /\ StartsWith(k, r.run_id, r.account_id)
     /\ \A i \in 1 .. e : k[n + 3 + i] = r.exchange[i]
     /\ k[n + 3 + e + 1] = Separator
     /\ \A i \in 1 .. s : k[n + 3 + e + 1 + i] = r.symbol[i]
     /\ k[n + 3 + e + 1 + s + 2] = r.side
     /\ k[n + 3 + e + 1 + s + 4] = r.mode
     /\ Len(k) = n + 3 + e + 1 + s + 4

(* u is s and t, one after the other. *)
Joins(u, s, t) ==
  /\ Len(u) = Len(s) + Len(t)
  /\ \A i \in 1 .. Len(s) : u[i] = s[i]
  /\ \A i \in 1 .. Len(t) : u[Len(s) + i] = t[i]

LEMMA Joined ==
  ASSUME NEW S, NEW s \in Seq(S), NEW t \in Seq(S)
  PROVE  s \o t \in Seq(S) /\ Joins(s \o t, s, t)
<1> DEFINE u == s \o t
           m == Len(s)
<1>1. /\ u \in Seq(S) /\ Len(u) = m + Len(t)
      /\ \A i \in 1 .. m + Len(t) : u[i] = IF i <= m THEN s[i] ELSE t[i - m]
  BY ConcatProperties
<1>2. m \in Nat /\ Len(t) \in Nat
  OBVIOUS
<1> HIDE DEF u, m
<1>3. \A i \in 1 .. m : u[i] = s[i]
  BY <1>1, <1>2
<1>4. ASSUME NEW i \in 1 .. Len(t) PROVE u[m + i] = t[i]
  <2>1. m + i \in 1 .. m + Len(t) /\ ~(m + i <= m) /\ (m + i) - m = i
    BY <1>2
  <2>2. QED
    BY <1>1, <2>1
<1>5. QED
  BY <1>1, <1>3, <1>4 DEF u, m, Joins

(* A key is read from its front: run_id, account, exchange, and the rest.  *)
LEMMA KeyReads ==
  ASSUME NEW r, r.run_id \in Seq(Token), r.exchange \in Seq(Token),
         r.symbol \in Seq(Token), Str[r.account_id] \in Token,
         r.side \in Token, r.mode \in Token
  PROVE  ReadsAs(BuildKey(r), r)
<1> DEFINE run == r.run_id
           three == <<Separator, Str[r.account_id], Separator>>
           exchange == r.exchange
           one == <<Separator>>
           symbol == r.symbol
           four == <<Separator, r.side, Separator, r.mode>>
           n == Len(run)
           e == Len(exchange)
           s == Len(symbol)
           k == BuildKey(r)
<1>1. /\ Separator \in Token
      /\ three \in Seq(Token) /\ Len(three) = 3
      /\ three[1] = Separator /\ three[2] = Str[r.account_id]
      /\ one \in Seq(Token) /\ Len(one) = 1 /\ one[1] = Separator
      /\ four \in Seq(Token) /\ Len(four) = 4 /\ four[2] = r.side /\ four[4] = r.mode
  <2>1. Separator \in Token
    BY KeyAssumption DEF Token
  <2> HIDE DEF Token
  <2>2. QED
    BY <2>1
<1>2. k = ((((run \o three) \o exchange) \o one) \o symbol) \o four
  BY DEF BuildKey
<1>3. run \in Seq(Token) /\ exchange \in Seq(Token) /\ symbol \in Seq(Token)
  OBVIOUS
<1> HIDE DEF run, three, exchange, one, symbol, four, k
<1> DEFINE a == run \o three
           b == a \o exchange
           c == b \o one
           d == c \o symbol
<1>4. n \in Nat /\ e \in Nat /\ s \in Nat
  BY <1>3
<1>5. a \in Seq(Token) /\ Joins(a, run, three)
  BY <1>1, <1>3, Joined
<1> HIDE DEF a
<1>6. b \in Seq(Token) /\ Joins(b, a, exchange)
  BY <1>3, <1>5, Joined
<1> HIDE DEF b
<1>7. c \in Seq(Token) /\ Joins(c, b, one)
  BY <1>1, <1>6, Joined
<1> HIDE DEF c
<1>8. d \in Seq(Token) /\ Joins(d, c, symbol)
  BY <1>3, <1>7, Joined
<1> HIDE DEF d
<1>9. Joins(k, d, four)
  <2>1. Joins(d \o four, d, four)
    BY <1>1, <1>8, Joined
  <2>2. k = d \o four
    BY <1>2 DEF a, b, c, d
  <2>3. QED
    BY <2>1, <2>2
<1>10. /\ Len(a) = n + 3 /\ Len(b) = n + 3 + e /\ Len(c) = n + 3 + e + 1
       /\ Len(d) = n + 3 + e + 1 + s /\ Len(k) = n + 3 + e + 1 + s + 4
  BY <1>1, <1>5, <1>6, <1>7, <1>8, <1>9 DEF Joins
<1>11. /\ \A i \in 1 .. n : a[i] = run[i]
       /\ \A i \in 1 .. 3 : a[n + i] = three[i]
       /\ \A i \in 1 .. n + 3 : b[i] = a[i]
       /\ \A i \in 1 .. e : b[n + 3 + i] = exchange[i]
       /\ \A i \in 1 .. n + 3 + e : c[i] = b[i]
       /\ \A i \in 1 .. 1 : c[n + 3 + e + i] = one[i]
       /\ \A i \in 1 .. n + 3 + e + 1 : d[i] = c[i]
       /\ \A i \in 1 .. s : d[n + 3 + e + 1 + i] = symbol[i]
       /\ \A i \in 1 .. n + 3 + e + 1 + s : k[i] = d[i]
       /\ \A i \in 1 .. 4 : k[n + 3 + e + 1 + s + i] = four[i]
  <2>1. Len(three) = 3 /\ Len(one) = 1 /\ Len(four) = 4
    BY <1>1
  <2>2. (\A i \in 1 .. n : a[i] = run[i]) /\ (\A i \in 1 .. 3 : a[n + i] = three[i])
    BY <1>5, <2>1, Zenon DEF Joins
  <2>3. /\ \A i \in 1 .. n + 3 : b[i] = a[i]
        /\ \A i \in 1 .. e : b[n + 3 + i] = exchange[i]
    BY <1>6, <1>10, Zenon DEF Joins
  <2>4. /\ \A i \in 1 .. n + 3 + e : c[i] = b[i]
        /\ \A i \in 1 .. 1 : c[n + 3 + e + i] = one[i]
    BY <1>7, <1>10, <2>1, Zenon DEF Joins
  <2>5. /\ \A i \in 1 .. n + 3 + e + 1 : d[i] = c[i]
        /\ \A i \in 1 .. s : d[n + 3 + e + 1 + i] = symbol[i]
    BY <1>8, <1>10, Zenon DEF Joins
  <2>6. /\ \A i \in 1 .. n + 3 + e + 1 + s : k[i] = d[i]
        /\ \A i \in 1 .. 4 : k[n + 3 + e + 1 + s + i] = four[i]
    BY <1>9, <1>10, <2>1, Zenon DEF Joins
  <2>7. QED
    BY <2>2, <2>3, <2>4, <2>5, <2>6, Zenon
<1> HIDE DEF n, e, s
<1>12. /\ \A i \in 1 .. n : k[i] = run[i]
       /\ k[n + 1] = Separator /\ k[n + 2] = Str[r.account_id]
  <2>1. ASSUME NEW i \in 1 .. n + 3 PROVE k[i] = a[i]
    <3>1. i \in 1 .. n + 3 + e /\ i \in 1 .. n + 3 + e + 1 /\ i \in 1 .. n + 3 + e + 1 + s
      BY <1>4
    <3>2. QED
      BY <1>11, <3>1
  <2>2. (\A i \in 1 .. n : i \in 1 .. n + 3) /\ n + 1 \in 1 .. n + 3 /\ n + 2 \in 1 .. n + 3
        /\ 1 \in 1 .. 3 /\ 2 \in 1 .. 3
    BY <1>4
  <2>3. a[n + 1] = three[1] /\ a[n + 2] = three[2]
    BY <1>11, <2>2, Zenon
  <2>4. QED
    BY <1>1, <1>11, <2>1, <2>2, <2>3
<1>13. /\ \A i \in 1 .. e : k[n + 3 + i] = exchange[i]
       /\ k[n + 3 + e + 1] = Separator
  <2>1. ASSUME NEW i \in 1 .. e PROVE k[n + 3 + i] = exchange[i]
    <3>1. /\ n + 3 + i \in 1 .. n + 3 + e
          /\ n + 3 + i \in 1 .. n + 3 + e + 1
          /\ n + 3 + i \in 1 .. n + 3 + e + 1 + s
      BY <1>4
    <3>2. b[n + 3 + i] = exchange[i]
      BY <1>11, Zenon
    <3>3. QED
      BY <1>11, <3>1, <3>2
  <2>2. /\ n + 3 + e + 1 \in 1 .. n + 3 + e + 1
        /\ n + 3 + e + 1 \in 1 .. n + 3 + e + 1 + s
        /\ 1 \in 1 .. 1
    BY <1>4
  <2>3. c[n + 3 + e + 1] = one[1]
    BY <1>11, <2>2, Zenon
  <2>4. QED
    BY <1>1, <1>11, <2>1, <2>2, <2>3
<1>14. /\ \A i \in 1 .. s : k[n + 3 + e + 1 + i] = symbol[i]
       /\ k[n + 3 + e + 1 + s + 2] = r.side
       /\ k[n + 3 + e + 1 + s + 4] = r.mode
  <2>1. \A i \in 1 .. s : n + 3 + e + 1 + i \in 1 .. n + 3 + e + 1 + s
    BY <1>4
  <2>2. 2 \in 1 .. 4 /\ 4 \in 1 .. 4
    OBVIOUS
  <2>3. QED
    BY <1>1, <1>11, <2>1, <2>2, Zenon
<1>15. QED
  BY <1>10, <1>12, <1>13, <1>14
     DEF ReadsAs, StartsWith, n, e, s, run, exchange, symbol, k

(* So does the key of every call of a batch.                               *)
LEMMA KeyOfBegins ==
  ASSUME NEW b \in Batches, NEW j \in Jobs, NEW i \in 1 .. Len(Items[j])
  PROVE  /\ KeyOf(b, j, Items[j][i]) \in Keys
         /\ j.run_id = NoRun => RunOf(b, j) = <<b>>
         /\ j.run_id # NoRun => RunOf(b, j) \in Seq(STRING)
         /\ RunOf(b, j) \in Seq(Token)
         /\ Items[j][i].account_id \in DOMAIN Str
         /\ StartsWith(KeyOf(b, j, Items[j][i]), RunOf(b, j), Items[j][i].account_id)
         /\ ReadsAs(KeyOf(b, j, Items[j][i]), KeyInputs(b, j, Items[j][i]))
         /\ Items[j][i].exchange \in Seq(Token) /\ j.symbol \in Seq(Token)
<1> DEFINE run == RunOf(b, j)
           item == Items[j][i]
           r == [run_id |-> run, account_id |-> item.account_id,
                 exchange |-> item.exchange, symbol |-> j.symbol, side |-> item.side,
                 mode |-> j.mode]
<1>1. item \in ItemType
  BY ItemsFollowAccounts
<1>2. /\ j.run_id = NoRun => run = <<b>>
      /\ j.run_id # NoRun => run \in Seq(STRING)
  BY RunAssumption DEF RunOf
<1>3. run \in Seq(Token)
  <2>1. STRING \subseteq Token /\ b \in Token
    BY DEF Token
  <2> HIDE DEF Token, run
  <2>2. <<b>> \in Seq(Token)
    BY <2>1
  <2>3. QED
    BY <1>2, <2>1, <2>2, SeqOfMore
<1>4. /\ item.exchange \in Seq(Token) /\ j.symbol \in Seq(Token)
      /\ Str[item.account_id] \in Token /\ item.side \in Token /\ j.mode \in Token
  <2>1. STRING \subseteq Token /\ Sides \subseteq Token
    BY DEF Token
  <2>2. /\ item.exchange \in Seq(STRING) /\ item.account_id \in DOMAIN Str
        /\ item.side \in Sides
    BY <1>1 DEF ItemType
  <2>3. Str[item.account_id] \in STRING
    BY <2>2, KeyAssumption
  <2>4. j.symbol \in Seq(STRING) /\ j.mode \in STRING
    BY RunAssumption
  <2> HIDE DEF Token, item
  <2>5. item.exchange \in Seq(Token) /\ j.symbol \in Seq(Token)
    BY <2>1, <2>2, <2>4, SeqOfMore
  <2>6. QED
    BY <2>1, <2>2, <2>3, <2>4, <2>5
<1>5. KeyOf(b, j, item) = BuildKey(r) /\ KeyInputs(b, j, item) = r
  BY DEF KeyOf, KeyInputs
<1>6. KeyOf(b, j, item) \in Keys
  <2>1. i \in DOMAIN Items[j]
    BY ItemsFollowAccounts
  <2> DEFINE KeysOf(d, l) == {KeyOf(d, l, Items[l][n]) : n \in DOMAIN Items[l]}
  <2>2. KeyOf(b, j, item) \in KeysOf(b, j)
    BY <2>1
  <2>3. Keys = UNION {KeysOf(d, l) : d \in Batches, l \in Jobs}
    BY DEF Keys
  <2> HIDE DEF KeysOf, item
  <2>4. QED
    BY <2>2, <2>3
<1>7. item.account_id \in DOMAIN Str
  BY <1>1 DEF ItemType
<1> HIDE DEF run, item
<1>8. ReadsAs(BuildKey(r), r)
  BY <1>3, <1>4, KeyReads
<1>9. StartsWith(BuildKey(r), run, item.account_id)
  BY <1>8 DEF ReadsAs
<1>10. QED
  BY <1>2, <1>3, <1>4, <1>5, <1>6, <1>7, <1>8, <1>9 DEF run, item

(* The text s stands in k after n tokens, with a separator behind it. *)
HasText(k, n, s) ==
  (\A i \in 1 .. Len(s) : k[n + i] = s[i]) /\ k[n + Len(s) + 1] = Separator

(* A plain text with a separator behind it can be told from what it begins.*)
LEMMA PlainPrefix ==
  ASSUME NEW S, NEW s \in Seq(S), NEW t \in Seq(S), IsPlain(s), IsPlain(t),
         NEW k, NEW n \in Nat, HasText(k, n, s), HasText(k, n, t)
  PROVE  s = t
<1>1. /\ Len(s) \in Nat /\ DOMAIN s = 1 .. Len(s)
      /\ Len(t) \in Nat /\ DOMAIN t = 1 .. Len(t)
  OBVIOUS
<1>2. ~(Len(s) < Len(t))
  <2> SUFFICES ASSUME Len(s) < Len(t) PROVE FALSE
    OBVIOUS
  <2>1. Len(s) + 1 \in 1 .. Len(t) /\ n + (Len(s) + 1) = n + Len(s) + 1
    BY <1>1
  <2>2. QED
    BY <1>1, <2>1 DEF IsPlain, HasText
<1>3. ~(Len(t) < Len(s))
  <2> SUFFICES ASSUME Len(t) < Len(s) PROVE FALSE
    OBVIOUS
  <2>1. Len(t) + 1 \in 1 .. Len(s) /\ n + (Len(t) + 1) = n + Len(t) + 1
    BY <1>1
  <2>2. QED
    BY <1>1, <2>1 DEF IsPlain, HasText
<1>4. Len(s) = Len(t)
  <2>1. \A x, y \in Nat : ~(x < y) /\ ~(y < x) => x = y
    OBVIOUS
  <2>2. QED
    BY <1>1, <1>2, <1>3, <2>1, Zenon
<1>5. \A i \in 1 .. Len(s) : s[i] = t[i]
  BY <1>4, Zenon DEF HasText
<1>6. QED
  BY <1>1, <1>4, <1>5

(* Where no run_id contains the separator, equal keys are those of one     *)
(* account in one run.                                                     *)
LEMMA KeysTellRunsAndAccounts ==
  ASSUME NEW b \in Batches, NEW j \in Jobs, NEW i \in 1 .. Len(Items[j]),
         NEW d \in Batches, NEW l \in Jobs, NEW m \in 1 .. Len(Items[l]),
         IsPlain(RunOf(b, j)), IsPlain(RunOf(d, l)),
         KeyOf(b, j, Items[j][i]) = KeyOf(d, l, Items[l][m])
  PROVE  /\ RunOf(b, j) = RunOf(d, l)
         /\ Items[j][i].account_id = Items[l][m].account_id
<1> DEFINE run == RunOf(b, j)
           other == RunOf(d, l)
           k == KeyOf(b, j, Items[j][i])
           mine == Items[j][i].account_id
           theirs == Items[l][m].account_id
<1>1. run \in Seq(Token) /\ mine \in DOMAIN Str /\ StartsWith(k, run, mine)
  BY KeyOfBegins
<1>2. other \in Seq(Token) /\ theirs \in DOMAIN Str /\ StartsWith(k, other, theirs)
  BY KeyOfBegins
<1>3. IsPlain(run) /\ IsPlain(other)
  OBVIOUS
<1> HIDE DEF run, other, k, mine, theirs
<1>4. Len(run) \in Nat /\ Len(other) \in Nat
  BY <1>1, <1>2
<1>5. run = other
  <2>1. HasText(k, 0, run) /\ HasText(k, 0, other)
    BY <1>1, <1>2, <1>4 DEF StartsWith, HasText
  <2>2. 0 \in Nat
    OBVIOUS
  <2>3. QED
    BY <1>1, <1>2, <1>3, <2>1, <2>2, PlainPrefix
<1>6. Str[mine] = Str[theirs]
  BY <1>1, <1>2, <1>5 DEF StartsWith
<1>7. mine = theirs
  BY <1>1, <1>2, <1>6, KeyAssumption
<1>8. QED
  BY <1>5, <1>7 DEF run, other, mine, theirs

(* Where neither run_id nor exchange contains the separator, equal keys    *)
(* have equal inputs, whatever the symbol contains.                        *)
LEMMA KeysTellInputs ==
  ASSUME NEW b \in Batches, NEW j \in Jobs, NEW i \in 1 .. Len(Items[j]),
         NEW d \in Batches, NEW l \in Jobs, NEW m \in 1 .. Len(Items[l]),
         IsSeparable(KeyInputs(b, j, Items[j][i])),
         IsSeparable(KeyInputs(d, l, Items[l][m])),
         KeyOf(b, j, Items[j][i]) = KeyOf(d, l, Items[l][m])
  PROVE  KeyInputs(b, j, Items[j][i]) = KeyInputs(d, l, Items[l][m])
<1> DEFINE mine == KeyInputs(b, j, Items[j][i])
           theirs == KeyInputs(d, l, Items[l][m])
           k == KeyOf(b, j, Items[j][i])
<1>1. ReadsAs(k, mine) /\ ReadsAs(k, theirs)
  BY KeyOfBegins
<1>2. /\ IsPlain(mine.run_id) /\ IsPlain(mine.exchange)
      /\ IsPlain(theirs.run_id) /\ IsPlain(theirs.exchange)
  BY DEF IsSeparable
<1>3. /\ mine.run_id \in Seq(Token) /\ theirs.run_id \in Seq(Token)
      /\ mine.exchange \in Seq(Token) /\ theirs.exchange \in Seq(Token)
      /\ mine.symbol \in Seq(Token) /\ theirs.symbol \in Seq(Token)
  <2> HIDE DEF Token
  <2>1. QED
    BY KeyOfBegins DEF KeyInputs
<1>4. mine.run_id = theirs.run_id /\ mine.account_id = theirs.account_id
  BY <1>2, KeysTellRunsAndAccounts DEF KeyInputs
<1> HIDE DEF k
<1> DEFINE n == Len(mine.run_id)
           e == Len(mine.exchange)
           s == Len(mine.symbol)
<1>5. mine.exchange = theirs.exchange
  <2> DEFINE x == mine.exchange
             y == theirs.exchange
             o == n + 3
  <2>1. n \in Nat /\ Len(x) \in Nat /\ Len(y) \in Nat
    BY <1>3
  <2>2. HasText(k, o, x) /\ HasText(k, o, y)
    BY <1>1, <1>4 DEF ReadsAs, HasText
  <2>3. x \in Seq(Token) /\ y \in Seq(Token) /\ IsPlain(x) /\ IsPlain(y)
    BY <1>2, <1>3
  <2>4. o \in Nat
    BY <2>1
  <2> HIDE DEF mine, theirs, x, y, o, Token
  <2>5. x = y
    BY <2>2, <2>3, <2>4, PlainPrefix
  <2>6. QED
    BY <2>5 DEF x, y
<1>6. Len(theirs.symbol) = s
  <2> DEFINE z == Len(theirs.symbol)
  <2>1. n \in Nat /\ e \in Nat /\ s \in Nat /\ z \in Nat
    BY <1>3
  <2>2. Len(k) = n + 3 + e + 1 + s + 4 /\ Len(k) = n + 3 + e + 1 + z + 4
    BY <1>1, <1>4, <1>5 DEF ReadsAs
  <2> HIDE DEF n, e, s, z
  <2>3. z = s
    BY <2>1, <2>2
  <2>4. QED
    BY <2>3 DEF z
<1>7. mine.symbol = theirs.symbol
  <2>1. \A h \in 1 .. s : mine.symbol[h] = theirs.symbol[h]
    <3>1. \A h \in 1 .. s : k[n + 3 + e + 1 + h] = mine.symbol[h]
      BY <1>1, Zenon DEF ReadsAs
    <3>2. \A h \in 1 .. s : k[n + 3 + e + 1 + h] = theirs.symbol[h]
      BY <1>1, <1>4, <1>5, <1>6, Zenon DEF ReadsAs
    <3>3. QED
      BY <3>1, <3>2, Zenon
  <2> DEFINE x == mine.symbol
             y == theirs.symbol
  <2>2. x \in Seq(Token) /\ y \in Seq(Token) /\ Len(x) = Len(y)
        /\ \A h \in 1 .. Len(x) : x[h] = y[h]
    BY <1>3, <1>6, <2>1
  <2> HIDE DEF x, y, mine, theirs, Token
  <2>3. x = y
    BY <2>2
  <2>4. QED
    BY <2>3 DEF x, y
<1>8. mine.side = theirs.side /\ mine.mode = theirs.mode
  BY <1>1, <1>4, <1>5, <1>6 DEF ReadsAs
<1>9. QED
  BY <1>4, <1>5, <1>7, <1>8 DEF KeyInputs

(* A batch that was given no run_id shares its keys with no other batch.   *)
LEMMA OwnRunOwnKeys ==
  ASSUME NEW b \in Batches, NEW j \in Jobs, NEW i \in 1 .. Len(Items[j]),
         NEW d \in Batches, NEW l \in Jobs, NEW m \in 1 .. Len(Items[l]),
         j.run_id = NoRun, KeyOf(b, j, Items[j][i]) = KeyOf(d, l, Items[l][m])
  PROVE  d = b /\ IsPlain(RunOf(b, j))
<1> DEFINE k == KeyOf(b, j, Items[j][i])
           run == RunOf(b, j)
           other == RunOf(d, l)
<1>1. /\ run = <<b>>
      /\ StartsWith(k, run, Items[j][i].account_id)
  BY KeyOfBegins
<1>2. /\ l.run_id = NoRun => other = <<d>>
      /\ l.run_id # NoRun => other \in Seq(STRING)
      /\ StartsWith(k, other, Items[l][m].account_id)
  BY KeyOfBegins
<1>3. b \notin STRING /\ Separator \in STRING
  BY RunAssumption, KeyAssumption
<1> HIDE DEF k, run, other
<1>4. k[1] = b
  BY <1>1 DEF StartsWith
<1>5. IsPlain(run)
  BY <1>1, <1>3 DEF IsPlain
<1>6. CASE l.run_id = NoRun
  <2>1. other = <<d>>
    BY <1>2, <1>6
  <2>2. k[1] = d
    BY <1>2, <2>1 DEF StartsWith
  <2>3. QED
    BY <1>4, <1>5, <2>2 DEF run
<1>7. CASE l.run_id # NoRun
  <2>1. other \in Seq(STRING) /\ Len(other) \in Nat
    BY <1>2, <1>7
  <2>2. Len(other) # 0
    <3>1. Len(other) = 0 => k[1] = Separator
      BY <1>2 DEF StartsWith
    <3>2. QED
      BY <1>3, <1>4, <3>1
  <2>3. 1 \in 1 .. Len(other) /\ other[1] \in STRING
    BY <2>1, <2>2
  <2>4. k[1] = other[1]
    BY <1>2, <2>3 DEF StartsWith
  <2>5. QED
    BY <1>3, <1>4, <2>3, <2>4
<1>8. QED
  BY <1>6, <1>7
-----------------------------------------------------------------------------
(* The inductive invariant.                                                *)

ItemsOf(b) == Items[job[b]]

(* What is known of the i-th call of a batch, by where the batch is.       *)
ItemInv(b, i) ==
  LET c == <<b, i>> IN
  /\ i > pos[b] => phase[c] = "waiting"
  /\ i < pos[b] => Ended(c) /\ Logged(c)
  /\ i = pos[b] =>
       /\ pc[b] \in {"idle", "refused", "loop", "completed"} => phase[c] = "waiting"
       /\ pc[b] = "engine" => phase[c] \in {"checking", "running", "skipped", "done"}
       /\ pc[b] \in {"flushed", "logged"} => Ended(c)
  /\ phase[c] # "waiting" =>
       /\ job[b] \in Jobs /\ Admitted(job[b]) /\ i <= Len(ItemsOf(b))
       /\ key[c] = KeyOf(b, job[b], ItemsOf(b)[i])
  /\ ActiveBatch(b) /\ phase[c] = "done" => key[c] \in recorded

(* A key that a batch has recorded lets no later call of it run.           *)
KeysDiffer(b) ==
  \A i, j \in Positions :
    i < j /\ phase[<<b, i>>] = "done" /\ phase[<<b, j>>] \in {"running", "done"}
    => key[<<b, i>>] # key[<<b, j>>]

BatchInv(b) ==
  /\ pc[b] = "idle" <=> job[b] = NoJob
  /\ pc[b] \in {"idle", "refused"} => pos[b] = 1
  /\ job[b] # NoJob => pos[b] <= Len(ItemsOf(b)) + 1
  /\ ActiveBatch(b) \/ pc[b] = "completed" => Admitted(job[b])
  /\ pc[b] \in {"engine", "flushed", "logged"} => pos[b] <= Len(ItemsOf(b))
  /\ pc[b] = "completed" => pos[b] > Len(ItemsOf(b))
  /\ pc[b] = "flushed" =>
       \E k \in DOMAIN log : log[k].call = Current(b) /\ log[k].state = "open"
  /\ pc[b] = "logged" => Logged(Current(b))
  /\ \A i \in DOMAIN results[b] :
       results[b][i] = [account_id |-> ItemsOf(b)[i].account_id,
                        status |-> Outcome(<<b, i>>)]

(* The batch and the item of a row, and what the row says of them.         *)
RowOf(k, b, i) ==
  /\ log[k].call = <<b, i>>
  /\ job[b] \in Jobs /\ i <= pos[b] /\ i <= Len(ItemsOf(b))
  /\ Ended(<<b, i>>) /\ log[k].status = Outcome(<<b, i>>)
  /\ log[k].run_id = Run(b) /\ log[k].account_id = ItemsOf(b)[i].account_id
  /\ i = pos[b] => pc[b] \in {"flushed", "logged", "failed", "bad_request", "killed"}
  /\ log[k].state = "open" => i = pos[b] /\ pc[b] = "flushed"

RowsInv == \A k \in DOMAIN log : \E b \in Batches, i \in Positions : RowOf(k, b, i)

RowsInOrder ==
  \A b \in Batches : \A i, j \in Positions : \A k, l \in DOMAIN log :
    k < l /\ log[k].call = <<b, i>> /\ log[l].call = <<b, j>> => i < j

Holders == {b \in Batches : HasConnection(b)}
PoolInv == IsFiniteSet(Holders) /\ free + Cardinality(Holders) = pool

RunInv ==
  /\ TypeOK
  /\ Guard!GuardInv
  /\ \A b \in Batches :
       BatchInv(b) /\ KeysDiffer(b) /\ \A i \in Positions : ItemInv(b, i)
  /\ RowsInv
  /\ RowsInOrder
  /\ PoolInv

(* A batch that is at an item.                                             *)
LEMMA AtItem ==
  ASSUME RunInv, NEW b \in Batches,
         pc[b] \in {"engine", "flushed", "logged"} \/ HasItem(b)
  PROVE  /\ job[b] \in Jobs
         /\ pos[b] \in 1 .. Len(ItemsOf(b)) /\ pos[b] \in Positions
         /\ Len(ItemsOf(b)) \in 0 .. MaxItems
         /\ Current(b) = <<b, pos[b]>> /\ Current(b) \in Calls
         /\ Item(b) = ItemsOf(b)[pos[b]] /\ Item(b) \in ItemType
<1>1. BatchInv(b) /\ job[b] \in Jobs \cup {NoJob} /\ pos[b] \in 1 .. MaxItems + 1
  BY DEF RunInv, TypeOK
<1>2. job[b] \in Jobs
  BY <1>1 DEF BatchInv, HasItem
<1>3. ItemsOf(b) \in Seq(ItemType) /\ Len(ItemsOf(b)) \in 0 .. MaxItems
  BY <1>2, ItemsFollowAccounts DEF ItemsOf
<1>4. pos[b] <= Len(ItemsOf(b))
  BY <1>1 DEF BatchInv, HasItem, ItemsOf
<1>5. pos[b] \in 1 .. Len(ItemsOf(b)) /\ pos[b] \in Positions
  BY <1>1, <1>3, <1>4, RunAssumption DEF Positions
<1>6. ItemsOf(b)[pos[b]] \in ItemType
  BY <1>3, <1>5
<1>7. QED
  BY <1>2, <1>3, <1>5, <1>6 DEF Current, Calls, Item, ItemsOf
-----------------------------------------------------------------------------
(* The engine keeps its promise in a run.                                  *)

(* The two instances of the promise have one notion of type.               *)
LEMMA GuardTyped == Guard!GuardInv => Guard!TypeOK /\ (Guard!TypeOK <=> Engine!TypeOK)
  BY DEF Guard!GuardInv, Guard!TypeOK, Engine!TypeOK, Guard!Phases, Engine!Phases

(* Every step of a run is a step of the engine, or none.                   *)
LEMMA EngineSteps ==
  ASSUME RunInv, [Next]_vars
  PROVE  [Guard!Next]_Guard!vars
<1> USE DEF Guard!Next, Guard!vars
<1>1. ASSUME NEW b \in Batches, Dispatch(b) PROVE Guard!Next
  <2>1. HasItem(b) /\ Engine!Take(Current(b), KeyOf(b, job[b], Item(b)))
    BY <1>1 DEF Dispatch
  <2>2. Current(b) \in Calls /\ KeyOf(b, job[b], Item(b)) \in Keys
    <3>1. /\ job[b] \in Jobs /\ pos[b] \in 1 .. Len(Items[job[b]])
          /\ Item(b) = Items[job[b]][pos[b]] /\ Current(b) \in Calls
      BY <2>1, AtItem DEF ItemsOf
    <3>2. QED
      BY <3>1, KeyOfBegins
  <2>3. Guard!Take(Current(b), KeyOf(b, job[b], Item(b)))
    BY <2>1 DEF Engine!Take, Guard!Take
  <2>4. QED
    BY <2>2, <2>3
<1>2. ASSUME NEW b \in Batches, EngineProceeds(b) PROVE Guard!Next
  <2>1. pc[b] = "engine" /\ Current(b) \in Calls
    BY <1>2, AtItem DEF EngineProceeds
  <2>2. \/ Guard!Skip(Current(b)) \/ Guard!Start(Current(b)) \/ Guard!Finish(Current(b))
    BY <1>2 DEF EngineProceeds, Engine!Skip, Guard!Skip, Engine!Start, Guard!Start,
                Engine!Finish, Guard!Finish
  <2>3. QED
    BY <2>1, <2>2
<1>3. ASSUME NEW b \in Batches, EngineFails(b) PROVE Guard!Next
  <2>1. pc[b] = "engine" /\ Current(b) \in Calls
    BY <1>3, AtItem DEF EngineFails
  <2>2. Guard!Fail(Current(b))
    BY <1>3 DEF EngineFails, Engine!Fail, Guard!Fail
  <2>3. QED
    BY <2>1, <2>2
<1>4. ASSUME OrderPlaced PROVE Guard!Next
  BY <1>4 DEF OrderPlaced, Engine!Place, Guard!Place
<1>5. ASSUME Restart PROVE Guard!Next
  BY <1>5 DEF Restart, Engine!Restart, Guard!Restart, Engine!Active, Guard!Active
<1>6. ASSUME UNCHANGED engine PROVE UNCHANGED Guard!vars
  BY <1>6 DEF engine
<1>7. ASSUME NEW b \in Batches,
             \/ AccountMissing(b) \/ Insert(b) \/ Commit(b) \/ LogFails(b)
             \/ RefreshFails(b) \/ Report(b) \/ Complete(b)
             \/ \E j \in Jobs : Begin(b, j)
      PROVE  UNCHANGED engine
  BY <1>7 DEF AccountMissing, Insert, Commit, LogFails, RefreshFails, Report, Complete,
              Begin
<1>8. CASE UNCHANGED vars
  BY <1>6, <1>8 DEF vars, engine
<1>9. QED
  BY <1>1, <1>2, <1>3, <1>4, <1>5, <1>6, <1>7, <1>8 DEF Next, Proceed, Advance

(* So its invariant stays true.                                            *)
LEMMA GuardStep ==
  ASSUME RunInv, [Next]_vars
  PROVE  Guard!GuardInv' /\ Engine!TypeOK'
<1>1. Guard!GuardInv /\ [Guard!Next]_Guard!vars
  BY EngineSteps DEF RunInv
<1>2. Guard!TypeOK /\ Guard!NoEarlyOrder /\ Guard!RecordedByReturn
  BY <1>1 DEF Guard!GuardInv
<1>3. Guard!TypeOK' /\ Guard!NoEarlyOrder' /\ Guard!RecordedByReturn' /\ Guard!SkipIsBacked'
  BY <1>1, <1>2, Guard!GuardType, Guard!NoEarlyOrderStep, Guard!RecordedStep, Guard!SkipStep
<1>4. Engine!TypeOK'
  BY <1>3 DEF Guard!TypeOK, Engine!TypeOK, Guard!Phases, Engine!Phases
<1>5. QED
  BY <1>3, <1>4 DEF Guard!GuardInv
-----------------------------------------------------------------------------
(* What a step of one batch leaves alone.                                  *)

SameRow(k) == log'[k] = log[k]
Turned(k, what) == log'[k] = [log[k] EXCEPT !.state = what]
TurnedRow(k, c) ==
  /\ log[k].call = c /\ log[k].state # "committed"
  /\ \E what \in {"committed", "rolled back"} : Turned(k, what)

StepOf(b) ==
  /\ \A d \in Batches \ {b} :
       /\ pc'[d] = pc[d] /\ job'[d] = job[d] /\ pos'[d] = pos[d]
       /\ results'[d] = results[d]
       /\ \A i \in Positions : phase'[<<d, i>>] = phase[<<d, i>>] /\ key'[<<d, i>>] = key[<<d, i>>]
  /\ recorded \subseteq recorded'
  /\ DOMAIN log \subseteq DOMAIN log'
  /\ \A k \in DOMAIN log : SameRow(k) \/ TurnedRow(k, Current(b))
  /\ \A k \in DOMAIN log' \ DOMAIN log : log'[k].call = Current(b)

(* A committed row is there for good.                                      *)
LEMMA LoggedStays ==
  ASSUME NEW b, StepOf(b), NEW c, Logged(c)
  PROVE  Logged(c)'
<1>1. PICK k \in DOMAIN log : log[k].state = "committed" /\ log[k].call = c
  BY DEF Logged, IsCommitted
<1>2. k \in DOMAIN log' /\ log'[k] = log[k]
  BY <1>1 DEF StepOf, SameRow, TurnedRow
<1>3. QED
  BY <1>1, <1>2 DEF Logged, IsCommitted

(* What a batch is asked for does not change while another takes a step,   *)
(* and what is known of the other stays true.                              *)
LEMMA OthersKeep ==
  ASSUME RunInv, NEW b \in Batches, StepOf(b), NEW d \in Batches \ {b}
  PROVE  BatchInv(d)' /\ KeysDiffer(d)' /\ \A i \in Positions : ItemInv(d, i)'
<1>1. BatchInv(d) /\ KeysDiffer(d) /\ \A i \in Positions : ItemInv(d, i)
  BY DEF RunInv
<1>2. /\ pc'[d] = pc[d] /\ job'[d] = job[d] /\ pos'[d] = pos[d]
      /\ results'[d] = results[d] /\ recorded \subseteq recorded'
      /\ \A i \in Positions : phase'[<<d, i>>] = phase[<<d, i>>] /\ key'[<<d, i>>] = key[<<d, i>>]
  BY DEF StepOf
<1>3. ItemsOf(d)' = ItemsOf(d) /\ Current(d)' = Current(d)
  BY <1>2 DEF ItemsOf, Current
<1>4. KeysDiffer(d)'
  BY <1>1, <1>2 DEF KeysDiffer
<1>5. ASSUME NEW i \in Positions PROVE ItemInv(d, i)'
  <2>1. Logged(<<d, i>>) => Logged(<<d, i>>)'
    BY LoggedStays
  <2>2. ItemInv(d, i)
    BY <1>1
  <2>3. QED
    BY <1>2, <1>3, <2>1, <2>2 DEF ItemInv, Ended, ActiveBatch
<1>6. BatchInv(d)'
  <2>1. pc[d] = "logged" => Logged(Current(d))'
    <3>1. PICK c : c = Current(d)
      OBVIOUS
    <3>2. pc[d] = "logged" => Logged(c)'
      BY <1>1, <3>1, LoggedStays DEF BatchInv
    <3>3. QED
      BY <1>3, <3>1, <3>2 DEF Logged, IsCommitted
  <2>2. pc[d] = "flushed" =>
          \E k \in DOMAIN log' : log'[k].call = Current(d) /\ log'[k].state = "open"
    <3>1. SUFFICES ASSUME pc[d] = "flushed"
          PROVE  \E k \in DOMAIN log' : log'[k].call = Current(d) /\ log'[k].state = "open"
      OBVIOUS
    <3>2. PICK k \in DOMAIN log : log[k].call = Current(d) /\ log[k].state = "open"
      BY <1>1, <3>1 DEF BatchInv
    <3>3. Current(d) # Current(b)
      BY DEF Current
    <3>4. k \in DOMAIN log' /\ log'[k] = log[k]
      BY <3>2, <3>3 DEF StepOf, SameRow, TurnedRow
    <3>5. QED
      BY <3>2, <3>4
  <2>3. \A i \in DOMAIN results[d] : Outcome(<<d, i>>)' = Outcome(<<d, i>>)
    <3>1. results[d] \in Seq(ResultType) /\ Len(results[d]) = pos[d] - 1
          /\ pos[d] \in 1 .. MaxItems + 1
      BY DEF RunInv, TypeOK
    <3>2. DOMAIN results[d] \subseteq Positions
      BY <3>1, RunAssumption DEF Positions
    <3>3. QED
      BY <1>2, <3>2 DEF Outcome
  <2>4. QED
    BY <1>1, <1>2, <1>3, <2>1, <2>2, <2>3 DEF BatchInv, ActiveBatch
<1>7. QED
  BY <1>4, <1>5, <1>6

(* A row keeps the batch and the item it is of.                            *)
LEMMA OtherRowsKeep ==
  ASSUME RunInv, NEW b \in Batches, StepOf(b), NEW k \in DOMAIN log,
         NEW d \in Batches \ {b}, NEW i \in Positions, RowOf(k, d, i)
  PROVE  RowOf(k, d, i)'
<1>1. log'[k] = log[k]
  <2>1. log[k].call # Current(b)
    BY DEF RowOf, Current
  <2>2. QED
    BY <2>1 DEF StepOf, SameRow, TurnedRow
<1>2. /\ pc'[d] = pc[d] /\ job'[d] = job[d] /\ pos'[d] = pos[d]
      /\ phase'[<<d, i>>] = phase[<<d, i>>]
  BY DEF StepOf
<1>3. ItemsOf(d)' = ItemsOf(d) /\ Run(d)' = Run(d)
  BY <1>2 DEF ItemsOf, Run
<1>4. QED
  BY <1>1, <1>2, <1>3 DEF RowOf, Ended, Outcome

(* The connections of a step of one batch.                                 *)
LEMMA PoolStep ==
  ASSUME RunInv, NEW b \in Batches, StepOf(b), pool' = pool,
         \/ (HasConnection(b)' <=> HasConnection(b)) /\ free' = free
         \/ HasConnection(b)' /\ ~HasConnection(b) /\ CheckOut
         \/ ~HasConnection(b)' /\ free' = IF HasConnection(b) THEN free + 1 ELSE free
  PROVE  PoolInv' /\ pool' \in 1 .. PoolSize /\ free' \in 0 .. pool'
<1> DEFINE before == Holders
           after == Holders'
<1>1. /\ IsFiniteSet(before) /\ free + Cardinality(before) = pool
      /\ pool \in 1 .. PoolSize /\ free \in 0 .. pool
  BY DEF RunInv, PoolInv, TypeOK
<1>2. Cardinality(before) \in Nat
  BY <1>1, FS_CardinalityType
<1>3. \A d \in Batches \ {b} : HasConnection(d)' <=> HasConnection(d)
  BY DEF StepOf, HasConnection
<1>4. PoolSize \in Nat
  BY RunAssumption
<1>5. CASE (HasConnection(b)' <=> HasConnection(b)) /\ free' = free
  <2>1. after = before
    BY <1>3, <1>5 DEF Holders
  <2>2. QED
    BY <1>1, <1>5, <2>1 DEF PoolInv
<1>6. CASE HasConnection(b)' /\ ~HasConnection(b) /\ CheckOut
  <2>1. after = before \cup {b} /\ b \notin before
    BY <1>3, <1>6 DEF Holders
  <2> HIDE DEF before, after
  <2>2. IsFiniteSet(after) /\ Cardinality(after) = Cardinality(before) + 1
    BY <1>1, <2>1, FS_AddElement
  <2>3. free' = free - 1 /\ free > 0
    BY <1>6 DEF CheckOut
  <2>4. free' + Cardinality(after) = pool' /\ free' \in 0 .. pool'
    BY <1>1, <1>2, <1>4, <2>2, <2>3
  <2>5. QED
    BY <1>1, <2>2, <2>4 DEF PoolInv, after
<1>7. CASE ~HasConnection(b)' /\ ~HasConnection(b) /\ free' = free
  BY <1>5, <1>7
<1>8. CASE ~HasConnection(b)' /\ HasConnection(b) /\ free' = free + 1
  <2>1. after = before \ {b} /\ b \in before
    BY <1>3, <1>8 DEF Holders
  <2> HIDE DEF before, after
  <2>2. IsFiniteSet(after) /\ Cardinality(after) = Cardinality(before) - 1
    BY <1>1, <2>1, FS_RemoveElement
  <2>3. Cardinality(after) \in Nat
    BY <2>2, FS_CardinalityType
  <2>4. free' + Cardinality(after) = pool' /\ free' \in 0 .. pool'
    BY <1>1, <1>2, <1>4, <1>8, <2>2, <2>3
  <2>5. QED
    BY <1>1, <2>2, <2>4 DEF PoolInv, after
<1>9. QED
  BY <1>5, <1>6, <1>7, <1>8

(* So a step of a batch needs to be looked at where that batch is.         *)
LEMMA StepKeeps ==
  ASSUME RunInv, NEW b \in Batches, StepOf(b),
         TypeOK', Guard!GuardInv', RowsInOrder', PoolInv',
         BatchInv(b)', KeysDiffer(b)', \A i \in Positions : ItemInv(b, i)',
         \A k \in DOMAIN log, i \in Positions : RowOf(k, b, i) => RowOf(k, b, i)',
         \A k \in DOMAIN log' \ DOMAIN log :
            \E i \in Positions : RowOf(k, b, i)'
  PROVE  RunInv'
<1>1. ASSUME NEW d \in Batches
      PROVE  BatchInv(d)' /\ KeysDiffer(d)' /\ \A i \in Positions : ItemInv(d, i)'
  BY OthersKeep
<1>2. ASSUME NEW k \in DOMAIN log'
      PROVE  \E d \in Batches, i \in Positions : RowOf(k, d, i)'
  <2>1. CASE k \in DOMAIN log
    <3>1. PICK d \in Batches, i \in Positions : RowOf(k, d, i)
      BY <2>1 DEF RunInv, RowsInv
    <3>2. QED
      BY <2>1, <3>1, OtherRowsKeep
  <2>2. QED
    BY <2>1
<1>3. RowsInv'
  BY <1>2 DEF RowsInv
<1>4. QED
  BY <1>1, <1>3 DEF RunInv
-----------------------------------------------------------------------------
(* Steps between the items' ends: the engine's, and the end of a batch.    *)

PoolMoves(b) ==
  \/ (HasConnection(b)' <=> HasConnection(b)) /\ free' = free
  \/ HasConnection(b)' /\ ~HasConnection(b) /\ CheckOut
  \/ ~HasConnection(b)' /\ free' = IF HasConnection(b) THEN free + 1 ELSE free

(* A step that touches neither log nor results, and no call of the batch   *)
(* but the current one.                                                    *)
LEMMA LogUntouched ==
  ASSUME RunInv, Guard!GuardInv', Engine!TypeOK',
         NEW b \in Batches, pc[b] \in {"loop", "engine", "logged"},
         NEW there \in {"engine", "failed", "bad_request", "completed"}, Goto(b, there),
         UNCHANGED <<job, pos, results, log, pool>>,
         \A c \in Calls : c # Current(b) => phase'[c] = phase[c] /\ key'[c] = key[c],
         recorded \subseteq recorded', PoolMoves(b),
         there = "engine" => pos[b] <= Len(ItemsOf(b)),
         there = "completed" => pos[b] > Len(ItemsOf(b)),
         pc[b] = "logged" => there \in {"failed", "bad_request"} /\ phase' = phase,
         pos[b] \in Positions => ItemInv(b, pos[b])',
         KeysDiffer(b)'
  PROVE  RunInv'
<1>1. /\ TypeOK /\ BatchInv(b) /\ \A i \in Positions : ItemInv(b, i)
      /\ job[b] \in Jobs
  BY DEF RunInv, BatchInv, TypeOK
<1>2. /\ pc' = [pc EXCEPT ![b] = there] /\ pc'[b] = there
      /\ \A d \in Batches \ {b} : pc'[d] = pc[d]
  BY <1>1 DEF Goto, TypeOK
<1>3. StepOf(b)
  BY <1>2 DEF StepOf, SameRow, Calls, Current
<1>4. PoolInv' /\ pool' \in 1 .. PoolSize /\ free' \in 0 .. pool'
  BY <1>3, PoolStep DEF PoolMoves
<1>5. TypeOK'
  BY <1>1, <1>2, <1>4 DEF TypeOK, Stages
<1>6. RowsInOrder'
  BY DEF RunInv, RowsInOrder
<1>7. ItemsOf(b)' = ItemsOf(b) /\ Run(b)' = Run(b) /\ Current(b)' = Current(b)
      /\ \A c : Logged(c)' <=> Logged(c)
  BY DEF ItemsOf, Run, Current, Logged, IsCommitted
<1>8. ASSUME NEW i \in Positions, i # pos[b]
      PROVE  phase'[<<b, i>>] = phase[<<b, i>>] /\ key'[<<b, i>>] = key[<<b, i>>]
  BY <1>8 DEF Calls, Current
<1>9. ASSUME NEW i \in Positions PROVE ItemInv(b, i)'
  <2>1. CASE i = pos[b]
    <3>1. ItemInv(b, pos[b])' /\ pos'[b] = i
      BY <2>1
    <3>2. QED
      BY <3>1 DEF ItemInv
  <2>2. CASE i # pos[b]
    <3>1. ItemInv(b, i)
      BY <1>1
    <3>2. ActiveBatch(b)
      BY DEF ActiveBatch
    <3>3. QED
      BY <1>2, <1>7, <1>8, <2>2, <3>1, <3>2 DEF ItemInv, Ended, ActiveBatch
  <2>3. QED
    BY <2>1, <2>2
<1>10. BatchInv(b)'
  <2>1. \A i \in DOMAIN results[b] : i \in Positions /\ i # pos[b]
    <3>1. results[b] \in Seq(ResultType) /\ Len(results[b]) = pos[b] - 1
          /\ pos[b] \in 1 .. MaxItems + 1
      BY <1>1 DEF TypeOK
    <3>2. QED
      BY <3>1, RunAssumption DEF Positions
  <2>2. \A i \in DOMAIN results[b] : Outcome(<<b, i>>)' = Outcome(<<b, i>>)
    BY <1>8, <2>1 DEF Outcome
  <2>3. Admitted(job[b])
    BY <1>1 DEF BatchInv, ActiveBatch
  <2>4. QED
    BY <1>1, <1>2, <1>7, <2>2, <2>3, RunAssumption DEF BatchInv, ActiveBatch
<1>11. ASSUME NEW k \in DOMAIN log, NEW i \in Positions, RowOf(k, b, i)
       PROVE  RowOf(k, b, i)'
  <2>1. phase'[<<b, i>>] = phase[<<b, i>>] /\ (i = pos[b] => pc[b] = "logged" /\ there \in {"failed", "bad_request"})
    <3>1. CASE i = pos[b]
      BY <1>11, <3>1 DEF RowOf
    <3>2. CASE i # pos[b]
      BY <1>8, <3>2
    <3>3. QED
      BY <3>1, <3>2
  <2>2. QED
    BY <1>2, <1>7, <1>11, <2>1 DEF RowOf, Ended, Outcome
<1>12. QED
  BY <1>3, <1>4, <1>5, <1>6, <1>9, <1>10, <1>11, StepKeeps

(* get_account finds the account of an item, and the engine is called.     *)
LEMMA DispatchKeeps ==
  ASSUME RunInv, Guard!GuardInv', Engine!TypeOK', NEW b \in Batches, Dispatch(b),
         pool' = pool
  PROVE  RunInv'
<1> DEFINE c == <<b, pos[b]>>
<1>1. /\ pc[b] = "loop" /\ HasItem(b) /\ Goto(b, "engine")
      /\ UNCHANGED <<job, pos, results, log, free, recorded>>
      /\ phase[Current(b)] = "waiting"
      /\ phase' = [phase EXCEPT ![Current(b)] = "checking"]
      /\ key' = [key EXCEPT ![Current(b)] = KeyOf(b, job[b], Item(b))]
  BY DEF Dispatch, HasItem, Engine!Take
<1>2. /\ job[b] \in Jobs /\ pos[b] \in 1 .. Len(ItemsOf(b)) /\ pos[b] \in Positions
      /\ Len(ItemsOf(b)) \in 0 .. MaxItems
      /\ Current(b) = c /\ c \in Calls /\ Item(b) = ItemsOf(b)[pos[b]]
  BY <1>1, AtItem
<1>3. phase \in [Calls -> Engine!Phases] /\ DOMAIN key = Calls
      /\ pc \in [Batches -> Stages]
  BY DEF RunInv, TypeOK, Engine!TypeOK
<1>4. /\ phase'[c] = "checking" /\ key'[c] = KeyOf(b, job[b], ItemsOf(b)[pos[b]])
      /\ pc'[b] = "engine"
      /\ \A d \in Calls : d # Current(b) => phase'[d] = phase[d] /\ key'[d] = key[d]
  BY <1>1, <1>2, <1>3 DEF Goto
<1>5. Admitted(job[b]) /\ pos[b] <= Len(ItemsOf(b))
  BY <1>1, <1>2 DEF RunInv, BatchInv, ActiveBatch
<1>6. ItemInv(b, pos[b])'
  <2>1. job'[b] = job[b] /\ ItemsOf(b)' = ItemsOf(b) /\ pos'[b] = pos[b]
    BY <1>1 DEF ItemsOf
  <2>2. pos[b] \in Nat
    BY <1>2
  <2>3. QED
    BY <1>2, <1>4, <1>5, <2>1, <2>2 DEF ItemInv
<1>7. KeysDiffer(b)'
  <2>1. KeysDiffer(b)
    BY DEF RunInv
  <2>2. \A i \in Positions :
          \/ phase'[<<b, i>>] = phase[<<b, i>>] /\ key'[<<b, i>>] = key[<<b, i>>]
          \/ phase'[<<b, i>>] = "checking"
    BY <1>2, <1>4 DEF Calls
  <2>3. QED
    BY <2>1, <2>2 DEF KeysDiffer
<1>8. PoolMoves(b)
  BY <1>1, <1>4 DEF PoolMoves, HasConnection
<1>9. QED
  BY <1>1, <1>4, <1>5, <1>6, <1>7, <1>8, LogUntouched

(* The batch ends at an item that it has not touched, or after the last.   *)
LEMMA LoopEndKeeps ==
  ASSUME RunInv, Guard!GuardInv', Engine!TypeOK', NEW b \in Batches,
         AccountMissing(b) \/ Complete(b), pool' = pool
  PROVE  RunInv'
<1>1. /\ pc[b] = "loop" /\ UNCHANGED <<engine, job, pos, results, log>>
      /\ job[b] \in Jobs /\ pc \in [Batches -> Stages]
  BY DEF AccountMissing, Complete, HasItem, RunInv, BatchInv, TypeOK
<1>2. PICK there \in {"failed", "completed"} :
        /\ Close(b, there)
        /\ there = "completed" => pos[b] > Len(ItemsOf(b))
  <2>1. CASE Complete(b)
    BY <2>1 DEF Complete, ItemsOf
  <2>2. CASE AccountMissing(b)
    <3>1. HasItem(b) /\ Item(b).account_id \notin Reachable(job[b])
      BY <2>2 DEF AccountMissing
    <3>2. job[b].origin = "service"
      <4>1. pos[b] \in 1 .. Len(Items[job[b]]) /\ Item(b) = Items[job[b]][pos[b]]
        BY <3>1, AtItem DEF ItemsOf
      <4>2. QED
        BY <1>1, <3>1, <4>1, RoutesReachTheirItems
    <3>3. Close(b, "failed")
      BY <2>2, <3>2 DEF AccountMissing
    <3>4. QED
      BY <3>3
  <2>3. QED
    BY <2>1, <2>2
<1>3. /\ Goto(b, there) /\ pc'[b] = there
      /\ free' = IF HasConnection(b) THEN free + 1 ELSE free
  BY <1>1, <1>2 DEF Close, Goto
<1>4. PoolMoves(b)
  BY <1>3 DEF PoolMoves, HasConnection
<1>5. pos[b] \in Positions => ItemInv(b, pos[b])'
  <2>1. SUFFICES ASSUME pos[b] \in Positions PROVE ItemInv(b, pos[b])'
    OBVIOUS
  <2>2. ItemInv(b, pos[b]) /\ pos[b] \in Nat
    BY <2>1 DEF RunInv, Positions
  <2>3. phase[<<b, pos[b]>>] = "waiting"
    BY <1>1, <2>2 DEF ItemInv
  <2>4. phase' = phase /\ pos' = pos
    BY <1>1 DEF engine
  <2>5. QED
    BY <1>3, <2>2, <2>3, <2>4 DEF ItemInv, ActiveBatch
<1>6. KeysDiffer(b)'
  BY <1>1 DEF RunInv, KeysDiffer, engine
<1>7. phase' = phase /\ key' = key /\ recorded' = recorded
  BY <1>1 DEF engine
<1>8. QED
  BY <1>1, <1>2, <1>3, <1>4, <1>5, <1>6, <1>7, LogUntouched

(* The engine looks the key up, and skips the call or executes it.         *)
LEMMA EngineProceedsKeeps ==
  ASSUME RunInv, Guard!GuardInv', Engine!TypeOK', NEW b \in Batches, EngineProceeds(b),
         pool' = pool
  PROVE  RunInv'
<1> DEFINE c == <<b, pos[b]>>
<1>1. /\ pc[b] = "engine" /\ UNCHANGED <<pc, job, pos, results, log, free>>
      /\ Engine!Skip(Current(b)) \/ Engine!Start(Current(b)) \/ Engine!Finish(Current(b))
  BY DEF EngineProceeds, batch
<1>2. /\ job[b] \in Jobs /\ pos[b] \in 1 .. Len(ItemsOf(b)) /\ pos[b] \in Positions
      /\ Len(ItemsOf(b)) \in 0 .. MaxItems /\ Current(b) = c /\ c \in Calls
  BY <1>1, AtItem
<1>3. phase \in [Calls -> Engine!Phases] /\ key \in [Calls -> Keys \cup {NoKey}]
      /\ pc \in [Batches -> Stages]
  BY DEF RunInv, TypeOK, Engine!TypeOK
<1>4. /\ phase[c] \in {"checking", "running"} /\ phase'[c] \in {"skipped", "running", "done"}
      /\ \A d \in Calls : d # c => phase'[d] = phase[d]
      /\ key' = key /\ recorded \subseteq recorded'
      /\ phase'[c] = "running" => key[c] \notin recorded
      /\ phase'[c] = "done" => phase[c] = "running" /\ recorded' = recorded \cup ({key[c]} \ {NoKey})
  BY <1>1, <1>2, <1>3 DEF Engine!Skip, Engine!Start, Engine!Finish
<1>5. /\ BatchInv(b) /\ KeysDiffer(b) /\ \A i \in Positions : ItemInv(b, i)
      /\ ActiveBatch(b) /\ Admitted(job[b]) /\ pos[b] <= Len(ItemsOf(b)) /\ pos[b] \in Nat
  BY <1>1, <1>2 DEF RunInv, BatchInv, ActiveBatch
<1>6. /\ pc' = pc /\ pc'[b] = "engine" /\ job' = job /\ pos' = pos
      /\ ItemsOf(b)' = ItemsOf(b) /\ ActiveBatch(b)'
  BY <1>1, <1>5 DEF ItemsOf, ActiveBatch
<1>7. key[c] = KeyOf(b, job[b], ItemsOf(b)[pos[b]])
  BY <1>2, <1>4, <1>5 DEF ItemInv
<1>8. ItemInv(b, pos[b])'
  <2>1. phase'[c] = "done" => key[c] \in recorded'
    <3>1. key[c] \in Keys
      BY <1>2, <1>7, KeyOfBegins DEF ItemsOf
    <3>2. QED
      BY <1>4, <3>1, NoKeyAssumption
  <2>2. QED
    BY <1>2, <1>4, <1>5, <1>6, <1>7, <2>1 DEF ItemInv
<1>9. KeysDiffer(b)'
  <2> SUFFICES ASSUME NEW i \in Positions, NEW j \in Positions, i < j,
                      phase'[<<b, i>>] = "done", phase'[<<b, j>>] \in {"running", "done"}
               PROVE  key'[<<b, i>>] # key'[<<b, j>>]
    BY DEF KeysDiffer
  <2>1. j <= pos[b] /\ i < pos[b] /\ i # pos[b]
    <3>1. i \in Nat /\ j \in Nat /\ pos[b] \in Nat
      BY <1>5 DEF Positions
    <3>2. ASSUME j > pos[b] PROVE FALSE
      <4>1. phase[<<b, j>>] = "waiting" /\ <<b, j>> # c /\ <<b, j>> \in Calls
        BY <1>5, <3>1, <3>2 DEF ItemInv, Calls
      <4>2. QED
        BY <1>4, <4>1
    <3>3. QED
      BY <3>1, <3>2
  <2>2. phase[<<b, i>>] = "done" /\ key[<<b, i>>] \in recorded
    <3>1. <<b, i>> # c /\ <<b, i>> \in Calls
      BY <2>1 DEF Calls
    <3>2. QED
      BY <1>4, <1>5, <3>1 DEF ItemInv
  <2>3. CASE j = pos[b]
    <3>1. CASE phase'[c] = "running"
      BY <1>4, <2>2, <2>3, <3>1
    <3>2. CASE phase'[c] = "done"
      BY <1>4, <1>5, <2>2, <2>3, <3>2 DEF KeysDiffer
    <3>3. QED
      BY <2>3, <3>1, <3>2
  <2>4. CASE j # pos[b]
    <3>1. <<b, j>> # c /\ <<b, j>> \in Calls
      BY <2>4 DEF Calls
    <3>2. QED
      BY <1>4, <1>5, <2>2, <3>1 DEF KeysDiffer
  <2>5. QED
    BY <2>3, <2>4
<1>10. PoolMoves(b)
  BY <1>1 DEF PoolMoves, HasConnection
<1>11. Goto(b, "engine")
  BY <1>1, <1>3 DEF Goto
<1>12. \A d \in Calls : d # Current(b) => phase'[d] = phase[d] /\ key'[d] = key[d]
  BY <1>2, <1>4
<1>13. UNCHANGED <<job, pos, results, log, pool>>
  BY <1>1
<1>14. QED
  BY <1>1, <1>4, <1>5, <1>8, <1>9, <1>10, <1>11, <1>12, <1>13, LogUntouched

(* An exception ends a batch, and its session is closed.                   *)
LEMMA UnwindCloses ==
  ASSUME pc \in [Batches -> Stages], NEW b \in Batches, Unwind(b)
  PROVE  \E there \in {"failed", "bad_request"} :
           /\ Goto(b, there) /\ pc'[b] = there
           /\ free' = IF HasConnection(b) THEN free + 1 ELSE free
BY DEF Unwind, Close, Goto

(* The execution raises, and so does the batch.                            *)
LEMMA EngineFailsKeeps ==
  ASSUME RunInv, Guard!GuardInv', Engine!TypeOK', NEW b \in Batches, EngineFails(b),
         pool' = pool
  PROVE  RunInv'
<1> DEFINE c == <<b, pos[b]>>
<1>1. /\ pc[b] = "engine" /\ UNCHANGED <<job, pos, results, log, pool>>
      /\ Engine!Fail(Current(b)) /\ Unwind(b)
  BY DEF EngineFails
<1>2. /\ job[b] \in Jobs /\ pos[b] \in 1 .. Len(ItemsOf(b)) /\ pos[b] \in Positions
      /\ Len(ItemsOf(b)) \in 0 .. MaxItems /\ Current(b) = c /\ c \in Calls
  BY <1>1, AtItem
<1>3. phase \in [Calls -> Engine!Phases] /\ pc \in [Batches -> Stages]
  BY DEF RunInv, TypeOK, Engine!TypeOK
<1>4. /\ phase[c] = "running" /\ phase'[c] = "failed"
      /\ \A d \in Calls : d # c => phase'[d] = phase[d]
      /\ key' = key /\ recorded' = recorded
  BY <1>1, <1>2, <1>3 DEF Engine!Fail
<1>5. PICK there \in {"failed", "bad_request"} :
        /\ Goto(b, there) /\ pc'[b] = there
        /\ free' = IF HasConnection(b) THEN free + 1 ELSE free
  BY <1>1, <1>3, UnwindCloses
<1>6. KeysDiffer(b) /\ ItemInv(b, pos[b]) /\ pos[b] \in Nat
  BY <1>2 DEF RunInv
<1>7. ItemInv(b, pos[b])'
  <2>1. job' = job /\ pos' = pos /\ ItemsOf(b)' = ItemsOf(b)
    BY <1>1 DEF ItemsOf
  <2>2. QED
    BY <1>2, <1>4, <1>5, <1>6, <2>1 DEF ItemInv, ActiveBatch
<1>8. KeysDiffer(b)'
  <2>1. \A i \in Positions : phase'[<<b, i>>] = phase[<<b, i>>] \/ phase'[<<b, i>>] = "failed"
    BY <1>4 DEF Calls
  <2>2. QED
    BY <1>4, <1>6, <2>1 DEF KeysDiffer
<1>9. PoolMoves(b)
  BY <1>5 DEF PoolMoves, HasConnection
<1>10. QED
  BY <1>1, <1>2, <1>4, <1>5, <1>7, <1>8, <1>9, LogUntouched

(* The answer to the commit is lost, or no connection is left for the      *)
(* refresh.                                                                *)
LEMMA RefreshFailsKeeps ==
  ASSUME RunInv, Guard!GuardInv', Engine!TypeOK', NEW b \in Batches, RefreshFails(b),
         pool' = pool
  PROVE  RunInv'
<1>1. /\ pc[b] = "logged" /\ UNCHANGED <<engine, job, pos, results, log, pool>>
      /\ Unwind(b) /\ pc \in [Batches -> Stages]
  BY DEF RefreshFails, RunInv, TypeOK
<1>2. PICK there \in {"failed", "bad_request"} :
        /\ Goto(b, there) /\ pc'[b] = there
        /\ free' = IF HasConnection(b) THEN free + 1 ELSE free
  BY <1>1, UnwindCloses
<1>3. PoolMoves(b)
  BY <1>2 DEF PoolMoves, HasConnection
<1>4. phase' = phase /\ key' = key /\ recorded' = recorded
  BY <1>1 DEF engine
<1>5. KeysDiffer(b)'
  BY <1>4 DEF RunInv, KeysDiffer
<1>6. pos[b] \in Positions => ItemInv(b, pos[b])'
  <2>1. SUFFICES ASSUME pos[b] \in Positions PROVE ItemInv(b, pos[b])'
    OBVIOUS
  <2>2. ItemInv(b, pos[b]) /\ pos[b] \in Nat
    BY <2>1 DEF RunInv, Positions
  <2>3. job' = job /\ pos' = pos /\ ItemsOf(b)' = ItemsOf(b)
    BY <1>1 DEF ItemsOf
  <2>4. QED
    BY <1>2, <1>4, <2>2, <2>3 DEF ItemInv, ActiveBatch
<1>7. QED
  BY <1>1, <1>2, <1>3, <1>4, <1>5, <1>6, LogUntouched
-----------------------------------------------------------------------------
(* Steps that write to the log.                                            *)

(* A function on 1 .. n with values in a set is a sequence over it.        *)
LEMMA IsSequence ==
  ASSUME NEW S, NEW n \in Nat, NEW f, DOMAIN f = 1 .. n, f = [k \in 1 .. n |-> f[k]],
         \A k \in 1 .. n : f[k] \in S
  PROVE  f \in Seq(S)
  OBVIOUS

(* The log is a sequence of rows.                                          *)
LEMMA LogIsSequence ==
  ASSUME RunInv
  PROVE  /\ log \in Seq(RowType) /\ Len(log) \in Nat /\ DOMAIN log = 1 .. Len(log)
         /\ \A k \in DOMAIN log : log[k] \in RowType
<1>1. log \in Seq(RowType)
  BY DEF RunInv, TypeOK
<1>2. QED
  BY <1>1

(* Only the state of a row ever changes.                                   *)
LEMMA TurnedFields ==
  ASSUME NEW k, log[k] \in RowType, NEW what \in {"committed", "rolled back"},
         Turned(k, what)
  PROVE  /\ log'[k] \in RowType /\ log'[k].state = what
         /\ log'[k].call = log[k].call /\ log'[k].run_id = log[k].run_id
         /\ log'[k].account_id = log[k].account_id /\ log'[k].status = log[k].status
  BY DEF RowType, Turned

(* No call has two rows.                                                   *)
LEMMA OneRowPerCall ==
  ASSUME RunInv, NEW k \in DOMAIN log, NEW l \in DOMAIN log, log[k].call = log[l].call
  PROVE  k = l
<1>1. PICK b \in Batches, i \in Positions : log[k].call = <<b, i>>
  BY DEF RunInv, RowsInv, RowOf
<1>2. k \in Nat /\ l \in Nat
  BY LogIsSequence
<1>3. k < l => i < i
  BY <1>1 DEF RunInv, RowsInOrder
<1>4. l < k => i < i
  BY <1>1 DEF RunInv, RowsInOrder
<1>5. ~(i < i)
  BY DEF Positions
<1>6. QED
  BY <1>2, <1>3, <1>4, <1>5

(* A row of an item that has not ended is not committed.                   *)
LEMMA CurrentRowIsOpen ==
  ASSUME RunInv, NEW b \in Batches, pc[b] \in {"engine", "flushed"},
         NEW k \in DOMAIN log, log[k].call = Current(b)
  PROVE  pc[b] = "flushed" /\ log[k].state = "open"
<1>1. PICK d \in Batches, i \in Positions : RowOf(k, d, i)
  BY DEF RunInv, RowsInv
<1>2. d = b /\ i = pos[b]
  BY <1>1 DEF RowOf, Current
<1>3. pc[b] = "flushed"
  BY <1>1, <1>2 DEF RowOf
<1>4. PICK l \in DOMAIN log : log[l].call = Current(b) /\ log[l].state = "open"
  BY <1>3 DEF RunInv, BatchInv
<1>5. QED
  BY <1>3, <1>4, OneRowPerCall

(* The end of a transaction turns the rows of the current item.            *)
LEMMA RowsTurn ==
  ASSUME RunInv, NEW b \in Batches, pc[b] \in {"engine", "flushed"},
         NEW what \in {"committed", "rolled back"}, RowBecomes(b, what)
  PROVE  /\ log' \in Seq(RowType) /\ DOMAIN log' = DOMAIN log
         /\ \A k \in DOMAIN log :
              /\ SameRow(k) \/ TurnedRow(k, Current(b))
              /\ log[k].call = Current(b) => log'[k].state = what
              /\ log[k].call # Current(b) => SameRow(k)
         /\ RowsInOrder'
<1>1. /\ log \in Seq(RowType) /\ Len(log) \in Nat /\ DOMAIN log = 1 .. Len(log)
      /\ \A k \in DOMAIN log : log[k] \in RowType
  BY LogIsSequence
<1>2. log' = [k \in 1 .. Len(log) |-> log'[k]] /\ DOMAIN log' = DOMAIN log
  BY <1>1 DEF RowBecomes
<1>3. ASSUME NEW k \in DOMAIN log
      PROVE  /\ log'[k] \in RowType
             /\ SameRow(k) \/ TurnedRow(k, Current(b))
             /\ log[k].call = Current(b) => log'[k].state = what
             /\ log[k].call # Current(b) => SameRow(k)
             /\ log'[k].call = log[k].call
  <2>1. CASE log[k].call = Current(b)
    <3>1. Turned(k, what)
      BY <2>1 DEF RowBecomes, Turned
    <3>2. log[k] \in RowType /\ log[k].state = "open"
      BY <1>1, <2>1, CurrentRowIsOpen
    <3>3. log'[k] \in RowType /\ log'[k].state = what /\ log'[k].call = log[k].call
      BY <3>1, <3>2, TurnedFields
    <3>4. QED
      BY <2>1, <3>1, <3>2, <3>3 DEF TurnedRow
  <2>2. CASE log[k].call # Current(b)
    <3>1. log'[k] = log[k]
      BY <2>2 DEF RowBecomes
    <3>2. QED
      BY <1>1, <2>2, <3>1 DEF SameRow
  <2>3. QED
    BY <2>1, <2>2
<1>4. \A k \in DOMAIN log : log'[k] \in RowType
  BY <1>3
<1>5. log' \in Seq(RowType)
  BY <1>1, <1>2, <1>4, IsSequence
<1>6. \A k \in DOMAIN log : log'[k].call = log[k].call
  BY <1>3
<1>7. RowsInOrder'
  <2> SUFFICES ASSUME NEW d \in Batches, NEW i \in Positions, NEW j \in Positions,
                      NEW k \in DOMAIN log', NEW l \in DOMAIN log', k < l,
                      log'[k].call = <<d, i>>, log'[l].call = <<d, j>>
               PROVE  i < j
    BY DEF RowsInOrder
  <2>1. /\ k \in DOMAIN log /\ log[k].call = <<d, i>>
        /\ l \in DOMAIN log /\ log[l].call = <<d, j>>
    BY <1>2, <1>6
  <2>2. QED
    BY <2>1 DEF RunInv, RowsInOrder
<1>8. QED
  BY <1>2, <1>3, <1>5, <1>7

(* A step that ends, or logs, the current item.                            *)
LEMMA LogTouched ==
  ASSUME RunInv, Guard!GuardInv', Engine!TypeOK',
         NEW b \in Batches, EngineReturned(b) \/ pc[b] = "flushed",
         NEW there \in {"flushed", "logged", "failed", "bad_request"}, Goto(b, there),
         UNCHANGED <<engine, job, pos, results, pool>>,
         log' \in Seq(RowType), DOMAIN log \subseteq DOMAIN log',
         \A k \in DOMAIN log : SameRow(k) \/ TurnedRow(k, Current(b)),
         \A k \in DOMAIN log' \ DOMAIN log : log'[k] = Row(b) /\ there = "flushed",
         \A k \in DOMAIN log : log[k].call = Current(b) => log'[k].state # "open",
         RowsInOrder', PoolMoves(b),
         there = "flushed" =>
           \E k \in DOMAIN log' : log'[k].call = Current(b) /\ log'[k].state = "open",
         there = "logged" => Logged(Current(b))'
  PROVE  RunInv'
<1>1. /\ TypeOK /\ BatchInv(b) /\ KeysDiffer(b) /\ \A i \in Positions : ItemInv(b, i)
      /\ pc[b] \in {"engine", "flushed"}
  BY DEF RunInv, EngineReturned
<1>2. /\ job[b] \in Jobs /\ pos[b] \in 1 .. Len(ItemsOf(b)) /\ pos[b] \in Positions
      /\ Len(ItemsOf(b)) \in 0 .. MaxItems /\ Current(b) = <<b, pos[b]>>
      /\ Item(b) = ItemsOf(b)[pos[b]]
  BY <1>1, AtItem
<1>3. /\ pc' = [pc EXCEPT ![b] = there] /\ pc'[b] = there
      /\ \A d \in Batches \ {b} : pc'[d] = pc[d]
  BY <1>1 DEF Goto, TypeOK
<1>4. phase' = phase /\ key' = key /\ recorded' = recorded
  BY DEF engine
<1>5. Ended(Current(b))
  BY <1>1, <1>2 DEF EngineReturned, Ended, ItemInv
<1>6. StepOf(b)
  BY <1>3, <1>4 DEF StepOf, Row
<1>7. PoolInv' /\ pool' \in 1 .. PoolSize /\ free' \in 0 .. pool'
  BY <1>6, PoolStep DEF PoolMoves
<1>8. TypeOK'
  BY <1>1, <1>3, <1>7 DEF TypeOK, Stages
<1>9. ItemsOf(b)' = ItemsOf(b) /\ Run(b)' = Run(b) /\ Current(b)' = Current(b)
  BY DEF ItemsOf, Run, Current
<1>10. KeysDiffer(b)'
  BY <1>1, <1>4 DEF KeysDiffer
<1>11. ASSUME NEW i \in Positions PROVE ItemInv(b, i)'
  <2>1. Logged(<<b, i>>) => Logged(<<b, i>>)'
    BY <1>6, LoggedStays
  <2>2. ItemInv(b, i)
    BY <1>1
  <2>3. ActiveBatch(b)
    BY <1>1 DEF ActiveBatch
  <2>4. i = pos[b] => Ended(<<b, i>>)
    BY <1>2, <1>5
  <2>5. QED
    BY <1>3, <1>4, <1>9, <2>1, <2>2, <2>3, <2>4 DEF ItemInv, Ended, ActiveBatch
<1>12. BatchInv(b)'
  <2>1. Admitted(job[b])
    BY <1>1 DEF BatchInv, ActiveBatch
  <2>2. \A i \in DOMAIN results[b] : Outcome(<<b, i>>)' = Outcome(<<b, i>>)
    BY <1>4 DEF Outcome
  <2>3. QED
    BY <1>1, <1>2, <1>3, <1>9, <2>1, <2>2, RunAssumption DEF BatchInv
<1>13. ASSUME NEW k \in DOMAIN log, NEW i \in Positions, RowOf(k, b, i)
       PROVE  RowOf(k, b, i)'
  <2>1. log[k] \in RowType
    BY <1>1 DEF TypeOK
  <2>2. /\ log'[k].call = log[k].call /\ log'[k].status = log[k].status
        /\ log'[k].run_id = log[k].run_id /\ log'[k].account_id = log[k].account_id
        /\ log'[k].state = "open" => log[k].state = "open"
    <3>1. CASE SameRow(k)
      BY <3>1 DEF SameRow
    <3>2. CASE TurnedRow(k, Current(b))
      <4>1. PICK what \in {"committed", "rolled back"} : Turned(k, what)
        BY <3>2 DEF TurnedRow
      <4>2. QED
        BY <2>1, <4>1, TurnedFields
    <3>3. QED
      BY <3>1, <3>2
  <2>3. log'[k].state # "open"
    <3>1. log'[k].state = "open" => i = pos[b]
      BY <1>13, <2>2 DEF RowOf
    <3>2. i = pos[b] => log[k].call = Current(b)
      BY <1>2, <1>13 DEF RowOf
    <3>3. QED
      BY <3>1, <3>2
  <2>4. QED
    BY <1>3, <1>4, <1>9, <1>13, <2>2, <2>3 DEF RowOf, Ended, Outcome
<1>14. ASSUME NEW k \in DOMAIN log' \ DOMAIN log
       PROVE  \E i \in Positions : RowOf(k, b, i)'
  <2>1. log'[k] = Row(b) /\ pc'[b] = "flushed"
    BY <1>3
  <2>2. PICK i \in Positions : i = pos[b]
    BY <1>2
  <2>3. RowOf(k, b, i)'
    BY <1>2, <1>4, <1>5, <1>9, <2>1, <2>2 DEF RowOf, Row, Ended, Outcome
  <2>4. QED
    BY <2>3
<1>15. QED
  BY <1>6, <1>7, <1>8, <1>10, <1>11, <1>12, <1>13, <1>14, StepKeeps

(* create_log inserts a row.                                               *)
LEMMA InsertKeeps ==
  ASSUME RunInv, Guard!GuardInv', Engine!TypeOK', NEW b \in Batches, Insert(b),
         pool' = pool
  PROVE  RunInv'
<1>1. /\ pc[b] = "engine" /\ EngineReturned(b) /\ Goto(b, "flushed")
      /\ UNCHANGED <<engine, job, pos, results, pool>>
      /\ log' = Append(log, Row(b)) /\ log \in Seq(RowType) /\ pc \in [Batches -> Stages]
  BY DEF Insert, EngineReturned, RunInv, TypeOK
<1>2. /\ job[b] \in Jobs /\ pos[b] \in Positions /\ Current(b) = <<b, pos[b]>>
      /\ Current(b) \in Calls /\ Item(b) \in ItemType
  BY <1>1, AtItem
<1>3. Row(b) \in RowType
  <2>1. Run(b) \in RunIds
    BY <1>2 DEF Run, RunIds
  <2>2. Item(b).account_id \in DOMAIN Str
    BY <1>2 DEF ItemType
  <2>3. Outcome(Current(b)) \in Outcomes
    BY DEF Outcome, Outcomes
  <2>4. QED
    BY <1>2, <2>1, <2>2, <2>3 DEF Row, RowType
<1>4. /\ log' \in Seq(RowType) /\ Len(log) \in Nat /\ DOMAIN log = 1 .. Len(log)
      /\ DOMAIN log' = 1 .. Len(log) + 1
      /\ \A k \in DOMAIN log : log'[k] = log[k]
      /\ log'[Len(log) + 1] = Row(b)
  <2> DEFINE r == Row(b)
  <2>1. r \in RowType /\ log' = Append(log, r) /\ log \in Seq(RowType)
    BY <1>1, <1>3
  <2> HIDE DEF r
  <2>2. /\ log' \in Seq(RowType) /\ Len(log) \in Nat /\ Len(log') = Len(log) + 1
        /\ \A i \in 1 .. Len(log) : log'[i] = log[i]
        /\ log'[Len(log) + 1] = r
    BY <2>1, Appended
  <2>3. DOMAIN log = 1 .. Len(log) /\ DOMAIN log' = 1 .. Len(log')
    BY <2>1, <2>2
  <2>4. QED
    BY <2>2, <2>3 DEF r
<1>5. \A k \in DOMAIN log : log[k].call # Current(b)
  BY <1>1, CurrentRowIsOpen
<1>6. RowsInOrder'
  <2> SUFFICES ASSUME NEW d \in Batches, NEW i \in Positions, NEW j \in Positions,
                      NEW k \in DOMAIN log', NEW l \in DOMAIN log', k < l,
                      log'[k].call = <<d, i>>, log'[l].call = <<d, j>>
               PROVE  i < j
    BY DEF RowsInOrder
  <2>1. k \in DOMAIN log /\ log[k].call = <<d, i>>
    BY <1>4
  <2>2. CASE l \in DOMAIN log
    BY <1>4, <2>1, <2>2 DEF RunInv, RowsInOrder
  <2>3. CASE l = Len(log) + 1
    <3>1. d = b /\ j = pos[b]
      BY <1>2, <1>4, <2>3 DEF Row
    <3>2. PICK e \in Batches, n \in Positions : RowOf(k, e, n)
      BY <2>1 DEF RunInv, RowsInv
    <3>3. e = b /\ n = i /\ i <= pos[b]
      BY <2>1, <3>1, <3>2 DEF RowOf
    <3>4. i # pos[b]
      BY <1>2, <1>5, <2>1, <3>1
    <3>5. QED
      BY <3>1, <3>3, <3>4 DEF Positions
  <2>4. QED
    BY <1>4, <2>2, <2>3
<1>7. pc'[b] = "flushed"
  BY <1>1 DEF Goto
<1>8. PoolMoves(b)
  <2>1. HasConnection(b)' /\ (IF HasConnection(b) THEN free' = free ELSE CheckOut)
    BY <1>1, <1>7 DEF HasConnection, Insert
  <2>2. QED
    BY <2>1 DEF PoolMoves
<1>9. \E k \in DOMAIN log' : log'[k].call = Current(b) /\ log'[k].state = "open"
  <2>1. Row(b).call = Current(b) /\ Row(b).state = "open"
    BY DEF Row
  <2>2. Len(log) + 1 \in DOMAIN log'
    BY <1>4
  <2>3. QED
    BY <1>4, <2>1, <2>2
<1>10. /\ DOMAIN log \subseteq DOMAIN log'
       /\ \A k \in DOMAIN log : SameRow(k) \/ TurnedRow(k, Current(b))
       /\ \A k \in DOMAIN log' \ DOMAIN log : log'[k] = Row(b)
  BY <1>4 DEF SameRow
<1>11. QED
  BY <1>1, <1>4, <1>5, <1>6, <1>8, <1>9, <1>10, LogTouched

(* ... and commits it.                                                     *)
LEMMA CommitKeeps ==
  ASSUME RunInv, Guard!GuardInv', Engine!TypeOK', NEW b \in Batches, Commit(b),
         pool' = pool
  PROVE  RunInv'
<1>1. /\ pc[b] = "flushed" /\ Goto(b, "logged") /\ RowBecomes(b, "committed")
      /\ UNCHANGED <<engine, job, pos, results, pool>>
      /\ free' = free + 1 /\ pc \in [Batches -> Stages]
  BY DEF Commit, RunInv, TypeOK
<1>2. /\ log' \in Seq(RowType) /\ DOMAIN log' = DOMAIN log
      /\ \A k \in DOMAIN log :
           /\ SameRow(k) \/ TurnedRow(k, Current(b))
           /\ log[k].call = Current(b) => log'[k].state = "committed"
           /\ log[k].call # Current(b) => SameRow(k)
      /\ RowsInOrder'
  BY <1>1, RowsTurn
<1>3. PICK k \in DOMAIN log : log[k].call = Current(b)
  BY <1>1 DEF RunInv, BatchInv
<1>4. log'[k].state = "committed" /\ log'[k].call = Current(b)
  <2>1. log[k] \in RowType
    BY LogIsSequence
  <2>2. QED
    <3>1. CASE SameRow(k)
      BY <1>2, <1>3, <3>1 DEF SameRow
    <3>2. CASE TurnedRow(k, Current(b))
      <4>1. PICK what \in {"committed", "rolled back"} : Turned(k, what)
        BY <3>2 DEF TurnedRow
      <4>2. QED
        BY <1>2, <1>3, <2>1, <4>1, TurnedFields
    <3>3. QED
      BY <1>2, <3>1, <3>2
<1>5. Logged(Current(b))'
  BY <1>1, <1>2, <1>4 DEF Logged, IsCommitted, Current
<1>6. pc'[b] = "logged"
  BY <1>1 DEF Goto
<1>7. PoolMoves(b)
  BY <1>1, <1>6 DEF PoolMoves, HasConnection
<1>8. QED
  BY <1>1, <1>2, <1>5, <1>7, LogTouched

(* create_log raises, and its row is rolled back.                          *)
LEMMA LogFailsKeeps ==
  ASSUME RunInv, Guard!GuardInv', Engine!TypeOK', NEW b \in Batches, LogFails(b),
         pool' = pool
  PROVE  RunInv'
<1>1. /\ EngineReturned(b) \/ pc[b] = "flushed"
      /\ pc[b] \in {"engine", "flushed"} /\ Unwind(b)
      /\ RowBecomes(b, "rolled back") /\ UNCHANGED <<engine, job, pos, results, pool>>
      /\ pc \in [Batches -> Stages]
  BY DEF LogFails, EngineReturned, RunInv, TypeOK
<1>2. /\ log' \in Seq(RowType) /\ DOMAIN log' = DOMAIN log
      /\ \A k \in DOMAIN log :
           /\ SameRow(k) \/ TurnedRow(k, Current(b))
           /\ log[k].call = Current(b) => log'[k].state = "rolled back"
           /\ log[k].call # Current(b) => SameRow(k)
      /\ RowsInOrder'
  BY <1>1, RowsTurn
<1>3. PICK there \in {"failed", "bad_request"} :
        /\ Goto(b, there) /\ pc'[b] = there
        /\ free' = IF HasConnection(b) THEN free + 1 ELSE free
  BY <1>1, UnwindCloses
<1>4. PoolMoves(b)
  BY <1>3 DEF PoolMoves, HasConnection
<1>5. QED
  BY <1>1, <1>2, <1>3, <1>4, LogTouched
-----------------------------------------------------------------------------
(* The remaining steps.                                                    *)

(* The row is refreshed, and the result reported.                          *)
LEMMA ReportKeeps ==
  ASSUME RunInv, Guard!GuardInv', Engine!TypeOK', NEW b \in Batches, Report(b),
         pool' = pool
  PROVE  RunInv'
<1>1. /\ pc[b] = "logged" /\ CheckOut /\ Goto(b, "loop")
      /\ results' = [results EXCEPT ![b] =
                       Append(@, [account_id |-> Item(b).account_id,
                                  status |-> Outcome(Current(b))])]
      /\ pos' = [pos EXCEPT ![b] = @ + 1]
      /\ UNCHANGED <<engine, job, log, pool>>
  BY DEF Report
<1>2. /\ TypeOK /\ BatchInv(b) /\ KeysDiffer(b) /\ \A i \in Positions : ItemInv(b, i)
  BY DEF RunInv
<1>3. /\ job[b] \in Jobs /\ pos[b] \in 1 .. Len(ItemsOf(b)) /\ pos[b] \in Positions
      /\ Len(ItemsOf(b)) \in 0 .. MaxItems /\ Current(b) = <<b, pos[b]>>
      /\ Item(b) = ItemsOf(b)[pos[b]] /\ Item(b) \in ItemType /\ MaxItems \in Nat
  BY <1>1, AtItem, RunAssumption
<1>4. /\ pc'[b] = "loop" /\ pos'[b] = pos[b] + 1 /\ pc' \in [Batches -> Stages]
      /\ pos' \in [Batches -> 1 .. MaxItems + 1]
      /\ \A d \in Batches \ {b} : pc'[d] = pc[d] /\ pos'[d] = pos[d]
  <2>1. pc \in [Batches -> Stages] /\ pos \in [Batches -> 1 .. MaxItems + 1]
    BY <1>2 DEF TypeOK
  <2>2. /\ pc'[b] = "loop" /\ pc' \in [Batches -> Stages]
        /\ \A d \in Batches \ {b} : pc'[d] = pc[d]
    BY <1>1, <2>1 DEF Goto, Stages
  <2>3. pos[b] + 1 \in 1 .. MaxItems + 1
    BY <1>3 DEF Positions
  <2>4. /\ pos'[b] = pos[b] + 1 /\ pos' \in [Batches -> 1 .. MaxItems + 1]
        /\ \A d \in Batches \ {b} : pos'[d] = pos[d]
    BY <1>1, <2>1, <2>3
  <2>5. QED
    BY <2>2, <2>4
<1>5. phase' = phase /\ key' = key /\ recorded' = recorded
  BY <1>1 DEF engine
<1>6. /\ Len(results[b]) = pos[b] - 1 /\ DOMAIN results[b] = 1 .. pos[b] - 1
      /\ results' \in [Batches -> Seq(ResultType)]
      /\ \A d \in Batches \ {b} : results'[d] = results[d]
      /\ Len(results'[b]) = pos[b] /\ DOMAIN results'[b] = 1 .. pos[b]
      /\ \A i \in 1 .. pos[b] - 1 : results'[b][i] = results[b][i]
      /\ results'[b][pos[b]] = [account_id |-> ItemsOf(b)[pos[b]].account_id,
                                status |-> Outcome(<<b, pos[b]>>)]
  <2> DEFINE r == [account_id |-> Item(b).account_id, status |-> Outcome(Current(b))]
  <2>1. r \in ResultType
    BY <1>3 DEF ResultType, Outcome, Outcomes, ItemType
  <2>2. r = [account_id |-> ItemsOf(b)[pos[b]].account_id, status |-> Outcome(<<b, pos[b]>>)]
    BY <1>3
  <2>3. results' = [results EXCEPT ![b] = Append(results[b], r)]
    BY <1>1
  <2> HIDE DEF r
  <2>4. results \in [Batches -> Seq(ResultType)] /\ results[b] \in Seq(ResultType)
        /\ Len(results[b]) = pos[b] - 1
    BY <1>2 DEF TypeOK
  <2>5. /\ Append(results[b], r) \in Seq(ResultType)
        /\ Len(Append(results[b], r)) = Len(results[b]) + 1
        /\ \A i \in 1 .. Len(results[b]) : Append(results[b], r)[i] = results[b][i]
        /\ Append(results[b], r)[Len(results[b]) + 1] = r
    BY <2>1, <2>4, Appended
  <2>6. results'[b] = Append(results[b], r)
        /\ \A d \in Batches \ {b} : results'[d] = results[d]
    BY <2>3, <2>4
  <2>7. results' \in [Batches -> Seq(ResultType)]
    BY <2>3, <2>4, <2>5
  <2>8. Len(results[b]) + 1 = pos[b]
    BY <1>3, <2>4
  <2>9. Len(results'[b]) = pos[b] /\ results'[b] \in Seq(ResultType)
    BY <2>5, <2>6, <2>8
  <2>10. DOMAIN results[b] = 1 .. pos[b] - 1 /\ DOMAIN results'[b] = 1 .. pos[b]
    BY <2>4, <2>9
  <2>11. QED
    BY <2>2, <2>4, <2>5, <2>6, <2>7, <2>8, <2>9, <2>10
<1>7. StepOf(b)
  BY <1>1, <1>4, <1>5, <1>6 DEF StepOf, SameRow
<1>8. PoolInv' /\ pool' \in 1 .. PoolSize /\ free' \in 0 .. pool'
  <2>1. HasConnection(b)' /\ ~HasConnection(b)
    BY <1>1, <1>3, <1>4 DEF HasConnection
  <2>2. QED
    BY <1>1, <1>7, <2>1, PoolStep
<1>9. TypeOK'
  <2>1. \A d \in Batches : Len(results'[d]) = pos'[d] - 1
    <3> SUFFICES ASSUME NEW d \in Batches PROVE Len(results'[d]) = pos'[d] - 1
      OBVIOUS
    <3>1. CASE d = b
      BY <1>3, <1>4, <1>6, <3>1
    <3>2. CASE d # b
      BY <1>2, <1>4, <1>6, <3>2 DEF TypeOK
    <3>3. QED
      BY <3>1, <3>2
  <2>2. QED
    BY <1>1, <1>2, <1>4, <1>6, <1>8, <2>1 DEF TypeOK
<1>10. job' = job /\ log' = log /\ ItemsOf(b)' = ItemsOf(b) /\ Run(b)' = Run(b)
       /\ \A c : Logged(c)' <=> Logged(c)
  BY <1>1 DEF ItemsOf, Run, Logged, IsCommitted
<1>11. RowsInOrder'
  BY <1>10 DEF RunInv, RowsInOrder
<1>12. KeysDiffer(b)'
  BY <1>2, <1>5 DEF KeysDiffer
<1>13. ASSUME NEW i \in Positions PROVE ItemInv(b, i)'
  <2>1. ItemInv(b, i) /\ ActiveBatch(b) /\ i \in Nat /\ pos[b] \in Nat
    BY <1>1, <1>2, <1>3 DEF ActiveBatch, Positions
  <2>2. i = pos[b] => Ended(<<b, i>>) /\ Logged(<<b, i>>)
    BY <1>1, <1>2, <1>3, <2>1 DEF ItemInv, BatchInv
  <2>3. QED
    BY <1>4, <1>5, <1>10, <2>1, <2>2 DEF ItemInv, Ended, ActiveBatch
<1>14. BatchInv(b)'
  <2>1. Admitted(job[b]) /\ job[b] # NoJob
    BY <1>1, <1>2 DEF BatchInv, ActiveBatch
  <2>2. ASSUME NEW i \in DOMAIN results'[b]
        PROVE  results'[b][i] = [account_id |-> ItemsOf(b)[i].account_id,
                                 status |-> Outcome(<<b, i>>)']
    <3>1. Outcome(<<b, i>>)' = Outcome(<<b, i>>)
      BY <1>5 DEF Outcome
    <3>2. CASE i = pos[b]
      BY <1>6, <3>1, <3>2
    <3>3. CASE i \in 1 .. pos[b] - 1
      BY <1>2, <1>6, <3>1, <3>3 DEF BatchInv
    <3>4. QED
      BY <1>3, <1>6, <3>2, <3>3
  <2>3. pos'[b] <= Len(ItemsOf(b)) + 1
    BY <1>3, <1>4
  <2>4. QED
    BY <1>4, <1>10, <2>1, <2>2, <2>3 DEF BatchInv
<1>15. ASSUME NEW k \in DOMAIN log, NEW i \in Positions, RowOf(k, b, i)
       PROVE  RowOf(k, b, i)'
  <2>1. i <= pos[b] /\ i # pos'[b] /\ i <= pos'[b] /\ log[k].state # "open"
    BY <1>1, <1>3, <1>4, <1>15 DEF RowOf, Positions
  <2>2. QED
    BY <1>4, <1>5, <1>10, <1>15, <2>1 DEF RowOf, Ended, Outcome
<1>16. QED
  BY <1>7, <1>8, <1>9, <1>10, <1>11, <1>12, <1>13, <1>14, <1>15, StepKeeps

(* A request arrives, and is admitted or refused.                          *)
LEMMA BeginKeeps ==
  ASSUME RunInv, Guard!GuardInv', Engine!TypeOK', NEW b \in Batches, NEW j \in Jobs,
         Begin(b, j)
  PROVE  RunInv'
<1>1. /\ pc[b] = "idle" /\ Goto(b, IF Admitted(j) THEN "loop" ELSE "refused")
      /\ job' = [job EXCEPT ![b] = j]
      /\ UNCHANGED <<engine, pos, results, log, pool, free>>
  BY DEF Begin
<1>2. /\ TypeOK /\ BatchInv(b) /\ KeysDiffer(b) /\ \A i \in Positions : ItemInv(b, i)
  BY DEF RunInv
<1>3. job[b] = NoJob /\ job[b] \notin Jobs /\ j # NoJob /\ pos[b] = 1
  BY <1>1, <1>2, RunAssumption DEF BatchInv
<1>4. /\ pc'[b] \in {"loop", "refused"} /\ (pc'[b] = "loop" => Admitted(j))
      /\ pc' \in [Batches -> Stages]
      /\ job'[b] = j /\ job' \in [Batches -> Jobs \cup {NoJob}]
      /\ \A d \in Batches \ {b} : pc'[d] = pc[d] /\ job'[d] = job[d]
  BY <1>1, <1>2 DEF Goto, TypeOK, Stages
<1>5. phase' = phase /\ key' = key /\ recorded' = recorded /\ pos' = pos /\ log' = log
      /\ results' = results
  BY <1>1 DEF engine
<1>6. StepOf(b)
  BY <1>4, <1>5 DEF StepOf, SameRow
<1>7. PoolInv' /\ pool' \in 1 .. PoolSize /\ free' \in 0 .. pool'
  <2>1. HasConnection(b)' <=> HasConnection(b)
    BY <1>1, <1>3, <1>4, <1>5 DEF HasConnection
  <2>2. QED
    BY <1>1, <1>6, <2>1, PoolStep
<1>8. TypeOK'
  BY <1>1, <1>2, <1>4, <1>7 DEF TypeOK
<1>9. RowsInOrder'
  BY <1>5 DEF RunInv, RowsInOrder
<1>10. KeysDiffer(b)'
  BY <1>2, <1>5 DEF KeysDiffer
<1>11. ASSUME NEW i \in Positions PROVE ItemInv(b, i)'
  <2>1. phase[<<b, i>>] = "waiting" /\ i \in Nat /\ ~(i < pos[b])
    BY <1>2, <1>3 DEF ItemInv, Positions
  <2>2. QED
    BY <1>3, <1>4, <1>5, <2>1 DEF ItemInv
<1>12. BatchInv(b)'
  <2>1. DOMAIN results[b] = {}
    <3>1. results[b] \in Seq(ResultType) /\ Len(results[b]) = 0
      BY <1>2, <1>3 DEF TypeOK
    <3>2. QED
      BY <3>1
  <2>2. pos'[b] <= Len(ItemsOf(b)') + 1
    <3>1. ItemsOf(b)' = Items[j] /\ Len(Items[j]) \in 0 .. MaxItems /\ MaxItems \in Nat
      BY <1>4, ItemsFollowAccounts, RunAssumption DEF ItemsOf
    <3>2. QED
      BY <1>3, <1>5, <3>1
  <2>3. QED
    BY <1>3, <1>4, <1>5, <2>1, <2>2 DEF BatchInv, ActiveBatch
<1>13. ASSUME NEW k \in DOMAIN log, NEW i \in Positions, RowOf(k, b, i)
       PROVE  FALSE
  BY <1>3, <1>13 DEF RowOf
<1>14. DOMAIN log' \ DOMAIN log = {}
  BY <1>5
<1>15. QED
  BY <1>6, <1>7, <1>8, <1>9, <1>10, <1>11, <1>12, <1>13, <1>14, StepKeeps

(* Orders, and steps that change nothing, do not matter here.              *)
LEMMA OutsideKeeps ==
  ASSUME RunInv, Guard!GuardInv', Engine!TypeOK',
         UNCHANGED <<recorded, phase, key, batch, log, pool, free>>
  PROVE  RunInv'
<1>1. /\ recorded' = recorded /\ phase' = phase /\ key' = key /\ pc' = pc /\ job' = job
      /\ pos' = pos /\ results' = results /\ log' = log /\ pool' = pool /\ free' = free
  BY DEF batch
<1>2. ASSUME NEW b \in Batches
      PROVE  BatchInv(b)' /\ KeysDiffer(b)' /\ \A i \in Positions : ItemInv(b, i)'
  <2>1. BatchInv(b)'
    <3>1. BatchInv(b)
      BY DEF RunInv
    <3>2. ItemsOf(b)' = ItemsOf(b) /\ Current(b)' = Current(b)
          /\ \A i \in DOMAIN results[b] : Outcome(<<b, i>>)' = Outcome(<<b, i>>)
      BY <1>1 DEF ItemsOf, Current, Outcome
    <3>3. Logged(Current(b))' <=> Logged(Current(b))
      BY <1>1 DEF Logged, IsCommitted, Current
    <3>4. QED
      BY <1>1, <3>1, <3>2, <3>3 DEF BatchInv, ActiveBatch
  <2>2. KeysDiffer(b)'
    BY <1>1 DEF RunInv, KeysDiffer
  <2>3. ASSUME NEW i \in Positions PROVE ItemInv(b, i)'
    BY <1>1 DEF RunInv, ItemInv, Ended, Logged, IsCommitted, ItemsOf, ActiveBatch
  <2>4. QED
    BY <2>1, <2>2, <2>3
<1>3. RowsInv'
  <2> SUFFICES ASSUME NEW k \in DOMAIN log'
               PROVE  \E b \in Batches, i \in Positions : RowOf(k, b, i)'
    BY DEF RowsInv
  <2>1. PICK b \in Batches, i \in Positions : RowOf(k, b, i)
    BY <1>1 DEF RunInv, RowsInv
  <2>2. ItemsOf(b)' = ItemsOf(b) /\ Run(b)' = Run(b)
    BY <1>1 DEF ItemsOf, Run
  <2>3. RowOf(k, b, i)'
    BY <1>1, <2>1, <2>2 DEF RowOf, Ended, Outcome
  <2>4. QED
    BY <2>3
<1>4. RowsInOrder'
  BY <1>1 DEF RunInv, RowsInOrder
<1>5. PoolInv'
  BY <1>1 DEF RunInv, PoolInv, Holders, HasConnection
<1>6. TypeOK'
  BY <1>1 DEF RunInv, TypeOK
<1>7. QED
  BY <1>2, <1>3, <1>4, <1>5, <1>6 DEF RunInv

(* The process dies, and the server rolls back what was not committed.     *)
LEMMA RestartKeeps ==
  ASSUME RunInv, Guard!GuardInv', Engine!TypeOK', Restart
  PROVE  RunInv'
<1>1. /\ TypeOK /\ job' = job /\ pos' = pos /\ results' = results /\ pool' = pool
      /\ free' = pool /\ key' = key
  BY DEF Restart, Engine!Restart, RunInv
<1>2. ASSUME NEW c \in Calls
      PROVE  /\ phase[c] \in {"checking", "running"} => phase'[c] = "killed"
             /\ phase[c] \notin {"checking", "running"} => phase'[c] = phase[c]
  BY DEF Restart, Engine!Restart, Engine!Active
<1>3. ASSUME NEW b \in Batches
      PROVE  /\ ActiveBatch(b) => pc'[b] = "killed"
             /\ ~ActiveBatch(b) => pc'[b] = pc[b]
             /\ ~ActiveBatch(b)'
  BY DEF Restart, ActiveBatch
<1>4. pc' \in [Batches -> Stages]
  BY <1>1 DEF Restart, TypeOK, Stages
<1>5. /\ log' \in Seq(RowType) /\ DOMAIN log' = DOMAIN log
      /\ \A k \in DOMAIN log :
           /\ log'[k].call = log[k].call /\ log'[k].status = log[k].status
           /\ log'[k].run_id = log[k].run_id /\ log'[k].account_id = log[k].account_id
           /\ log'[k].state # "open"
           /\ log[k].state = "committed" => log'[k].state = "committed"
  <2>1. log' = [k \in 1 .. Len(log) |-> log'[k]] /\ DOMAIN log' = DOMAIN log
        /\ DOMAIN log = 1 .. Len(log) /\ Len(log) \in Nat
    BY LogIsSequence DEF Restart
  <2>2. ASSUME NEW k \in DOMAIN log
        PROVE  /\ log'[k] \in RowType
               /\ log'[k].call = log[k].call /\ log'[k].status = log[k].status
               /\ log'[k].run_id = log[k].run_id /\ log'[k].account_id = log[k].account_id
               /\ log'[k].state # "open"
               /\ log[k].state = "committed" => log'[k].state = "committed"
    <3>1. log[k] \in RowType
      BY LogIsSequence
    <3>2. CASE log[k].state = "open"
      <4>1. Turned(k, "rolled back")
        BY <3>2 DEF Restart, Turned
      <4>2. QED
        BY <3>1, <3>2, <4>1, TurnedFields
    <3>3. CASE log[k].state # "open"
      <4>1. log'[k] = log[k]
        BY <3>3 DEF Restart
      <4>2. QED
        BY <3>1, <3>3, <4>1
    <3>4. QED
      BY <3>2, <3>3
  <2>3. \A k \in DOMAIN log : log'[k] \in RowType
    BY <2>2
  <2>4. log' \in Seq(RowType)
    BY <2>1, <2>3, IsSequence
  <2>5. QED
    BY <2>1, <2>2, <2>4
<1>6. ASSUME NEW c, Logged(c) PROVE Logged(c)'
  BY <1>5, <1>6 DEF Logged, IsCommitted
<1>7. ASSUME NEW b \in Batches, NEW i \in Positions
      PROVE  /\ <<b, i>> \in Calls
             /\ (phase'[<<b, i>>] = "waiting") <=> (phase[<<b, i>>] = "waiting")
             /\ (phase'[<<b, i>>] = "skipped") <=> (phase[<<b, i>>] = "skipped")
             /\ (phase'[<<b, i>>] = "done") <=> (phase[<<b, i>>] = "done")
             /\ phase'[<<b, i>>] # "running"
             /\ Ended(<<b, i>>)' <=> Ended(<<b, i>>)
             /\ Outcome(<<b, i>>)' = Outcome(<<b, i>>)
  <2>1. <<b, i>> \in Calls
    BY DEF Calls
  <2>2. QED
    BY <1>2, <2>1 DEF Ended, Outcome
<1>8. ASSUME NEW b \in Batches
      PROVE  BatchInv(b)' /\ KeysDiffer(b)' /\ \A i \in Positions : ItemInv(b, i)'
  <2>1. BatchInv(b) /\ KeysDiffer(b) /\ \A i \in Positions : ItemInv(b, i)
    BY DEF RunInv
  <2>2. ItemsOf(b)' = ItemsOf(b)
    BY <1>1 DEF ItemsOf
  <2>3. KeysDiffer(b)'
    BY <1>1, <1>7, <2>1 DEF KeysDiffer
  <2>4. ASSUME NEW i \in Positions PROVE ItemInv(b, i)'
    <3>1. ItemInv(b, i)
      BY <2>1
    <3>2. Logged(<<b, i>>) => Logged(<<b, i>>)'
      BY <1>6
    <3>3. /\ pc'[b] \in {"idle", "refused", "loop", "completed"} => pc[b] = pc'[b]
          /\ pc'[b] \notin {"loop", "engine", "flushed", "logged"}
      BY <1>3 DEF ActiveBatch
    <3>4. /\ (phase'[<<b, i>>] = "waiting") <=> (phase[<<b, i>>] = "waiting")
          /\ phase[<<b, i>>] \in {"skipped", "done"} => phase'[<<b, i>>] \in {"skipped", "done"}
      BY <1>7
    <3>5. QED
      BY <1>1, <2>2, <3>1, <3>2, <3>3, <3>4 DEF ItemInv, Ended, ActiveBatch
  <2>5. BatchInv(b)'
    <3>1. \A i \in DOMAIN results[b] : Outcome(<<b, i>>)' = Outcome(<<b, i>>)
      <4>1. results[b] \in Seq(ResultType) /\ Len(results[b]) = pos[b] - 1
            /\ pos[b] \in 1 .. MaxItems + 1
        BY <1>1 DEF TypeOK
      <4>2. DOMAIN results[b] \subseteq Positions
        BY <4>1, RunAssumption DEF Positions
      <4>3. QED
        BY <1>7, <4>2
    <3>2. (pc'[b] = "idle" <=> pc[b] = "idle") /\ (pc'[b] = "refused" <=> pc[b] = "refused")
          /\ (pc'[b] = "completed" <=> pc[b] = "completed")
          /\ pc'[b] \notin {"loop", "engine", "flushed", "logged"}
      BY <1>3 DEF ActiveBatch
    <3>3. QED
      BY <1>1, <1>3, <2>1, <2>2, <3>1, <3>2 DEF BatchInv
  <2>6. QED
    BY <2>3, <2>4, <2>5
<1>9. RowsInv'
  <2> SUFFICES ASSUME NEW k \in DOMAIN log'
               PROVE  \E b \in Batches, i \in Positions : RowOf(k, b, i)'
    BY DEF RowsInv
  <2>1. k \in DOMAIN log
    BY <1>5
  <2>2. PICK b \in Batches, i \in Positions : RowOf(k, b, i)
    BY <2>1 DEF RunInv, RowsInv
  <2>3. ItemsOf(b)' = ItemsOf(b) /\ Run(b)' = Run(b)
    BY <1>1 DEF ItemsOf, Run
  <2>4. i = pos[b] => pc'[b] \in {"failed", "bad_request", "killed"}
    BY <1>3, <2>2 DEF RowOf, ActiveBatch
  <2>5. RowOf(k, b, i)'
    BY <1>1, <1>5, <1>7, <2>1, <2>2, <2>3, <2>4 DEF RowOf
  <2>6. QED
    BY <2>5
<1>10. RowsInOrder'
  <2> SUFFICES ASSUME NEW d \in Batches, NEW i \in Positions, NEW j \in Positions,
                      NEW k \in DOMAIN log', NEW l \in DOMAIN log', k < l,
                      log'[k].call = <<d, i>>, log'[l].call = <<d, j>>
               PROVE  i < j
    BY DEF RowsInOrder
  <2>1. /\ k \in DOMAIN log /\ log[k].call = <<d, i>>
        /\ l \in DOMAIN log /\ log[l].call = <<d, j>>
    BY <1>5
  <2>2. QED
    BY <2>1 DEF RunInv, RowsInOrder
<1>11. PoolInv' /\ free' \in 0 .. pool'
  <2>1. Holders' = {}
    BY <1>3 DEF Holders, HasConnection, ActiveBatch
  <2>2. IsFiniteSet({}) /\ Cardinality({}) = 0
    BY FS_EmptySet
  <2>3. pool \in Nat
    BY <1>1, RunAssumption DEF TypeOK
  <2>4. QED
    BY <1>1, <2>1, <2>2, <2>3 DEF PoolInv
<1>12. TypeOK'
  BY <1>1, <1>4, <1>5, <1>11 DEF TypeOK
<1>13. QED
  BY <1>8, <1>9, <1>10, <1>11, <1>12 DEF RunInv

(* Initially nothing has happened.                                         *)
LEMMA RunInit == Init => RunInv
<1> SUFFICES ASSUME Init PROVE RunInv
  OBVIOUS
<1>1. Guard!GuardInv /\ Engine!TypeOK
  <2>1. Guard!Init
    BY DEF Init, Engine!Init, Guard!Init
  <2>2. QED
    BY <2>1, Guard!GuardInit, GuardTyped
<1>2. TypeOK
  <2>1. <<>> \in Seq(ResultType) /\ Len(<<>>) = 0 /\ <<>> \in Seq(RowType)
    OBVIOUS
  <2>2. MaxItems \in Nat /\ PoolSize \in Nat
    BY RunAssumption
  <2>3. QED
    BY <1>1, <2>1, <2>2 DEF Init, TypeOK, Stages
<1>3. DOMAIN log = {} /\ \A b \in Batches : DOMAIN results[b] = {}
  BY DEF Init
<1>4. ASSUME NEW b \in Batches
      PROVE  BatchInv(b) /\ KeysDiffer(b) /\ \A i \in Positions : ItemInv(b, i)
  <2>1. \A i \in Positions : phase[<<b, i>>] = "waiting" /\ i \in Nat /\ i >= 1
    BY DEF Init, Engine!Init, Calls, Positions
  <2>2. pc[b] = "idle" /\ job[b] = NoJob /\ pos[b] = 1
    BY DEF Init
  <2>3. QED
    BY <1>3, <2>1, <2>2 DEF BatchInv, KeysDiffer, ItemInv, ActiveBatch
<1>5. RowsInv /\ RowsInOrder
  BY <1>3 DEF RowsInv, RowsInOrder
<1>6. PoolInv
  <2>1. Holders = {}
    BY DEF Init, Holders, HasConnection
  <2>2. free = pool /\ pool \in Nat
    BY RunAssumption DEF Init
  <2>3. QED
    BY <2>1, <2>2, FS_EmptySet DEF PoolInv
<1>7. QED
  BY <1>1, <1>2, <1>4, <1>5, <1>6 DEF RunInv

(* Every step keeps the invariant.                                         *)
LEMMA RunStep ==
  ASSUME RunInv, [Next]_vars
  PROVE  RunInv'
<1>1. Guard!GuardInv' /\ Engine!TypeOK'
  BY GuardStep
<1>2. ASSUME NEW b \in Batches, Proceed(b) PROVE RunInv'
  BY <1>1, <1>2, DispatchKeeps, LoopEndKeeps, EngineProceedsKeeps, EngineFailsKeeps,
     InsertKeeps, CommitKeeps, LogFailsKeeps, RefreshFailsKeeps, ReportKeeps
  DEF Proceed, Advance
<1>3. ASSUME NEW b \in Batches, NEW j \in Jobs, Begin(b, j) PROVE RunInv'
  BY <1>1, <1>3, BeginKeeps
<1>4. CASE OrderPlaced
  <2>1. UNCHANGED <<recorded, phase, key, batch, log, pool, free>>
    BY <1>4 DEF OrderPlaced, Engine!Place
  <2>2. QED
    BY <1>1, <2>1, OutsideKeeps
<1>5. CASE Restart
  BY <1>1, <1>5, RestartKeeps
<1>6. CASE UNCHANGED vars
  <2>1. UNCHANGED <<recorded, phase, key, batch, log, pool, free>>
    BY <1>6 DEF vars, batch
  <2>2. QED
    BY <1>1, <2>1, OutsideKeeps
<1>7. QED
  BY <1>2, <1>3, <1>4, <1>5, <1>6 DEF Next

(* The invariant holds in every run.                                       *)
THEOREM RunInvariant == Spec => []RunInv
<1>1. Init => RunInv
  BY RunInit
<1>2. RunInv /\ [Next]_vars => RunInv'
  BY RunStep
<1>3. QED
  BY <1>1, <1>2, PTL DEF Spec
-----------------------------------------------------------------------------
(* What the invariant says.                                                *)

(* The variables of a run keep their types.                                *)
THEOREM RunTypeCorrect == Spec => []TypeOK
<1>1. RunInv => TypeOK
  BY DEF RunInv
<1>2. QED
  BY <1>1, RunInvariant, PTL

(* The engine of a run is called only as its promise allows, and so the    *)
(* run's calls of it have what DispatchGuard promises.                     *)
THEOREM RunKeepsToTheGuard == Spec => Guard!Spec
<1>1. Init => Guard!Init
  BY DEF Init, Engine!Init, Guard!Init
<1>2. RunInv /\ [Next]_vars => [Guard!Next]_Guard!vars
  BY EngineSteps
<1>3. QED
  BY <1>1, <1>2, RunInvariant, PTL DEF Spec, Guard!Spec

(* Whatever stops a batch, one of its items at most has ended without a    *)
(* row, and none after that has been touched (the loop over create_log).   *)
THEOREM GapIsOneItem == Spec => []AuditGapIsOneItem
<1>1. RunInv => AuditGapIsOneItem
  <2> SUFFICES ASSUME RunInv, NEW b \in Batches, NEW i \in Positions, NEW j \in Positions,
                      Ended(<<b, i>>), ~Logged(<<b, i>>), j > i
               PROVE  phase[<<b, j>>] = "waiting"
    BY DEF AuditGapIsOneItem
  <2>1. ItemInv(b, i) /\ ItemInv(b, j) /\ pos[b] \in 1 .. MaxItems + 1
    BY DEF RunInv, TypeOK
  <2>2. ~(i < pos[b])
    BY <2>1 DEF ItemInv
  <2>3. j > pos[b]
    BY <2>1, <2>2, RunAssumption DEF Positions
  <2>4. QED
    BY <2>1, <2>3 DEF ItemInv
<1>2. QED
  BY <1>1, RunInvariant, PTL

(* Where an item has an order, the rows of the items before it are         *)
(* committed.                                                              *)
THEOREM OrdersStayBehindTheLog == Spec => []OrdersBehindLog
<1>1. RunInv => OrdersBehindLog
  <2> SUFFICES ASSUME RunInv, NEW b \in Batches, NEW i \in Positions, NEW j \in Positions,
                      NEW n \in OrderSlots, <<<<b, j>>, n>> \in placed, i < j
               PROVE  Logged(<<b, i>>)
    BY DEF OrdersBehindLog
  <2>1. ItemInv(b, i) /\ ItemInv(b, j) /\ pos[b] \in 1 .. MaxItems + 1
    BY DEF RunInv, TypeOK
  <2>2. phase[<<b, j>>] # "waiting"
    <3>1. <<b, j>> \in Calls
      BY DEF Calls
    <3>2. QED
      BY <3>1 DEF RunInv, Guard!GuardInv, Guard!NoEarlyOrder
  <2>3. ~(j > pos[b])
    BY <2>1, <2>2 DEF ItemInv
  <2>4. i < pos[b]
    BY <2>1, <2>3, RunAssumption DEF Positions
  <2>5. QED
    BY <2>1, <2>4 DEF ItemInv
<1>2. QED
  BY <1>1, RunInvariant, PTL

(* A committed row tells the truth of its call, and no call has two rows.  *)
THEOREM RowsStayTrue == Spec => []RowsAreTrue
<1>1. RunInv => RowsAreTrue
  <2> SUFFICES ASSUME RunInv PROVE RowsAreTrue
    OBVIOUS
  <2>1. ASSUME NEW k \in DOMAIN log
        PROVE  /\ log[k].status = "executed" => phase[log[k].call] = "done"
               /\ log[k].status = "idempotent_skip" =>
                    \A n \in OrderSlots : <<log[k].call, n>> \notin placed
    <3>1. PICK b \in Batches, i \in Positions : RowOf(k, b, i)
      BY DEF RunInv, RowsInv
    <3>2. PICK c \in Calls : c = <<b, i>>
      BY DEF Calls
    <3>3. log[k].call = c /\ phase[c] \in {"skipped", "done"} /\ log[k].status = Outcome(c)
      BY <3>1, <3>2 DEF RowOf, Ended
    <3>4. log[k].status = "executed" => phase[c] = "done"
      BY <3>3 DEF Outcome
    <3>5. log[k].status = "idempotent_skip" => phase[c] = "skipped"
      BY <3>3 DEF Outcome
    <3>6. phase[c] = "skipped" => \A n \in OrderSlots : <<c, n>> \notin placed
      BY DEF RunInv, Guard!GuardInv, Guard!SkipIsBacked
    <3>7. QED
      BY <3>3, <3>4, <3>5, <3>6
  <2>2. QED
    BY <2>1, OneRowPerCall DEF RowsAreTrue
<1>2. QED
  BY <1>1, RunInvariant, PTL

(* Every result of a batch has its row, in the order of the results, and   *)
(* at most one row is without a result.                                    *)
THEOREM ResultsStayLogged == Spec => []ResultsAreLogged
<1>1. RunInv => ResultsAreLogged
  <2> SUFFICES ASSUME RunInv, NEW b \in Batches
               PROVE  /\ \A i \in DOMAIN results[b] : \E k \in DOMAIN log :
                           /\ IsCommitted(k) /\ log[k].call = <<b, i>> /\ log[k].run_id = Run(b)
                           /\ log[k].account_id = results[b][i].account_id
                           /\ log[k].status = results[b][i].status
                      /\ \A k, l \in DOMAIN log : \A i, j \in Positions :
                           IsCommitted(k) /\ IsCommitted(l)
                           /\ log[k].call = <<b, i>> /\ log[l].call = <<b, j>> =>
                             /\ i <= Len(results[b]) + 1
                             /\ i < j => k < l
    BY DEF ResultsAreLogged
  <2>1. /\ Len(results[b]) = pos[b] - 1 /\ pos[b] \in 1 .. MaxItems + 1
        /\ DOMAIN results[b] = 1 .. pos[b] - 1 /\ MaxItems \in Nat
    <3>1. results[b] \in Seq(ResultType) /\ Len(results[b]) = pos[b] - 1
          /\ pos[b] \in 1 .. MaxItems + 1
      BY DEF RunInv, TypeOK
    <3>2. QED
      BY <3>1, RunAssumption
  <2>2. ASSUME NEW k \in DOMAIN log, NEW i \in Positions, log[k].call = <<b, i>>
        PROVE  RowOf(k, b, i)
    <3>1. PICK d \in Batches, n \in Positions : RowOf(k, d, n)
      BY DEF RunInv, RowsInv
    <3>2. d = b /\ n = i
      BY <2>2, <3>1 DEF RowOf
    <3>3. QED
      BY <3>1, <3>2
  <2>3. ASSUME NEW i \in DOMAIN results[b]
        PROVE  \E k \in DOMAIN log :
                 /\ IsCommitted(k) /\ log[k].call = <<b, i>> /\ log[k].run_id = Run(b)
                 /\ log[k].account_id = results[b][i].account_id
                 /\ log[k].status = results[b][i].status
    <3>1. i \in Positions /\ i < pos[b]
      BY <2>1 DEF Positions
    <3>2. ItemInv(b, i)
      BY <3>1 DEF RunInv
    <3>3. PICK k \in DOMAIN log : IsCommitted(k) /\ log[k].call = <<b, i>>
      BY <3>1, <3>2 DEF ItemInv, Logged
    <3>4. RowOf(k, b, i)
      BY <2>2, <3>1, <3>3
    <3>5. results[b][i] = [account_id |-> ItemsOf(b)[i].account_id,
                           status |-> Outcome(<<b, i>>)]
      BY DEF RunInv, BatchInv
    <3>6. QED
      BY <3>3, <3>4, <3>5 DEF RowOf
  <2>4. ASSUME NEW k \in DOMAIN log, NEW l \in DOMAIN log,
               NEW i \in Positions, NEW j \in Positions,
               log[k].call = <<b, i>>, log[l].call = <<b, j>>
        PROVE  i <= Len(results[b]) + 1 /\ (i < j => k < l)
    <3>1. i <= pos[b]
      BY <2>2, <2>4 DEF RowOf
    <3>2. k \in Nat /\ l \in Nat /\ i \in Nat /\ j \in Nat
      BY LogIsSequence DEF Positions
    <3>3. l < k => j < i
      BY <2>4 DEF RunInv, RowsInOrder
    <3>4. l = k => i = j
      BY <2>4
    <3>5. QED
      BY <2>1, <3>1, <3>2, <3>3, <3>4
  <2>5. QED
    BY <2>3, <2>4
<1>2. QED
  BY <1>1, RunInvariant, PTL

(* All items of a job have its side.                                       *)
LEMMA OneSide ==
  ASSUME NEW j \in Jobs, NEW i \in 1 .. Len(Items[j])
  PROVE  Items[j][i].side = Side(j)
<1>1. CASE j.origin = "manual"
  <2>1. Items[j] = [n \in 1 .. Len(j.accounts) |->
             [account_id |-> Ids(j)[n], exchange |-> ExchangeName(j.accounts[n]),
              side |-> Side(j), action |-> "none"]]
    BY <1>1 DEF Items
  <2>2. i \in 1 .. Len(j.accounts)
    <3>1. DOMAIN Items[j] = 1 .. Len(j.accounts)
      BY <2>1
    <3>2. i \in DOMAIN Items[j]
      BY ItemsFollowAccounts
    <3>3. QED
      BY <3>1, <3>2
  <2>3. QED
    BY <2>1, <2>2
<1>2. CASE j.origin # "manual"
  <2> DEFINE plan == PlanOf(j)
             n == Len(j.accounts)
  <2>1. plan = [k \in 1 .. n |-> plan[k]] /\ n \in Nat
    BY JobFields DEF PlanOf, BuildPlan
  <2>2. \A k \in 1 .. n : ItemOf(plan[k]).side = Side(j)
    BY DEF PlanOf, BuildPlan, ItemOf
  <2>3. Items[j] = ExecutionItems(plan)
    BY <1>2 DEF Items, PlanOf
  <2> HIDE DEF plan, n
  <2>4. Len(plan) = n
    BY <2>1
  <2>5. PICK at : Follows(Items[j], plan, n, at)
    BY <2>1, <2>3, <2>4, ExecutionFollowsThePlan
  <2>6. QED
    BY <2>2, <2>5 DEF Follows
<1>3. QED
  BY <1>1, <1>2

(* A batch executes an account at most once on each exchange, however      *)
(* often it is listed and whatever runs share its run_id.                  *)
THEOREM ListedTwiceStaysOnce == Spec => []ListedTwiceExecutesOnce
<1>1. ASSUME RunInv, NEW b \in Batches, NEW i \in Positions, NEW j \in Positions, i < j,
             phase[<<b, i>>] = "done", phase[<<b, j>>] \in {"running", "done"}
      PROVE  \/ ItemsOf(b)[i].account_id # ItemsOf(b)[j].account_id
             \/ ItemsOf(b)[i].exchange # ItemsOf(b)[j].exchange
  <2>1. key[<<b, i>>] # key[<<b, j>>]
    BY <1>1 DEF RunInv, KeysDiffer
  <2>2. ItemInv(b, i) /\ ItemInv(b, j)
    BY <1>1 DEF RunInv
  <2>3. /\ job[b] \in Jobs /\ i \in 1 .. Len(ItemsOf(b)) /\ j \in 1 .. Len(ItemsOf(b))
        /\ key[<<b, i>>] = KeyOf(b, job[b], ItemsOf(b)[i])
        /\ key[<<b, j>>] = KeyOf(b, job[b], ItemsOf(b)[j])
    BY <1>1, <2>2 DEF ItemInv, Positions
  <2>4. ItemsOf(b)[i].side = ItemsOf(b)[j].side
    BY <2>3, OneSide DEF ItemsOf
  <2>5. QED
    BY <2>1, <2>3, <2>4 DEF KeyOf, KeyInputs
<1>2. RunInv => ListedTwiceExecutesOnce
  BY <1>1 DEF ListedTwiceExecutesOnce, ItemsOf
<1>3. QED
  BY <1>2, RunInvariant, PTL

(* Every connection is free or held by one batch, however batches end.     *)
THEOREM NoConnectionIsLost == Spec => []ConnectionsAreReturned
<1>1. RunInv => ConnectionsAreReturned
  BY DEF RunInv, PoolInv, Holders, ConnectionsAreReturned
<1>2. QED
  BY <1>1, RunInvariant, PTL

(* A skipped call and the one that executed in its stead.                  *)
LEMMA SkipOfAnExecution ==
  ASSUME RunInv, NEW b \in Batches, NEW i \in Positions, phase[<<b, i>>] = "skipped"
  PROVE  /\ job[b].origin = "service"
         /\ (\A c \in Calls : Touched(c) => IsSeparable(InputsOf(c))) =>
              \E d \in Calls : phase[d] = "done" /\ InputsOf(d) = InputsOf(<<b, i>>)
<1>1. PICK c \in Calls : c = <<b, i>>
  BY DEF Calls
<1>2. PICK f \in Calls : f # c /\ phase[f] = "done" /\ key[f] = key[c]
  BY <1>1 DEF RunInv, Guard!GuardInv, Guard!SkipIsBacked
<1>3. PICK d \in Batches, n \in Positions : f = <<d, n>>
  BY DEF Calls
<1>4. /\ job[b] \in Jobs /\ Admitted(job[b]) /\ i \in 1 .. Len(Items[job[b]])
      /\ key[<<b, i>>] = KeyOf(b, job[b], Items[job[b]][i])
  <2>1. ItemInv(b, i)
    BY DEF RunInv
  <2>2. QED
    BY <2>1 DEF ItemInv, ItemsOf, Positions
<1>5. /\ job[d] \in Jobs /\ n \in 1 .. Len(Items[job[d]])
      /\ key[<<d, n>>] = KeyOf(d, job[d], Items[job[d]][n])
  <2>1. ItemInv(d, n) /\ phase[<<d, n>>] = "done"
    BY <1>2, <1>3 DEF RunInv
  <2>2. QED
    BY <2>1 DEF ItemInv, ItemsOf, Positions
<1>6. KeyOf(b, job[b], Items[job[b]][i]) = KeyOf(d, job[d], Items[job[d]][n])
  BY <1>1, <1>2, <1>3, <1>4, <1>5
<1>7. job[b].origin = "service"
  <2> SUFFICES ASSUME job[b].origin # "service" PROVE FALSE
    OBVIOUS
  <2>1. job[b].run_id = NoRun /\ IdsAccepted(Ids(job[b]))
    BY <1>4, RunAssumption DEF Admitted
  <2>2. d = b /\ IsPlain(RunOf(b, job[b]))
    BY <1>4, <1>5, <1>6, <2>1, OwnRunOwnKeys
  <2>3. n # i
    BY <1>1, <1>2, <1>3, <2>2
  <2>4. Items[job[b]][i].account_id = Items[job[b]][n].account_id
    BY <1>4, <1>5, <1>6, <2>2, KeysTellRunsAndAccounts
  <2>5. QED
    BY <1>4, <1>5, <2>1, <2>2, <2>3, <2>4, DistinctItems
<1>8. ASSUME \A e \in Calls : Touched(e) => IsSeparable(InputsOf(e))
      PROVE  phase[f] = "done" /\ InputsOf(f) = InputsOf(<<b, i>>)
  <2>1. /\ InputsOf(<<b, i>>) = KeyInputs(b, job[b], Items[job[b]][i])
        /\ InputsOf(f) = KeyInputs(d, job[d], Items[job[d]][n])
    <3>1. f[1] = d /\ f[2] = n
      BY <1>3
    <3>2. QED
      BY <3>1 DEF InputsOf
  <2>2. IsSeparable(InputsOf(c)) /\ IsSeparable(InputsOf(f))
    BY <1>1, <1>2, <1>8 DEF Touched
  <2>3. QED
    BY <1>1, <1>2, <1>4, <1>5, <1>6, <2>1, <2>2, KeysTellInputs
<1>9. QED
  BY <1>7, <1>8

(* A route skips no account; and a skip in a service's run stands for an   *)
(* execution of the same order, if no run_id and no exchange holds a       *)
(* separator.                                                              *)
THEOREM SkipsStayDue == Spec => []SkipsAreDue
<1>1. RunInv => SkipsAreDue
  <2> SUFFICES ASSUME RunInv, NEW c \in Calls, phase[c] = "skipped"
               PROVE  /\ job[c[1]].origin = "service"
                      /\ (\A d \in Calls : Touched(d) => IsSeparable(InputsOf(d))) =>
                           \E d \in Calls : phase[d] = "done" /\ InputsOf(d) = InputsOf(c)
    BY DEF SkipsAreDue
  <2>1. PICK b \in Batches, i \in Positions : c = <<b, i>>
    BY DEF Calls
  <2>2. c[1] = b /\ phase[<<b, i>>] = "skipped"
    BY <2>1
  <2>3. QED
    BY <2>1, <2>2, SkipOfAnExecution
<1>2. QED
  BY <1>1, RunInvariant, PTL

(* What a step may do to the log: no committed row changes, and a row that *)
(* becomes committed is one of a batch that has it inserted.               *)
RowsSettle ==
  /\ DOMAIN log \subseteq DOMAIN log'
  /\ \A k \in DOMAIN log : log[k].state = "committed" => SameRow(k)
  /\ \A k \in DOMAIN log' : log'[k].state = "committed" =>
       /\ k \in DOMAIN log /\ log'[k].run_id = log[k].run_id
       /\ \/ log[k].state = "committed"
          \/ \E d \in Batches : pc[d] = "flushed" /\ log[k].call = Current(d)

(* Steps that write nothing.                                               *)
LEMMA UnwrittenSettles ==
  ASSUME log' = log
  PROVE  RowsSettle
BY DEF RowsSettle, SameRow

(* Rows are inserted open.                                                 *)
LEMMA InsertSettles ==
  ASSUME RunInv, NEW b \in Batches, Insert(b)
  PROVE  RowsSettle
<1> DEFINE r == Row(b)
<1>1. log \in Seq(RowType) /\ r.state = "open" /\ log' = Append(log, r)
  BY LogIsSequence DEF Insert, Row
<1> HIDE DEF r
<1>2. /\ DOMAIN log = 1 .. Len(log) /\ DOMAIN log' = 1 .. Len(log) + 1
      /\ \A k \in 1 .. Len(log) : log'[k] = log[k]
      /\ log'[Len(log) + 1] = r /\ Len(log) \in Nat
  BY <1>1
<1>3. QED
  BY <1>1, <1>2 DEF RowsSettle, SameRow

(* The end of a transaction settles the row of its batch.                  *)
LEMMA TurnSettles ==
  ASSUME RunInv, NEW b \in Batches, pc[b] \in {"engine", "flushed"},
         NEW what \in {"committed", "rolled back"}, RowBecomes(b, what)
  PROVE  RowsSettle
<1>1. /\ DOMAIN log' = DOMAIN log
      /\ \A k \in DOMAIN log :
           /\ SameRow(k) \/ TurnedRow(k, Current(b))
           /\ log[k].call # Current(b) => SameRow(k)
  BY RowsTurn
<1>2. ASSUME NEW k \in DOMAIN log, log[k].state = "committed" PROVE SameRow(k)
  BY <1>1, <1>2 DEF TurnedRow
<1>3. ASSUME NEW k \in DOMAIN log, log'[k].state = "committed"
      PROVE  /\ log'[k].run_id = log[k].run_id
             /\ \/ log[k].state = "committed"
                \/ \E d \in Batches : pc[d] = "flushed" /\ log[k].call = Current(d)
  <2>1. CASE SameRow(k)
    BY <1>3, <2>1 DEF SameRow
  <2>2. CASE TurnedRow(k, Current(b))
    <3>1. PICK turn \in {"committed", "rolled back"} : Turned(k, turn)
      BY <2>2 DEF TurnedRow
    <3>2. log[k] \in RowType /\ log[k].call = Current(b)
      BY <2>2, LogIsSequence DEF TurnedRow
    <3>3. log'[k].run_id = log[k].run_id
      BY <3>1, <3>2, TurnedFields
    <3>4. pc[b] = "flushed"
      BY <3>2, CurrentRowIsOpen
    <3>5. QED
      BY <3>2, <3>3, <3>4
  <2>3. QED
    BY <1>1, <2>1, <2>2
<1>4. QED
  BY <1>1, <1>2, <1>3 DEF RowsSettle

(* A restart commits nothing.                                              *)
LEMMA RestartSettles ==
  ASSUME RunInv, Restart
  PROVE  RowsSettle
<1>1. DOMAIN log' = DOMAIN log
  BY DEF Restart
<1>2. ASSUME NEW k \in DOMAIN log, log[k].state # "open" PROVE SameRow(k)
  BY <1>2 DEF Restart, SameRow
<1>3. ASSUME NEW k \in DOMAIN log, log[k].state = "open" PROVE log'[k].state # "committed"
  <2>1. Turned(k, "rolled back")
    BY <1>3 DEF Restart, Turned
  <2>2. log[k] \in RowType
    BY LogIsSequence
  <2>3. log'[k].state = "rolled back"
    BY <2>1, <2>2, TurnedFields
  <2>4. QED
    BY <2>3
<1>4. QED
  BY <1>1, <1>2, <1>3 DEF RowsSettle, SameRow

(* So every step settles rows, and no batch is given another request.      *)
LEMMA StepSettles ==
  ASSUME RunInv, [Next]_vars
  PROVE  /\ RowsSettle
         /\ \A b \in Batches : job[b] # NoJob => job'[b] = job[b]
<1>1. ASSUME NEW b \in Batches, Proceed(b) PROVE RowsSettle /\ job' = job
  <2>1. CASE Insert(b)
    BY <2>1, InsertSettles DEF Insert
  <2>2. CASE Commit(b)
    BY <2>2, TurnSettles DEF Commit
  <2>3. CASE LogFails(b)
    BY <2>3, TurnSettles DEF LogFails, EngineReturned
  <2>4. CASE \/ Dispatch(b) \/ AccountMissing(b) \/ EngineProceeds(b) \/ EngineFails(b)
             \/ RefreshFails(b) \/ Report(b) \/ Complete(b)
    <3>1. log' = log /\ job' = job
      BY <2>4 DEF Dispatch, AccountMissing, EngineProceeds, EngineFails, RefreshFails,
                  Report, Complete, batch
    <3>2. QED
      BY <3>1, UnwrittenSettles
  <2>5. QED
    BY <1>1, <2>1, <2>2, <2>3, <2>4 DEF Proceed, Advance
<1>2. ASSUME NEW b \in Batches, NEW j \in Jobs, Begin(b, j)
      PROVE  RowsSettle /\ \A d \in Batches : job[d] # NoJob => job'[d] = job[d]
  <2>1. job[b] = NoJob /\ log' = log /\ job' = [job EXCEPT ![b] = j]
        /\ job \in [Batches -> Jobs \cup {NoJob}]
    BY <1>2 DEF Begin, RunInv, BatchInv, TypeOK
  <2>2. QED
    BY <2>1, UnwrittenSettles
<1>3. CASE OrderPlaced
  BY <1>3, UnwrittenSettles DEF OrderPlaced, batch
<1>4. CASE Restart
  BY <1>4, RestartSettles DEF Restart
<1>5. CASE UNCHANGED vars
  BY <1>5, UnwrittenSettles DEF vars
<1>6. QED
  BY <1>1, <1>2, <1>3, <1>4, <1>5 DEF Next

(* A row of a run that a batch has to itself is one of that batch.         *)
LEMMA RowOfOwnRun ==
  ASSUME RunInv, NEW b \in Batches, HasRunToItself(b),
         NEW k \in DOMAIN log, log[k].run_id = Run(b)
  PROVE  \E i \in Positions : log[k].call = <<b, i>> /\ i <= pos[b]
<1>1. PICK d \in Batches, i \in Positions : RowOf(k, d, i)
  BY DEF RunInv, RowsInv
<1>2. Run(d) = Run(b) /\ job[d] # NoJob
  BY <1>1, RunAssumption DEF RowOf
<1>3. d = b
  BY <1>2 DEF HasRunToItself
<1>4. QED
  BY <1>1, <1>3 DEF RowOf

(* Whoever reads the log of a run that one batch has to itself, and reads  *)
(* it again, finds what was there and the new rows behind it.              *)
THEOREM ReadersSeeRunsGrow == Spec => RunLogsOnlyGrow
<1> DEFINE Grow ==
      \A b \in Batches : HasRunToItself(b) =>
        LET run == Run(b)
        IN /\ RunLog(run) \subseteq RunLog(run)'
           /\ \A i \in RunLog(run) :
                /\ log'[i] = log[i]
                /\ \A k \in RunLog(run)' \ RunLog(run) : ComesBefore(i, k)
<1>1. RunInv /\ [Next]_vars => Grow
  <2> SUFFICES ASSUME RunInv, [Next]_vars, NEW b \in Batches, HasRunToItself(b)
               PROVE  /\ RunLog(Run(b)) \subseteq RunLog(Run(b))'
                      /\ \A i \in RunLog(Run(b)) :
                           /\ log'[i] = log[i]
                           /\ \A k \in RunLog(Run(b))' \ RunLog(Run(b)) : ComesBefore(i, k)
    OBVIOUS
  <2>1. RowsSettle /\ job'[b] = job[b]
    BY StepSettles DEF HasRunToItself
  <2>2. Run(b)' = Run(b)
    BY <2>1 DEF Run
  <2>3. ASSUME NEW i \in RunLog(Run(b)) PROVE log'[i] = log[i] /\ i \in RunLog(Run(b))'
    <3>1. i \in DOMAIN log /\ log[i].state = "committed" /\ log[i].run_id = Run(b)
      BY DEF RunLog
    <3>2. log'[i] = log[i] /\ i \in DOMAIN log'
      BY <2>1, <3>1 DEF RowsSettle, SameRow
    <3>3. QED
      BY <2>2, <3>1, <3>2 DEF RunLog
  <2>4. ASSUME NEW i \in RunLog(Run(b)), NEW k \in RunLog(Run(b))' \ RunLog(Run(b))
        PROVE  ComesBefore(i, k)
    <3>1. /\ i \in DOMAIN log /\ log[i].run_id = Run(b)
          /\ k \in DOMAIN log' /\ log'[k].state = "committed" /\ log'[k].run_id = Run(b)
      BY <2>2 DEF RunLog
    <3>2. k \in DOMAIN log /\ log[k].run_id = Run(b)
      BY <2>1, <3>1 DEF RowsSettle
    <3>3. PICK d \in Batches : log[k].call = Current(d)
      BY <2>1, <3>1, <3>2 DEF RowsSettle, RunLog
    <3>4. PICK n \in Positions : log[i].call = <<b, n>> /\ n <= pos[b]
      BY <3>1, RowOfOwnRun
    <3>5. PICK m \in Positions : log[k].call = <<b, m>>
      BY <3>2, RowOfOwnRun
    <3>6. m = pos[b] /\ ~(m < n)
      BY <3>3, <3>4, <3>5 DEF Current, Positions
    <3>7. ~(k < i)
      BY <3>1, <3>2, <3>4, <3>5, <3>6 DEF RunInv, RowsInOrder
    <3>8. i # k /\ i \in Nat /\ k \in Nat
      BY <3>1, <3>2, LogIsSequence
    <3>9. QED
      BY <3>7, <3>8 DEF ComesBefore
  <2>5. QED
    BY <2>3, <2>4
<1>2. QED
  BY <1>1, RunInvariant, PTL DEF Spec, RunLogsOnlyGrow
-----------------------------------------------------------------------------
(* Who is in the response.                                                 *)

(* The positions given for an account, and whether the last of them is     *)
(* that of a master that is not flat.                                      *)
Entries(j, a) == {i \in DOMAIN j.positions : Declares(j.positions[i], a)}
InStep(j, a) ==
  \E i \in Entries(j, a) :
    /\ \A k \in Entries(j, a) : k <= i
    /\ j.positions[i][2] = j.quantity /\ j.quantity # 0

(* The position a follower is believed to hold is the one given last.      *)
LEMMA LastIsBelieved ==
  ASSUME NEW j \in Jobs, NEW a \in DOMAIN Str
  PROVE  InStep(j, a) <=> /\ CurrentPosition(KnownPositions(j), a) = j.quantity
                          /\ j.quantity # 0
<1> DEFINE entries == j.positions
           mine == Entries(j, a)
           believed == CurrentPosition(KnownPositions(j), a)
           declared == {c \in DOMAIN Str : \E i \in DOMAIN entries : Declares(entries[i], c)}
<1>1. DOMAIN entries = 1 .. Len(entries) /\ Len(entries) \in Nat
  <2>1. entries \in Seq(STRING \X Int)
    BY RunAssumption
  <2> HIDE DEF entries
  <2>2. QED
    BY <2>1
<1>2. KnownPositions(j) = [c \in declared |-> entries[LastEntry(entries, c)][2]]
  BY DEF KnownPositions
<1>3. mine = {i \in DOMAIN entries : Declares(entries[i], a)}
  BY DEF Entries
<1>4. InStep(j, a) <=>
        \E i \in mine : /\ \A k \in mine : k <= i
                        /\ entries[i][2] = j.quantity /\ j.quantity # 0
  BY DEF InStep
<1> HIDE DEF entries, mine
<1>5. CASE mine = {}
  <2>1. a \notin declared
    BY <1>3, <1>5
  <2>2. believed = 0
    BY <1>2, <2>1 DEF CurrentPosition
  <2>3. QED
    BY <1>4, <1>5, <2>2
<1>6. CASE mine # {}
  <2>1. a \in declared
    BY <1>3, <1>6
  <2>2. believed = entries[LastEntry(entries, a)][2]
    BY <1>2, <2>1 DEF CurrentPosition
  <2>3. PICK m \in mine : \A k \in mine : k <= m
    <3>1. mine \in SUBSET (1 .. Len(entries))
      BY <1>1, <1>3
    <3>2. QED
      BY <1>1, <1>6, <3>1, GreatestIndex
  <2>4. LastEntry(entries, a) \in mine /\ \A k \in mine : k <= LastEntry(entries, a)
    <3>1. \E i \in DOMAIN entries :
            /\ Declares(entries[i], a)
            /\ \A k \in DOMAIN entries : Declares(entries[k], a) => k <= i
      BY <1>3, <2>3
    <3>2. QED
      BY <1>3, <3>1 DEF LastEntry
  <2>5. \A i \in mine : (\A k \in mine : k <= i) => i = LastEntry(entries, a)
    <3>1. \A i \in mine : i \in Nat
      BY <1>1, <1>3
    <3>2. QED
      BY <2>4, <3>1
  <2> DEFINE last == LastEntry(entries, a)
  <2>6. believed = entries[last][2] /\ last \in mine /\ (\A k \in mine : k <= last)
        /\ \A i \in mine : (\A k \in mine : k <= i) => i = last
    BY <2>2, <2>4, <2>5
  <2> HIDE DEF believed, last
  <2>7. InStep(j, a) <=> believed = j.quantity /\ j.quantity # 0
    BY <1>4, <2>6, Zenon
  <2>8. QED
    BY <2>7 DEF believed
<1>7. QED
  BY <1>5, <1>6

(* An account of a plan is executed unless it is in step with the master.  *)
LEMMA ExecutedIfApart ==
  ASSUME NEW j \in Jobs, NEW n \in 1 .. Len(j.accounts), j.origin # "manual"
  PROVE  Executes(j, n) <=> ~InStep(j, Ids(j)[n])
<1> DEFINE current == CurrentPosition(KnownPositions(j), AccountId(j.accounts[n]))
<1>1. PlanOf(j)[n].action = SyncAction(j.quantity, current)
  BY DEF PlanOf, BuildPlan
<1>2. Ids(j)[n] = AccountId(j.accounts[n]) /\ Ids(j)[n] \in DOMAIN Str
  BY JobFields
<1>3. InStep(j, Ids(j)[n]) <=> current = j.quantity /\ j.quantity # 0
  BY <1>2, LastIsBelieved
<1> HIDE DEF current
<1>4. SyncAction(j.quantity, current) # "hold" <=> ~(current = j.quantity /\ j.quantity # 0)
  BY DEF SyncAction
<1>5. QED
  BY <1>1, <1>3, <1>4 DEF Executes, IsExecuted, current

(* A response to a manual dispatch has all the accounts; one to a plan has *)
(* the followers out of step with the master, or flat, in their order.     *)
THEOREM ResponsesCoverRequests == Spec => []CompletedCoversRequest
<1> DEFINE Due(j, n) == j.origin = "manual" \/ ~InStep(j, Ids(j)[n])
           Covers(b, at) ==
             /\ \A i, k \in DOMAIN at : i < k => at[i] < at[k]
             /\ \A i \in DOMAIN at : results[b][i].account_id = Ids(job[b])[at[i]]
             /\ \A n \in DOMAIN job[b].accounts :
                  Due(job[b], n) <=> \E i \in DOMAIN at : at[i] = n
<1>1. ASSUME RunInv, NEW b \in Batches, pc[b] = "completed"
      PROVE  \E at \in [DOMAIN results[b] -> DOMAIN job[b].accounts] : Covers(b, at)
  <2>1. PICK j \in Jobs : j = job[b]
    BY <1>1 DEF RunInv, BatchInv, TypeOK
  <2>2. PICK at : Places(j, at)
    BY ItemsFollowAccounts
  <2>3. /\ DOMAIN j.accounts = 1 .. Len(j.accounts)
        /\ \A n \in 1 .. Len(j.accounts) : Ids(j)[n] \in DOMAIN Str
    BY JobFields
  <2>4. DOMAIN results[b] = 1 .. Len(Items[j])
    <3>1. /\ results[b] \in Seq(ResultType) /\ Len(results[b]) = pos[b] - 1
          /\ pos[b] \in 1 .. MaxItems + 1
          /\ pos[b] <= Len(Items[j]) + 1 /\ pos[b] > Len(Items[j])
      BY <1>1, <2>1, RunAssumption DEF RunInv, TypeOK, BatchInv, ItemsOf
    <3>2. Len(Items[j]) \in Nat
      BY ItemsFollowAccounts
    <3>3. Len(results[b]) = Len(Items[j])
      BY <3>1, <3>2, RunAssumption
    <3>4. QED
      BY <3>1, <3>3
  <2>5. \A i \in DOMAIN results[b] : results[b][i].account_id = Items[j][i].account_id
    <3> TAKE i \in DOMAIN results[b]
    <3>1. results[b][i] = [account_id |-> ItemsOf(b)[i].account_id,
                           status |-> Outcome(<<b, i>>)]
      BY <1>1 DEF RunInv, BatchInv
    <3>2. QED
      BY <2>1, <3>1 DEF ItemsOf
  <2>6. \A n \in 1 .. Len(j.accounts) : Executes(j, n) <=> Due(j, n)
    <3> TAKE n \in 1 .. Len(j.accounts)
    <3>1. CASE j.origin = "manual"
      BY <3>1 DEF Executes
    <3>2. CASE j.origin # "manual"
      BY <3>2, ExecutedIfApart
    <3>3. QED
      BY <3>1, <3>2
  <2> HIDE DEF Due
  <2>7. DOMAIN at = DOMAIN results[b] /\ at \in [DOMAIN results[b] -> DOMAIN j.accounts]
    BY <2>2, <2>3, <2>4 DEF Places
  <2>8. Covers(b, at)
    BY <2>1, <2>2, <2>3, <2>4, <2>5, <2>6, <2>7 DEF Places
  <2>9. QED
    BY <2>1, <2>7, <2>8
<1>2. RunInv => CompletedCoversRequest
  BY <1>1 DEF CompletedCoversRequest, InStep, Entries
<1>3. QED
  BY <1>2, RunInvariant, PTL
=============================================================================
