----------------------------- MODULE CopierPlan -----------------------------
(***************************************************************************)
(* The planning of a copier run, which is a pure computation:              *)
(* core/position_sync.py, services/copier_planning_service.py and          *)
(* services/copier_plan_execution_service.py.  Quantities are integers, in *)
(* units of the finest step the followers trade.                           *)
(***************************************************************************)
EXTENDS Integers, Sequences

(* Mutant of SyncAction: a follower that holds too much is left alone.     *)
SyncNeverReduces(master, current) ==
  IF current = 0 THEN "open"
  ELSE IF current >= master THEN "hold"
  ELSE "increase"

(* build_position_sync_decision: the action for a follower that holds      *)
(* `current` when the master holds `master`.                               *)
SyncAction(master, current) ==
  IF current = 0 THEN "open"
  ELSE IF current = master THEN "hold"
  ELSE IF current < master THEN "increase"
  ELSE "reduce"

SyncDelta(master, current) ==
  IF current = 0 THEN master
  ELSE IF current <= master THEN master - current
  ELSE current - master

(* An account is a pair of its id and the name of its exchange. *)
AccountId(account) == account[1]
ExchangeName(account) == account[2]

(* build_copier_plan_for_accounts: a follower without a known position is  *)
(* taken to hold nothing, and every item has the side of the master.       *)
CurrentPosition(positions, a) == IF a \in DOMAIN positions THEN positions[a] ELSE 0

BuildPlan(side, quantity, accounts, positions) ==
  [i \in 1 .. Len(accounts) |->
     LET current == CurrentPosition(positions, AccountId(accounts[i]))
     IN [account_id |-> AccountId(accounts[i]),
         exchange |-> ExchangeName(accounts[i]), side |-> side,
         action |-> SyncAction(quantity, current),
         target_quantity |-> quantity,
         delta_quantity |-> SyncDelta(quantity, current)]]

(* build_execution_items_from_copier_plan: the items that are not on hold. *)
(* Neither target nor delta goes into an item's ExecutionRequest; the      *)
(* quantity of the order comes from sizing.                                *)
IsExecuted(item) == item.action # "hold"

ItemOf(planned) ==
  [account_id |-> planned.account_id, exchange |-> planned.exchange,
   side |-> planned.side, action |-> planned.action]

(* The result list, after each of the planned items. *)
ItemsUpTo(plan) ==
  LET items[n \in 0 .. Len(plan)] ==
        IF n = 0 THEN <<>>
        ELSE IF IsExecuted(plan[n]) THEN Append(items[n - 1], ItemOf(plan[n]))
        ELSE items[n - 1]
  IN items

ExecutionItems(plan) == ItemsUpTo(plan)[Len(plan)]
=============================================================================
