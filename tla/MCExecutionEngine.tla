------------------------- MODULE MCExecutionEngine -------------------------
(* Instances of ExecutionEngine for TLC.                                   *)
EXTENDS ExecutionEngine, TLC

CONSTANTS noAccount

Order(m, x, a, d, p) ==
  [execution_mode |-> m, exchange |-> x, account_id |-> a, side |-> d,
   current_price |-> p, run_id |-> "run-1", symbol |-> "BTC-USDT"]

(* An order for an account on a real exchange and its opposite: two keys. *)
LiveRequests ==
  {Order("live", "bingx", 1, "buy", 100), Order("live", "bingx", 1, "sell", 100)}

OneOrder == {Order("live", "bingx", 1, "buy", 100)}

(* A request for every path through the engine, and one that differs from  *)
(* another only in a field its key leaves out.                             *)
AllPaths ==
  {Order("live", "bingx", 1, "buy", 100),
   Order("live", "bingx", 1, "buy", 101),
   Order("live", "bingx", noAccount, "buy", 100),
   Order("live", "stub", 1, "buy", 100),
   Order("live", "binance", 1, "buy", 100),
   Order("simulated", "bingx", 1, "buy", 100),
   Order("paper", "bingx", 1, "buy", 100)}

CallSymmetry == Permutations(Calls)
=============================================================================
