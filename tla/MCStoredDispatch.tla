-------------------------- MODULE MCStoredDispatch --------------------------
(* An instance of StoredDispatch for TLC.                                  *)
EXTENDS StoredDispatch

CONSTANT none

NewUser == [table |-> "users", email |-> "ann"]
NewAccount(user, name) == [table |-> "accounts", user_id |-> user, exchange |-> name]

Registered ==
  {NewUser, NewAccount(1, "binance"), NewAccount(1, "bybit"), NewAccount(2, "binance")}
OneUser == <<"bob">>
OneAccount == <<[user_id |-> 1, exchange |-> "binance"]>>

Job(route, ids, side, risk, leverage, price) ==
  [route |-> route, ids |-> ids, side |-> side, risk |-> risk,
   leverage |-> leverage, price |-> price]

(* The second account is registered in the course of a behaviour, or not;  *)
(* a copier request is also made with a duplicate, above every limit and   *)
(* with an unknown side.                                                   *)
SomeJobs ==
  {Job("dispatch", <<1, 2>>, "long", 2, 3, 2), Job("dispatch", <<1, 1>>, "buy", 1, 1, 2),
   Job("dispatch", <<1>>, "sell", 2, 4, 2), Job("execute", <<1>>, "up", 2, 3, 2),
   Job("execute", <<1, 2, 3>>, "short", 3, 1, 2), Job("dry_run", <<1>>, "buy", 5, 9, 0),
   Job("preview", <<2>>, "buy", 2, 3, 2), Job("market_order", <<1>>, "long", 0, 0, 0),
   Job("market_order", <<2>>, "up", 0, 0, 0), Job("test_connection", <<1>>, "", 0, 0, 0),
   Job("positions", <<2>>, "", 0, 0, 0), Job("market_specs", <<1>>, "", 0, 0, 0)}

\* No two accounts report the same.
SomeBalances == {<<1, 2>>, <<1, 3>>, <<2, 1>>, <<3, 4>>}
SomeMarkets ==
  {[step |-> none, min_quantity |-> none, min_notional |-> none],
   [step |-> 8, min_quantity |-> none, min_notional |-> none],
   [step |-> 2, min_quantity |-> 3, min_notional |-> 14]}
=============================================================================
