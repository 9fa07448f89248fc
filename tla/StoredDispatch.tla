--------------------------- MODULE StoredDispatch ---------------------------
(***************************************************************************)
(* The routes that work on stored accounts, POST                           *)
(*   /trade/preview      "preview"   trade_preview_service.py              *)
(*   /execution/dry-run  "dry_run"   trade_execution_service.py            *)
(*   /copier/execute     "execute"   trade_copier_service.py               *)
(*   /copier/dispatch    "dispatch"  trade_copier_execution_engine.py      *)
(* and those that put one account's adapter to a single use, POST          *)
(*   /orders/market      "market_order"                                    *)
(*   /exchange-accounts/{id}/test-connection   "test_connection"           *)
(* and GET /exchange-accounts/{id}/ balance, positions, market-specs       *)
(* ("balance", "positions", "market_specs"), beside the registration of    *)
(* the accounts.                                                           *)
(*                                                                         *)
(* A request of the first kind goes through its accounts one after the     *)
(* other.  For each it reads the row, fetches the balance and the market   *)
(* from the exchange and sizes an order of them; a dispatch then validates *)
(* the order and hands it to the adapter.  An exception anywhere ends the  *)
(* request, and what was done for the accounts before is not answered.     *)
(* There is neither a run id nor an idempotency key nor a row in the log   *)
(* on this path.                                                           *)
(***************************************************************************)
EXTENDS AccountRegistry, RequestLimits, Sizing

CONSTANTS
  Batches,     \* requests to these routes
  Jobs,        \* what they ask for
  NoJob,       \* a batch not started yet
  Balances,    \* an account's id and what its exchange may report, at any time
  Markets      \* likewise; the step may be missing

SizingRoutes == {"preview", "dry_run", "execute", "dispatch"}
QueryRoutes == {"test_connection", "balance", "positions", "market_specs"}
Routes == SizingRoutes \cup QueryRoutes \cup {"market_order"}

ASSUME StoredAssumption ==
  /\ NoJob \notin Jobs
  /\ None \notin Int
  /\ Balances \subseteq Nat \X Int
  /\ \A m \in Markets : m.step \in Int \cup {None}
  /\ \A j \in Jobs :
       /\ j.route \in Routes /\ j.ids \in Seq(Nat)
       /\ j.route \notin {"dry_run", "execute", "dispatch"} => Len(j.ids) = 1
       /\ j.risk \in Int /\ j.leverage \in Int /\ j.price \in Int

VARIABLES
  live,      \* live_execution_enabled, read once per process
  pc,        \* where each batch is
  job,       \* what each was asked for
  pos,       \* the account each is at
  balance,   \* the balance each has fetched for it
  results,   \* the items each has gathered
  reply      \* what each caller got

batch == <<pc, job, pos, balance, results, reply>>
vars == <<users, accounts, stage, request, row, answer,
          live, pc, job, pos, balance, results, reply>>

Init ==
  /\ InitRegistry
  /\ live \in BOOLEAN
  /\ pc = [b \in Batches |-> "idle"]
  /\ job = [b \in Batches |-> NoJob]
  /\ pos = [b \in Batches |-> 1]
  /\ balance = [b \in Batches |-> 0]
  /\ results = [b \in Batches |-> <<>>]
  /\ reply = [b \in Batches |-> "none"]

Goto(b, there) == pc' = [pc EXCEPT ![b] = there]
Replies == {"none", "ok", "dry_run_only", "not_connected", "forbidden", "bad_request",
            "not_found", "unavailable", "error"}
EndWith(b, what) == Goto(b, "ended") /\ reply' = [reply EXCEPT ![b] = what]

IsCopier(j) == j.route \in {"execute", "dispatch"}
IsSizing(j) == j.route \in SizingRoutes

(* Mutant of IsForbidden: a route that trades is not gated.                *)
ForbiddenToDispatch(j) == j.route = "dispatch" /\ ~live

(* ensure_live_execution_enabled *)
IsForbidden(j) == j.route \in {"dispatch", "market_order"} /\ ~live

IsAdmitted(j) ==
  /\ ~IsForbidden(j)
  /\ IsCopier(j) => /\ IdsAccepted(j.ids)
                    /\ RiskAccepted(j.risk, j.leverage, Len(j.ids))
                    /\ KnownSide(j.side)

(* The gate is in front of the limits; the other routes check nothing. *)
Begin(b, j) ==
  /\ pc[b] = "idle"
  /\ job' = [job EXCEPT ![b] = j]
  /\ \/ IsAdmitted(j) /\ Goto(b, "loop") /\ UNCHANGED reply
     \/ IsForbidden(j) /\ EndWith(b, "forbidden")
     \/ ~IsForbidden(j) /\ ~IsAdmitted(j) /\ EndWith(b, "bad_request")
  /\ UNCHANGED <<live, pos, balance, results>>

AtAccount(b) == pc[b] = "loop" /\ pos[b] <= Len(job[b].ids)

(* Mutant of Id: the account is taken before the loop.                     *)
IdFirst(b) == job[b].ids[1]

Id(b) == job[b].ids[pos[b]]
IsRegistered(id) == id \in DOMAIN accounts
IsSupported(id) == accounts[id].exchange = "binance"

(* get_adapter_for_account; nothing looks at is_active. *)
LoadAccount(b) ==
  /\ AtAccount(b)
  /\ IsRegistered(Id(b)) /\ IsSupported(Id(b))
  /\ Goto(b, IF IsSizing(job[b]) THEN "balance" ELSE "adapter")
  /\ UNCHANGED <<live, job, pos, balance, results, reply>>

(* Mutant of AccountFails: an account that cannot be loaded is left out.   *)
AccountLeftOut(b) ==
  /\ AtAccount(b)
  /\ ~IsRegistered(Id(b))
  /\ Goto(b, "loop")
  /\ pos' = [pos EXCEPT ![b] = @ + 1]
  /\ UNCHANGED <<live, job, balance, results, reply>>

(* The last case is a key that cannot be decrypted, or a database error. *)
AccountFails(b) ==
  /\ AtAccount(b)
  /\ \/ ~IsRegistered(Id(b)) /\ EndWith(b, "not_found")
     \/ IsRegistered(Id(b)) /\ ~IsSupported(Id(b)) /\ EndWith(b, "bad_request")
     \/ EndWith(b, "error")
  /\ UNCHANGED <<live, job, pos, balance, results>>

(* Mutant of FetchBalance: the balance of the first account does for all.  *)
FetchFirstBalance(b) ==
  /\ pc[b] = "balance"
  /\ \E r \in Balances : r[1] = job[b].ids[1] /\ balance' = [balance EXCEPT ![b] = r[2]]
  /\ Goto(b, "market")
  /\ UNCHANGED <<live, job, pos, results, reply>>

(* fetch_balance *)
FetchBalance(b) ==
  /\ pc[b] = "balance"
  /\ \E r \in Balances : r[1] = Id(b) /\ balance' = [balance EXCEPT ![b] = r[2]]
  /\ Goto(b, "market")
  /\ UNCHANGED <<live, job, pos, results, reply>>

OrderInput(b, market) ==
  [balance |-> balance[b], risk |-> job[b].risk, leverage |-> job[b].leverage,
   price |-> job[b].price, side |-> NormalSide(job[b].side), step |-> market.step,
   min_quantity |-> market.min_quantity, min_notional |-> market.min_notional]

IsValid(i) == Sizeable(i) /\ WithinMinimums(i, Quantity(i))

(* The second validation calls its failures by the name of the first; the  *)
(* Binance adapter places nothing yet and says so.                         *)
DispatchStatus(i) ==
  IF IsValid(i) /\ RequestErrors(i, Quantity(i)) = {} THEN "dry_run_only"
  ELSE "validation_failed"

Item(b, market) ==
  LET i == OrderInput(b, market)
  IN [account_id |-> Id(b), input |-> i, quantity |-> Quantity(i),
      is_valid |-> IsValid(i),
      status |-> IF job[b].route = "dispatch" THEN DispatchStatus(i) ELSE "none"]

(* Mutant of Process: the batch stays at its account.                      *)
ProcessAgain(b) ==
  /\ pc[b] = "market"
  /\ Goto(b, "loop")
  /\ UNCHANGED <<live, job, pos, balance, results, reply>>

(* fetch_market_spec, the sizing, and what a dispatch adds. *)
Process(b) ==
  /\ pc[b] = "market"
  /\ \E m \in Markets :
       /\ m.step # None
       /\ results' = [results EXCEPT ![b] = Append(@, Item(b, m))]
  /\ pos' = [pos EXCEPT ![b] = @ + 1]
  /\ Goto(b, "loop")
  /\ UNCHANGED <<live, job, balance, reply>>

(* What the adapter or the service raises: rejected by the exchange, no    *)
(* connection, no such symbol, and errors nobody translates, among them    *)
(* that of a market without a step.                                        *)
ExchangeFails(b) ==
  /\ \/ /\ pc[b] \in {"balance", "market"}
        /\ \E what \in {"bad_request", "unavailable", "error"} : EndWith(b, what)
     \/ pc[b] = "market" /\ EndWith(b, "not_found")
  /\ UNCHANGED <<live, job, pos, balance, results>>

(* The queries that raise no exception; a market without a step will do.   *)
Query(b) ==
  /\ pc[b] = "adapter" /\ job[b].route \in QueryRoutes
  /\ EndWith(b, "ok")
  /\ UNCHANGED <<live, job, pos, balance, results>>

(* What the adapter raises; test_connection answers what the exchange      *)
(* refuses or does not hear as a connection that does not work.            *)
QueryFails(b) ==
  /\ pc[b] = "adapter" /\ job[b].route \in QueryRoutes
  /\ \/ EndWith(b, "error")
     \/ job[b].route = "test_connection" /\ EndWith(b, "not_connected")
     \/ /\ job[b].route # "test_connection"
        /\ \E what \in {"bad_request", "unavailable"} : EndWith(b, what)
     \/ job[b].route = "market_specs" /\ EndWith(b, "not_found")
  /\ UNCHANGED <<live, job, pos, balance, results>>

(* place_market_order: the side is looked at when the account is loaded,   *)
(* the quantity not at all.                                                *)
PlaceMarketOrder(b) ==
  /\ pc[b] = "adapter" /\ job[b].route = "market_order"
  /\ EndWith(b, IF KnownSide(job[b].side) THEN "dry_run_only" ELSE "bad_request")
  /\ UNCHANGED <<live, job, pos, balance, results>>

Answer(b) ==
  /\ pc[b] = "loop"
  /\ pos[b] > Len(job[b].ids)
  /\ EndWith(b, "ok")
  /\ UNCHANGED <<live, job, pos, balance, results>>

Advance(b) ==
  \/ LoadAccount(b) \/ AccountFails(b)
  \/ FetchBalance(b) \/ Process(b) \/ ExchangeFails(b)
  \/ Query(b) \/ QueryFails(b) \/ PlaceMarketOrder(b)
  \/ Answer(b)

(* The process starts again, perhaps with another setting. *)
Restart ==
  /\ KillRegistrations
  /\ live' \in BOOLEAN
  /\ pc' = [b \in Batches |-> IF pc[b] = "idle" THEN "idle" ELSE "ended"]
  /\ UNCHANGED <<job, pos, balance, results, reply>>

RegistryStep ==
  /\ \E c \in Registrations : Register(c) \/ \E r \in Requests : Ask(c, r)
  /\ UNCHANGED <<live, batch>>

BatchStep ==
  /\ \E b \in Batches : Advance(b) \/ \E j \in Jobs : Begin(b, j)
  /\ UNCHANGED registry

Next == RegistryStep \/ BatchStep \/ Restart

Spec == Init /\ [][Next]_vars

(* Threads are scheduled, and the database and the exchange answer or time *)
(* out.                                                                    *)
FairSpec ==
  /\ Spec
  /\ \A c \in Registrations : WF_vars(Register(c) /\ UNCHANGED <<live, batch>>)
  /\ \A b \in Batches : WF_vars(Advance(b) /\ UNCHANGED registry)
-----------------------------------------------------------------------------
TypeOK ==
  /\ RegistryTypeOK
  /\ live \in BOOLEAN
  /\ pc \in [Batches -> {"idle", "loop", "balance", "market", "adapter", "ended"}]
  /\ job \in [Batches -> Jobs \cup {NoJob}]
  /\ balance \in [Batches -> Int]
  /\ \A b \in Batches : pos[b] = Len(results[b]) + 1
  /\ reply \in [Batches -> Replies]

(* An answer has an item for every account to be sized, in the order of    *)
(* the request, and every account an answer is about is registered, with   *)
(* an exchange there is an adapter for and an owner.                       *)
AnswersAreWhole ==
  \A b \in Batches : reply[b] \in {"ok", "not_connected", "dry_run_only"} =>
    /\ IsSizing(job[b]) =>
         [i \in DOMAIN results[b] |-> results[b][i].account_id] = job[b].ids
    /\ \A i \in DOMAIN job[b].ids :
         LET id == job[b].ids[i]
         IN IsRegistered(id) /\ IsSupported(id) /\ Exists(accounts[id].user_id)

(* A copier request commits no account to more than the limits allow of a  *)
(* balance that this account has reported, in all its items together: an   *)
(* account has only one.  The limits are on the request, the notional      *)
(* comes out of the sizing.                                                *)
ExposureIsLimited ==
  \A b \in Batches : \A i, k \in DOMAIN results[b] :
    LET item == results[b][i] IN
    IsCopier(job[b]) =>
      /\ item.account_id = results[b][k].account_id => i = k
      /\ <<item.account_id, item.input.balance>> \in Balances
      /\ item.quantity > 0 =>
           item.quantity * item.input.price
             <= MaxRisk * MaxLeverage * item.input.balance

(* An item a dispatch shows as valid reached the adapter, unless there was *)
(* nothing to order: the two validations agree on this path too, where the *)
(* answer does not tell which of them refused.                             *)
ValidItemsAreDispatched ==
  \A b \in Batches : \A i \in DOMAIN results[b] :
    LET item == results[b][i] IN
    job[b].route = "dispatch" /\ item.is_valid =>
      item.status = "dry_run_only" \/ item.quantity = 0

(* The orders a request has handed to an adapter; 0 is a market order.     *)
Handed(b) ==
  {i \in DOMAIN results[b] : results[b][i].status = "dry_run_only"}
    \cup (IF reply[b] = "dry_run_only" THEN {0} ELSE {})

(* No order is handed to an adapter by a process whose setting is off: the *)
(* gate is passed once, in front of all the accounts and of everything     *)
(* that is asked of the exchange for them.                                 *)
OrdersNeedTheSetting ==
  [][\A b \in Batches : Handed(b)' # Handed(b) => live]_vars

(* A registration is open until its row is committed; what it has looked   *)
(* up before is nobody's business.                                         *)
Status ==
  [c \in Registrations |->
     CASE stage[c] \in {"asked", "checked"} -> "open"
       [] stage[c] = "committed" -> "registered"
       [] OTHER -> stage[c]]
Promise == INSTANCE RegistryPromise WITH status <- Status

(* Registrations take effect at one moment each, though they look up,      *)
(* commit and read back in steps that others come between, and the process *)
(* may stop at any of them.                                                *)
ImplementsRegistryPromise == Promise!Spec

(* Every request comes to an end. *)
EveryRequestEnds ==
  /\ \A c \in Registrations : stage[c] = "asked" ~> stage[c] = "ended"
  /\ \A b \in Batches : pc[b] = "loop" ~> pc[b] = "ended"
=============================================================================
