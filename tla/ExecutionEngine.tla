-------------------------- MODULE ExecutionEngine --------------------------
(***************************************************************************)
(* services/execution_engine.py: execute_order_for_account and its         *)
(* in-memory idempotency guard, with the live path behind it               *)
(* (live_execution_service, the retry of exchange_client_service, the      *)
(* BingX adapter and its HTTP client) and the exchange as an external      *)
(* process.                                                                *)
(*                                                                         *)
(* A call of the engine runs on a thread of its own (the endpoints are     *)
(* plain functions, which FastAPI runs in a thread pool) and interleaves   *)
(* with the others between any two accesses to shared state: the look-up   *)
(* of the key, the request on the wire, the recording of the key.          *)
(***************************************************************************)
EXTENDS Integers

CONSTANTS
  Calls,         \* calls of execute_order_for_account, each made once
  Requests,      \* the ExecutionRequest values the callers pass
  NoAccount,     \* account_id None
  NoRequest,     \* a call not made yet
  NoKey,         \* a call whose request has no idempotency key
  MAX_ATTEMPTS,  \* 2 in the code
  MaxRestarts    \* bound on process restarts

(* The fields of a request its key is made of; price, risk and leverage    *)
(* are not among them.  The code joins them with "|", which loses nothing  *)
(* as long as no field contains that character.                            *)
BuildKey(r) ==
  <<r.run_id, r.account_id, r.exchange, r.symbol, r.side, r.execution_mode>>
HasKey(r) == r.account_id # NoAccount
RequestKey(r) == IF HasKey(r) THEN BuildKey(r) ELSE NoKey
Keys == {BuildKey(r) : r \in {q \in Requests : HasKey(q)}}

ASSUME EngineAssumption ==
  /\ NoRequest \notin Requests
  /\ NoKey \notin Keys
  /\ MAX_ATTEMPTS \in Nat \ {0}
  /\ MaxRestarts \in Nat

Attempts == 1 .. MAX_ATTEMPTS
Transmissions == Calls \X Attempts

VARIABLES
  executed,     \* _executed_idempotency_keys
  pc,           \* where each call is
  request,      \* the request of each call
  attempt,      \* the attempt each call is making (0: none)
  result,       \* order_result.status, or the class of the exception
  tx,           \* what became of each transmission at the exchange
  realTrading,  \* settings.enable_real_trading, read once per process
  restarts,     \* restarts so far
  doubt         \* history: the keys whose at-most-once guarantee is void

code == <<executed, pc, request, attempt, result>>
vars == <<executed, pc, request, attempt, result, tx, realTrading, restarts, doubt>>

CallKey(c) == IF request[c] = NoRequest THEN NoKey ELSE RequestKey(request[c])

SimulatedStatuses ==
  {"simulated_dispatched", "validation_failed", "order_request_validation_failed"}
LiveStatuses == {"live_stub_dispatched", "live_dispatched", "unknown"}
Exceptions ==
  {"ValueError", "InvalidOperation", "RuntimeError", "NotImplementedError",
   "ExchangeOrderPlacementError", "ExchangeTransportError", "JSONDecodeError"}

(* Between the look-up of the key and its recording. *)
Window == {"dispatch", "send", "await", "record"}
Running == Window \cup {"check"}
Ended == {"skipped", "returned", "raised", "killed"}

(* An order that the exchange holds, or may still come to hold. *)
Live(x) == tx[x] \in {"travelling", "accepted"}

Init ==
  /\ executed = {}
  /\ pc = [c \in Calls |-> "idle"]
  /\ request = [c \in Calls |-> NoRequest]
  /\ attempt = [c \in Calls |-> 0]
  /\ result = [c \in Calls |-> "none"]
  /\ tx = [x \in Transmissions |-> "unsent"]
  /\ realTrading \in BOOLEAN
  /\ restarts = 0
  /\ doubt = {}

Goto(c, there) == pc' = [pc EXCEPT ![c] = there]

(* A normal result: the engine goes on to record the key. *)
Yield(c, s) ==
  /\ result' = [result EXCEPT ![c] = s]
  /\ Goto(c, "record")

(* An exception leaves the engine; nothing is recorded. *)
Raise(c, e) ==
  /\ result' = [result EXCEPT ![c] = e]
  /\ Goto(c, "raised")
-----------------------------------------------------------------------------
(* The engine. *)

Call(c, r) ==
  /\ pc[c] = "idle"
  /\ request' = [request EXCEPT ![c] = r]
  /\ Goto(c, "check")
  /\ UNCHANGED <<executed, attempt, result, tx, realTrading, restarts, doubt>>

Skip(c) ==
  /\ pc[c] = "check"
  /\ CallKey(c) \in executed
  /\ result' = [result EXCEPT ![c] = "idempotent_skip"]
  /\ Goto(c, "skipped")
  /\ UNCHANGED <<executed, request, attempt, tx, realTrading, restarts, doubt>>

(* Mutant of Pass: the key is recorded before the order is executed.       *)
PassRecording(c) ==
  /\ pc[c] = "check"
  /\ CallKey(c) \notin executed
  /\ Goto(c, "dispatch")
  /\ executed' = executed \cup ({CallKey(c)} \ {NoKey})
  /\ UNCHANGED <<request, attempt, result, tx, realTrading, restarts, doubt>>

(* History: passing the check while another call with the same key is past *)
(* it too and has not recorded the key puts that key in doubt.             *)
Pass(c) ==
  /\ pc[c] = "check"
  /\ CallKey(c) \notin executed
  /\ Goto(c, "dispatch")
  /\ doubt' = doubt \cup {k \in Keys : k = CallKey(c) /\ \E d \in Calls \ {c} :
                             pc[d] \in Window /\ CallKey(d) = k}
  /\ UNCHANGED <<executed, request, attempt, result, tx, realTrading, restarts>>

RefuseMode(c) ==
  /\ pc[c] = "dispatch"
  /\ request[c].execution_mode \notin {"simulated", "live"}
  /\ Raise(c, "ValueError")
  /\ UNCHANGED <<executed, request, attempt, tx, realTrading, restarts, doubt>>

(* Sizing and validation of the order, which touch no shared state: their  *)
(* outcome depends on the account, which is not part of the key.           *)
ExecuteSimulated(c) ==
  /\ pc[c] = "dispatch"
  /\ request[c].execution_mode = "simulated"
  /\ \/ \E s \in SimulatedStatuses : Yield(c, s)
     \/ Raise(c, "InvalidOperation")
  /\ UNCHANGED <<executed, request, attempt, tx, realTrading, restarts, doubt>>

(* Mutant of Record: the result is returned and the key forgotten.         *)
RecordForgotten(c) ==
  /\ pc[c] = "record"
  /\ Goto(c, "returned")
  /\ UNCHANGED <<executed, request, attempt, result, tx, realTrading, restarts, doubt>>

Record(c) ==
  /\ pc[c] = "record"
  /\ executed' = executed \cup ({CallKey(c)} \ {NoKey})
  /\ Goto(c, "returned")
  /\ UNCHANGED <<request, attempt, result, tx, realTrading, restarts, doubt>>
-----------------------------------------------------------------------------
(* The live path. *)

IsLiveOn(c, exchanges) ==
  /\ pc[c] = "dispatch"
  /\ request[c].execution_mode = "live"
  /\ request[c].exchange \in exchanges

ExecuteStub(c) ==
  /\ IsLiveOn(c, {"stub"})
  /\ Yield(c, "live_stub_dispatched")
  /\ UNCHANGED <<executed, request, attempt, tx, realTrading, restarts, doubt>>

NoLivePath(c) ==
  /\ pc[c] = "dispatch"
  /\ request[c].execution_mode = "live"
  /\ request[c].exchange \notin {"stub", "bingx"}
  /\ Raise(c, "NotImplementedError")
  /\ UNCHANGED <<executed, request, attempt, tx, realTrading, restarts, doubt>>

GateClosed(c) ==
  /\ IsLiveOn(c, {"bingx"})
  /\ ~realTrading
  /\ Raise(c, "RuntimeError")
  /\ UNCHANGED <<executed, request, attempt, tx, realTrading, restarts, doubt>>

(* Mutant of GateOpen: enable_real_trading is not looked at.               *)
GateUnguarded(c) ==
  /\ IsLiveOn(c, {"bingx"})
  /\ attempt' = [attempt EXCEPT ![c] = 1]
  /\ Goto(c, "send")
  /\ UNCHANGED <<executed, request, result, tx, realTrading, restarts, doubt>>

GateOpen(c) ==
  /\ IsLiveOn(c, {"bingx"})
  /\ realTrading
  /\ attempt' = [attempt EXCEPT ![c] = 1]
  /\ Goto(c, "send")
  /\ UNCHANGED <<executed, request, result, tx, realTrading, restarts, doubt>>

(* The POST of the signed payload, which carries no order id of ours. *)
Send(c) ==
  /\ pc[c] = "send"
  /\ tx' = [tx EXCEPT ![<<c, attempt[c]>>] = "travelling"]
  /\ Goto(c, "await")
  /\ UNCHANGED <<executed, request, attempt, result, realTrading, restarts, doubt>>

Sent(c) == <<c, attempt[c]>>

(* Mutant of ReplyAccepted: an accepted order is taken for a failed one.   *)
AcceptedAsFailure(c) ==
  /\ pc[c] = "await"
  /\ tx[Sent(c)] = "accepted"
  /\ Raise(c, "ExchangeOrderPlacementError")
  /\ UNCHANGED <<executed, request, attempt, tx, realTrading, restarts, doubt>>

(* The exchange answers with code 0. *)
ReplyAccepted(c) ==
  /\ pc[c] = "await"
  /\ tx[Sent(c)] = "accepted"
  /\ Yield(c, "live_dispatched")
  /\ UNCHANGED <<executed, request, attempt, tx, realTrading, restarts, doubt>>

(* Mutant of ReplyRefused: the code of the answer is not looked at.        *)
RefusedAsSuccess(c) ==
  /\ pc[c] = "await"
  /\ tx[Sent(c)] = "refused"
  /\ Yield(c, "live_dispatched")
  /\ UNCHANGED <<executed, request, attempt, tx, realTrading, restarts, doubt>>

(* The exchange answers with another code: not retried. *)
ReplyRefused(c) ==
  /\ pc[c] = "await"
  /\ tx[Sent(c)] = "refused"
  /\ Raise(c, "ExchangeOrderPlacementError")
  /\ UNCHANGED <<executed, request, attempt, tx, realTrading, restarts, doubt>>

(* The refusal carries no code: a normal result with success False. *)
ReplyUncoded(c) ==
  /\ pc[c] = "await"
  /\ tx[Sent(c)] = "refused"
  /\ Yield(c, "unknown")
  /\ UNCHANGED <<executed, request, attempt, tx, realTrading, restarts, doubt>>

(* History: the caller will not learn that the order may be held. *)
LoseTrackOf(c) ==
  doubt' = doubt \cup {k \in Keys : k = CallKey(c) /\ Live(Sent(c))}

(* The body of a 2xx answer is not JSON: neither mapped nor retried. *)
ReplyUnreadable(c) ==
  /\ pc[c] = "await"
  /\ tx[Sent(c)] \in {"accepted", "refused"}
  /\ Raise(c, "JSONDecodeError")
  /\ LoseTrackOf(c)
  /\ UNCHANGED <<executed, request, attempt, tx, realTrading, restarts>>

(* Mutants of TransportError: one attempt too many; the last attempt made  *)
(* again for ever.                                                         *)
OneAttemptMore(c) ==
  /\ pc[c] = "await"
  /\ attempt[c] <= MAX_ATTEMPTS
  /\ attempt' = [attempt EXCEPT ![c] = @ + 1]
  /\ Goto(c, "send")
  /\ LoseTrackOf(c)
  /\ UNCHANGED <<executed, request, result, tx, realTrading, restarts>>

RetryForEver(c) ==
  /\ pc[c] = "await"
  /\ attempt' = [attempt EXCEPT ![c] = IF @ < MAX_ATTEMPTS THEN @ + 1 ELSE @]
  /\ Goto(c, "send")
  /\ LoseTrackOf(c)
  /\ UNCHANGED <<executed, request, result, tx, realTrading, restarts>>

(* A timeout, a broken connection or an HTTP error status, all mapped to   *)
(* ExchangeTransportError: the request may or may not have been processed, *)
(* may even still be on its way, and is sent again.                        *)
TransportError(c) ==
  /\ pc[c] = "await"
  /\ \/ /\ attempt[c] < MAX_ATTEMPTS
        /\ attempt' = [attempt EXCEPT ![c] = @ + 1]
        /\ Goto(c, "send")
        /\ UNCHANGED result
     \/ /\ attempt[c] = MAX_ATTEMPTS
        /\ Raise(c, "ExchangeTransportError")
        /\ UNCHANGED attempt
  /\ LoseTrackOf(c)
  /\ UNCHANGED <<executed, request, tx, realTrading, restarts>>
-----------------------------------------------------------------------------
(* The environment: the exchange, and the life of the process. *)

ExchangeAccepts(x) ==
  /\ tx[x] = "travelling"
  /\ tx' = [tx EXCEPT ![x] = "accepted"]
  /\ UNCHANGED <<code, realTrading, restarts, doubt>>

ExchangeRefuses(x) ==
  /\ tx[x] = "travelling"
  /\ tx' = [tx EXCEPT ![x] = "refused"]
  /\ UNCHANGED <<code, realTrading, restarts, doubt>>

(* The process dies and starts again, with another setting perhaps.        *)
(* History: no key of an order sent so far is guarded any longer.          *)
Restart ==
  /\ restarts < MaxRestarts
  /\ restarts' = restarts + 1
  /\ executed' = {}
  /\ pc' = [c \in Calls |-> IF pc[c] \in Running THEN "killed" ELSE pc[c]]
  /\ realTrading' \in BOOLEAN
  /\ doubt' = doubt \cup {k \in Keys : \E x \in Transmissions :
                             Live(x) /\ CallKey(x[1]) = k}
  /\ UNCHANGED <<request, attempt, result, tx>>
-----------------------------------------------------------------------------
(* The steps the thread of a call takes once the call is made. *)
Advance(c) ==
  \/ Skip(c) \/ Pass(c)
  \/ RefuseMode(c) \/ ExecuteSimulated(c) \/ Record(c)
  \/ ExecuteStub(c) \/ NoLivePath(c) \/ GateClosed(c) \/ GateOpen(c)
  \/ Send(c)
  \/ ReplyAccepted(c) \/ ReplyRefused(c) \/ ReplyUncoded(c) \/ ReplyUnreadable(c)
  \/ TransportError(c)

Next ==
  \/ \E c \in Calls : Advance(c) \/ \E r \in Requests : Call(c, r)
  \/ \E x \in Transmissions : ExchangeAccepts(x) \/ ExchangeRefuses(x)
  \/ Restart

Spec == Init /\ [][Next]_vars

(* Threads are scheduled, and a request ends within its HTTP timeout. *)
FairSpec == Spec /\ \A c \in Calls : WF_vars(Advance(c))
-----------------------------------------------------------------------------
TypeOK ==
  /\ executed \subseteq Keys
  /\ pc \in [Calls -> {"idle"} \cup Running \cup Ended]
  /\ request \in [Calls -> Requests \cup {NoRequest}]
  /\ attempt \in [Calls -> 0 .. MAX_ATTEMPTS]
  /\ result \in [Calls -> {"none", "idempotent_skip"} \cup SimulatedStatuses
                                 \cup LiveStatuses \cup Exceptions]
  /\ tx \in [Transmissions -> {"unsent", "travelling", "accepted", "refused"}]
  /\ realTrading \in BOOLEAN
  /\ restarts \in 0 .. MaxRestarts
  /\ doubt \subseteq Keys

Accepted == {x \in Transmissions : tx[x] = "accepted"}

(* The exchange holds at most one order per idempotency key, across all    *)
(* calls, threads and attempts, unless one of exactly three things has     *)
(* happened to that key: two calls were between look-up and recording      *)
(* together, the answer to an order the exchange may hold was lost, or the *)
(* process restarted after sending.                                        *)
AtMostOncePerKey ==
  \A x, y \in Accepted :
    /\ x # y
    /\ CallKey(x[1]) = CallKey(y[1])
    => CallKey(x[1]) \in doubt \cup {NoKey}

(* An order the exchange holds was reported as live_dispatched by the call *)
(* that sent it, once that call has ended, unless its key is in doubt: no  *)
(* failure or skip hides an order.                                         *)
HeldOrderIsReported ==
  \A x \in Accepted :
    LET c == x[1] IN
    /\ pc[c] \in Ended
    /\ CallKey(c) \notin doubt \cup {NoKey}
    => result[c] = "live_dispatched" /\ x = Sent(c)

(* What a call reports of its last attempt is what the exchange did with   *)
(* it: live_dispatched only for an accepted order, a placement error only  *)
(* for a refused one.                                                      *)
ReportMatchesExchange ==
  \A c \in Calls :
    /\ result[c] = "live_dispatched" => tx[Sent(c)] = "accepted"
    /\ result[c] = "ExchangeOrderPlacementError" => tx[Sent(c)] = "refused"

(* No request reaches the wire of a real exchange from a process whose     *)
(* enable_real_trading is off, restarts with another setting included.     *)
RealOrdersOnlyWhenEnabled ==
  [][\A x \in Transmissions :
       tx[x] = "unsent" /\ tx'[x] # "unsent" => realTrading]_vars

(* Every call ends: with a result, with an exception or with the process.  *)
EveryCallEnds == \A c \in Calls : pc[c] = "check" ~> pc[c] \in Ended

(* The engine keeps the promise of DispatchGuard: its orders are the       *)
(* accepted transmissions, its phases the stages of a call.                *)
PhaseOf(c) ==
  CASE pc[c] = "idle" -> "waiting"
    [] pc[c] = "check" -> "checking"
    [] pc[c] \in Window -> "running"
    [] pc[c] = "returned" -> "done"
    [] pc[c] = "raised" -> "failed"
    [] OTHER -> pc[c]

Guard == INSTANCE DispatchGuard WITH
  OrderSlots <- Attempts,
  recorded <- executed,
  phase <- [c \in Calls |-> PhaseOf(c)],
  key <- [c \in Calls |-> CallKey(c)],
  placed <- Accepted

ImplementsDispatchGuard == Guard!Spec

(* Only a call that returned records its key: no exception, lost answer or *)
(* killed call blocks the retry of its order (the engine's docstring,      *)
(* execution_engine.py:54-55).                                             *)
RecordedByReturn == Guard!RecordedByReturn

(* A skipped call has no order at the exchange, and some other call with   *)
(* its key returned: a skip never stands for an execution under way or one *)
(* that failed.                                                            *)
SkipIsBacked == Guard!SkipIsBacked

(* execution_idempotency.py:18 says of the key: "Used to guard against     *)
(* double-sending the same order for an account."                          *)
GuardedAgainstDoubleSending ==
  \A x, y \in Transmissions :
    Live(x) /\ Live(y) /\ x # y /\ CallKey(x[1]) = CallKey(y[1])
    => CallKey(x[1]) = NoKey
=============================================================================
