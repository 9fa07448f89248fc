--------------------------- MODULE DispatchGuard ---------------------------
(***************************************************************************)
(* What a caller of the execution engine may rely on, and no more: the     *)
(* promise of execute_order_for_account with the exchange client behind    *)
(* it, without modes, adapters, attempts or statuses.                      *)
(*                                                                         *)
(* A call is taken, finds its idempotency key recorded or not, and either  *)
(* is skipped or runs.  A running call may have orders accepted by the     *)
(* exchange, even after it has failed (the answer to an accepted order may *)
(* be lost), and ends by recording its key or by failing.  A restart       *)
(* forgets every recorded key.  ExecutionEngine implements this            *)
(* specification; CopierRun is built on it.                                *)
(***************************************************************************)
EXTENDS Integers

CONSTANTS
  Calls,        \* calls of execute_order_for_account
  Keys,         \* idempotency keys
  NoKey,        \* the key of a call without account_id, or not yet taken
  OrderSlots,   \* names of the orders one call can have accepted
  MaxRestarts   \* bound on process restarts

VARIABLES
  recorded,   \* keys in _executed_idempotency_keys
  phase,      \* how far each call is
  key,        \* the key of each call
  placed,     \* <<call, slot>> of every order the exchange has accepted
  restarts    \* restarts so far

vars == <<recorded, phase, key, placed, restarts>>

Phases == {"waiting", "checking", "running", "skipped", "done", "failed", "killed"}
Active(c) == phase[c] \in {"checking", "running"}

Init ==
  /\ recorded = {}
  /\ phase = [c \in Calls |-> "waiting"]
  /\ key = [c \in Calls |-> NoKey]
  /\ placed = {}
  /\ restarts = 0

(* A caller enters the engine with a request whose key is k. *)
Take(c, k) ==
  /\ phase[c] = "waiting"
  /\ phase' = [phase EXCEPT ![c] = "checking"]
  /\ key' = [key EXCEPT ![c] = k]
  /\ UNCHANGED <<recorded, placed, restarts>>

(* The key is recorded: nothing is executed. *)
Skip(c) ==
  /\ phase[c] = "checking"
  /\ key[c] \in recorded
  /\ phase' = [phase EXCEPT ![c] = "skipped"]
  /\ UNCHANGED <<recorded, key, placed, restarts>>

(* The key is not recorded (or there is none): the call goes on. *)
Start(c) ==
  /\ phase[c] = "checking"
  /\ key[c] \notin recorded
  /\ phase' = [phase EXCEPT ![c] = "running"]
  /\ UNCHANGED <<recorded, key, placed, restarts>>

(* The exchange accepts an order of a call that has got past the check. *)
Place(c, n) ==
  /\ phase[c] \in {"running", "failed", "done", "killed"}
  /\ <<c, n>> \notin placed
  /\ placed' = placed \cup {<<c, n>>}
  /\ UNCHANGED <<recorded, phase, key, restarts>>

(* Mutant of Finish: no key is ever recorded.                              *)
FinishForgetful(c) ==
  /\ phase[c] = "running"
  /\ phase' = [phase EXCEPT ![c] = "done"]
  /\ UNCHANGED <<recorded, key, placed, restarts>>

(* The execution returns: its key is recorded. *)
Finish(c) ==
  /\ phase[c] = "running"
  /\ phase' = [phase EXCEPT ![c] = "done"]
  /\ recorded' = recorded \cup ({key[c]} \ {NoKey})
  /\ UNCHANGED <<key, placed, restarts>>

(* The execution raises: its key is not recorded. *)
Fail(c) ==
  /\ phase[c] = "running"
  /\ phase' = [phase EXCEPT ![c] = "failed"]
  /\ UNCHANGED <<recorded, key, placed, restarts>>

(* The process dies with every call in it; the exchange does not notice. *)
Restart ==
  /\ restarts < MaxRestarts
  /\ restarts' = restarts + 1
  /\ recorded' = {}
  /\ phase' = [c \in Calls |-> IF Active(c) THEN "killed" ELSE phase[c]]
  /\ UNCHANGED <<key, placed>>

Next ==
  \/ \E c \in Calls :
       \/ \E k \in Keys \cup {NoKey} : Take(c, k)
       \/ Skip(c)
       \/ Start(c)
       \/ \E n \in OrderSlots : Place(c, n)
       \/ Finish(c)
       \/ Fail(c)
  \/ Restart

Spec == Init /\ [][Next]_vars
-----------------------------------------------------------------------------
TypeOK ==
  /\ recorded \subseteq Keys
  /\ phase \in [Calls -> Phases]
  /\ key \in [Calls -> Keys \cup {NoKey}]
  /\ placed \subseteq Calls \X OrderSlots
  /\ restarts \in Nat

(* Only a call that finished can have recorded a key: an exception never   *)
(* does, so a retry after a failure is not blocked (the engine's docstring,*)
(* execution_engine.py:54-55).                                             *)
RecordedByReturn ==
  \A k \in recorded : \E c \in Calls : phase[c] = "done" /\ key[c] = k

(* A skipped call has had no order accepted, and some other call with its  *)
(* key finished: a skip never stands for an execution that only failed.    *)
SkipIsBacked ==
  \A c \in Calls : phase[c] = "skipped" =>
    /\ \A n \in OrderSlots : <<c, n>> \notin placed
    /\ \E d \in Calls : d # c /\ phase[d] = "done" /\ key[d] = key[c]
=============================================================================
