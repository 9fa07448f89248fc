--------------------------- MODULE RegistryPromise ---------------------------
(***************************************************************************)
(* What a caller of the registration services may rely on: a registration  *)
(* takes effect at one moment, at which its address is free or its owner   *)
(* exists, or not at all; it is answered with the row it added then, or is *)
(* refused for what is so at the moment of the refusal.  An error, or no   *)
(* answer, says nothing.                                                   *)
(***************************************************************************)
EXTENDS Naturals, Sequences

CONSTANTS Registrations, Requests, NoRequest, EarlierUsers, EarlierAccounts

VARIABLES
  users, accounts,   \* the tables
  status,            \* "idle", "open", "registered", "ended"
  request, row, answer

vars == <<users, accounts, status, request, row, answer>>

Init ==
  /\ users = EarlierUsers /\ accounts = EarlierAccounts
  /\ status = [c \in Registrations |-> "idle"]
  /\ request = [c \in Registrations |-> NoRequest]
  /\ row = [c \in Registrations |-> 0]
  /\ answer = [c \in Registrations |-> "none"]

IsFree(email) == \A u \in DOMAIN users : users[u] # email
IsOwner(user_id) == user_id \in DOMAIN users

To(c, there) == status' = [status EXCEPT ![c] = there] /\ UNCHANGED answer
End(c, what) ==
  /\ status' = [status EXCEPT ![c] = "ended"]
  /\ answer' = [answer EXCEPT ![c] = what]

Ask(c, r) ==
  /\ status[c] = "idle" /\ To(c, "open")
  /\ request' = [request EXCEPT ![c] = r]
  /\ UNCHANGED <<users, accounts, row>>

TakeEffect(c) ==
  /\ \/ /\ request[c].table = "users" /\ IsFree(request[c].email)
        /\ users' = Append(users, request[c].email) /\ UNCHANGED accounts
        /\ row' = [row EXCEPT ![c] = Len(users')]
     \/ /\ request[c].table = "accounts" /\ IsOwner(request[c].user_id)
        /\ accounts' = Append(accounts, [user_id |-> request[c].user_id,
                                         exchange |-> request[c].exchange])
        /\ row' = [row EXCEPT ![c] = Len(accounts')] /\ UNCHANGED users
  /\ UNCHANGED request

Register(c) ==
  /\ status[c] = "open" /\ TakeEffect(c)
  /\ To(c, "registered") \/ End(c, "error")

Refuse(c) ==
  /\ status[c] = "open"
  /\ \/ request[c].table = "users" /\ ~IsFree(request[c].email) /\ End(c, "conflict")
     \/ request[c].table = "accounts" /\ ~IsOwner(request[c].user_id) /\ End(c, "not_found")
  /\ UNCHANGED <<users, accounts, request, row>>

Answer(c) ==
  /\ status[c] = "registered" /\ End(c, "created")
  /\ UNCHANGED <<users, accounts, request, row>>

Fail(c) ==
  /\ status[c] \in {"open", "registered"} /\ End(c, "error")
  /\ UNCHANGED <<users, accounts, request, row>>

Crash ==
  /\ status' = [c \in Registrations |-> IF status[c] = "idle" THEN "idle" ELSE "ended"]
  /\ UNCHANGED <<users, accounts, request, row, answer>>

Next ==
  \/ \E c \in Registrations :
       \/ \E r \in Requests : Ask(c, r)
       \/ Register(c) \/ Refuse(c) \/ Answer(c) \/ Fail(c)
  \/ Crash

Spec == Init /\ [][Next]_vars
=============================================================================
