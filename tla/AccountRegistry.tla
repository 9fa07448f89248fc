--------------------------- MODULE AccountRegistry ---------------------------
(***************************************************************************)
(* Registration of users and of their exchange accounts: user_service.py   *)
(* and exchange_account_service.py over the tables users and               *)
(* exchange_accounts.                                                      *)
(*                                                                         *)
(* Each registration is a request on a thread and a database session of    *)
(* its own.  It looks something up (is the address free, does the owner    *)
(* exist), commits a row and reads the row back for the answer; other      *)
(* registrations may commit between its look-up and its commit.  Rows are  *)
(* never changed or deleted.  An id is the place of its row in the table;  *)
(* the gaps that failed inserts leave in the numbering are left out.       *)
(***************************************************************************)
EXTENDS Naturals, Sequences

CONSTANTS
  Registrations,                  \* calls of the two services
  Requests,                       \* what they are asked to register
  NoRequest,                      \* a registration not asked for yet
  EarlierUsers, EarlierAccounts   \* the rows of the tables at the start

ASSUME RegistryAssumption ==
  /\ NoRequest \notin Requests
  /\ EarlierUsers \in Seq(STRING)
  /\ \A u, v \in DOMAIN EarlierUsers : EarlierUsers[u] = EarlierUsers[v] => u = v
  /\ EarlierAccounts \in Seq([user_id : Nat, exchange : STRING])
  /\ \A a \in DOMAIN EarlierAccounts :
       EarlierAccounts[a].user_id \in DOMAIN EarlierUsers
  /\ \A r \in Requests :
       \/ r.table = "users" /\ r.email \in STRING
       \/ r.table = "accounts" /\ r.user_id \in Nat /\ r.exchange \in STRING

VARIABLES
  users,      \* the addresses of the table users
  accounts,   \* the rows of the table exchange_accounts
  stage,      \* where each registration is
  request,    \* what each is asked for
  row,        \* the id each has committed, 0 if none
  answer      \* what each caller got

registry == <<users, accounts, stage, request, row, answer>>

Taken(email) == \E u \in DOMAIN users : users[u] = email
Exists(user_id) == user_id \in DOMAIN users

InitRegistry ==
  /\ users = EarlierUsers
  /\ accounts = EarlierAccounts
  /\ stage = [c \in Registrations |-> "idle"]
  /\ request = [c \in Registrations |-> NoRequest]
  /\ row = [c \in Registrations |-> 0]
  /\ answer = [c \in Registrations |-> "none"]

Proceed(c, there) == stage' = [stage EXCEPT ![c] = there] /\ UNCHANGED answer
Reply(c, what) ==
  /\ stage' = [stage EXCEPT ![c] = "ended"]
  /\ answer' = [answer EXCEPT ![c] = what]

Ask(c, r) ==
  /\ stage[c] = "idle"
  /\ request' = [request EXCEPT ![c] = r]
  /\ Proceed(c, "asked")
  /\ UNCHANGED <<users, accounts, row>>

(* A user's address must be free ... *)
LookUpUser(c) ==
  /\ stage[c] = "asked" /\ request[c].table = "users"
  /\ IF Taken(request[c].email) THEN Reply(c, "conflict") ELSE Proceed(c, "checked")
  /\ UNCHANGED <<users, accounts, request, row>>

(* ... and an account's owner must exist. *)
LookUpOwner(c) ==
  /\ stage[c] = "asked" /\ request[c].table = "accounts"
  /\ IF Exists(request[c].user_id) THEN Proceed(c, "checked") ELSE Reply(c, "not_found")
  /\ UNCHANGED <<users, accounts, request, row>>

(* The look-up raises: no connection, or none left in the pool. *)
LookUpFails(c) ==
  /\ stage[c] = "asked"
  /\ Reply(c, "error")
  /\ UNCHANGED <<users, accounts, request, row>>

(* The unique index on the address lets no second row in. *)
InsertUser(c) ==
  /\ stage[c] = "checked" /\ request[c].table = "users"
  /\ ~Taken(request[c].email)
  /\ users' = Append(users, request[c].email)
  /\ row' = [row EXCEPT ![c] = Len(users')]
  /\ UNCHANGED accounts

(* Nothing tells two accounts of one user apart but their ids. *)
InsertAccount(c) ==
  /\ stage[c] = "checked" /\ request[c].table = "accounts"
  /\ Exists(request[c].user_id)
  /\ accounts' = Append(accounts, [user_id |-> request[c].user_id,
                                   exchange |-> request[c].exchange])
  /\ row' = [row EXCEPT ![c] = Len(accounts')]
  /\ UNCHANGED users

Insert(c) == InsertUser(c) \/ InsertAccount(c)

Commit(c) == Insert(c) /\ Proceed(c, "committed") /\ UNCHANGED request

(* The commit takes effect, and its answer is lost. *)
CommitLost(c) == Insert(c) /\ Reply(c, "error") /\ UNCHANGED request

(* Mutant of CommitFails: every error of the commit is called a conflict.  *)
CommitFailsAsConflict(c) ==
  /\ stage[c] = "checked"
  /\ Reply(c, "conflict")
  /\ UNCHANGED <<users, accounts, request, row>>

(* Hashing, encrypting or the commit raises: an IntegrityError of the      *)
(* index, a value too long for its column, a lost connection.  No handler  *)
(* turns it into an answer of its own.                                     *)
CommitFails(c) ==
  /\ stage[c] = "checked"
  /\ Reply(c, "error")
  /\ UNCHANGED <<users, accounts, request, row>>

(* Mutant of Refresh: the newest row is read back, not the one committed.  *)
RefreshNewest(c) ==
  /\ stage[c] = "committed"
  /\ row' = [row EXCEPT ![c] = IF request[c].table = "users" THEN Len(users)
                               ELSE Len(accounts)]
  /\ Reply(c, "created")
  /\ UNCHANGED <<users, accounts, request>>

Refresh(c) ==
  /\ stage[c] = "committed"
  /\ Reply(c, "created")
  /\ UNCHANGED <<users, accounts, request, row>>

RefreshFails(c) ==
  /\ stage[c] = "committed"
  /\ Reply(c, "error")
  /\ UNCHANGED <<users, accounts, request, row>>

Register(c) ==
  \/ LookUpUser(c) \/ LookUpOwner(c) \/ LookUpFails(c)
  \/ Commit(c) \/ CommitLost(c) \/ CommitFails(c)
  \/ Refresh(c) \/ RefreshFails(c)

(* A restart ends what is under way. *)
KillRegistrations ==
  /\ stage' = [c \in Registrations |->
                 IF stage[c] = "idle" THEN "idle" ELSE "ended"]
  /\ UNCHANGED <<users, accounts, request, row, answer>>
-----------------------------------------------------------------------------
RegistryTypeOK ==
  /\ users \in Seq(STRING)
  /\ accounts \in Seq([user_id : Nat, exchange : STRING])
  /\ stage \in [Registrations -> {"idle", "asked", "checked", "committed", "ended"}]
  /\ request \in [Registrations -> Requests \cup {NoRequest}]
  /\ row \in [Registrations -> Nat]
  /\ answer \in [Registrations ->
                   {"none", "created", "conflict", "not_found", "error"}]

(* What a caller is told is so: the row named in a "created" is the one    *)
(* asked for, and on a conflict the address belongs to a user who was not  *)
(* registered by this call (but perhaps by an earlier try, whose answer    *)
(* was lost).                                                              *)
AnswersAreTrue ==
  \A c \in Registrations :
    LET r == request[c] IN
    /\ answer[c] = "created" /\ r.table = "users" =>
         row[c] \in DOMAIN users /\ users[row[c]] = r.email
    /\ answer[c] = "created" /\ r.table = "accounts" =>
         /\ row[c] \in DOMAIN accounts
         /\ accounts[row[c]] = [user_id |-> r.user_id, exchange |-> r.exchange]
         /\ Exists(r.user_id)
    /\ answer[c] = "conflict" => Taken(r.email) /\ row[c] = 0
=============================================================================
