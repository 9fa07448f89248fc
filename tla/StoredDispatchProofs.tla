------------------------ MODULE StoredDispatchProofs ------------------------
(***************************************************************************)
(* The tables and the requests on stored accounts, proved for any requests *)
(* and any contents of the tables.                                         *)
(***************************************************************************)
EXTENDS StoredDispatch, SizingProofs

(* What appending an element does to a sequence.                           *)
LEMMA Appended ==
  ASSUME NEW S, NEW s \in Seq(S), NEW e \in S
  PROVE  /\ Append(s, e) \in Seq(S)
         /\ Len(Append(s, e)) = Len(s) + 1
         /\ DOMAIN Append(s, e) = DOMAIN s \cup {Len(s) + 1}
         /\ Len(s) \in Nat /\ DOMAIN s = 1 .. Len(s)
         /\ \A i \in DOMAIN s : Append(s, e)[i] = s[i]
         /\ Append(s, e)[Len(s) + 1] = e
  OBVIOUS

AccountRow == [user_id : Nat, exchange : STRING]

(* The row a registration has committed is the one it was asked for.       *)
HasRow(c) ==
  LET r == request[c] IN
  /\ r \in Requests
  /\ r.table = "users" => row[c] \in DOMAIN users /\ users[row[c]] = r.email
  /\ r.table = "accounts" =>
       /\ row[c] \in DOMAIN accounts
       /\ accounts[row[c]] = [user_id |-> r.user_id, exchange |-> r.exchange]

CallInv(c) ==
  /\ stage[c] \in {"asked", "checked"} => request[c] \in Requests /\ row[c] = 0
  /\ stage[c] = "idle" => row[c] = 0
  /\ stage[c] \in {"idle", "asked", "checked", "committed"} => answer[c] = "none"
  /\ stage[c] = "committed" \/ answer[c] = "created" => HasRow(c)
  /\ answer[c] = "conflict" => Taken(request[c].email) /\ row[c] = 0

Owned == \A a \in DOMAIN accounts : Exists(accounts[a].user_id)

RegistryInv ==
  /\ RegistryTypeOK
  /\ Owned
  /\ \A c \in Registrations : CallInv(c)

(* Rows are added to the tables, never changed.                            *)
TablesGrow ==
  /\ DOMAIN users \subseteq DOMAIN users'
  /\ \A u \in DOMAIN users : users'[u] = users[u]
  /\ DOMAIN accounts \subseteq DOMAIN accounts'
  /\ \A a \in DOMAIN accounts : accounts'[a] = accounts[a]

(* What a call knows of the tables stays true as they grow.                *)
LEMMA CallInvStable ==
  ASSUME NEW c \in Registrations, CallInv(c), TablesGrow,
         stage'[c] = stage[c], request'[c] = request[c],
         row'[c] = row[c], answer'[c] = answer[c]
  PROVE  CallInv(c)'
<1>1. HasRow(c) => HasRow(c)'
  BY DEF HasRow, TablesGrow
<1>2. Taken(request[c].email) => Taken(request[c].email)'
  BY DEF Taken, TablesGrow
<1>3. QED
  BY <1>1, <1>2 DEF CallInv

(* The initial tables are consistent.                                      *)
LEMMA RegistryInit == InitRegistry => RegistryInv
  BY RegistryAssumption
  DEF InitRegistry, RegistryInv, RegistryTypeOK, Owned, Exists, CallInv

(* A step that leaves the tables alone leaves what is said of them.        *)
LEMMA TablesUnchanged ==
  ASSUME RegistryInv, UNCHANGED <<users, accounts>>
  PROVE  /\ TablesGrow
         /\ Owned'
         /\ users' \in Seq(STRING) /\ accounts' \in Seq(AccountRow)
  BY DEF RegistryInv, RegistryTypeOK, TablesGrow, Owned, Exists, AccountRow

(* An insert adds the requested row to a consistent table.                 *)
LEMMA Inserted ==
  ASSUME RegistryInv, NEW c \in Registrations, Insert(c), UNCHANGED request
  PROVE  /\ TablesGrow
         /\ Owned'
         /\ users' \in Seq(STRING) /\ accounts' \in Seq(AccountRow)
         /\ row' = [row EXCEPT ![c] = row'[c]] /\ row'[c] \in Nat
         /\ HasRow(c)'
<1> DEFINE r == request[c]
<1>1. r \in Requests /\ row \in [Registrations -> Nat] /\ stage[c] = "checked"
  BY DEF RegistryInv, CallInv, RegistryTypeOK, Insert, InsertUser, InsertAccount
<1>2. users \in Seq(STRING) /\ accounts \in Seq(AccountRow)
  BY DEF RegistryInv, RegistryTypeOK, AccountRow
<1>3. CASE InsertUser(c)
  <2>1. r.table = "users" /\ r.email \in STRING /\ ~Taken(r.email)
    BY <1>1, <1>3, RegistryAssumption DEF InsertUser
  <2>2. /\ users' = Append(users, r.email) /\ row' = [row EXCEPT ![c] = Len(users')]
        /\ accounts' = accounts
    BY <1>3 DEF InsertUser
  <2>3. /\ users' \in Seq(STRING) /\ Len(users') = Len(users) + 1
        /\ DOMAIN users' = DOMAIN users \cup {Len(users) + 1}
        /\ Len(users) \in Nat /\ DOMAIN users = 1 .. Len(users)
        /\ \A u \in DOMAIN users : users'[u] = users[u]
        /\ users'[Len(users) + 1] = r.email
    BY <1>2, <2>1, <2>2, Appended
  <2>4. TablesGrow
    BY <2>2, <2>3 DEF TablesGrow
  <2>5. Owned'
    BY <2>2, <2>3 DEF RegistryInv, Owned, Exists
  <2>6. row'[c] = Len(users) + 1 /\ row'[c] \in Nat
    BY <1>1, <2>2, <2>3
  <2>7. HasRow(c)'
    BY <1>1, <2>1, <2>3, <2>6 DEF HasRow
  <2>8. row' = [row EXCEPT ![c] = row'[c]]
    BY <1>1, <2>2
  <2>9. QED
    BY <1>2, <2>2, <2>3, <2>4, <2>5, <2>6, <2>7, <2>8
<1>4. CASE InsertAccount(c)
  <2> DEFINE new == [user_id |-> r.user_id, exchange |-> r.exchange]
  <2>1. r.table = "accounts" /\ new \in AccountRow /\ Exists(r.user_id)
    BY <1>1, <1>4, RegistryAssumption DEF InsertAccount, AccountRow
  <2>2. /\ accounts' = Append(accounts, new) /\ row' = [row EXCEPT ![c] = Len(accounts')]
        /\ users' = users
    BY <1>4 DEF InsertAccount
  <2>3. /\ accounts' \in Seq(AccountRow) /\ Len(accounts') = Len(accounts) + 1
        /\ DOMAIN accounts' = DOMAIN accounts \cup {Len(accounts) + 1}
        /\ Len(accounts) \in Nat /\ DOMAIN accounts = 1 .. Len(accounts)
        /\ \A a \in DOMAIN accounts : accounts'[a] = accounts[a]
        /\ accounts'[Len(accounts) + 1] = new
    BY <1>2, <2>1, <2>2, Appended
  <2>4. TablesGrow
    BY <2>2, <2>3 DEF TablesGrow
  <2>5. Owned'
    BY <2>1, <2>2, <2>3 DEF RegistryInv, Owned, Exists
  <2>6. row'[c] = Len(accounts) + 1 /\ row'[c] \in Nat
    BY <1>1, <2>2, <2>3
  <2>7. HasRow(c)'
    BY <1>1, <2>1, <2>3, <2>6 DEF HasRow
  <2>8. row' = [row EXCEPT ![c] = row'[c]]
    BY <1>1, <2>2
  <2>9. QED
    BY <1>2, <2>2, <2>3, <2>4, <2>5, <2>6, <2>7, <2>8
<1>5. QED
  BY <1>3, <1>4 DEF Insert

(* A step of one registration that leaves the tables alone.                *)
LEMMA LocalStep ==
  ASSUME RegistryInv, NEW c \in Registrations, UNCHANGED <<users, accounts, row>>,
         NEW there \in {"asked", "checked", "committed", "ended"},
         stage' = [stage EXCEPT ![c] = there],
         NEW r \in Requests \cup {NoRequest}, request' = [request EXCEPT ![c] = r],
         NEW what \in {"none", "created", "conflict", "not_found", "error"},
         answer' = [answer EXCEPT ![c] = what],
         CallInv(c)'
  PROVE  RegistryInv'
<1>1. TablesGrow /\ Owned'
      /\ users' \in Seq(STRING) /\ accounts' \in Seq(AccountRow)
  BY TablesUnchanged
<1>2. RegistryTypeOK'
  BY <1>1 DEF RegistryInv, RegistryTypeOK, AccountRow
<1>3. ASSUME NEW d \in Registrations, d # c PROVE CallInv(d)'
  <2>1. /\ stage'[d] = stage[d] /\ request'[d] = request[d]
        /\ row'[d] = row[d] /\ answer'[d] = answer[d]
    BY <1>3 DEF RegistryInv, RegistryTypeOK
  <2>2. QED
    BY <1>1, <2>1, CallInvStable DEF RegistryInv
<1>4. QED
  BY <1>1, <1>2, <1>3 DEF RegistryInv

(* Asking for a registration.                                              *)
LEMMA AskStep ==
  ASSUME RegistryInv, NEW c \in Registrations, NEW r \in Requests, Ask(c, r)
  PROVE  RegistryInv'
<1>1. /\ stage[c] = "idle" /\ stage' = [stage EXCEPT ![c] = "asked"]
      /\ request' = [request EXCEPT ![c] = r]
      /\ answer' = answer /\ UNCHANGED <<users, accounts, row>>
  BY DEF Ask, Proceed
<1>2. answer[c] = "none" /\ row[c] = 0 /\ answer' = [answer EXCEPT ![c] = "none"]
  BY <1>1 DEF RegistryInv, RegistryTypeOK, CallInv
<1>3. stage'[c] = "asked" /\ request'[c] = r /\ answer'[c] = "none" /\ row'[c] = 0
  BY <1>1, <1>2 DEF RegistryInv, RegistryTypeOK
<1>4. CallInv(c)'
  BY <1>3 DEF CallInv
<1>5. QED
  BY <1>1, <1>2, <1>4, LocalStep

(* The look-ups, and the steps of a registration that only end it.         *)
LEMMA QuietStep ==
  ASSUME RegistryInv, NEW c \in Registrations,
         \/ LookUpUser(c) \/ LookUpOwner(c) \/ LookUpFails(c)
         \/ CommitFails(c) \/ Refresh(c) \/ RefreshFails(c)
  PROVE  RegistryInv'
<1> DEFINE there == stage'[c]
           what == answer'[c]
<1>1. /\ stage' = [stage EXCEPT ![c] = there]
      /\ there \in {"checked", "ended"}
      /\ answer' = [answer EXCEPT ![c] = what]
      /\ what \in {"none", "created", "conflict", "not_found", "error"}
      /\ UNCHANGED <<users, accounts, request, row>>
  <2>1. answer[c] = "none"
    BY DEF RegistryInv, CallInv, LookUpUser, LookUpOwner, LookUpFails, CommitFails,
           Refresh, RefreshFails
  <2>2. QED
    BY <2>1 DEF RegistryInv, RegistryTypeOK, LookUpUser, LookUpOwner, LookUpFails,
                CommitFails, Refresh, RefreshFails, Proceed, Reply
<1>2. CallInv(c)'
  <2>1. HasRow(c)' <=> HasRow(c)
    BY <1>1 DEF HasRow
  <2>2. Taken(request[c].email)' <=> Taken(request[c].email)
    BY <1>1 DEF Taken
  <2>3. CallInv(c) /\ stage[c] \in {"asked", "checked", "committed"}
    BY DEF RegistryInv, LookUpUser, LookUpOwner, LookUpFails, CommitFails, Refresh,
           RefreshFails
  <2>4. /\ there = "checked" => stage[c] = "asked" /\ what = "none"
        /\ what = "conflict" => stage[c] = "asked" /\ Taken(request[c].email)
        /\ what = "created" => stage[c] = "committed"
    BY <1>1, <2>3 DEF CallInv, RegistryInv, RegistryTypeOK, LookUpUser, LookUpOwner,
                      LookUpFails, CommitFails, Refresh, RefreshFails, Proceed, Reply
  <2>5. QED
    BY <1>1, <2>1, <2>2, <2>3, <2>4 DEF CallInv
<1>3. request' = [request EXCEPT ![c] = request[c]] /\ request[c] \in Requests \cup {NoRequest}
  BY <1>1 DEF RegistryInv, RegistryTypeOK
<1>4. QED
  BY <1>1, <1>2, <1>3, LocalStep

(* A commit, its answer received or lost.                                  *)
LEMMA CommitStep ==
  ASSUME RegistryInv, NEW c \in Registrations, Commit(c) \/ CommitLost(c)
  PROVE  RegistryInv'
<1>1. Insert(c) /\ UNCHANGED request /\ stage[c] = "checked" /\ answer[c] = "none"
  BY DEF Commit, CommitLost, Insert, InsertUser, InsertAccount, RegistryInv, CallInv
<1>2. /\ TablesGrow
      /\ Owned'
      /\ users' \in Seq(STRING) /\ accounts' \in Seq(AccountRow)
      /\ row' = [row EXCEPT ![c] = row'[c]] /\ row'[c] \in Nat
      /\ HasRow(c)'
  BY <1>1, Inserted
<1>3. \/ stage' = [stage EXCEPT ![c] = "committed"] /\ answer' = answer
      \/ stage' = [stage EXCEPT ![c] = "ended"] /\ answer' = [answer EXCEPT ![c] = "error"]
  BY DEF Commit, CommitLost, Proceed, Reply
<1>4. RegistryTypeOK'
  BY <1>1, <1>2, <1>3 DEF RegistryInv, RegistryTypeOK, AccountRow
<1>5. CallInv(c)'
  <2>1. \/ stage'[c] = "committed" /\ answer'[c] = "none"
        \/ stage'[c] = "ended" /\ answer'[c] = "error"
    BY <1>1, <1>3 DEF RegistryInv, RegistryTypeOK
  <2>2. QED
    BY <1>2, <2>1 DEF CallInv
<1>6. ASSUME NEW d \in Registrations, d # c PROVE CallInv(d)'
  <2>1. /\ stage'[d] = stage[d] /\ request'[d] = request[d]
        /\ row'[d] = row[d] /\ answer'[d] = answer[d]
    BY <1>1, <1>2, <1>3, <1>6 DEF RegistryInv, RegistryTypeOK
  <2>2. QED
    BY <1>2, <2>1, CallInvStable DEF RegistryInv
<1>7. QED
  BY <1>2, <1>4, <1>5, <1>6 DEF RegistryInv

(* A restart forgets nothing that is committed.                            *)
LEMMA KillStep == ASSUME RegistryInv, KillRegistrations PROVE RegistryInv'
<1>1. /\ stage' = [c \in Registrations |-> IF stage[c] = "idle" THEN "idle" ELSE "ended"]
      /\ UNCHANGED <<users, accounts, request, row, answer>>
  BY DEF KillRegistrations
<1>2. Owned' /\ users' \in Seq(STRING) /\ accounts' \in Seq(AccountRow)
  BY <1>1, TablesUnchanged
<1>3. RegistryTypeOK'
  BY <1>1, <1>2 DEF RegistryInv, RegistryTypeOK, AccountRow
<1>4. ASSUME NEW c \in Registrations PROVE CallInv(c)'
  <2>1. \/ stage'[c] = "ended"
        \/ stage[c] = "idle" /\ stage'[c] = "idle"
    BY <1>1
  <2>2. CallInv(c)
    BY DEF RegistryInv
  <2>3. HasRow(c)' <=> HasRow(c)
    BY <1>1 DEF HasRow
  <2>4. Taken(request[c].email)' <=> Taken(request[c].email)
    BY <1>1 DEF Taken
  <2>5. QED
    BY <1>1, <2>1, <2>2, <2>3, <2>4 DEF CallInv
<1>5. QED
  BY <1>2, <1>3, <1>4 DEF RegistryInv

(* Every step keeps the tables and the answers right, and rows stay.       *)
LEMMA RegistryNext ==
  ASSUME RegistryInv, [Next]_vars
  PROVE  RegistryInv' /\ TablesGrow
<1>1. CASE RegistryStep
  <2>1. PICK c \in Registrations : Register(c) \/ \E r \in Requests : Ask(c, r)
    BY <1>1 DEF RegistryStep
  <2>2. CASE Commit(c) \/ CommitLost(c)
    <3>1. TablesGrow
      BY <2>2, Inserted DEF Commit, CommitLost
    <3>2. QED
      BY <2>2, <3>1, CommitStep
  <2>3. CASE \/ LookUpUser(c) \/ LookUpOwner(c) \/ LookUpFails(c)
             \/ CommitFails(c) \/ Refresh(c) \/ RefreshFails(c)
    <3>1. UNCHANGED <<users, accounts>>
      BY <2>3 DEF LookUpUser, LookUpOwner, LookUpFails, CommitFails, Refresh, RefreshFails
    <3>2. QED
      BY <2>3, <3>1, QuietStep, TablesUnchanged
  <2>4. CASE \E r \in Requests : Ask(c, r)
    <3>1. UNCHANGED <<users, accounts>>
      BY <2>4 DEF Ask
    <3>2. QED
      BY <2>4, <3>1, AskStep, TablesUnchanged
  <2>5. QED
    BY <2>1, <2>2, <2>3, <2>4 DEF Register
<1>2. CASE UNCHANGED registry
  <2>1. Owned' /\ RegistryTypeOK' /\ TablesGrow
    BY <1>2, TablesUnchanged DEF registry, RegistryInv, RegistryTypeOK
  <2>2. ASSUME NEW c \in Registrations PROVE CallInv(c)'
    BY <1>2, <2>1, CallInvStable DEF registry, RegistryInv
  <2>3. QED
    BY <2>1, <2>2 DEF RegistryInv
<1>3. CASE Restart
  BY <1>3, KillStep, TablesUnchanged DEF Restart, KillRegistrations
<1>4. QED
  BY <1>1, <1>2, <1>3 DEF Next, BatchStep, vars, registry

(* The invariant of the registry.                                          *)
THEOREM RegistryInvariant == Spec => []RegistryInv
<1>1. Init => RegistryInv
  BY RegistryInit DEF Init
<1>2. RegistryInv /\ [Next]_vars => RegistryInv'
  BY RegistryNext
<1>3. QED
  BY <1>1, <1>2, PTL DEF Spec

(* What the caller of a registration is told is so, and stays so.          *)
THEOREM AnswersStayTrue == Spec => []AnswersAreTrue
<1>1. RegistryInv => AnswersAreTrue
  <2> SUFFICES ASSUME RegistryInv, NEW c \in Registrations
               PROVE  LET r == request[c] IN
                 /\ answer[c] = "created" /\ r.table = "users" =>
                      row[c] \in DOMAIN users /\ users[row[c]] = r.email
                 /\ answer[c] = "created" /\ r.table = "accounts" =>
                      /\ row[c] \in DOMAIN accounts
                      /\ accounts[row[c]] = [user_id |-> r.user_id, exchange |-> r.exchange]
                      /\ Exists(r.user_id)
                 /\ answer[c] = "conflict" => Taken(r.email) /\ row[c] = 0
    BY DEF AnswersAreTrue
  <2>1. CallInv(c) /\ Owned
    BY DEF RegistryInv
  <2>2. QED
    BY <2>1 DEF CallInv, HasRow, Owned
<1>2. QED
  BY <1>1, RegistryInvariant, PTL
-----------------------------------------------------------------------------
OrderInputs ==
  [balance : Int, risk : Int, leverage : Int, price : Int, side : {"buy", "sell"},
   step : Int, min_quantity : {m.min_quantity : m \in Markets},
   min_notional : {m.min_notional : m \in Markets}]

Items == [account_id : Nat, input : OrderInputs, quantity : Nat,
          is_valid : BOOLEAN, status : {"none", "dry_run_only", "validation_failed"}]

(* An item is about its place in the request and says what the sizing said. *)
ItemOf(b, i) ==
  LET item == results[b][i]
      j == job[b]
  IN /\ i <= Len(j.ids) /\ item.account_id = j.ids[i]
     /\ IsRegistered(item.account_id) /\ IsSupported(item.account_id)
     /\ item.input.risk = j.risk /\ item.input.leverage = j.leverage
     /\ <<item.account_id, item.input.balance>> \in Balances
     /\ item.quantity = Quantity(item.input)
     /\ item.is_valid = IsValid(item.input)
     /\ j.route = "dispatch" => item.status = DispatchStatus(item.input)

AtWork(b) == pc[b] \in {"loop", "balance", "market", "adapter"}
IsAnswer(what) == what \in {"ok", "not_connected", "dry_run_only"}
WithinLimits(j) ==
  IsCopier(j) => IdsAccepted(j.ids) /\ RiskAccepted(j.risk, j.leverage, Len(j.ids))
IsUsable(id) == IsRegistered(id) /\ IsSupported(id)

BatchInv(b) ==
  /\ pos[b] = Len(results[b]) + 1
  /\ pc[b] = "idle" => results[b] = <<>>
  /\ AtWork(b) \/ results[b] # <<>> \/ IsAnswer(reply[b]) =>
       job[b] \in Jobs /\ WithinLimits(job[b])
  /\ AtWork(b) => ~IsForbidden(job[b])
  /\ pc[b] \in {"balance", "market", "adapter"} =>
       pos[b] <= Len(job[b].ids) /\ IsUsable(Id(b))
  /\ pc[b] = "adapter" => ~IsSizing(job[b])
  /\ pc[b] = "market" => <<Id(b), balance[b]>> \in Balances
  /\ \A i \in DOMAIN results[b] : ItemOf(b, i)
  /\ IsAnswer(reply[b]) =>
       /\ IsSizing(job[b]) => Len(results[b]) = Len(job[b].ids)
       /\ \A i \in DOMAIN job[b].ids : IsUsable(job[b].ids[i])
  /\ pc[b] = "idle" \/ AtWork(b) => reply[b] = "none"

BatchTypes ==
  /\ live \in BOOLEAN
  /\ pc \in [Batches -> {"idle", "loop", "balance", "market", "adapter", "ended"}]
  /\ job \in [Batches -> Jobs \cup {NoJob}]
  /\ pos \in [Batches -> Nat]
  /\ balance \in [Batches -> Int]
  /\ results \in [Batches -> Seq(Items)]
  /\ reply \in [Batches -> Replies]

BatchesInv == BatchTypes /\ \A b \in Batches : BatchInv(b)

(* What an item says of the tables stays true as they grow.                *)
LEMMA ItemStable ==
  ASSUME NEW b \in Batches, NEW i, ItemOf(b, i), TablesGrow,
         job'[b] = job[b], results'[b] = results[b]
  PROVE  ItemOf(b, i)'
  BY DEF ItemOf, IsRegistered, IsSupported, TablesGrow

(* A batch that takes no step keeps its part of the invariant.             *)
LEMMA BatchStable ==
  ASSUME NEW b \in Batches, BatchInv(b), TablesGrow,
         pc'[b] = pc[b], job'[b] = job[b], pos'[b] = pos[b],
         balance'[b] = balance[b], results'[b] = results[b], reply'[b] = reply[b],
         AtWork(b) => live' = live
  PROVE  BatchInv(b)'
<1>1. ASSUME NEW i \in DOMAIN results[b] PROVE ItemOf(b, i)'
  BY <1>1, ItemStable DEF BatchInv
<1>2. \A id : IsUsable(id) => IsUsable(id)'
  BY DEF IsUsable, IsRegistered, IsSupported, TablesGrow
<1>3. AtWork(b)' <=> AtWork(b)
  BY DEF AtWork
<1>4. Id(b)' = Id(b) /\ (AtWork(b) => (IsForbidden(job[b])' <=> IsForbidden(job[b])))
  BY DEF Id, IsForbidden
<1>5. pc[b] \in {"balance", "market", "adapter"} => IsUsable(Id(b))'
  BY <1>2, <1>4 DEF BatchInv, IsUsable, IsRegistered, IsSupported, Id
<1>6. IsAnswer(reply[b]) => \A i \in DOMAIN job[b].ids : IsUsable(job[b].ids[i])'
  BY <1>2 DEF BatchInv, IsUsable, IsRegistered, IsSupported
<1>7. QED
  BY <1>1, <1>3, <1>4, <1>5, <1>6 DEF BatchInv, WithinLimits, IsCopier, IsSizing

(* A batch that ends with the results it has.                              *)
LEMMA BatchEnds ==
  ASSUME BatchesInv, NEW b \in Batches, UNCHANGED <<accounts, job, pos, results>>,
         NEW what \in Replies,
         reply' = [reply EXCEPT ![b] = what],
         pc' = [pc EXCEPT ![b] = "ended"],
         IsAnswer(what) =>
           /\ IsSizing(job[b]) => Len(results[b]) = Len(job[b].ids)
           /\ \A i \in DOMAIN job[b].ids : IsUsable(job[b].ids[i])
           /\ job[b] \in Jobs /\ WithinLimits(job[b])
  PROVE  BatchInv(b)'
<1>1. pc'[b] = "ended" /\ reply'[b] = what /\ ~AtWork(b)'
  BY DEF BatchesInv, BatchTypes, AtWork
<1>2. \A i \in DOMAIN results[b] : ItemOf(b, i)'
  BY DEF BatchesInv, BatchInv, ItemOf, IsRegistered, IsSupported
<1>3. WithinLimits(job[b])' <=> WithinLimits(job[b])
  BY DEF WithinLimits, IsCopier
<1>4. \A id : IsUsable(id)' <=> IsUsable(id)
  BY DEF IsUsable, IsRegistered, IsSupported
<1>5. IsAnswer(what) => \A i \in DOMAIN job'[b].ids : IsUsable(job[b].ids[i])'
  BY <1>4 DEF IsUsable, IsRegistered, IsSupported
<1>6. QED
  BY <1>1, <1>2, <1>3, <1>5 DEF BatchesInv, BatchInv, IsSizing

(* An item made of what was read fits the request.                         *)
LEMMA ItemType ==
  ASSUME BatchesInv, NEW b \in Batches, job[b] \in Jobs,
         NEW m \in Markets, m.step # None, Id(b) \in Nat
  PROVE  /\ Item(b, m) \in Items
         /\ Item(b, m).account_id = Id(b)
         /\ Item(b, m).input.risk = job[b].risk
         /\ Item(b, m).input.leverage = job[b].leverage
         /\ Item(b, m).input.balance = balance[b]
         /\ Item(b, m).quantity = Quantity(Item(b, m).input)
         /\ Item(b, m).is_valid = IsValid(Item(b, m).input)
         /\ job[b].route = "dispatch" =>
              Item(b, m).status = DispatchStatus(Item(b, m).input)
<1> DEFINE i == OrderInput(b, m)
<1>1. /\ i \in OrderInputs /\ i.risk = job[b].risk /\ i.leverage = job[b].leverage
      /\ i.balance = balance[b]
  <2>1. /\ balance[b] \in Int /\ job[b].risk \in Int /\ job[b].leverage \in Int
        /\ job[b].price \in Int /\ m.step \in Int
    BY StoredAssumption DEF BatchesInv, BatchTypes
  <2>2. NormalSide(job[b].side) \in {"buy", "sell"}
    BY DEF NormalSide
  <2>3. QED
    BY <2>1, <2>2 DEF OrderInput, OrderInputs
<1> HIDE DEF i
<1>2. Quantity(i) \in Nat
  BY <1>1, QuantityFits DEF OrderInputs
<1> DEFINE valid == IsValid(i)
           status == IF job[b].route = "dispatch" THEN DispatchStatus(i) ELSE "none"
<1>3. valid \in BOOLEAN
  BY Zenon DEF IsValid, Sizeable, WithinMinimums
<1>4. status \in {"none", "dry_run_only", "validation_failed"}
  BY Zenon DEF DispatchStatus
<1>5. Item(b, m) = [account_id |-> Id(b), input |-> i, quantity |-> Quantity(i),
                    is_valid |-> valid, status |-> status]
  BY Zenon DEF Item, i
<1>6. valid = IsValid(i) /\ (job[b].route = "dispatch" => status = DispatchStatus(i))
  BY Zenon
<1> HIDE DEF valid, status
<1>7. /\ Item(b, m) \in Items
      /\ Item(b, m).account_id = Id(b) /\ Item(b, m).input = i
      /\ Item(b, m).quantity = Quantity(i)
      /\ Item(b, m).is_valid = valid /\ Item(b, m).status = status
  BY <1>1, <1>2, <1>3, <1>4, <1>5 DEF Items
<1>8. QED
  BY <1>1, <1>6, <1>7, Zenon

(* Nothing is done for a batch at the start.                               *)
LEMMA BatchesInit == Init => BatchesInv
<1> SUFFICES ASSUME Init PROVE BatchesInv
  OBVIOUS
<1>1. BatchTypes
  BY DEF Init, BatchTypes, Replies
<1>2. ASSUME NEW b \in Batches PROVE BatchInv(b)
  BY DEF Init, BatchInv, AtWork, IsAnswer
<1>3. QED
  BY <1>1, <1>2 DEF BatchesInv

(* A step of a batch that gathers no item and keeps its job.               *)
LEMMA BatchMoves ==
  ASSUME BatchesInv, NEW b \in Batches,
         LoadAccount(b) \/ FetchBalance(b), UNCHANGED registry
  PROVE  BatchTypes' /\ BatchInv(b)'
<1>1. /\ AtWork(b) /\ AtWork(b)'
      /\ pc'[b] \in {"balance", "market", "adapter"}
      /\ pc' = [pc EXCEPT ![b] = pc'[b]]
      /\ pc'[b] = "adapter" => ~IsSizing(job[b])
      /\ UNCHANGED <<live, job, pos, results, reply, accounts>>
      /\ balance' \in [Batches -> Int]
      /\ pc'[b] = "market" => <<Id(b), balance'[b]>> \in Balances
  <2>1. CASE LoadAccount(b)
    BY <2>1 DEF BatchesInv, BatchTypes, AtWork, LoadAccount, AtAccount, Goto, registry
  <2>2. CASE FetchBalance(b)
    <3>1. PICK r \in Balances : r[1] = Id(b) /\ balance' = [balance EXCEPT ![b] = r[2]]
      BY <2>2 DEF FetchBalance
    <3>2. r[2] \in Int /\ r = <<r[1], r[2]>>
      BY StoredAssumption
    <3>3. balance' \in [Batches -> Int] /\ <<Id(b), balance'[b]>> \in Balances
      BY <3>1, <3>2 DEF BatchesInv, BatchTypes
    <3>4. QED
      BY <2>2, <3>3 DEF BatchesInv, BatchTypes, AtWork, FetchBalance, Goto, registry
  <2>3. QED
    BY <2>1, <2>2
<1>2. BatchTypes'
  BY <1>1 DEF BatchesInv, BatchTypes
<1>3. \A i \in DOMAIN results[b] : ItemOf(b, i)'
  BY <1>1 DEF BatchesInv, BatchInv, ItemOf, IsRegistered, IsSupported
<1>4. pos[b] <= Len(job[b].ids) /\ IsUsable(Id(b))
  BY DEF BatchesInv, BatchInv, LoadAccount, FetchBalance, AtAccount, IsUsable
<1>5. IsUsable(Id(b))'
  BY <1>1, <1>4 DEF IsUsable, IsRegistered, IsSupported, Id
<1>6. reply'[b] = "none" /\ ~IsForbidden(job[b])'
      /\ job'[b] \in Jobs /\ WithinLimits(job[b])'
  BY <1>1 DEF BatchesInv, BatchInv, IsForbidden, WithinLimits, IsCopier
<1>7. /\ pc'[b] = "adapter" => ~IsSizing(job[b])'
      /\ pc'[b] = "market" => <<Id(b), balance[b]>>' \in Balances
  BY <1>1 DEF IsSizing, Id
<1>8. QED
  BY <1>1, <1>2, <1>3, <1>4, <1>5, <1>6, <1>7 DEF BatchesInv, BatchInv, IsAnswer

(* An exception, an answer, or what the adapter of the one account says.   *)
LEMMA BatchStops ==
  ASSUME BatchesInv, NEW b \in Batches, UNCHANGED registry,
         \/ AccountFails(b) \/ ExchangeFails(b) \/ Answer(b)
         \/ Query(b) \/ QueryFails(b) \/ PlaceMarketOrder(b)
  PROVE  BatchTypes' /\ BatchInv(b)'
<1>1. /\ AtWork(b)
      /\ pc' = [pc EXCEPT ![b] = "ended"]
      /\ UNCHANGED <<live, job, pos, balance, results, accounts>>
  BY DEF AtWork, AccountFails, ExchangeFails, Answer, Query, QueryFails, PlaceMarketOrder,
         AtAccount, EndWith, Goto, registry
<1>2. PICK what \in Replies :
        /\ reply' = [reply EXCEPT ![b] = what]
        /\ IsAnswer(what) => Answer(b) \/ pc[b] = "adapter"
  BY DEF AccountFails, ExchangeFails, Answer, Query, QueryFails, PlaceMarketOrder, EndWith,
         Replies, IsAnswer
<1>3. BatchTypes'
  BY <1>1, <1>2 DEF BatchesInv, BatchTypes
<1>4. /\ job[b] \in Jobs /\ WithinLimits(job[b])
      /\ pos[b] = Len(results[b]) + 1 /\ results[b] \in Seq(Items)
      /\ job[b].ids \in Seq(Nat)
      /\ \A i \in DOMAIN results[b] : ItemOf(b, i)
  BY <1>1, StoredAssumption DEF BatchesInv, BatchTypes, BatchInv
<1>5. /\ Len(results[b]) \in Nat /\ Len(job[b].ids) \in Nat
      /\ DOMAIN results[b] = 1 .. Len(results[b])
      /\ DOMAIN job[b].ids = 1 .. Len(job[b].ids)
  BY <1>4
<1>6. ASSUME Answer(b)
      PROVE  /\ Len(results[b]) = Len(job[b].ids)
             /\ \A i \in DOMAIN job[b].ids : IsUsable(job[b].ids[i])
  <2>1. pos[b] > Len(job[b].ids) /\ \A i \in DOMAIN results[b] : i <= Len(job[b].ids)
    BY <1>4, <1>6 DEF Answer, ItemOf
  <2>2. Len(results[b]) = Len(job[b].ids)
    <3>1. Len(results[b]) + 1 > Len(job[b].ids)
      BY <1>4, <2>1
    <3>2. Len(results[b]) <= Len(job[b].ids)
      BY <1>5, <2>1
    <3>3. QED
      BY <1>5, <3>1, <3>2
  <2>3. QED
    BY <1>4, <1>5, <2>2 DEF ItemOf, IsUsable
<1>7. ASSUME pc[b] = "adapter"
      PROVE  /\ ~IsSizing(job[b])
             /\ \A i \in DOMAIN job[b].ids : IsUsable(job[b].ids[i])
  <2>1. ~IsSizing(job[b]) /\ pos[b] <= Len(job[b].ids) /\ IsUsable(Id(b))
    BY <1>7 DEF BatchesInv, BatchInv
  <2>2. Len(job[b].ids) = 1
    BY <1>4, <2>1, StoredAssumption DEF IsSizing, SizingRoutes
  <2>3. pos[b] = 1
    BY <1>4, <1>5, <2>1, <2>2
  <2>4. QED
    BY <1>5, <2>1, <2>2, <2>3 DEF Id
<1>8. BatchInv(b)'
  BY <1>1, <1>2, <1>4, <1>6, <1>7, BatchEnds
<1>9. QED
  BY <1>3, <1>8

(* A request is admitted, or refused at once.                              *)
LEMMA BatchBegins ==
  ASSUME BatchesInv, NEW b \in Batches, NEW j \in Jobs, Begin(b, j), UNCHANGED registry
  PROVE  BatchTypes' /\ BatchInv(b)'
<1>1. /\ pc[b] = "idle" /\ results[b] = <<>> /\ reply[b] = "none"
      /\ job' = [job EXCEPT ![b] = j]
      /\ UNCHANGED <<live, pos, balance, results>>
  BY DEF Begin, BatchesInv, BatchInv
<1>2. \/ /\ IsAdmitted(j)
         /\ pc' = [pc EXCEPT ![b] = "loop"] /\ reply' = reply
      \/ /\ pc' = [pc EXCEPT ![b] = "ended"]
         /\ \/ reply' = [reply EXCEPT ![b] = "forbidden"]
            \/ reply' = [reply EXCEPT ![b] = "bad_request"]
  BY DEF Begin, EndWith, Goto
<1>3. BatchTypes'
  BY <1>1, <1>2 DEF BatchesInv, BatchTypes, Replies
<1>4. job'[b] = j /\ results'[b] = <<>> /\ pos'[b] = Len(results'[b]) + 1
  BY <1>1 DEF BatchesInv, BatchTypes, BatchInv
<1>5. \/ pc'[b] = "loop" /\ reply'[b] = "none" /\ IsAdmitted(j)
      \/ pc'[b] = "ended" /\ reply'[b] \in {"forbidden", "bad_request"}
  BY <1>1, <1>2 DEF BatchesInv, BatchTypes
<1>6. IsAdmitted(j) => WithinLimits(j)
  BY DEF IsAdmitted, WithinLimits
<1>7. /\ WithinLimits(job[b])' <=> WithinLimits(j)
      /\ IsForbidden(job[b])' <=> IsForbidden(j)
  BY <1>1, <1>4 DEF WithinLimits, IsCopier, IsForbidden
<1>8. \A i \in DOMAIN results'[b] : ItemOf(b, i)'
  BY <1>4
<1>9. IsAdmitted(j) => ~IsForbidden(j)
  BY DEF IsAdmitted
<1>10. QED
  BY <1>3, <1>4, <1>5, <1>6, <1>7, <1>8, <1>9 DEF BatchInv, AtWork, IsAnswer

(* An account is done: its item is added.                                  *)
LEMMA BatchProcesses ==
  ASSUME BatchesInv, NEW b \in Batches, Process(b), UNCHANGED registry
  PROVE  BatchTypes' /\ BatchInv(b)'
<1>1. PICK m \in Markets :
        m.step # None /\ results' = [results EXCEPT ![b] = Append(@, Item(b, m))]
  BY DEF Process
<1>2. /\ pc[b] = "market"
      /\ pos' = [pos EXCEPT ![b] = @ + 1] /\ pc' = [pc EXCEPT ![b] = "loop"]
      /\ UNCHANGED <<live, job, balance, reply, accounts>>
  BY DEF Process, Goto, registry
<1>3. /\ job[b] \in Jobs /\ WithinLimits(job[b])
      /\ pos[b] = Len(results[b]) + 1 /\ pos[b] <= Len(job[b].ids)
      /\ IsRegistered(Id(b)) /\ IsSupported(Id(b)) /\ reply[b] = "none"
      /\ ~IsForbidden(job[b]) /\ <<Id(b), balance[b]>> \in Balances
      /\ results[b] \in Seq(Items) /\ job[b].ids \in Seq(Nat)
      /\ \A i \in DOMAIN results[b] : ItemOf(b, i)
  BY <1>2, StoredAssumption DEF BatchesInv, BatchTypes, BatchInv, AtWork, IsUsable
<1>4. Id(b) = job[b].ids[Len(results[b]) + 1] /\ Id(b) \in Nat
  BY <1>3 DEF Id
<1>5. /\ Item(b, m) \in Items
      /\ Item(b, m).account_id = Id(b)
      /\ Item(b, m).input.risk = job[b].risk
      /\ Item(b, m).input.leverage = job[b].leverage
      /\ Item(b, m).input.balance = balance[b]
      /\ Item(b, m).quantity = Quantity(Item(b, m).input)
      /\ Item(b, m).is_valid = IsValid(Item(b, m).input)
      /\ job[b].route = "dispatch" =>
           Item(b, m).status = DispatchStatus(Item(b, m).input)
  BY <1>1, <1>3, <1>4, ItemType
<1> DEFINE s == results[b]
           e == Item(b, m)
<1>6. results'[b] = Append(s, e)
  BY <1>1 DEF BatchesInv, BatchTypes
<1>7. /\ results'[b] \in Seq(Items) /\ Len(results'[b]) = Len(s) + 1
      /\ DOMAIN results'[b] = DOMAIN s \cup {Len(s) + 1}
      /\ \A i \in DOMAIN s : results'[b][i] = s[i]
      /\ results'[b][Len(s) + 1] = e
      /\ Len(s) \in Nat
  BY <1>3, <1>5, <1>6, Appended
<1>8. BatchTypes'
  BY <1>1, <1>2, <1>3, <1>6, <1>7 DEF BatchesInv, BatchTypes
<1>9. ASSUME NEW i \in DOMAIN s PROVE ItemOf(b, i)'
  BY <1>2, <1>3, <1>7, <1>9 DEF ItemOf, IsRegistered, IsSupported
<1>10. ASSUME NEW n, n = Len(s) + 1 PROVE ItemOf(b, n)'
  <2>1. /\ results'[b][n] = e /\ job' = job /\ accounts' = accounts
        /\ n <= Len(job[b].ids) /\ Id(b) = job[b].ids[n]
    BY <1>2, <1>3, <1>4, <1>7, <1>10
  <2>2. QED
    BY <1>3, <1>5, <2>1, Zenon DEF ItemOf, IsRegistered, IsSupported
<1>11. pc'[b] = "loop" /\ pos'[b] = Len(results'[b]) + 1 /\ reply'[b] = "none"
  BY <1>2, <1>3, <1>7 DEF BatchesInv, BatchTypes
<1>12. job'[b] \in Jobs /\ WithinLimits(job[b])' /\ ~IsForbidden(job[b])'
  BY <1>2, <1>3 DEF WithinLimits, IsCopier, IsForbidden
<1>13. \A i \in DOMAIN results'[b] : ItemOf(b, i)'
  BY <1>7, <1>9, <1>10
<1>14. QED
  BY <1>8, <1>11, <1>12, <1>13 DEF BatchInv, AtWork, IsAnswer

(* Every step of a batch, of the registry or of the process keeps it.      *)
LEMMA BatchesNext ==
  ASSUME RegistryInv, BatchesInv, [Next]_vars PROVE BatchesInv'
<1>1. TablesGrow
  BY RegistryNext
<1>2. CASE BatchStep
  <2>1. PICK b \in Batches : Advance(b) \/ \E j \in Jobs : Begin(b, j)
    BY <1>2 DEF BatchStep
  <2>2. BatchTypes' /\ BatchInv(b)'
    <3>1. UNCHANGED registry
      BY <1>2 DEF BatchStep
    <3>2. QED
      BY <2>1, <3>1, BatchMoves, BatchStops, BatchBegins, BatchProcesses DEF Advance
  <2>3. ASSUME NEW d \in Batches, d # b PROVE BatchInv(d)'
    <3>1. /\ pc'[d] = pc[d] /\ job'[d] = job[d] /\ pos'[d] = pos[d]
          /\ balance'[d] = balance[d]
          /\ results'[d] = results[d] /\ reply'[d] = reply[d] /\ live' = live
      BY <2>1, <2>3
      DEF Advance, LoadAccount, AccountFails, FetchBalance, Process, ExchangeFails, Query,
          QueryFails, PlaceMarketOrder, Answer, Begin, EndWith, Goto, BatchesInv, BatchTypes
    <3>2. QED
      BY <1>1, <3>1, BatchStable DEF BatchesInv
  <2>4. QED
    BY <2>2, <2>3 DEF BatchesInv
<1>3. CASE UNCHANGED <<live, batch>>
  <2>1. BatchTypes'
    BY <1>3 DEF batch, BatchesInv, BatchTypes
  <2>2. ASSUME NEW d \in Batches PROVE BatchInv(d)'
    BY <1>1, <1>3, BatchStable DEF batch, BatchesInv
  <2>3. QED
    BY <2>1, <2>2 DEF BatchesInv
<1>4. CASE Restart
  <2>1. /\ pc' = [b \in Batches |-> IF pc[b] = "idle" THEN "idle" ELSE "ended"]
        /\ live' \in BOOLEAN
        /\ UNCHANGED <<job, pos, balance, results, reply, accounts>>
    BY <1>4 DEF Restart, KillRegistrations
  <2>2. BatchTypes'
    BY <2>1 DEF BatchesInv, BatchTypes
  <2>3. ASSUME NEW d \in Batches PROVE BatchInv(d)'
    <3>1. CASE pc[d] = "idle"
      <4>1. pc'[d] = pc[d] /\ ~AtWork(d)
        BY <2>1, <3>1 DEF AtWork
      <4>2. QED
        BY <1>1, <2>1, <4>1, BatchStable DEF BatchesInv
    <3>2. CASE pc[d] # "idle"
      <4>1. pc'[d] = "ended"
        BY <2>1, <3>2
      <4>2. \A i \in DOMAIN results[d] : ItemOf(d, i)'
        BY <2>1 DEF BatchesInv, BatchInv, ItemOf, IsRegistered, IsSupported
      <4>3. /\ WithinLimits(job[d])' <=> WithinLimits(job[d])
            /\ \A id : IsUsable(id)' <=> IsUsable(id)
        BY <2>1 DEF WithinLimits, IsCopier, IsUsable, IsRegistered, IsSupported
      <4>4. QED
        BY <2>1, <4>1, <4>2, <4>3
        DEF BatchesInv, BatchInv, AtWork, IsUsable, IsRegistered, IsSupported, IsSizing
    <3>3. QED
      BY <3>1, <3>2
  <2>4. QED
    BY <2>2, <2>3 DEF BatchesInv
<1>5. QED
  BY <1>2, <1>3, <1>4 DEF Next, RegistryStep, vars, batch

(* The invariant of tables and batches.                                    *)
THEOREM StoredInvariant == Spec => [](RegistryInv /\ BatchesInv)
<1>1. Init => RegistryInv /\ BatchesInv
  BY RegistryInit, BatchesInit DEF Init
<1>2. RegistryInv /\ BatchesInv /\ [Next]_vars => RegistryInv' /\ BatchesInv'
  BY RegistryNext, BatchesNext
<1>3. QED
  BY <1>1, <1>2, PTL DEF Spec

(* The variables of tables, registrations and batches keep their types.    *)
THEOREM StoredTypeCorrect == Spec => []TypeOK
<1>1. RegistryInv /\ BatchesInv => TypeOK
  BY DEF RegistryInv, BatchesInv, BatchTypes, BatchInv, TypeOK
<1>2. QED
  BY <1>1, StoredInvariant, PTL

(* An answer has an item for every account to be sized, in order, and is   *)
(* about registered, supported and owned accounts.                         *)
THEOREM AnswersMissNothing == Spec => []AnswersAreWhole
<1>1. RegistryInv /\ BatchesInv => AnswersAreWhole
  <2> SUFFICES ASSUME RegistryInv, BatchesInv, NEW b \in Batches, IsAnswer(reply[b])
               PROVE  /\ IsSizing(job[b]) =>
                           [i \in DOMAIN results[b] |-> results[b][i].account_id] = job[b].ids
                      /\ \A i \in DOMAIN job[b].ids :
                           LET id == job[b].ids[i]
                           IN /\ IsRegistered(id) /\ IsSupported(id)
                              /\ Exists(accounts[id].user_id)
    BY DEF AnswersAreWhole, IsAnswer
  <2>1. /\ job[b] \in Jobs /\ results[b] \in Seq(Items) /\ job[b].ids \in Seq(Nat)
        /\ IsSizing(job[b]) => Len(results[b]) = Len(job[b].ids)
        /\ \A i \in DOMAIN results[b] : ItemOf(b, i)
        /\ \A i \in DOMAIN job[b].ids : IsUsable(job[b].ids[i])
    BY StoredAssumption DEF BatchesInv, BatchTypes, BatchInv
  <2>2. \A i \in DOMAIN job[b].ids : Exists(accounts[job[b].ids[i]].user_id)
    BY <2>1 DEF RegistryInv, Owned, IsUsable, IsRegistered
  <2>3. ASSUME IsSizing(job[b])
        PROVE  [i \in DOMAIN results[b] |-> results[b][i].account_id] = job[b].ids
    <3>1. DOMAIN results[b] = DOMAIN job[b].ids
      BY <2>1, <2>3
    <3>2. \A i \in DOMAIN results[b] : results[b][i].account_id = job[b].ids[i]
      BY <2>1 DEF ItemOf
    <3>3. job[b].ids = [i \in DOMAIN job[b].ids |-> job[b].ids[i]]
      BY <2>1
    <3>4. QED
      BY <3>1, <3>2, <3>3
  <2>4. QED
    BY <2>1, <2>2, <2>3 DEF IsUsable
<1>2. QED
  BY <1>1, StoredInvariant, PTL

(* No account is committed to more than the limits allow of its balance.   *)
THEOREM LimitsHold == Spec => []ExposureIsLimited
<1>1. BatchesInv => ExposureIsLimited
  <2> SUFFICES ASSUME BatchesInv, NEW b \in Batches, NEW i \in DOMAIN results[b],
                      NEW k \in DOMAIN results[b], IsCopier(job[b])
               PROVE  LET item == results[b][i] IN
                      /\ item.account_id = results[b][k].account_id => i = k
                      /\ <<item.account_id, item.input.balance>> \in Balances
                      /\ item.quantity > 0 =>
                           item.quantity * item.input.price
                             <= MaxRisk * MaxLeverage * item.input.balance
    BY DEF ExposureIsLimited
  <2> DEFINE item == results[b][i]
             in == item.input
  <2>1. /\ results[b] \in Seq(Items) /\ results[b] # <<>>
        /\ ItemOf(b, i) /\ ItemOf(b, k)
    <3>1. BatchTypes /\ BatchInv(b)
      BY DEF BatchesInv
    <3>2. ItemOf(b, i) /\ ItemOf(b, k)
      BY <3>1 DEF BatchInv
    <3>3. QED
      BY <3>1, <3>2 DEF BatchTypes
  <2>2. /\ job[b] \in Jobs /\ IdsAccepted(job[b].ids)
        /\ RiskAccepted(job[b].risk, job[b].leverage, Len(job[b].ids))
        /\ job[b].ids \in Seq(Nat)
    BY <2>1, StoredAssumption DEF BatchesInv, BatchInv, WithinLimits
  <2>3. item.account_id = results[b][k].account_id => i = k
    <3>1. i \in DOMAIN job[b].ids /\ k \in DOMAIN job[b].ids
      BY <2>1, <2>2 DEF ItemOf
    <3>2. QED
      BY <2>1, <2>2, <3>1 DEF ItemOf, IdsAccepted
  <2>4. ASSUME item.quantity > 0
        PROVE  item.quantity * in.price <= MaxRisk * MaxLeverage * in.balance
    <3>1. in \in OrderInputs /\ item.quantity = Quantity(in)
          /\ in.risk \in 1 .. MaxRisk /\ in.leverage \in 1 .. MaxLeverage
      <4>1. item \in Items
        BY <2>1
      <4>2. in \in OrderInputs
        BY <4>1 DEF Items
      <4>3. item.quantity = Quantity(in)
            /\ in.risk = job[b].risk /\ in.leverage = job[b].leverage
        BY <2>1, Zenon DEF ItemOf
      <4>4. QED
        BY <2>2, <4>2, <4>3 DEF RiskAccepted
    <3>2. /\ in.balance \in Int /\ in.risk \in Int /\ in.leverage \in Int
          /\ in.price \in Int /\ in.step \in Int
      BY <3>1 DEF OrderInputs
    <3>3. Sizeable(in) /\ Quantity(in) * in.price <= Target(in) /\ Quantity(in) \in Nat
      BY <2>4, <3>1, <3>2, QuantityFits
    <3> DEFINE a == in.balance
               r == in.risk
               l == in.leverage
    <3>4. /\ a \in Nat /\ r \in Nat /\ l \in Nat /\ r <= MaxRisk /\ l <= MaxLeverage
          /\ MaxRisk \in Nat /\ MaxLeverage \in Nat
      BY <3>1, <3>2, <3>3, LimitsAssumption DEF Sizeable
    <3>5. Target(in) = a * r * l
      BY DEF Target
    <3> HIDE DEF a, r, l
    <3>6. a * r <= a * MaxRisk /\ a * r \in Nat /\ a * MaxRisk \in Nat
      BY <3>4, ProductMonotone
    <3>7. (a * r) * l <= (a * r) * MaxLeverage
      BY <3>4, <3>6, ProductMonotone
    <3>8. MaxLeverage * (a * r) <= MaxLeverage * (a * MaxRisk)
      BY <3>4, <3>6, ProductMonotone
    <3>9. a * r * l <= MaxRisk * MaxLeverage * a
      BY <3>4, <3>6, <3>7, <3>8
    <3>10. Quantity(in) * in.price <= MaxRisk * MaxLeverage * a
      BY <3>1, <3>2, <3>3, <3>4, <3>5, <3>9
    <3>11. QED
      BY <3>1, <3>10 DEF a
  <2>5. <<item.account_id, in.balance>> \in Balances
    BY <2>1 DEF ItemOf
  <2>6. QED
    BY <2>3, <2>4, <2>5
<1>2. QED
  BY <1>1, StoredInvariant, PTL

(* A valid input with something to order has no error left.                *)
LEMMA ValidHasNoErrors ==
  ASSUME NEW i \in OrderInputs, IsValid(i), Quantity(i) # 0
  PROVE  RequestErrors(i, Quantity(i)) = {}
<1>1. /\ i.balance \in Int /\ i.risk \in Int /\ i.leverage \in Int
      /\ i.price \in Int /\ i.step \in Int /\ i.side \in {"buy", "sell"}
  BY DEF OrderInputs
<1>2. Sizeable(i) /\ WithinMinimums(i, Quantity(i))
  BY DEF IsValid
<1>3. Quantity(i) \in Nat /\ Quantity(i) % i.step = 0
  BY <1>1, <1>2, QuantityFits
<1>4. i.price > 0 /\ Quantity(i) > 0
  BY <1>1, <1>2, <1>3 DEF Sizeable
<1>5. ~Below(Quantity(i), i.min_quantity) /\ ~Below(Quantity(i) * i.price, i.min_notional)
  BY <1>2 DEF WithinMinimums
<1>6. QED
  BY <1>1, <1>3, <1>4, <1>5 DEF RequestErrors

(* A valid item of a dispatch reached the adapter, or has nothing to order. *)
THEOREM ValidItemsReachTheAdapter == Spec => []ValidItemsAreDispatched
<1>1. BatchesInv => ValidItemsAreDispatched
  <2> SUFFICES ASSUME BatchesInv, NEW b \in Batches, NEW i \in DOMAIN results[b],
                      job[b].route = "dispatch", results[b][i].is_valid,
                      results[b][i].quantity # 0
               PROVE  results[b][i].status = "dry_run_only"
    BY DEF ValidItemsAreDispatched
  <2> DEFINE item == results[b][i]
  <2>1. results[b] \in Seq(Items) /\ ItemOf(b, i)
    BY DEF BatchesInv, BatchTypes, BatchInv
  <2>2. item \in Items
    BY <2>1
  <2>3. item.input \in OrderInputs
    BY <2>2 DEF Items
  <2>4. /\ item.quantity = Quantity(item.input) /\ item.is_valid = IsValid(item.input)
        /\ item.status = DispatchStatus(item.input)
    BY <2>1, Zenon DEF ItemOf
  <2>5. IsValid(item.input) /\ Quantity(item.input) # 0
    BY <2>4, Zenon
  <2>6. RequestErrors(item.input, Quantity(item.input)) = {}
    BY <2>3, <2>5, ValidHasNoErrors
  <2>7. QED
    BY <2>4, <2>5, <2>6, Zenon DEF DispatchStatus
<1>2. QED
  BY <1>1, StoredInvariant, PTL

(* The orders of a batch that takes no step, or one that neither gathers   *)
(* an item nor answers with an order.                                      *)
LEMMA HandedUnchanged ==
  ASSUME NEW b \in Batches, results'[b] = results[b],
         reply'[b] = "dry_run_only" <=> reply[b] = "dry_run_only"
  PROVE  Handed(b)' = Handed(b)
  BY DEF Handed

(* A step of a batch hands no order over while the setting is off.         *)
LEMMA BatchHandsNothing ==
  ASSUME BatchesInv, ~live, NEW b \in Batches,
         Advance(b) \/ \E j \in Jobs : Begin(b, j)
  PROVE  Handed(b)' = Handed(b)
<1>1. pc[b] # "ended" /\ (AtWork(b) => job[b].route \notin {"dispatch", "market_order"})
  <2>1. AtWork(b) => ~IsForbidden(job[b])
    BY DEF BatchesInv, BatchInv
  <2>2. pc[b] # "ended"
    BY DEF Advance, LoadAccount, AccountFails, FetchBalance, Process, ExchangeFails, Query,
           QueryFails, PlaceMarketOrder, Answer, Begin, AtAccount
  <2>3. QED
    BY <2>1, <2>2 DEF IsForbidden
<1>2. reply[b] = "none" /\ reply \in [Batches -> Replies] /\ results[b] \in Seq(Items)
      /\ results \in [Batches -> Seq(Items)]
  BY <1>1 DEF BatchesInv, BatchInv, BatchTypes, AtWork
<1>3. CASE Process(b)
  <2>1. PICK m \in Markets :
          m.step # None /\ results' = [results EXCEPT ![b] = Append(@, Item(b, m))]
    BY <1>3 DEF Process
  <2>2. AtWork(b) /\ reply' = reply
    BY <1>3 DEF Process, AtWork
  <2>3. Item(b, m).status = "none"
    BY <1>1, <2>2 DEF Item
  <2>4. results'[b] = Append(results[b], Item(b, m))
    BY <1>2, <2>1
  <2>5. {i \in DOMAIN results'[b] : results'[b][i].status = "dry_run_only"}
          = {i \in DOMAIN results[b] : results[b][i].status = "dry_run_only"}
    <3> DEFINE s == results[b]
               e == Item(b, m)
    <3>1. /\ DOMAIN Append(s, e) = DOMAIN s \cup {Len(s) + 1}
          /\ \A i \in DOMAIN s : Append(s, e)[i] = s[i]
          /\ Append(s, e)[Len(s) + 1] = e
          /\ Len(s) + 1 \notin DOMAIN s
      BY <1>2
    <3>2. e.status # "dry_run_only"
      BY <2>3
    <3>3. QED
      BY <2>4, <3>1, <3>2
  <2>6. QED
    BY <2>2, <2>5 DEF Handed
<1>4. CASE ~Process(b)
  <2>1. results' = results
    BY <1>4 DEF Advance, LoadAccount, AccountFails, FetchBalance, ExchangeFails, Query,
                QueryFails, PlaceMarketOrder, Answer, Begin
  <2>2. reply'[b] # "dry_run_only"
    BY <1>1, <1>2, <1>4
    DEF Advance, LoadAccount, AccountFails, FetchBalance, ExchangeFails, Query,
        QueryFails, PlaceMarketOrder, Answer, Begin, EndWith, AtWork
  <2>3. QED
    BY <1>2, <2>1, <2>2, HandedUnchanged
<1>5. QED
  BY <1>3, <1>4

(* Orders are handed to adapters only while the setting is on.             *)
THEOREM OrdersAreGated == Spec => OrdersNeedTheSetting
<1>1. BatchesInv /\ [Next]_vars => \A b \in Batches : Handed(b)' # Handed(b) => live
  <2> SUFFICES ASSUME BatchesInv, [Next]_vars, ~live, NEW b \in Batches
               PROVE  Handed(b)' = Handed(b)
    OBVIOUS
  <2>1. CASE BatchStep
    <3>1. PICK d \in Batches : Advance(d) \/ \E j \in Jobs : Begin(d, j)
      BY <2>1 DEF BatchStep
    <3>2. CASE d = b
      BY <3>1, <3>2, BatchHandsNothing
    <3>3. CASE d # b
      <4>1. results'[b] = results[b] /\ reply'[b] = reply[b]
        BY <3>1, <3>3
        DEF Advance, LoadAccount, AccountFails, FetchBalance, Process, ExchangeFails, Query,
            QueryFails, PlaceMarketOrder, Answer, Begin, EndWith, BatchesInv, BatchTypes
      <4>2. QED
        BY <4>1, HandedUnchanged
    <3>4. QED
      BY <3>2, <3>3
  <2>2. CASE RegistryStep \/ Restart \/ UNCHANGED vars
    BY <2>2, HandedUnchanged DEF RegistryStep, Restart, vars, batch
  <2>3. QED
    BY <2>1, <2>2 DEF Next
<1>2. QED
  BY <1>1, StoredInvariant, PTL DEF Spec, OrdersNeedTheSetting
-----------------------------------------------------------------------------
(* A registration's step is a step of what is promised, or none at all.    *)
LEMMA RegisterKeepsPromise ==
  ASSUME RegistryTypeOK, NEW c \in Registrations,
         Register(c) \/ \E r \in Requests : Ask(c, r)
  PROVE  [Promise!Next]_(Promise!vars)
<1>1. ASSUME NEW there \in {"asked", "checked", "committed", "ended"},
             stage' = [stage EXCEPT ![c] = there]
      PROVE  /\ there \in {"asked", "checked"} => Status' = [Status EXCEPT ![c] = "open"]
             /\ there = "committed" => Status' = [Status EXCEPT ![c] = "registered"]
             /\ there = "ended" => Status' = [Status EXCEPT ![c] = "ended"]
  BY <1>1 DEF RegistryTypeOK, Status
<1>2. /\ stage[c] = "idle" => Status[c] = "idle"
      /\ stage[c] \in {"asked", "checked"} => Status[c] = "open"
      /\ stage[c] = "committed" => Status[c] = "registered"
  BY DEF Status
<1>3. CASE \E r \in Requests : Ask(c, r)
  BY <1>1, <1>2, <1>3 DEF Ask, Proceed, Promise!Next, Promise!Ask, Promise!To
<1>4. CASE LookUpUser(c)
  <2>1. CASE Taken(request[c].email)
    BY <1>1, <1>2, <1>4, <2>1
    DEF LookUpUser, Reply, Taken, Promise!Next, Promise!Refuse, Promise!IsFree, Promise!End
  <2>2. CASE ~Taken(request[c].email)
    <3>1. /\ stage[c] = "asked" /\ stage' = [stage EXCEPT ![c] = "checked"]
          /\ UNCHANGED <<users, accounts, request, row, answer>>
      BY <1>4, <2>2 DEF LookUpUser, Proceed
    <3>2. Status' = Status
      BY <3>1 DEF Status, RegistryTypeOK
    <3>3. QED
      BY <3>1, <3>2 DEF Promise!vars
  <2>3. QED
    BY <2>1, <2>2
<1>5. CASE LookUpOwner(c)
  <2>1. CASE ~Exists(request[c].user_id)
    BY <1>1, <1>2, <1>5, <2>1
    DEF LookUpOwner, Reply, Exists, Promise!Next, Promise!Refuse, Promise!IsOwner,
        Promise!End
  <2>2. CASE Exists(request[c].user_id)
    <3>1. /\ stage[c] = "asked" /\ stage' = [stage EXCEPT ![c] = "checked"]
          /\ UNCHANGED <<users, accounts, request, row, answer>>
      BY <1>5, <2>2 DEF LookUpOwner, Proceed
    <3>2. Status' = Status
      BY <3>1 DEF Status, RegistryTypeOK
    <3>3. QED
      BY <3>1, <3>2 DEF Promise!vars
  <2>3. QED
    BY <2>1, <2>2
<1>6. CASE Commit(c) \/ CommitLost(c)
  <2>1. stage[c] = "checked" /\ Insert(c) /\ UNCHANGED request
    BY <1>6 DEF Commit, CommitLost, Insert, InsertUser, InsertAccount
  <2>2. Promise!TakeEffect(c)
    BY <2>1 DEF Insert, InsertUser, InsertAccount, Taken, Exists, Promise!TakeEffect,
                Promise!IsFree, Promise!IsOwner
  <2>3. Promise!To(c, "registered") \/ Promise!End(c, "error")
    BY <1>1, <1>6 DEF Commit, CommitLost, Proceed, Reply, Promise!To, Promise!End
  <2>4. QED
    BY <1>2, <2>1, <2>2, <2>3 DEF Promise!Next, Promise!Register
<1>7. CASE LookUpFails(c) \/ CommitFails(c) \/ RefreshFails(c)
  BY <1>1, <1>2, <1>7
  DEF LookUpFails, CommitFails, RefreshFails, Reply, Promise!Next, Promise!Fail, Promise!End
<1>8. CASE Refresh(c)
  BY <1>1, <1>2, <1>8 DEF Refresh, Reply, Promise!Next, Promise!Answer, Promise!End
<1>9. QED
  BY <1>3, <1>4, <1>5, <1>6, <1>7, <1>8 DEF Register

(* Registrations take effect at one moment each.                           *)
THEOREM RegistrationsAreAtomic == Spec => ImplementsRegistryPromise
<1>1. Init => Promise!Init
  BY DEF Init, InitRegistry, Status, Promise!Init
<1>2. RegistryInv /\ [Next]_vars => [Promise!Next]_(Promise!vars)
  <2> SUFFICES ASSUME RegistryInv, [Next]_vars PROVE [Promise!Next]_(Promise!vars)
    OBVIOUS
  <2>1. RegistryTypeOK
    BY DEF RegistryInv
  <2>2. CASE RegistryStep
    BY <2>1, <2>2, RegisterKeepsPromise DEF RegistryStep
  <2>3. CASE UNCHANGED registry
    BY <2>3 DEF registry, Status, Promise!vars
  <2>4. CASE Restart
    <3>1. /\ stage' = [c \in Registrations |-> IF stage[c] = "idle" THEN "idle" ELSE "ended"]
          /\ UNCHANGED <<users, accounts, request, row, answer>>
      BY <2>4 DEF Restart, KillRegistrations
    <3>2. Status' = [c \in Registrations |-> IF Status[c] = "idle" THEN "idle" ELSE "ended"]
      BY <2>1, <3>1 DEF Status, RegistryTypeOK
    <3>3. QED
      BY <3>1, <3>2 DEF Promise!Next, Promise!Crash
  <2>5. QED
    BY <2>2, <2>3, <2>4 DEF Next, BatchStep, vars, registry
<1>3. QED
  BY <1>1, <1>2, RegistryInvariant, PTL DEF Spec, ImplementsRegistryPromise, Promise!Spec
=============================================================================
