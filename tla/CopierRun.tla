----------------------------- MODULE CopierRun -----------------------------
(***************************************************************************)
(* A copier run over a list of accounts, from the request to the answer.   *)
(* Each batch is one call on a thread of its own, with a database session  *)
(* of its own, of                                                          *)
(*   "manual"   POST /copier/dispatch/manual, which executes every account *)
(*              it is given (copier_execution_service.py);                 *)
(*   "plan"     POST /copier/plan/dispatch, which executes the items of a  *)
(*              plan that are not on hold;                                 *)
(*   "service"  the services below that route, called with any list, any   *)
(*              run_id and any get_account (master_position_handler.py,    *)
(*              copier_orchestration_service.py,                           *)
(*              copier_plan_runner_service.py).                            *)
(* For every item in turn a batch calls the execution engine, commits a    *)
(* row of the execution log and adds an item to its results.  An exception *)
(* anywhere ends the batch where it is.  The engine is DispatchGuard, the  *)
(* promise that ExecutionEngine is shown to keep; the log is in PostgreSQL *)
(* and survives a restart.                                                 *)
(***************************************************************************)
EXTENDS CopierPlan, RequestLimits, IdempotencyKey, FiniteSets

CONSTANTS
  Batches,      \* calls
  Jobs,         \* what the callers ask for
  NoJob,        \* a batch not started yet
  NoRun,        \* the run_id of a job whose caller leaves it to the code
  IntOf,        \* int() of the texts it accepts
  MaxItems,     \* bound on the items of a batch
  PoolSize,     \* connections of the pool behind SessionLocal
  NoKey,        \* see DispatchGuard
  OrderSlots,
  MaxRestarts

Ids(j) == [i \in 1 .. Len(j.accounts) |-> AccountId(j.accounts[i])]

ASSUME RunAssumption ==
  /\ NoJob \notin Jobs
  /\ MaxItems \in Nat /\ MaxRestarts \in Nat /\ PoolSize \in Nat \ {0}
  /\ \A b \in Batches : b \notin STRING
  /\ \A j \in Jobs :
       /\ j.origin \in {"manual", "plan", "service"}
       /\ IF j.origin = "service" THEN j.run_id \in Seq(STRING) \cup {NoRun}
          ELSE j.run_id = NoRun
       /\ j.accounts \in Seq((DOMAIN Str) \X Seq(STRING)) /\ Len(j.accounts) <= MaxItems
       /\ j.positions \in Seq(STRING \X Int)
       /\ j.symbol \in Seq(STRING) /\ j.side \in STRING /\ j.mode \in STRING

VARIABLES
  recorded, phase, key, placed, restarts,   \* the engine's
  pc,        \* where each batch is
  job,       \* what each batch was asked for
  pos,       \* the item each batch is at
  results,   \* the results each batch has gathered for its response
  log,       \* the rows given an id in execution_logs, in order of id
  pool,      \* connections that the requests elsewhere leave to the batches
  free       \* those of them that are not checked out

engine == <<recorded, phase, key, placed, restarts>>
batch == <<pc, job, pos, results>>
vars == <<recorded, phase, key, placed, restarts, pc, job, pos, results, log, pool, free>>

Positions == 1 .. MaxItems
Calls == Batches \X Positions

(* follower_positions: a text and a quantity per entry.  The last entry    *)
(* for an account counts, however its id is written.                       *)
Declares(entry, a) == entry[1] \in DOMAIN IntOf /\ IntOf[entry[1]] = a

(* Mutant of LastEntry: an entry for an account that has one is ignored.   *)
FirstEntry(entries, a) ==
  CHOOSE i \in DOMAIN entries :
    Declares(entries[i], a) /\ \A k \in DOMAIN entries : Declares(entries[k], a) => i <= k

LastEntry(entries, a) ==
  CHOOSE i \in DOMAIN entries :
    Declares(entries[i], a) /\ \A k \in DOMAIN entries : Declares(entries[k], a) => k <= i
KnownPositions(j) ==
  LET declared == {a \in DOMAIN Str : \E i \in DOMAIN j.positions : Declares(j.positions[i], a)}
  IN [a \in declared |-> j.positions[LastEntry(j.positions, a)][2]]

Side(j) == IF j.origin = "service" THEN j.side ELSE NormalSide(j.side)

(* The items a batch goes through, by what it is asked for. *)
Items ==
  [j \in Jobs |->
     IF j.origin = "manual"
     THEN [i \in 1 .. Len(j.accounts) |->
             [account_id |-> Ids(j)[i], exchange |-> ExchangeName(j.accounts[i]),
              side |-> Side(j), action |-> "none"]]
     ELSE ExecutionItems(BuildPlan(Side(j), j.quantity, j.accounts, KnownPositions(j)))]

(* The run_id of batch b when it is asked for j; a generated one is named  *)
(* after its batch.                                                        *)
RunOf(b, j) == IF j.run_id = NoRun THEN <<b>> ELSE j.run_id

(* What the key of an item of batch b is made of, and the key. *)
KeyInputs(b, j, item) ==
  [run_id |-> RunOf(b, j), account_id |-> item.account_id, exchange |-> item.exchange,
   symbol |-> j.symbol, side |-> item.side, mode |-> j.mode]
KeyOf(b, j, item) == BuildKey(KeyInputs(b, j, item))

Keys ==
  UNION {{KeyOf(b, j, Items[j][i]) : i \in DOMAIN Items[j]} : b \in Batches, j \in Jobs}

ASSUME NoKeyAssumption == NoKey \notin Keys

Engine == INSTANCE DispatchGuard

Run(b) == RunOf(b, job[b])
Item(b) == Items[job[b]][pos[b]]
Current(b) == <<b, pos[b]>>
HasItem(b) == pc[b] = "loop" /\ pos[b] <= Len(Items[job[b]])

(* Mutant of Outcome: the engine's result is not looked at.                *)
OutcomeAssumed(c) == "executed"

(* The row or the result item made of the engine's result for a call. *)
Outcome(c) == IF phase[c] = "skipped" THEN "idempotent_skip" ELSE "executed"
Row(b) == [call |-> Current(b), run_id |-> Run(b), account_id |-> Item(b).account_id,
           status |-> Outcome(Current(b)), state |-> "open"]

Stages == {"idle", "refused", "loop", "engine", "flushed", "logged",
           "completed", "failed", "bad_request", "killed"}
ActiveBatch(b) == pc[b] \in {"loop", "engine", "flushed", "logged"}

Init ==
  /\ Engine!Init
  /\ pc = [b \in Batches |-> "idle"]
  /\ job = [b \in Batches |-> NoJob]
  /\ pos = [b \in Batches |-> 1]
  /\ results = [b \in Batches |-> <<>>]
  /\ log = <<>>
  /\ pool \in 1 .. PoolSize
  /\ free = pool

Goto(b, there) == pc' = [pc EXCEPT ![b] = there]

(* A session checks a connection out when it first sends something, and    *)
(* returns it with the commit; the refresh after the commit checks one out *)
(* again and keeps it, through the next call of the engine, to the next    *)
(* commit.                                                                 *)
HasConnection(b) ==
  pc[b] = "flushed" \/ (pc[b] \in {"loop", "engine"} /\ pos[b] > 1)
CheckOut == free > 0 /\ free' = free - 1

(* Mutant of Close: get_db closes the session only after a return.         *)
CloseOnReturn(b, there) ==
  /\ Goto(b, there)
  /\ free' = IF HasConnection(b) /\ there = "completed" THEN free + 1 ELSE free

(* The batch ends, and get_db closes its session. *)
Close(b, there) ==
  /\ Goto(b, there)
  /\ free' = IF HasConnection(b) THEN free + 1 ELSE free

(* An exception ends the batch.  Inside POST /copier/plan/dispatch any     *)
(* ValueError of the run is answered as a bad request, wherever it comes   *)
(* from: a text of the request that cannot be encoded is one, and is met   *)
(* when the row is sent, after the account has been executed.              *)
Unwind(b) ==
  \/ Close(b, "failed")
  \/ job[b].origin = "plan" /\ Close(b, "bad_request")

(* A route refuses accounts, limits, sides and keys of follower_positions  *)
(* before it does anything; the services refuse nothing.                   *)
Admitted(j) ==
  j.origin # "service" =>
    /\ IdsAccepted(Ids(j))
    /\ RiskAccepted(j.risk, j.leverage, Len(j.accounts))
    /\ KnownSide(j.side)
    /\ \A i \in DOMAIN j.positions : j.positions[i][1] \in DOMAIN IntOf

Begin(b, j) ==
  /\ pc[b] = "idle"
  /\ Goto(b, IF Admitted(j) THEN "loop" ELSE "refused")
  /\ job' = [job EXCEPT ![b] = j]
  /\ UNCHANGED <<engine, pos, results, log, pool, free>>

(* The accounts get_account returns: in a route, all of the request. *)
Reachable(j) ==
  IF j.origin = "service" THEN j.known ELSE {Ids(j)[i] : i \in DOMAIN j.accounts}

(* get_account finds the account, and the engine is called. *)
Dispatch(b) ==
  /\ HasItem(b)
  /\ Item(b).account_id \in Reachable(job[b])
  /\ Engine!Take(Current(b), KeyOf(b, job[b], Item(b)))
  /\ Goto(b, "engine")
  /\ UNCHANGED <<job, pos, results, log, free>>

(* get_account raises a ValueError.                                        *)
AccountMissing(b) ==
  /\ HasItem(b)
  /\ Item(b).account_id \notin Reachable(job[b])
  /\ Close(b, IF job[b].origin = "plan" THEN "bad_request" ELSE "failed")
  /\ UNCHANGED <<engine, job, pos, results, log>>

EngineProceeds(b) ==
  /\ pc[b] = "engine"
  /\ \/ Engine!Skip(Current(b))
     \/ Engine!Start(Current(b))
     \/ Engine!Finish(Current(b))
  /\ UNCHANGED <<batch, log, free>>

(* The engine raises, and so does the batch. *)
EngineFails(b) ==
  /\ pc[b] = "engine"
  /\ Engine!Fail(Current(b))
  /\ Unwind(b)
  /\ UNCHANGED <<job, pos, results, log>>

EngineReturned(b) == pc[b] = "engine" /\ phase[Current(b)] \in {"skipped", "done"}

(* create_log inserts a row, which takes the next id ... *)
Insert(b) ==
  /\ EngineReturned(b)
  /\ IF HasConnection(b) THEN UNCHANGED free ELSE CheckOut
  /\ log' = Append(log, Row(b))
  /\ Goto(b, "flushed")
  /\ UNCHANGED <<engine, job, pos, results>>

(* The transaction of the row of a batch, if there is one, ends. *)
RowBecomes(b, what) ==
  log' = [i \in DOMAIN log |->
            IF log[i].call = Current(b) THEN [log[i] EXCEPT !.state = what] ELSE log[i]]

(* Mutant of Commit: the row is added and not committed.                   *)
CommitForgotten(b) ==
  /\ pc[b] = "flushed"
  /\ free' = free + 1
  /\ Goto(b, "logged")
  /\ UNCHANGED <<engine, job, pos, results, log>>

(* ... and commits it. *)
Commit(b) ==
  /\ pc[b] = "flushed"
  /\ RowBecomes(b, "committed")
  /\ free' = free + 1
  /\ Goto(b, "logged")
  /\ UNCHANGED <<engine, job, pos, results>>

(* Mutant of LogFails: the error is swallowed and the loop goes on.        *)
LogErrorSwallowed(b) ==
  /\ EngineReturned(b)
  /\ pos' = [pos EXCEPT ![b] = @ + 1]
  /\ results' = [results EXCEPT ![b] =
                   Append(@, [account_id |-> Item(b).account_id,
                              status |-> Outcome(Current(b))])]
  /\ Goto(b, "loop")
  /\ UNCHANGED <<engine, job, log, free>>

(* create_log raises before the commit has taken effect (no connection in  *)
(* time, a value too long for its column or not to be encoded, a lost      *)
(* server) and the row, if there is one, is rolled back; its id is not     *)
(* used again ...                                                          *)
LogFails(b) ==
  /\ EngineReturned(b) \/ pc[b] = "flushed"
  /\ RowBecomes(b, "rolled back")
  /\ Unwind(b)
  /\ UNCHANGED <<engine, job, pos, results>>

(* ... or after it: the answer to the commit is lost, or the refresh gets  *)
(* no connection in time.                                                  *)
RefreshFails(b) ==
  /\ pc[b] = "logged"
  /\ Unwind(b)
  /\ UNCHANGED <<engine, job, pos, results, log>>

(* Mutants of Report: the item is not added; its status is a constant.     *)
ReportNothing(b) ==
  /\ pc[b] = "logged"
  /\ CheckOut
  /\ pos' = [pos EXCEPT ![b] = @ + 1]
  /\ Goto(b, "loop")
  /\ UNCHANGED <<engine, job, results, log>>

ReportExecuted(b) ==
  /\ pc[b] = "logged"
  /\ CheckOut
  /\ results' = [results EXCEPT ![b] =
                   Append(@, [account_id |-> Item(b).account_id,
                              status |-> "executed"])]
  /\ pos' = [pos EXCEPT ![b] = @ + 1]
  /\ Goto(b, "loop")
  /\ UNCHANGED <<engine, job, log>>

(* The row is refreshed, and the result reported. *)
Report(b) ==
  /\ pc[b] = "logged"
  /\ CheckOut
  /\ results' = [results EXCEPT ![b] =
                   Append(@, [account_id |-> Item(b).account_id,
                              status |-> Outcome(Current(b))])]
  /\ pos' = [pos EXCEPT ![b] = @ + 1]
  /\ Goto(b, "loop")
  /\ UNCHANGED <<engine, job, log>>

(* Mutant of Complete: the end of the items is looked for one too late.    *)
CompleteLate(b) ==
  /\ pc[b] = "loop"
  /\ pos[b] > Len(Items[job[b]]) + 1
  /\ Close(b, "completed")
  /\ UNCHANGED <<engine, job, pos, results, log>>

Complete(b) ==
  /\ pc[b] = "loop"
  /\ pos[b] > Len(Items[job[b]])
  /\ Close(b, "completed")
  /\ UNCHANGED <<engine, job, pos, results, log>>

(* GET /execution-logs/run/{run_id}: the ids get_logs_by_run_id finds ... *)
RunLog(run) == {i \in DOMAIN log : log[i].state = "committed" /\ log[i].run_id = run}

(* Mutant of ComesBefore: the newest row first, as get_latest_logs has it. *)
NewestFirst(i, k) == i > k

(* ... and the order it returns them in. *)
ComesBefore(i, k) == i < k

(* The exchange accepts an order of some call; the routes only simulate. *)
OrderPlaced ==
  /\ \E c \in Calls, n \in OrderSlots :
       /\ job[c[1]] # NoJob /\ job[c[1]].mode = "live"
       /\ Engine!Place(c, n)
  /\ UNCHANGED <<batch, log, pool, free>>

(* The process dies; the server rolls back what was not committed. *)
Restart ==
  /\ Engine!Restart
  /\ pc' = [b \in Batches |-> IF ActiveBatch(b) THEN "killed" ELSE pc[b]]
  /\ log' = [i \in DOMAIN log |->
               IF log[i].state = "open" THEN [log[i] EXCEPT !.state = "rolled back"]
               ELSE log[i]]
  /\ free' = pool
  /\ UNCHANGED <<job, pos, results, pool>>

Advance(b) ==
  \/ Dispatch(b) \/ AccountMissing(b)
  \/ EngineProceeds(b) \/ EngineFails(b)
  \/ Insert(b) \/ Commit(b) \/ LogFails(b) \/ RefreshFails(b)
  \/ Report(b) \/ Complete(b)

Proceed(b) == Advance(b) /\ UNCHANGED pool

Next ==
  \/ \E b \in Batches : Proceed(b) \/ \E j \in Jobs : Begin(b, j)
  \/ OrderPlaced
  \/ Restart

Spec == Init /\ [][Next]_vars

(* The thread of a batch is scheduled, the engine ends its calls (the      *)
(* liveness property of ExecutionEngine), and whoever waits for a          *)
(* connection gets one or a TimeoutError.                                  *)
FairSpec == Spec /\ \A b \in Batches : WF_vars(Proceed(b))
-----------------------------------------------------------------------------
Outcomes == {"executed", "idempotent_skip"}
RunIds == {RunOf(b, j) : b \in Batches, j \in Jobs}
RowType ==
  [call : Calls, run_id : RunIds, account_id : DOMAIN Str, status : Outcomes,
   state : {"open", "committed", "rolled back"}]
ResultType == [account_id : DOMAIN Str, status : Outcomes]

TypeOK ==
  /\ Engine!TypeOK
  /\ pc \in [Batches -> Stages]
  /\ job \in [Batches -> Jobs \cup {NoJob}]
  /\ pos \in [Batches -> 1 .. MaxItems + 1]
  /\ results \in [Batches -> Seq(ResultType)]
  /\ \A b \in Batches : Len(results[b]) = pos[b] - 1
  /\ log \in Seq(RowType)
  /\ pool \in 1 .. PoolSize /\ free \in 0 .. pool

IsCommitted(i) == i \in DOMAIN log /\ log[i].state = "committed"
Logged(c) == \E i \in DOMAIN log : IsCommitted(i) /\ log[i].call = c

(* An item that has ended well; it should have a row. *)
Ended(c) == phase[c] \in {"skipped", "done"}

(* Whatever stops a batch, at most one of its items has ended without a    *)
(* row, the one it stopped at, and no item after it has been touched: the  *)
(* gap of the audit trail is one item per batch.                           *)
AuditGapIsOneItem ==
  \A b \in Batches : \A i, j \in Positions :
    Ended(<<b, i>>) /\ ~Logged(<<b, i>>) /\ j > i => phase[<<b, j>>] = "waiting"

(* An order at the exchange for one item of a batch means that the rows of *)
(* all items before it are committed: orders run ahead of the log by one.  *)
OrdersBehindLog ==
  \A b \in Batches : \A i, j \in Positions : \A n \in OrderSlots :
    <<<<b, j>>, n>> \in placed /\ i < j => Logged(<<b, i>>)

(* A row says "idempotent_skip" only of a call that has no order and never *)
(* will, and "executed" only of a call that finished; no call has two.     *)
RowsAreTrue ==
  /\ \A i \in DOMAIN log : IsCommitted(i) =>
       /\ log[i].status = "executed" => phase[log[i].call] = "done"
       /\ log[i].status = "idempotent_skip" =>
            \A n \in OrderSlots : <<log[i].call, n>> \notin placed
  /\ \A i, j \in DOMAIN log : log[i].call = log[j].call => i = j

(* The rows of a batch come in the order of its results, one for each, and *)
(* at most one row more (lost between commit and refresh).                 *)
ResultsAreLogged ==
  \A b \in Batches :
    /\ \A i \in DOMAIN results[b] : \E k \in DOMAIN log :
         /\ IsCommitted(k) /\ log[k].call = <<b, i>> /\ log[k].run_id = Run(b)
         /\ log[k].account_id = results[b][i].account_id
         /\ log[k].status = results[b][i].status
    /\ \A k, l \in DOMAIN log : \A i, j \in Positions :
         IsCommitted(k) /\ IsCommitted(l) /\ log[k].call = <<b, i>> /\ log[l].call = <<b, j>> =>
           /\ i <= Len(results[b]) + 1
           /\ i < j => k < l

(* Whoever reads the log of a run that is under way and reads it again     *)
(* finds what was there, in the same place, and the new rows behind it;    *)
(* with a run_id that two batches share a row may come in between.         *)
HasRunToItself(b) ==
  job[b] # NoJob /\ \A d \in Batches \ {b} : job[d] # NoJob => Run(d) # Run(b)
RunLogsOnlyGrow ==
  [][\A b \in Batches : HasRunToItself(b) =>
       LET run == Run(b)
       IN /\ RunLog(run) \subseteq RunLog(run)'
          /\ \A i \in RunLog(run) :
               /\ log'[i] = log[i]
               /\ \A k \in RunLog(run)' \ RunLog(run) : ComesBefore(i, k)]_vars

(* A response has one result for each account of a manual dispatch         *)
(* (DEPLOY.md:194), and for exactly the followers of a plan that were out  *)
(* of step with the master, or flat, in the order they were listed         *)
(* (DEPLOY.md:223).  Of a follower whose position was given twice, in two  *)
(* spellings of its id, the later entry is believed.                       *)
CompletedCoversRequest ==
  \A b \in Batches : pc[b] = "completed" =>
    LET j == job[b]
        Entries(a) == {i \in DOMAIN j.positions : Declares(j.positions[i], a)}
        InStep(a) ==
          \E i \in Entries(a) :
            /\ \A k \in Entries(a) : k <= i
            /\ j.positions[i][2] = j.quantity /\ j.quantity # 0
        Due(n) == j.origin = "manual" \/ ~InStep(Ids(j)[n])
    IN \E at \in [DOMAIN results[b] -> DOMAIN j.accounts] :
         /\ \A i, k \in DOMAIN at : i < k => at[i] < at[k]
         /\ \A i \in DOMAIN at : results[b][i].account_id = Ids(j)[at[i]]
         /\ \A n \in DOMAIN j.accounts : Due(n) <=> \E i \in DOMAIN at : at[i] = n

(* The calls the engine has been asked for, and what their keys are of.    *)
Touched(c) == phase[c] # "waiting"
InputsOf(c) == KeyInputs(c[1], job[c[1]], Items[job[c[1]]][c[2]])

(* A route never skips an account (DEPLOY.md:196 lists no skip among the   *)
(* statuses of a dispatch), whatever runs share its accounts; and as long  *)
(* as no run_id and no exchange contains the separator, a skip stands for  *)
(* an execution of the same order: for the same account, exchange, symbol, *)
(* side and mode in the same run.                                          *)
SkipsAreDue ==
  \A c \in Calls : phase[c] = "skipped" =>
    /\ job[c[1]].origin = "service"
    /\ (\A d \in Calls : Touched(d) => IsSeparable(InputsOf(d))) =>
         \E d \in Calls : phase[d] = "done" /\ InputsOf(d) = InputsOf(c)

(* execution_idempotency.py:31: "Same inputs always produce the same key;  *)
(* different inputs produce different keys."                               *)
DifferentInputsDifferentKeys ==
  \A c, d \in Calls :
    Touched(c) /\ Touched(d) /\ key[c] = key[d] => InputsOf(c) = InputsOf(d)

(* A follower listed twice is executed at most once by a batch on each     *)
(* exchange it is listed with, whatever other batches with the same run_id *)
(* do meanwhile: of two entries for the same account and exchange the      *)
(* second does not even start after the first has finished.                *)
ListedTwiceExecutesOnce ==
  \A b \in Batches : \A i, j \in Positions :
    /\ i < j
    /\ phase[<<b, i>>] = "done" /\ phase[<<b, j>>] \in {"running", "done"}
    => LET one == Items[job[b]][i]
           other == Items[job[b]][j]
       IN one.account_id # other.account_id \/ one.exchange # other.exchange

(* No end of a batch, however early, keeps a connection.                   *)
ConnectionsAreReturned ==
  free + Cardinality({b \in Batches : HasConnection(b)}) = pool

(* Every batch comes to an end, also when the pool is smaller than the     *)
(* number of batches.                                                      *)
EveryBatchEnds ==
  \A b \in Batches :
    pc[b] = "loop" ~> pc[b] \in {"completed", "bad_request", "failed", "killed"}

(* README.md:170: "All execution attempts are logged in PostgreSQL."       *)
AllAttemptsAreLogged ==
  \A b \in Batches : pc[b] = "failed" =>
    \A i \in Positions : phase[<<b, i>>] # "waiting" => Logged(<<b, i>>)

(* position_sync.py:33 says that a reduce brings the position down to the  *)
(* master's quantity: its order has the side opposite to the position.     *)
ReducingOrdersOppose ==
  \A b \in Batches :
    pc[b] = "engine" /\ Item(b).action = "reduce" => Item(b).side # job[b].side
=============================================================================
