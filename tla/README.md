# Verification of the trade copier backend

TLA+ models of the backend's order execution, checked with TLC and proved with
TLAPS. Paths below are relative to the repository's `src/`, and
`app/services/` is left out where a file name is unambiguous.

## 1. The system

A FastAPI service that copies the trades of a master account to follower
accounts on several exchanges. Endpoints are plain functions, which FastAPI runs
on a pool of threads of one process; module-level state is shared between
threads without locks. PostgreSQL holds users, exchange accounts and the
execution log.

| Component | State | Operations | Hard behaviour |
|---|---|---|---|
| Execution engine (`execution_engine.py`, `execution_idempotency.py`) | a module-level set of idempotency keys | `execute_order_for_account`: look the key up, execute by mode, record the key on a normal return | threads between look-up and recording; exceptions after the exchange has accepted; restart empties the set |
| Live path (`live_execution_service.py`, `exchange_client_service.py`, `app/exchanges/bingx_adapter.py`, `http_client.py`) | `enable_real_trading`, cached per process | gate, `place_order`, mapping of the answer, retry | a timeout says nothing about the order; the retry sends it again; late acceptance |
| Rate limiter (`exchange_client_service.py`) | last request time per exchange, module-level dict | read clock, read dict, sleep, attempts, store in `finally` | unsynchronised read and write around a sleep |
| Copier planning (`app/core/position_sync.py`, `copier_planning_service.py`, `copier_plan_execution_service.py`) | none | decision, plan, execution items | boundaries of the comparison; what of the plan reaches execution |
| Copier run (`app/api/routes/copier.py`, `copier_plan_runner_service.py`, `copier_orchestration_service.py`, `copier_execution_service.py`, `master_position_handler.py`) | the results of the batch | `POST /copier/dispatch/manual`, `POST /copier/plan/dispatch` and the services below them: refuse or admit; for each item account, engine, log row, result | an exception between any two of them ends the batch; concurrent batches with one `run_id`; an answer that says less than happened |
| Execution log (`execution_log_service.py`, `execution_log_query_service.py`) | `execution_logs` table | `create_log` (add, commit, refresh), `GET /execution-logs/run/{run_id}`, `GET /execution-logs/` | a commit whose answer is lost; a reader in the middle of a run |
| Database sessions (`app/db/session.py`, `get_db`) | the pool: 5 + 10 connections for 40 threads | check out with the first statement, return with commit or close | the refresh after a commit takes a connection again, and the session keeps it through the next call of the engine |
| Order sizing and validation (`app/sizing/position_sizing.py`, `app/core/order_validation.py`, `order_request_validation_service.py`, `manual_dispatch_service.py`) | none | size, validate, conclude | rounding, zero, two validations with rules of their own |
| Stored-account dispatch (`trade_preview_service.py`, `trade_execution_service.py`, `trade_copier_service.py`, `trade_copier_execution_engine.py`, `app/api/routes/orders.py`, `app/api/routes/exchange_accounts.py`, `app/exchanges/adapters/binance_futures.py`) | the items of the request | preview, dry run, copier plan, copier dispatch: for each account load, fetch, size, validate; market order; connection test, balance, positions, market specs | a second execution path without key and log; an exception discards what was done; everything it reads may change meanwhile |
| Users and exchange accounts (`user_service.py`, `exchange_account_service.py`) | tables `users` (unique address) and `exchange_accounts` | look up, insert, commit, refresh | check-then-insert; a commit whose answer is lost |
| Request limits, gate, sides (`app/core/risk.py`, `app/core/trading.py`, `app/api/guards.py`) | `live_execution_enabled` | checks in front of the routes | limits one by one, exposure out of all of them |
| Manual previews (`POST /trade/preview/dry-run`, `/execution/dry-run/manual`, `/copier/execute/manual`) | – | size the balances they are given | those of sizing |
| Configuration, migrations, skeleton adapters | – | – | stateless, or done before the service starts |

How they interact: a route (or a caller of the services) starts a *copier run*,
which plans, then calls the *engine* for each item and the *execution log* after
each call. The engine calls the simulated dispatch (*sizing and validation*) or
the *live path*, which goes through the *rate limiter* and its attempts to the
exchange. Calls are synchronous and results come back as return values or
exceptions; what threads share is the key set, the dict of request times and the
database. The *stored-account* routes are a path of their own: they read the
accounts the *registry* has, ask the exchange for balance and market, and share
nothing with the engine but the sizing and the second validation. A session of
the database is opened per request; all sessions share one pool of connections,
so a batch that waits for the exchange can keep another one from its log.

At this commit every route passes the mode `simulated`; live execution is
reached through the services (`execute_copier_for_accounts`,
`execute_order_for_account`), as the tests do. The engine's model covers both,
because its guard and its live path are written for the live mode.

What makes each part correct:

- engine: no two orders for one key except where the design cannot prevent it,
  no order that goes unreported, only finished calls block repetitions, no real
  order while the setting is off, every call ends;
- limiter: the interval between requests;
- run: what the log may lack when something fails, agreement of rows, results
  and request, a skip stands for an execution of the same order, a follower
  listed twice is executed once on each exchange, a log only grows under its
  reader, every batch ends and gives its connection back;
- sizing: a dispatched order is the best that risk and market allow, and a
  refused one could not have been dispatched;
- registry: what a caller is told is so, and a registration takes effect at one
  moment or not at all;
- stored-account dispatch: an answer misses nothing, exposure keeps the limits,
  the two validations agree, no order passes a closed gate, every request ends.

## 2. Modules

| Module | Models | Kind |
|---|---|---|
| `DispatchGuard` | what a caller of the engine may rely on | abstract specification |
| `ExecutionEngine` | engine, live path, retries, exchange | detailed; implements `DispatchGuard` |
| `CopierPlan` | planning | pure operators |
| `RequestLimits` | the checks in front of the routes | pure operators |
| `IdempotencyKey` | the key as the text the code builds | pure operators |
| `CopierRun` | batches, execution log, connections | composes `CopierPlan`, `RequestLimits`, `IdempotencyKey` and `DispatchGuard` (`Engine == INSTANCE DispatchGuard`) |
| `RateLimiter` | the limiter of one exchange | detailed |
| `Sizing` | sizing and validation of an order | pure operators |
| `OrderSizing` | the simulated dispatch of one order | the three steps over `Sizing` |
| `RegistryPromise` | what a caller of the registration may rely on | abstract specification |
| `AccountRegistry` | registration of users and accounts | detailed; part of `StoredDispatch` |
| `StoredDispatch` | the routes on stored accounts | composes `AccountRegistry`, `RequestLimits` and `Sizing`; implements `RegistryPromise` |
| `MC...` | instances for TLC | constants and symmetry |
| `...Proofs` | theorems | TLAPS |

`CopierRun` is checked over the engine's promise and not over the engine: the
refinement (`EngineImplementsGuard`, proved) is what entitles it to that.

Definitions called *Mutant* in a module's comments are plausible bugs of the
definition after them. They are used nowhere in the specification; putting one in
the place of the original must break the property `PROJECT.json` pairs it with.

### ExecutionEngine

`executed` is `_executed_idempotency_keys`; `pc[c]` is the place of a call:

| `pc` | code |
|---|---|
| `check` | before `execution_engine.py:62` |
| `dispatch` | past the look-up (67–78), up to the gate of the live path |
| `send`, `await` | before and after the POST of the attempt `attempt[c]` |
| `record` | execution has returned, before line 80 |
| `skipped`, `returned`, `raised` | the three ways out |
| `killed` | the process went down with the call |

Steps are cut where another thread, the exchange or a crash can come between:
at the accesses to the key set and at the wire. `tx` gives for each transmission
(call, attempt) what became of it at the exchange: unsent, travelling, accepted
or refused. The exchange decides at any time, also after the client has given
up. A transport error (timeout, broken connection, HTTP error status: all mapped
to `ExchangeTransportError`) may come whatever has become of the transmission.
`realTrading` is constant within a process, since `get_settings` is cached, and
chosen anew by a restart.

`doubt` is a history variable. A key enters it in three ways, and only these:
a call passes the look-up while another one with that key is past it and has not
recorded it; an attempt is given up or its answer is unreadable while its order
is travelling or accepted; the process restarts with such an order. The main
property, `AtMostOncePerKey`, says that the exchange holds two orders of one key
only if that key is in doubt: these three are all that can go wrong.

Assumptions about what lies outside: BingX answers an accepted order with code 0
and a refused one with another code or none. The key is the tuple of its fields
here; `IdempotencyKey` has the text they are joined to, and `CopierRun` the cases
in which two requests share one. The quantity of a
live order (a placeholder of zero in the code) is left out, and acceptance is the
exchange's free choice.

### DispatchGuard

A call is taken with a key, looks it up, is skipped or runs, has any number of
orders placed, and ends by recording its key or failing. The refinement mapping
takes `recorded` to `executed`, an order to an accepted transmission, and the
places of a call to its phases (`PhaseOf`). Its two properties,
`RecordedByReturn` and `SkipIsBacked`, are checked through this mapping, on the
states of the engine.

### CopierRun, RequestLimits and IdempotencyKey

One batch is one request to `POST /copier/dispatch/manual` (`origin` "manual"),
one to `POST /copier/plan/dispatch` ("plan"), or one call of the services below
it ("service"), on a thread and a session of its own:

| `pc` | code |
|---|---|
| `refused` | answered with 400 by the checks of the route, before anything is done |
| `loop` | the head of the loop over the items (`copier_plan_runner_service.py:47`) |
| `engine` | inside the engine's call (49–52) |
| `flushed` | `create_log` has inserted the row, before its commit |
| `logged` | the row is committed, before its refresh and the result |
| `completed`, `failed` | the response, an exception nobody translates |
| `bad_request` | answered with 400 by the `except ValueError` around the plan's run (`app/api/routes/copier.py:304`) |
| `killed` | the process went down with the batch |

`EngineFails`, `LogFails`, `RefreshFails` and `AccountMissing` are the places
where an exception ends a batch; the database can fail at any time, a value too
long for its column and an exhausted pool included. In the plan's route any of them
may be a `ValueError`, also one that comes after the item has been executed (a text
of the request that cannot be encoded is met when the row is sent), and is then
answered as a bad request; `Unwind` has both ends. `log` holds, in the order of
their ids, every row that was ever given one: a row is `open` until its
transaction ends, then `committed` or `rolled back`, by a failure or by `Restart`,
and a row rolled back keeps its id, as PostgreSQL's sequence goes on. What a
reader of `GET /execution-logs/run/{run_id}` gets is the set of ids `RunLog`, in
the order `ComesBefore`.

What a request is admitted for is `Admitted`: the routes check ids, limits, side
and the keys of `follower_positions`; the services check nothing. The manual
route executes every account it is given, in the order given, and the plan's
route the items of `BuildPlan` that are not on hold, gathered by `ItemsUpTo` as the
loop of `copier_plan_execution_service.py:37` does. A job has the texts of
`follower_positions` as they came: two texts may name one account ("2" and "02"),
and the last of them counts. The routes make a fresh `run_id`, named after the
batch in the model; the services take their caller's. `known` is the set of
accounts a service's `get_account` finds.

A key is a sequence of tokens, of which one is the separator
(`execution_idempotency.py:9`), so that `BuildKey` joins as the code does, and
fields with a separator in them can run into each other. Exchange, symbol and
`run_id` are free text at this level (the schemas restrict none of them).

`pool` is the number of connections that requests elsewhere leave to the
batches, chosen at the start, and `free` those not checked out. A session holds
one from the insert to the commit, and again from the refresh to the next commit,
through the engine's call between them. A step that needs a connection waits
while there is none, or fails, as `pool_timeout` makes it.

### RateLimiter

`last` is the dict's entry. `ReadClock` is line 91 of
`exchange_client_service.py`, `ReadLast` lines 92–95 up to the sleep, `WakeUp`
the end of the sleep of line 95, `Send` and `Retry` the attempts of line 72
inside the call of line 97, `End` and `Store` the two halves of line 99. Time is
a natural number that any number of steps may share; a sleep may end late and
never early. `requests` and `concurrent` are history.

### AccountRegistry and StoredDispatch

A registration is a request with a database session of its own: `asked` (before
the look-up), `checked` (before the commit), `committed` (before the refresh).
The look-up itself may fail (`LookUpFails`). The unique index is a guard of
`InsertUser`; what it keeps out raises in `CommitFails`, which stands for every
other error between look-up and commit too, hashing and encryption included. In
`CommitLost` the row is there and the caller gets an error. A table is the
sequence of its rows and an id the place in it: PostgreSQL leaves gaps in the
numbering, which no property is about. `KillRegistrations` is the registry's part
of a restart.

`RegistryPromise` is the atomic view of it: a registration is open, then takes
effect on its table at one moment, at which its address is free or its owner
exists, and is answered with the row it added then; or it is refused for what is
so at the moment of the refusal; or it ends in an error, of which nothing
follows. `Status` maps `asked` and `checked` to open and `committed` to
registered, so that the commit is that moment and the earlier look-up is hidden.

A batch is one request to one of nine routes. The four that size orders differ
in what they check first (the gate for a dispatch; ids, limits and side for both
copier routes; nothing for preview and dry run) and in what a dispatch adds at
the end. `POST /orders/market`, behind the same gate, and the four queries of an
account load one account (`adapter` is the place behind that) and put its
adapter to one use: `PlaceMarketOrder`, `Query`, `QueryFails`. The three
services that build a plan have the same lines. `loop` is the head of the loop
over accounts, `balance` and `market` are in front of the two calls to the
exchange. `Balances` and `Markets` are read anew each time: the exchange may say
anything then. A balance is a pair of account id and amount, so that a balance
fetched for one account and used for another can be told apart. Each exception
has its answer: 404 `not_found`, 400 `bad_request`, 503 `unavailable`, and
`error` for what nobody translates, such as a market without a step;
`test_connection` turns what the exchange says into `not_connected`. `live` is
`live_execution_enabled`, constant within a process like the engine's setting.
The Binance adapter places nothing and says `dry_run_only`, so that a dispatch
has no effect outside and `Process` is one step: what comes after the market is
fetched is local.

`MaxRisk`, `MaxLeverage` and `MaxAccounts` are 5 %, 20 and 20 in
`CopierRiskLimits`; a percentage is an integer here as the other amounts are.

### CopierPlan, Sizing and OrderSizing

Quantities, balances and prices are integers in fixed units, so the only
quotient is target / price, and `RoundDown` divides the target by price times
step at once. `Decimal` rounds the quotient to 28 significant digits; for the
quotient to be rounded across a multiple of the step, price times step would need
more digits than that. Negative and zero inputs are included, since the services
get them unchecked.

## 3. Runs

| Run | Instance | Shows |
|---|---|---|
| `engine_races` | 3 calls, 2 keys, 2 attempts, 1 restart | `AtMostOncePerKey`, `HeldOrderIsReported`, `ReportMatchesExchange`, `RecordedByReturn`, `SkipIsBacked`; 1,722,487 states up to symmetry |
| `engine_paths` | 2 calls, 7 requests: every mode, exchange kind and a call without account; 2 attempts, 1 restart | `RealOrdersOnlyWhenEnabled`, `EveryCallEnds`, `ImplementsDispatchGuard` |
| `run_audit` | 2 batches of up to 3 items out of 7 jobs of the three origins (all four actions, a flat master, a position given twice, an account listed twice on one exchange and on two, an account nobody knows, a shared `run_id`, two refused requests), 1 or 2 connections, 1 restart | the log, rows, results and request properties, `SkipsAreDue`, `ListedTwiceExecutesOnce`, `ConnectionsAreReturned`, `RunLogsOnlyGrow`, `EveryBatchEnds`; 437,512 states |
| `limiter_serial` | 3 calls, 2 attempts, interval 2, clock up to 5 | `SpacedWhenSerial` |
| `stored` | 2 registrations out of 4 (one address, an account for a user who is there, for one who may be, on an exchange without adapter) beside 1 request out of 12, for up to 3 accounts, with restarts that may change the setting | the registry and stored-account properties, `OrdersNeedTheSetting`, `ImplementsRegistryPromise`, `EveryRequestEnds`; 220,249 states |
| `sizing` | 7680 inputs, with every sign, no minimum and zero minimum, steps that do not divide | the sizing properties |

Why the bounds are enough. A race on a key needs two calls; the third one of
`engine_races` comes after, as a repetition that is skipped or not. Two attempts
are what the code makes. One restart separates before from after; a second one
would only empty an emptied set. In `limiter_serial` three calls of interval 2
fit the clock (0, 2, 4) and one tick is left to be late. `SpacedWhenSerial`
leaves the attempts of one call out, which follow each other at once
(`MinimumInterval` fails for one call alone, too, with two attempts). In
`run_audit` two batches are what a race for a key, a `run_id` or a connection
takes; with one connection for both a batch meets an empty pool at every place
it can. In `stored` two registrations are what a race takes; requests share
nothing with each other, so one is enough, and its second account may be
registered while it runs. Limits of 2, 3 and 2 have jobs on both sides of each.
The theorems of section 4 cover all bounds for the properties that are proved.

Fairness. `EveryCallEnds`, `EveryBatchEnds` and `EveryRequestEnds` assume weak
fairness of the steps of each call, batch or request: threads are scheduled,
`time.sleep` ends, and every request ends with an answer or an error, within the
HTTP timeout of 30 s (`http_client.py:9`) or that of ccxt and the database
driver. Whoever waits for a connection of the pool gets one or a `TimeoutError`
(SQLAlchemy's default of 30 s): `LogFails` and `RefreshFails` are part of the
fair step, so a batch ends also when no connection comes free. Nothing is
assumed of the exchange: it need not ever decide, and the transport error is
always possible. No fairness is assumed of callers, of restarts or of failures.
Deadlock checking is off everywhere, because a system all of whose calls have
ended stops.

Runs that must fail, each a disagreement between the code and what the
repository says of it:

| Run | Property | What happens |
|---|---|---|
| `engine_double_race` | `GuardedAgainstDoubleSending` | two threads pass the look-up together |
| `engine_double_retry` | `GuardedAgainstDoubleSending` | the retry sends an order that may have been accepted |
| `run_collision` | `DifferentInputsDifferentKeys` | exchange `x\|y` with symbol `z` and exchange `x` with symbol `y\|z` share a key |
| `run_unlogged` | `AllAttemptsAreLogged` | an attempt that raised has no row |
| `run_reduce` | `ReducingOrdersOppose` | a reduce is executed on the side of the position |
| `limiter_burst` | `MinimumInterval` | two threads read one time |

Two properties hold only as far as they say. `execution_idempotency.py:31` has it
that different inputs give different keys. `run_collision` refutes that within one
run, for one account and a `run_id` without the separator: the second order is
skipped though nothing of it was executed. What holds is that equal keys are of
equal inputs if neither `run_id` nor exchange contains the separator
(`KeysTellInputs`, proved for texts of any length), and `SkipsAreDue` is stated
for that case: a skip then stands for an execution of the same order. The routes
never skip, whatever the texts. `RunLogsOnlyGrow` is about a run that one batch
has to itself, as every run of a route is: when two batches share a `run_id`, a
row with a smaller id can be committed after one with a greater id, and a reader
who pages by position sees rows move.

A bad request of the plan's route does not mean that nothing was done
(`bad_request` in `CopierRun`). No text of the repository says that it does, so
there is no failing run for it; the properties of the log hold after it as after
any other end: `AuditGapIsOneItem`, `OrdersBehindLog` and
`ConnectionsAreReturned` do not look at how a batch ended. Nor does the
repository say what a repetition should get after a result that dispatched
nothing, such as `validation_failed`: its key is recorded and it is skipped,
which `SkipIsBacked` permits. The second attempt of a call follows the first
without a pause (`exchange_client_service.py:72`), where the limiter's docstring
speaks of an interval between attempts (line 88).

Without a run: a live call for "binance" raises `NotImplementedError`
(`NoLivePath` in the model, `live_execution_service.py:118`), where
`tests/test_execution_engine.py:139` and `tests/test_live_execution_service.py:87`
expect `ExchangeAdapterNotImplementedError`. And nothing tells two exchange
accounts of one user apart, so that a registration repeated after a lost answer
gives one account two ids, and a dispatch over both twice the exposure; the
limits hold per id.

## 4. Proofs

All are about the specifications as they are checked, for any calls, requests,
attempts, keys, restarts and inputs, from the assumptions on the constants:
`EngineAssumption` (there is at least one attempt; the placeholders are not
values), `LimiterAssumption`, `SizingAssumption`, `RegistryAssumption`
(the rows there at the start satisfy the constraints), `LimitsAssumption`,
`StoredAssumption`, `KeyAssumption` (the texts of two account ids differ, and none
is the separator), `RunAssumption` (jobs have the types of the requests; a batch,
after which a generated `run_id` is named, is no text, so that no caller can have
chosen it, as none chooses a fresh UUID) and `NoKeyAssumption` (the placeholder is
no key).

Every safety property of the passing runs is the subject of a theorem, the two
refinements and the three action properties included.

**ExecutionEngineProofs.** `AtMostOncePerKey` is not inductive: that two orders
are not both accepted depends on which calls may still send. `IInv` adds:
what each call knows of itself (its request is set, its attempt is in range
where it has one); that attempts go out in order and nothing is sent ahead of
them; that two calls of one undoubted key are not in the window together; and the
accounting at the centre: *every order the exchange holds or may come to hold,
under a key not in doubt, belongs to the current attempt of a call that is still
in its window or has returned, and in the latter case its key is recorded*. A new
call with that key is then skipped, or its passing puts the key in doubt. From
`IInv` follow `AtMostOnce`, `HeldOrdersAreReported`, `ReportsAreTrue`, the action
property `RealOrdersNeedTheSetting`, and, with a case for each action, the
refinement `EngineImplementsGuard`.

**DispatchGuardProofs.** `GuardInv` adds to the two properties that no order is
placed for a call before or during its look-up. A finished call stays finished
with its key (`DoneStays`), which backs the recorded keys and the skips.
`PromiseIsKept` carries both to the engine (`EngineRecordsByReturn`,
`EngineSkipsAreBacked`).

**RateLimiterProofs.** While calls do not overlap: the stored time covers all
requests of ended calls; the end of a sleep, and the clock while a call sends,
keep the interval to every request of other calls; the time about to be stored
covers everything. Attempts are counted beside it.

**SizingProofs and OrderSizingProofs.** `RoundDownIsBest` gives the rounded
quantity as the greatest multiple of the step the target can pay for; the
minimums are monotone; the three theorems follow from the invariant that each
stage is a function of the input.

**StoredDispatchProofs.** `RegistryInv` adds to `AnswersAreTrue` what
a registration knows at each stage: in `committed` the row it has is its own, and
nobody's row is ever changed, since tables only grow. `BatchesInv` says of every
batch past its checks that its job was admitted and of every item that it is the
sized input of the account at its place; that account stays registered, supported
and owned, again because tables only grow. The exposure then follows from
`QuantityFits` (a quantity costs no more than the target) and `ProductMonotone`
(risk and leverage within limits, so their product with the balance is), for the
balance each account has reported itself.
`OrdersAreGated` rests on the part of `BatchesInv` that a request behind a gate
is past its check only while the setting is on, which holds because the setting
does not change without a restart, and a restart ends every request.
`RegistrationsAreAtomic` is the refinement of `RegistryPromise`, with a case for
each step of a registration (`RegisterKeepsPromise`); the steps of the requests
are stutters.

**CopierPlanProofs.** `ItemsUpTo` is a recursive function, so that what it gives
for a plan of any length needs an induction. It is done with sets: a nonempty set
of naturals has a least element (`LeastNatural`, from the well-foundedness of
strict inclusion on finite sets), so a set with 0 and with every successor of its
elements is all of them (`NaturalsAreReached`). With it, the function is what its
equation says (`ItemsUpToEquation`), and `ExecutionFollowsThePlan`: an increasing
map takes the items of an execution to the planned items not on hold, all of them.

**CopierRunProofs.** None of the properties of a run is inductive: that the rows
say what happened depends on where each batch is, and that an account listed twice
is executed once on what the engine has recorded. `RunInv` adds

- of every item (`ItemInv`), by its place relative to its batch: items ahead are
  untouched, items passed have ended well and have a committed row, the current
  one is as far as `pc` says; an item that was touched has the key of its request,
  and while the batch lives the key of an executed one is recorded;
- of every batch (`BatchInv`): what its stage says of its request, position and
  current row, and what its results are made of;
- of every row (`RowsInv`): the item it is of, what it says of it, and that it is
  open only while its batch is between insert and commit; rows of one batch are in
  the order of its items (`RowsInOrder`);
- that an executed item of a batch and a later one past its look-up do not share
  a key (`KeysDiffer`), and that connections are free or held by one batch (`PoolInv`);
- the invariant of `DispatchGuard`, which holds because every step of a run is one
  of the engine or leaves it alone (`EngineSteps`, `GuardStep`).

A step of a batch changes nothing of the others (`StepOf`, with `OthersKeep` and
`OtherRowsKeep`), so that `StepKeeps` leaves to each action what it does to its own
batch; `LogUntouched` and `LogTouched` do that for the actions alike, and each
action has a lemma. `RunInv` also holds in all states of `run_audit`.

The properties then follow. `ResponsesCoverRequests` combines `RunInv` with
`ItemsFollowAccounts` and with `LastIsBelieved`: the position a plan goes by is
the last one given for the account, however its id is spelt. `ListedTwiceStaysOnce`
rests on `KeysDiffer`: entries for one account and exchange have one key, since the
items of a batch have one side (`OneSide`). `SkipsStayDue` rests on the keys: a key
is read from its front (`KeyReads`), and a text without the separator, with one
behind it, can be told from what it begins (`PlainPrefix`), so that equal keys
of runs without the separator are of one account in one run
(`KeysTellRunsAndAccounts`), of exchanges without it of equal inputs
(`KeysTellInputs`), and a batch with a generated `run_id` shares its keys with no
other (`OwnRunOwnKeys`). `ReadersSeeRunsGrow` is
about two states: no committed row changes and only the current row of a batch
becomes committed (`StepSettles`), which has the greatest id among the rows of its
batch. `RunKeepsToTheGuard` and `EngineImplementsGuard` together are the reason why
a run may be checked over the promise.

Only model-checked: liveness (`EveryCallEnds`, `EveryBatchEnds`,
`EveryRequestEnds`), which the prover does not reach.

## 5. Not modelled

- Signing, JSON, encryption, password hashing, log payloads: conversions without
  state that no property here is about.
- The lists of the manual previews: what they compute for an account is `Sizing`,
  and they keep nothing.
- The list of the latest log rows: the same table in the other order.
- Schemas, beyond what they let through to the models' inputs.
- Requests other than copier runs as users of the connection pool: they are the
  connections `pool` leaves out.
- Migrations: schema code that runs before the service starts. The unique index
  and the foreign key the models rely on are in `AccountRegistry`.
- Skeleton adapters: every method raises `NotImplementedError`, and no caller
  reaches them.
- Several processes: DEPLOY.md runs one; the key set and the limiter would not be
  shared by more.

## 6. Plan

In this order; all but I are done.

| | Work | Aim |
|---|---|---|
| A | `ExecutionEngine`, its runs and proofs | the most important behaviour: no double sending |
| B | `DispatchGuard`, refinement, proofs | the promise the rest is built on |
| C | `CopierPlan`, `CopierRun`, runs | the audit trail under failures |
| D | `RateLimiter`, runs, proofs | burst protection |
| E | `OrderSizing`, run, proofs | risk and market limits |
| F | findings as failing runs | – |
| G | `StoredDispatch`: the second execution path, its run and proofs | partial failure of `POST /copier/dispatch` |
| H | `AccountRegistry`: check-then-insert against the unique constraint, with the run and proofs of G | concurrent registration |
| K | `IdempotencyKey`: the joined key, in `CopierRun` | when two requests share a key |
| L | the manual and plan routes, log readers and the connection pool in `CopierRun` | refusals, readers and exhaustion beside the failures |
| M | market orders and account queries in `StoredDispatch` | the gate and every answer of the path |
| N | `RegistryPromise`, the refinement and its proof | registration as an atomic act |
| J | `CopierPlanProofs`, `CopierRunProofs`: every safety property of a run | proved for any jobs |
| I | engine and limiter composed: attempts of concurrent calls through one limiter | where the time of a call goes |
