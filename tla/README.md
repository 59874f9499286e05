# A TLA+ model of the demand-forecasting system

The repository forecasts the monthly demand of a portfolio of SKUs and
recommends orders. A Rust controller keeps the state (PostgreSQL) and drives the
work, a Python worker computes forecasts on request, a React dashboard shows
them. This directory holds TLA+ modules of the parts whose correctness depends
on order, interleaving and failure, the TLC configurations that check them on
small instances, and TLAPS proofs that hold for every value of the constants.

Contents: 1 inventory, 2 modules and how they correspond to the code,
3 runs, 4 bounds, 5 fairness, 6 proofs, 7 disagreements between code and
documents, 8 modelling decisions and what is left out, 9 plan.

Paths of source files are given without the leading `src/`.

## 1. Inventory

| Component | State | Operations |
|---|---|---|
| Job queue and run lifecycle (`controller/src/queue.rs`, `server.rs`, `main.rs`) | `forecast_runs`, `forecast_jobs`; the tokio tasks of each claim loop | create a run (POST /runs, POST /skus/{sku}/forecast, `monthly-run`), claim, complete, fail or requeue a job, finalise a run, mark it failed |
| Forecast dispatch and store (`controller/src/orchestrator.rs`, `cached_spec.rs`, `api.rs`; `services/worker/io/blobs.py`) | `sku_runs` and its child tables; joblib blobs on a volume | load the cached spec, drift gate, cold or warm forecast over HTTP, `persist_result`, `complete_run` |
| Pins and reads (`controller/src/server.rs`) | `sku_active_pin` | set and delete a pin, `active_run_id`, listings and time series |
| Cold pipeline (`services/worker/pipelines/cold.py`, `selection/`, `forecasting/refit.py`) | one request's tables | dead-SKU path, fits, probe, escalation, evaluation on two horizons, refit, rollback, winner, TSB override |
| Warm pipeline and drift check (`pipelines/warm.py`, `drift.py`) | one request's tables | rebuild the cached winner, compare two errors |
| Order policy (`oms/policy.py`, `oms/stockout.py`; `dashboard/.../recommendation/policy.ts`) | none | starting stock, stockout risk, demand quantile, MOQ and lot rounding, what-if |
| Features, recursion, rolling-origin search (`features/`, `forecasting/recursive.py`, `selection/rocv.py`, `y_search.py`) | the frame of one forecast | lags, imputation, the recursion over months, folds |
| Exog and intermittent models (`forecasting/exog.py`, `models/intermittent.py`, `selection/hybrid.py`) | fitted parameters | Croston, SBA, TSB; ETS, Prophet, SARIMA by library |
| Panel ingest, migrations and connection (`controller/src/panel.rs`, `db.rs`) | `sales_panel`, `sku_config` | chunked upserts, creation of the database, migrations |
| Dashboard (`dashboard/src/`) | query cache, order cart | polling of runs, cart, what-if |
| Bootstrap and stacking, deployment, research scripts | | see section 8 |

How they interact. The API and the CLI insert a run with its jobs and start a
claim loop in their own process: two processes may drive runs at the same time.
A task of the loop claims a job, calls `Orchestrator::dispatch_for_run`, which
reads the store, calls the worker over HTTP (30 minutes at most), and persists
the answer in one transaction; then the task settles the job. The worker shares
no memory with the controller: it gets the cached spec in the request, writes
blobs to a shared volume, and returns rows that point to them. The store of one
run is the input of later runs: the cached spec comes from the pinned run or
from the latest one. The dashboard only reads, pins, and creates runs.

What is hard, and what makes each component correct:

* **Queue.** Tasks race for rows; every statement is a separate transaction
  (except the claim) and may fail with either effect; tasks leave for good when
  they see nothing to claim; a process may die. Correct: claims are exclusive,
  attempts bounded, nothing is given up early, results are saved before they are
  reported, a run is closed over settled jobs only, no requeued job is left
  behind, every loop ends.
* **Dispatch and store.** Retries write the same keys again, in another mode and
  with another winner; a worker outlives its request; a COMMIT is applied and its
  answer lost; the spec is read in four statements while rows are replaced; the
  pin is validated in one statement and written in another; `completed_at` is the
  start of a transaction. Correct: what is stored under a run supports its
  winner, a spec can be used and is of one moment, a pin resolves, blobs exist
  before they are pointed to, the latest run does not go back in time.
* **Cold pipeline.** Seven stages work on the same list of rows; rollback, winner
  and override act one after the other. Correct: the winner is the best row ever
  evaluated (or the override's), the rollback is whole and just, and the result
  is one that storage and warm path can live with.
* **Warm path.** Has to refuse what it cannot serve; the result of a warm run is the
  spec of the next one, so losses add up. Correct: warm serves what the drift
  check lets through, but for one case that can be named; a chain of warm runs keeps what the cold run chose, and
  drift is measured from there.
* **Order policy.** Boundaries: zero, MOQ, lot 0, a draw that never empties the
  stock, a horizon shorter than the plan. Two implementations of the rounding.
  Correct: an order covers what the stock leaves open with no lot too many, and
  dashboard and worker agree on it.
* **Features, recursion, folds.** The frame is filled forwards and backwards,
  in separate parts, and filled again at every month of a forecast, with the
  forecast written into it. Correct: no feature of a month uses a later one, the
  recursion reads its own last forecast, a fold trains before it validates.
* **Intermittent models.** Months without a sale, series that never sold, the
  first sale. Correct: levels stay in the range of what was sold; the selector
  and the override agree on which series are sparse.
* **Ingest and start.** Loads write in chunks and row by row, beside other loads
  and beside runs that read; processes race to create the database; any of them
  may be killed and started again. Correct: loading again after a failure gives
  what one undisturbed load gives, and a run after a load sees all of it.
* **Dashboard.** Correct: polling ends when the run has ended; the cart follows
  the recommendation it was filled from.

`PROJECT.json` lists the hazards one by one, each at its line, with the
properties that would show it going wrong, or the reason there is none yet.

## 2. Modules

| Module | Models | Composed of |
|---|---|---|
| `RunLifecycle` | the abstract promise of a run: tried at most `MaxAttempts` times, settled once, closed over settled SKUs | |
| `JobQueue` | queue.rs and the parts of server.rs and main.rs that create and drive runs | refines `RunLifecycle` |
| `JobQueueProofs` | theorems about `JobQueue` | extends it |
| `Forecasts` | the vocabulary of results (winner, combinations, slots, residuals) shared by store and selection, and what the worker makes of a cached spec | |
| `ForecastStore` | orchestrator.rs, cached_spec.rs, the pins, blobs.py, and attempts that overlap and fail, for one SKU | extends `Forecasts` |
| `ForecastStoreProofs` | theorems about `ForecastStore` | extends it |
| `WarmPath` | drift.py, warm.py and the dispatch that calls them, for one SKU over a chain of runs | extends `Forecasts` |
| `WarmPathProofs` | theorems about `WarmPath` | extends it |
| `ModelSelection` | cold.py with probe, escalation, rollback and winner | extends `Forecasts` |
| `ModelSelectionProofs` | theorems about `ModelSelection` | extends it |
| `Startup` | db.rs: finding, creating and migrating the database, several processes at once, kills | |
| `PanelIngest` | panel.rs: `controller seed` | extends `Startup` |
| `OrderPolicy` | oms/policy.py, oms/stockout.py, the dashboard's policy.ts, as operators | |
| `RecursionTheorems` | induction over a bounded range and over finite sets, and what a recursive function is that has its equations | |
| `OrderPolicyProofs` | theorems about `OrderPolicy` | extends it and `RecursionTheorems` |
| `Replenishment` | from the panel to an order: a monthly run beside the loads | extends `PanelIngest`, `OrderPolicy` |
| `ReplenishmentProofs` | theorems about `Replenishment` | extends it and `OrderPolicyProofs` |
| `RollingOrigin` | the folds of rocv.py, as operators | |
| `Intermittent` | models/intermittent.py and the decisions taken from it in selection/probe_escalate.py, as operators | |
| `Features` | features/ and the step of forecasting/recursive.py, as operators on what reaches what | |
| `Series` | a SKU's series month by month, its search and its forecasts | extends `RollingOrigin`, `Intermittent`; an instance of `Features` |
| `SeriesProofs` | theorems about `RollingOrigin`, `Intermittent` and `Series` | extends `Series` and `RecursionTheorems` |
| `MC*` | the constants TLC uses | extend the module of their name |

**JobQueue.** `run`, `config`, `job` and `result` are database state (the last is
"there is a sku_runs row"); `loop` and `task` are the program counters of
`run_monthly` and of its tasks. `job` keeps `claimed_by` and `attempts` as the
table does. The claim is two actions, `LockNext` (SELECT ... FOR UPDATE SKIP
LOCKED) and `CommitClaim`, so that other tasks run while a row is locked;
`ReadAttempts` and `MarkFailedOrRequeue` are the two statements of
`mark_failed_or_requeue`; `FinalizeCount` and `FinalizeUpdate` those of
`finalize_run_if_done`. Every statement has a twin that fails, with the effect
applied or not (`ClaimFails`, `MarkCompletedFails`, ...), and what the code does
with the error: log and loop, return, mark the run failed, or drop it. `Crash`
ends the driving process at any point. `faults` bounds failed statements and
crashes; a failing forecast (`DispatchErr`) is not a fault but part of the
work, and is unbounded.

**RunLifecycle.** Six actions; `JobQueue` maps `queued` and `claimed` to `open`.

**ForecastStore.** A row is represented by the attempt that wrote it, so that
mixtures of two attempts under one run can be seen. `call` is the program
counter of `dispatch` with its local variables: `Load`, `ReadModels`, `ReadRest`
are the statements of `load_latest`; `DriftAnswers` and `DriftFails` the gate;
`SendCold` and `SendWarm` the request, `SaveBlob` one file written by the worker,
`Answer`, `WorkerFails`, `GiveUp` its outcome for the controller; `BeginTx`,
`Commit`, `CommitLost` are `persist_result`, with DO NOTHING for combinations and
DO UPDATE elsewhere; `CompleteRun` is the CLI's. `CheckPin`, `SetPin`,
`DeletePin` are the operator. `abandoned` is history: the runs in which a
worker or a COMMIT was given up on.

**WarmPath.** A run is alone here, and the detail is in what it reads and stores:
a spec has its hyperparameters per model slot, the errors its residuals amount
to, and the variant that won. `Begin` is the start of `dispatch` (latest or pinned
spec, panel, flags), `DriftAnswers` and `DriftFails` are `run_drift_check` with its
early returns in the code's order, `RunWarm` and `RunCold` the two pipelines with
what they store or raise. `panel` says whether there are recent sales and rows in
the VAL window; `Ingest` changes it at any time. `origin` is history: the cold
result a stored row descends from. `fresh` holds the errors each variant of the
cached models would have on the rows the check was given; the code computes the
one of RF.

**ModelSelection.** One behaviour is one call of `run_cold`. `combinations` is
the list that is returned, `evaluated` everything that was ever evaluated (the
code's `per_combo_preds`), `slots` and `resid` what the warm path of a later run
relies on. Errors (MAE) are data: TLC tries every order of three values.

**Startup, PanelIngest.** `pc` is what each process is about to do. `CheckExists`
and `CreateDatabase` are two statements, so that a process may find the database
missing and create it when another already has; it then exits with the error and
is started again. `FlushPanel` is one INSERT of `CHUNK` rows, or the end of the
load when a date does not parse while the chunk is read; `UpsertConfig` is one
row, and a row that fails is logged and skipped. `Stored` is the cast of
`t_check` and `h_cover` to INT columns, by what it rounds to. `KillLoader` ends a load
anywhere. `base` (the panel before any load), `loaded` (some seed has run to its
end) and `warned` (rows logged as failed) are history.

**Replenishment.** The `Runner` starts like a loader and then goes through
`CreateRun` (the SKUs the panel has, and the hash over its keys), `load_panel_rows`,
`load_params`, `run_forecast`, each a statement or a request of its own with the
loads running in between. `job` is what the run has read, `rec` the
recommendation row. `run_forecast` is the dead-SKU answer, cold with any
simulation and bias factor, or warm with any simulation; each computes the order
with the operators of `OrderPolicy`. Quantities count parts of a piece, `Unit` to
a piece, so that an interpolated quantile is exact.

**Intermittent.** `CrostonLevels` and `TsbLevels` are the loops of Croston and TSB, the
level after each month as a function of the month, on exact fractions: a level is
kept scaled by powers of `AlphaInv`. SBA is a factor on Croston.
`select_intermittent` is the selector "auto", `should_dense_override` the exception
to it, `MayEscalate` what `search_exogs` does with both.

**Features.** Numbers are abstracted to provenance: a value is the set of
observations it is computed from, each a column and a month, and the empty set
is NaN. `shift`, `ffill`, `bfill` move and repeat such sets, a rolling mean unites
them, `Ratio` is missing where the stock it divides by is zero. `prep_features_y`
is the frame of features, `Predicted` one step of `recursive_forward_predict_y`.

**Series.** `RecordMonth` lets the panel grow, which gives the folds and the
selector every short series. `StartForecast` builds the frame of one of three
forecasts: over the VAL window to score a method, over the TEST window with a
PRE model, over the TEST window with a REFIT model, whose history ends before
the VAL window. `PredictMonth` is a month of the recursion: features from the
frame, forecast into the frame, the exogenous columns smoothed once more.
`empty` holds the stock observations that are zero, the one thing about numbers
that decides what reaches what.

**Composition.** Queue and store meet in the outcome of a dispatch: `JobQueue`
takes "Ok, and saved" or "Err, saved or not", `ForecastStore` shows how these
come about and that a retry follows an error only. Store and selection meet in
`Forecasts!ColdOutcomes`: `ForecastStore` assumes its `Outcomes` to be among them,
`ModelSelection` shows that `run_cold` returns nothing else
(`ResultIsAColdOutcome`). Store and warm path meet in `MayAnswer` and `WarmOutcome`:
`ForecastStore` takes what they allow as a free choice, `WarmPath` shows that
drift.py and warm.py stay within it (`StoreAssumesRightly`). `Replenishment` composes the loads, the run that reads
beside them and the policy; its `CreateRun` is what gives `JobQueue` its SKUs,
and its `run_forecast` is the request `ForecastStore` sends. `Series` composes
folds, intermittent models and features over one series; what `ModelSelection`
takes as errors comes from the forecasts whose frames `Series` follows.

`PROJECT.json` maps every definition to its lines. Operators such as
`ClaimableIgnoringLocks` or `RefitUnsaved` that stand before an operator of a
similar name and are used nowhere are the same operator with a plausible bug:
for every property one of them, put in place of the correct definition, makes
TLC report the property violated.

## 3. Runs

| Run | States | Shows |
|---|---|---|
| `queue_safety` | 33,188 | with any two faults: all safety of the queue, its inductive invariant and the refinement; `RunCompletes` (no fault: a run with a task completes, however often forecasts fail), `LoopEnds` (whatever fails, the loop ends) |
| `queue_default_body` | violation | POST /runs without a body leaves every job queued |
| `store_safety` | 2,730,624 | three attempts over two overlapping runs, of the queue and of the CLI, and an operator who pins: `WinnerIsBacked`, `SpecIsUsable`, `SpecIsASnapshot`, `CleanRunIsOfOneAttempt`, `BlobsExist`, `PinResolves`, `CompletedRunHasForecast`, `LatestIsMonotone` |
| `store_intermittent` | violation | an Intermittent spec reaches warm with the drift check on |
| `store_own_spec` | violation | a retry takes its own run's row for a prior run's |
| `warm_safety` | 129,212 | chains of three runs: `ChainKeepsItsOrigin`, `GateMeasuresFromCold`, `RefusedOnlyUncovered`, and that `ForecastStore` assumes the right thing of the worker (`StoreAssumesRightly`) |
| `selection_safety` | 1,351,553 | `WinnerIsBest`, `OverrideIsIntermittent`, `RollbackIsWholeAndJust`, `ResultIsAColdOutcome` |
| `replenishment` | 75,344 | two loads and a monthly run overlap, fail and are killed: `PanelIsAPrefix`, `ReseedChangesNothing`, `RunAfterASeedSeesTheFile` of the tables, `OrderCoversDemand`, `WhatIfAgrees`, `NoOrderWithoutRisk` of the order, `SeedCompletes` under fairness |
| `order_trigger` | violation | an order is recommended although the expected stockout is beyond T_CHECK |
| `series` | 42,322 | every short series: `SearchIsSound`, `OverrideNeverRescues`, `LevelsStayInRange` of the search, `LaterRowsAreCausal`, `RowsAreCausal`, `RecursionFeedsItself`, `SmoothingReach` of the frames |
| `series_sparse` | violation | a series with sales in four months of five is taken for intermittent |
| `series_causal` | violation | the first VAL month, prepared causally, reads its own demand |

The properties worth a second look:

* `NoneLeftBehind`. A task that finds nothing to claim returns, even while
  another may yet requeue a job. Nothing is lost because `claim_one`, not a
  counter, ends a task, and the task that requeues goes on claiming. The
  property excludes the case where every task failed to start (all `aborted`):
  then jobs stay queued and the run stays running.
* `AttemptsBounded`. `mark_failed_or_requeue` reads and writes in two statements
  without a lock. It is safe because a claimed job is touched by its task alone;
  this is `BusyOwnsJob` and `SeenIsCurrent` of the inductive invariant.
* `WinnerIsBacked` against `CleanRunIsOfOneAttempt`. Rows of two attempts can
  lie under one run (that is what `abandoned` marks); still the winner named by
  the sku_runs row is backed by the rows of the attempt that named it.
* `SpecIsUsable` holds although the four reads of `load_latest` are in no
  transaction and rows may be replaced between them, since rows are replaced
  and added but never deleted. A warm attempt is persisted under the run with
  the residuals it was passed; were they dropped, the next run's spec would be
  unusable.
* `SpecIsASnapshot`. The four reads might mix two runs (a pin set or deleted, a
  younger run persisted in between) or two states of one run. They do not: the
  run is chosen by the first read and named in the others, and its rows change
  again only if an attempt of it was given up on.
* `LatestIsMonotone`. `completed_at` is the time a transaction began, and
  transactions commit in another order; the latest run still never moves back,
  because attempts of one run do not overlap.
* `ChainKeepsItsOrigin` and `GateMeasuresFromCold`. A warm run stores the spec of
  the next, so what it drops is gone for good, and a baseline measured afresh
  would let errors grow by a fifth in every run without a drift. The code passes
  the residuals of the cold run on unchanged, so the margin is never spent twice.
* `RefusedOnlyUncovered`. Without rows in the VAL window the check says "no drift"
  whatever it was given. The one winner that passes and cannot be served is
  Zero; such a run fails, and stores nothing that would change the next one.
* `PanelIsAPrefix` and `ReseedChangesNothing`. No transaction spans a load, loads
  overlap and are killed, and a file may have a row that does not parse: the
  panel is nevertheless the old one overwritten by the first chunks of the file,
  and after one complete load nothing any other load does takes anything back.
  This rests on the file naming a key once and on all loads having the same file.
* `RunAfterASeedSeesTheFile`. The run takes its SKUs and its rows in separate
  statements; a SKU with half its rows would be taken for a dead one. A run that
  starts after a seed reads all rows; the property says nothing of a run that
  starts in the middle of the first load, and such a run does read a prefix.
* `NoOrderWithoutRisk`. The risk beside an order comes from the raw simulations,
  the order from the bias-corrected ones. They contradict each other only when
  the plan covers more than the six months of the risk, or the correction scales
  demand up.
* `LaterRowsAreCausal` and `CausalPrepIsStrict`. `ffill().bfill()` is run on each
  part on its own, so the head row of the train part and of the VAL part has its
  own demand as "last month's demand": the second property, which is what the
  code's comments promise of the VAL part, is violated. The first says that no
  other row, and no other feature of that row, knows of a later one.
* `RecursionFeedsItself`. The recursion reads the forecast of the month before
  although the whole frame is filled backwards at every step. A REFIT forecast
  starts from a demand as old as the VAL window, as its history ends there.
* `IntermittentOnlyIfSparse`, `OverrideNeverRescues`. The selector should pick out
  sparse series; one month without a sale makes any series intermittent, however
  long it is (`SelectorFindsAGap`), so the first is violated. The override that
  should rescue series which sell again never applies.
* `SmoothingReach`. The whole frame is smoothed again at every step of the recursion,
  so a late forecast month sees an average over a longer past than an early one,
  by two rows a step; the property says that it is no more than that.

CHECK_DEADLOCK is on for `warm_safety` (a panel can always be loaded) and off for store, selection, replenishment and series: attempts
are used up, a forecast or a load is done, and the system stops. The queue has an explicit `AllEnded`
instead, so a claim loop that stands still would be reported as a deadlock.

## 4. Bounds

* **One run in the queue runs.** Jobs of different runs share no row, and a loop
  touches its own run's rows only. The proofs are for every set of runs.
* **Two tasks, two SKUs and an unknown one.** Two tasks are enough for every race
  for a row; with two SKUs one task can settle a job while the other holds the
  last; the unknown SKU only ever fails (`POST /skus/{sku}/forecast` does not
  check it). Concurrency 0 is included because a missing body gives it.
* **MaxAttempts = 2** is the code's constant.
* **MaxFaults = 2**: a failed statement and then a crash, or two failed statements
  of one task.
* **One SKU in the store.** No statement of dispatch or pins touches two SKUs.
* **Two runs, three attempts.** Three attempts give one run both of its attempts
  and let a later run read between and after them; overlapping is included,
  since a run may begin before another's attempts have ended. Each run is of the
  queue with the drift check, of the CLI without it, or of the CLI and cold: every
  driver and every gate, but not every pair. The queue without the check and the
  CLI with it are in the proofs only, which are for any plans.
* **Four outcomes.** One of each kind: dead, Intermittent winner, refit rolled
  back, refit kept with a hybrid winner. They differ in everything the store
  tells apart.
* **Three warm-path runs** (`MaxRuns`): a cold run and a chain of two warm ones, or
  a cold one in between. The cold results are won by RF after the refit, by XGB,
  by the ensemble, and by TSB; with `DriftPct` 20 (`drift_eps`) the errors 0, 5, 6,
  7 and 9 lie on both sides of the margin of 5, 6 and 7, and 6 on its boundary
  for 5. The proofs are for any errors, margin and number of runs.
* **Three errors**, so that a row can lie between two others and equal either;
  with DeltaPct = 2 the middle error is inside the margin of one and outside
  that of the other. The proofs are for any errors and margins.
* **Two loaders, one runner, one kill** (`MaxCrashes`). Two loads give every
  overlap of two writers; a load or the run may be killed once, at any point.
  The server has the database or not, the panel of an earlier load or not.
* **Six rows in chunks of two** (`CHUNK`). Two SKUs of three months: month 1 lies before the dead-SKU window,
  month 3 is the first TEST month, and the second chunk holds rows of both SKUs.
  `BadRows` is {0, 4}: no bad row, or one in the second chunk. The proofs are for
  any file, any chunk size and any number of loaders.
* **Two draws over seven months**, with demand setting in in month 1, 2 or 7, one
  draw negative (it is clipped), and the factors half, one and three. Seven
  months lie beyond the six of the risk. Quarters of a piece (`Unit` = 4) make
  interpolated quantiles and rounding to whole pieces differ. Policies have a
  lot, no lot, a MOQ, none, an override of zero and of a quantity.
* **Series of up to seven months**: four train months, three VAL and three TEST
  months; `MinTrain` 3 and `NSplits` 3 put the border between the short fold and
  the rolling ones at six months, inside the range. A month sells nothing with
  an empty stock, or four, or (in the first three months) one. Forecast stock is
  zero in no month, the first or all; either exogenous column may be missing.
* **AlphaInv 2, EpsInv 32, DenseLastN 3** stand for 10, 10^6 and 6. They satisfy
  the same inequality (`NearZeroAssumption`), on which `OverrideNeverRescues`
  rests, and keep the scaled levels within TLC's integers.

## 5. Fairness

`FairSpec` of `JobQueue` assumes weak fairness of `LoopStep(r)` and of
`WorkerStep(r, w)`: tokio polls every task that is ready, Postgres answers a
statement, and a call to the worker ends within the client's timeout of 30
minutes. Weak fairness is enough, as a step of a task stays enabled until the
task takes it, except that a row lock of another task may change what an idle
task does (claim or leave), which is the same fairness unit. Faults, crashes and
the creation of runs carry no fairness. `RunCompletes` excludes behaviours in
which a fault has happened: a crashed loop is not restarted by anything, and its
run stays `running`.

`FairSpec` of `Replenishment` assumes weak fairness of each loader's own steps,
being started again included: a failed `seed` is a container or a command that is
run once more. Kills are bounded and carry no fairness. `SeedCompletes` is about
files without a malformed row; with one, every load fails at the same place for
ever, and the run shows that too (the property's left side excludes it). The
runner has no fairness, as no property needs it.

## 6. Proofs

`tlapm M.tla` proves every obligation of `JobQueueProofs`, `ForecastStoreProofs`, `WarmPathProofs`,
`ModelSelectionProofs`, `RecursionTheorems`, `OrderPolicyProofs`, `ReplenishmentProofs`
and `SeriesProofs`. Every safety property a passing run checks is a theorem.

**JobQueue**, from the named assumptions of the module (runs and SKUs are
numbers, 1 is a possible concurrency, MaxAttempts is positive, the null values
are no worker and no SKU), for any number of runs, SKUs, tasks, attempts and
faults:

* `QueueInvariantHolds`: `Spec => []QueueInvariant`, the inductive invariant;
* `TypeCorrect`, `ClaimExclusiveHolds`, `AttemptsBoundedHolds`,
  `CompletedHasResultHolds`, `CompletedRunSettledHolds`, `NoneLeftBehindHolds`,
  from it;
* `QueueImplementsLifecycle`: `Spec => Lifecycle!Spec`, under the refinement
  mapping of section 2;
* `SettledIsFinal`, from the refinement: a settled job keeps its outcome and its
  number of attempts, and a run that is over never runs again. `RunLifecycle`
  allows no step that changes an outcome but `Start`, which needs an absent run,
  and an absent run has no jobs (`RunFollowsLoop`).

The safety properties are not inductive. `ClaimExclusive`, for instance, is
preserved only because a busy task *owns* its job: it is claimed, by this task
(`BusyOwnsJob`), so nobody can lock it; and because a lock is on a queued job and
held once (`LocksHeld`). `AttemptsBounded` needs what each status says of the
number of claims (`AttemptsOfStatus`) and that the number read is still current
when used (`SeenIsCurrent`). `CompletedRunSettled` needs that between count and
update no task is left to reopen a job (`RunFollowsLoop`). `NoneLeftBehind` needs
`SomeoneStillLooks`: as long as a task has left and a job is queued, another
task is in the loop. The refinement maps each claim that takes effect to `Try`,
each effective settlement to `Complete` or `Fail`, `FinalizeUpdate` to `Close`,
`MarkRunFailed` to `Abort`, and everything else, requeues included, to a
stutter; that `Complete` and `Fail` are allowed where they happen is the
invariant's `RunFollowsLoop` and `AttemptsOfStatus`.

**ForecastStore**, for any number of runs and attempts, from the assumptions that
runs and attempts are positive numbers and that the cold outcomes and the plans
are among those the code can produce:

* `StoreInvHolds`: the invariant `StoreInv`. Of each attempt (`CallOK`) it says
  where it stands (`Placed`), what it has read (`Reads`), what it will write
  (`Results`) and which blobs its worker still owes (`Saves`); of each run
  (`RunOK`), that its rows support its winner, and that it is of one attempt
  unless something was given up on. `Serial` says that the attempts of a run
  follow one another, each after an error;
* from it `TypeCorrect`, `WinnerIsBackedHolds`, `SpecIsUsableHolds`,
  `CleanRunIsOfOneAttemptHolds`, `BlobsExistHolds`,
  `PinResolvesHolds`, `CompletedRunHasForecastHolds`; and, with the lemma that a
  row is only ever replaced by one of a younger transaction,
  `LatestIsMonotoneHolds`.

What an attempt has read is stale as soon as another persists, so a property of
the spec cannot be preserved by comparing it with the tables; it is preserved
because rows are only added or replaced, never removed: what had a model and
residuals when it was read has them still (`RowsStay`). `CleanRunIsOfOneAttempt`
needs `Serial`, and that a live attempt of a run not given up on finds no row
there (`NothingSavedYet`). `WinnerIsBacked` needs that a result which is about
to be persisted supports its own winner, which for a warm result comes from
`Reads`. That there is a latest run is an inductive part of the invariant
(`HasLatest`), so no run set need be finite.

`SpecIsASnapshotHolds` says more than that what was read is still there, namely that
nothing else is, so it needs an invariant of its own beside `StoreInv`. `Snapshot`
adds that a run which was read has a row, of whatever attempt has read it. An attempt
persists under a run that has a row only if that run was abandoned
(`NothingSavedYet`), so a commit leaves alone whatever another attempt has read of a
run that was not.

**WarmPath**, for any errors, hyperparameters and margin, any number of runs, and
any cold results that have residuals of their winner, an RF model of each phase
and residuals of the hybrid table (`WarmAssumption`):

* `WarmInvHolds`: the invariant `WarmInv`. Each stored row, and the row a run has
  read, descends from a cold result or from the zero forecast and has inherited
  all that matters of it (`RowOK`); an open gate has seen no winner it had to stop
  (`GateOK`). A warm result keeps the slots of the winning phase only; that the
  parameters chosen from it are those chosen before, since the fallback to PRE
  finds the same, is the lemma `RefittedKeeps`;
* from it `TypeCorrect`, `ChainKeepsItsOriginHolds`, `GateMeasuresFromColdHolds`,
  `RefusedOnlyUncoveredHolds`, and `StoreAssumesRightlyHolds`: under the abstraction
  `Abstract`, each verdict and each result is one `ForecastStore` allows.

**ModelSelection**, from its assumptions (Maes and the margins are naturals,
DeltaPct at most 100, some basic method remains to be probed):

* `TypeCorrect`;
* `WinnerIsBestHolds`: for any margin and any errors no evaluated row, discarded
  ones included, beats the winner. The invariant says that before `Select` all
  evaluated rows are still candidates; the step itself rests on
  `DiscardedIsBeaten`: a discarded row is beaten by a row that is kept, as the
  margin only ever makes it harder to discard;
* `RollbackIsWholeAndJustHolds`: the rollback acts on both horizons alike.
  Needs that every phase was evaluated for the same combinations on both
  horizons, which is part of the invariant.
* `ResultIsAColdOutcomeHolds`: what the selection returns is one of the results
  `ForecastStore` is checked with. Needs which combinations have been evaluated
  at each stage (`Progress`), and that the answer was chosen among them
  (`Answered`);
* `OverrideIsIntermittentHolds`: provided Intermittent is among the probe methods.
  A rollback cannot take the row away, since it is a PRE row.

**Recursion.** A backend cannot instantiate an induction principle that takes an
operator, so `RecursionTheorems` states induction about sets: a set that holds 0,
and i whenever it holds i - 1, holds all of 0 .. n (`UpTo`); one closed under
adding an element holds every finite set (`AllSubsets`). A property is proved by
naming the set of what has it. A recursive function is a CHOOSE, and what it
computes is known once some function satisfies its equations: `RecursionUpTo` and
`RecursionOverSubsets` construct one for any step, `Follows` and `FollowsPicks` say
what its equations are. Cumulative sums, Croston and TSB levels and powers are the
first kind, `MapThenSumSet` the second.

**OrderPolicy**, for every quantity, MOQ and lot, zero and negative ones
included: `RoundingIsRight` (the rounded order covers the quantity and the MOQ,
is a whole number of lots and is the least such), `ReplicaAgrees` (the
dashboard's copy gives the same), `RoundingIsMonotone`. They rest on one lemma
about rounding up to a multiple. For any number of months and draws, and any
simulated values, negative ones included:

* `DemandQuantileIsQuantity`: what an order covers is an integer and not negative;
* `DemandQuantileIsMonotone`: in the cover, in the target and in the simulations.
  An order statistic is where the counts of smaller values say
  (`OrderStatisticIsRanked`), hence grows with its rank and with the values; an
  interpolated quantile lies between two of them (`BetweenIsBetween`), so one with a
  larger position never lies lower (`QuantileIsMonotone`);
* `NoRiskNoNeed`: if no draw empties the stock within K months, then every draw's sum
  over K months or fewer is below the stock, so every quantile of these sums is.

**Replenishment**, for any number of loaders, any files, tables and chunk size,
from the named assumptions: a file names a key once, stored policies are
policies, and a simulation is a table of integers with at least one month and one
draw (`DemandAssumption`, typing only).

* `LoadsAreSafe`: the invariant `LoadInv` of the loads. Each loader has written
  what lies before its position (`LoaderInv`), the panel is the base overwritten
  by a prefix that reaches at least as far as any load has come (`PanelInv`), and a config row is
  the file's unless its last write was logged (`ConfigInv`). The second is what
  makes overlapping loads harmless: a chunk written again over a longer prefix
  changes nothing, because the file names a key once;
* `RunsAreSafe`: beside it, `RunInv`: what the run has read is typed (`DataInv`),
  is of the whole file if it started after a load (`JobInv`), and the
  recommendation was computed from it (`RecInv`);
* from them `PanelIsAlwaysAPrefix`, `ReseedNeverChangesAnything`,
  `RunsReadTheWholeFile`, `ReplenishmentTypes`, and, with the theorems about
  `OrderPolicy`, `OrdersAreRight`, `WhatIfAlwaysAgrees` and `NoOrderWithoutRiskHolds`;
* `MoreSafetyNeverOrdersLess`, of two recommendations made from the same rows and
  simulations: a longer cover, a higher target or a larger factor never gives the
  smaller order. Scaling, summing, the quantile and the rounding are each
  monotone. No run states it, as no state holds two such recommendations.

**RollingOrigin**, for any number of splits and any minimum: `FoldsAreSound`,
`NewestMonthIsScored` (three or more splits: with one or two and a series of
exactly `MinTrain` + `NSplits` months no fold would be yielded), `AllSplits`.

**Series**, for windows of any length, any sales and any exogenous columns:

* `SeriesInvHolds`: the invariant of a forecast under way, `JobInv`. Its frame is
  causal: whatever row i holds of orders or stock is known by row i's month. Its
  months increase and are consecutive (from the history on, with the gap of a
  REFIT forecast at its known place). The first row of orders and of stock is
  known, so nothing is ever backfilled from below: this is the part that makes
  the invariant inductive, since `bfill` alone would carry later months upwards.
  And the demand of every row before the one to forecast is an observation or a
  forecast of that row's month;
* `JobReach`, the part of the invariant that bounds how far back a frame reaches:
  after k smoothings a value in a row is at most 2k rows older than the row, or no
  older than the end of the history (either may be two rows older for PRE, whose
  VAL months were smoothed once when they were prepared). A value missing below the history is
  filled from its last known row (`FilledFromTheLast`), never from further up, and
  only before the first smoothing: after it no row is missing (`KnownRows`). One
  step of the recursion is `ImputeReaches`; from it `SmoothingReachHolds`;
* from `JobInv` `RowsAreCausalHolds` and `RecursionFeedsItselfHolds`; and, by the same
  lemmas about `ffill`, `bfill` and the trailing mean, `LaterRowsAreCausalHolds`;
* `SearchIsSoundHolds`, from the theorems about `RollingOrigin`;
* `OverrideNeverRescuesHolds`, `LevelsStayInRangeHolds`, from the
  theorems about `Intermittent`, as what is recorded is a series of naturals.

**Intermittent**, for series of any length, any weight 1/`AlphaInv` and any eps and
number of months that `NearZeroAssumption` allows (`DeployedWeights`: the values of
`config.py` are among them):

* `ForecastsStayInRange`: a level is between zero and the largest month sold, scaled,
  and an interval is at least one month; each month moves a level towards a value
  in that range and never past it (`TowardsInRange`, `CrostonMonthStays`,
  `TsbMonthStays`), which is an invariant of the loop;
* `SelectorFindsAGap`: a series is intermittent exactly when a month of it sells
  nothing. The long gaps are positive numbers, so their sum is at least
  their count and exceeds 0.32 of it as soon as there is one (`SumOfPositives`);
* `OverrideIsOutOfReach`: a sale leaves a level and a probability of at least alpha
  (`SaleLeaves`); a month without one leaves the level alone and takes alpha of the
  probability (`MonthLeaves`). By the assumption their product is more than eps if
  the sale was `DenseLastN` months ago, and if it was later (`LaterSalesLeaveMore`).

**Proved only.** The type invariants (`TypeOK`) are no properties of the runs, except
as the first part of `QueueInvariant`: each is proved (`TypeCorrect`,
`ReplenishmentTypes`).

**Model-checked only.** Liveness (`RunCompletes`, `LoopEnds`, `SeedCompletes`):
fairness and ENABLED are out of the prover's reach.

## 7. Where code and documents disagree

Six runs are expected to violate a statement of a document or comment:

1. `queue_default_body`: `docs/PROJECT_OVERVIEW_TR.md:426` starts the whole
   portfolio with a POST without a body. `create_run` then uses
   `CreateRunBody::default()`, whose concurrency is 0, and not serde's 8: no task
   is spawned, all jobs stay queued.
2. `store_intermittent`: `warm.py:54-55` says that an Intermittent spec comes there
   only when the drift check is disabled. A *failed* drift check also proceeds
   warm (`orchestrator.rs:66`).
3. `store_own_spec`: `cached_spec.rs:3-5` says the spec is that of a completed
   prior run. The query looks at the sku_runs row and does not exclude the run
   being forecast: after a COMMIT whose answer was lost the retry loads its own
   run's row.
4. `order_trigger`: `docs/PROJECT_OVERVIEW.md:180` (and
   `docs/PROJECT_OVERVIEW_TR.md:308`) let a reorder fire only if the expected time
   to stockout is within T_CHECK, as `scripts/model_v3.py:1361` does. `cold.py:465`
   and `warm.py:209` compute the order whatever that time is.
5. `series_sparse`: `docs/PROJECT_OVERVIEW.md:271` sends series with a "high zero
   ratio / high ADI" to the intermittent methods. The ADI of
   `models/intermittent.py:80` leaves out the empty gaps, so that one zero month is
   enough.
6. `series_causal`: `features/pipeline.py:3` "keeps strict causality under
   `causal=True`", and `lags.py:3` calls all lags strictly causal.
   `features/pipeline.py:32` fills them backwards: the first VAL row reads its own
   demand as last month's, and its own orders and stock as those of earlier months.

Met while modelling, and stated by the models without a run of their own:

* A SKU without sales in twelve months should return zero without entering a
  pipeline (`docs/PROJECT_OVERVIEW_TR.md:285`, :251). Only `run_cold` looks
  (`cold.py:106`): with an earlier result the SKU goes warm and keeps the forecast
  of its old winner, unless the drift check stops it: `Begin`, `RunWarm`.
* `drift.py:49` announces "the cached winning Y model (RF or XGB blob)". Lines 52-57
  load the RF slot whatever won, and line 79 takes the residuals of the winning
  variant, so two different models are compared: `Drift`, `GateMeasuresFromCold`.
* `docs/PROJECT_OVERVIEW_TR.md:261` and :395 and `config.py:99` name CarryForward as a
  probe method; `build_probe_list` filters it out: `ProbeList`.
* The dense override cannot apply (`probe_escalate.py:31`): `OverrideNeverRescues`.
* A REFIT forecast has no history of the VAL months, though the model was fitted
  on them (`cold.py:343`): the exception in `RecursionFeedsItself`.
* `STARTING_STOCK_OVERRIDE` = 0.0 overrides (`policy.py:13`), where
  `docs/PROJECT_OVERVIEW_TR.md:313` says "if not 0": `infer_starting_stock`.
* A T_CHECK or H_COVER of a quarter of a month is stored as 0 (`panel.rs:132`, :133):
  `Stored`.
* `data_version_hash` covers the keys of the panel (`main.rs:196`), where
  `orchestrator.rs:155` speaks of its contents: `job.hash`.
* A SKU with no rows in the VAL window passes the drift check, and warm cannot
  serve a Zero winner (`drift.py:46`): the exception in `RefusedOnlyUncovered`.

## 8. Modelling decisions, and what is left out

* A job's status, not its error text; wording and logging nowhere.
* In store and selection the Y variants of a combination (RF, XGB, Y-ENS) are one
  row, the best, and the RF and XGB slots of a phase are one slot (`WarmPath` tells
  them apart). Both are written in one transaction and
  chosen alike.
* Exog methods are "single" (the best single one) and "hybrid": the store and
  the warm path treat single methods alike.
* Winning columns of sku_runs are never NULL: cold and warm always set them.
* In `ForecastStore` panels cover the VAL window, so the drift check compares two
  errors, or answers "drift" for Intermittent and for a missing model. An empty
  window is in `WarmPath`. There a panel has rows before the window, and XGBoost
  is installed (`requirements.txt`).
* Configuration flags are as `config.py` sets them (refit on, hybrid on,
  intermittent models on).
* A failed statement is either not applied, or applied with its answer lost.
  Postgres itself does not fail in other ways; a crash rolls back open
  transactions.
* One process per run: nothing in the code resumes a run in another process.

* All loads of a behaviour have the same file, as `deploy/seed.sh` has.
  `ingest-panel` is a seed that stops after the panel; `status` and `backfill`
  connect without migrations and write none of these tables.
* Numbers of the frames are abstracted to what they are computed from, so
  rounding, scaling and the trees' arithmetic are not in `Series`; in `OrderPolicy`
  and `Intermittent` they are exact integers and fractions, where the code has
  floating point.

Not modelled: the numeric models (trees, ETS, Prophet, SARIMA, stacking), the
grid search over their parameters (`y_search.py`) and the bootstrap, whose
results are data here; `approxRescaleCumDemand` (`policy.ts:78-103`), which says of
itself that it is approximate; listings, history and time-series reads, which
change nothing; rendering, and in the dashboard the polling of a run (it ends
when the status it reads has ended) and the cart (a map that is edited by hand);
deployment files.

Research scripts and notebooks (`scripts/`, `notebooks/`, the notebooks at the root)
are predecessors of the worker and are not run by it; they are copies of one
another and hold most of the lines of the repository. The models follow the
worker, which names the lines it mirrors.

## 9. Plan

Done, in this order: inventory; `RunLifecycle`, `JobQueue` and its proofs;
`Forecasts`, `ForecastStore`, `WarmPath` and their proofs; `ModelSelection` and its proofs;
`OrderPolicy`, `Startup`, `PanelIngest`, `Replenishment` and their proofs; `RollingOrigin`,
`Intermittent`, `Features`, `Series` and their proofs. The queue decides whether
work is done, the store whether what is shown belongs together, the selection
what is stored, ingest and policy what is ordered, the frames what a forecast is
made from.

What remains:

1. Queue and store in one module, with the dispatch of the queue replaced by the
   attempts of the store, for one SKU.
