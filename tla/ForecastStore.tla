---------------------------- MODULE ForecastStore ----------------------------
(***************************************************************************)
(* What the system keeps of the forecasts of one SKU, and who writes it:   *)
(* the sku_runs row and its children of each run, the model blobs on the   *)
(* shared volume, and the pin of the operator.  An attempt is one call of  *)
(* Orchestrator::dispatch (controller/src/orchestrator.rs): it assembles   *)
(* the cached spec in several statements (cached_spec.rs), lets the drift  *)
(* gate choose between a warm and a cold forecast, waits for the worker,   *)
(* which saves blobs as it goes (pipelines/cold.py, warm.py), and persists *)
(* the result in one transaction.  A run may need several attempts, runs   *)
(* overlap, a worker may outlive the request, and the answer of a COMMIT   *)
(* may be lost.                                                            *)
(*                                                                         *)
(* A row is represented by the attempt that wrote it; sku_run_exog_        *)
(* selection goes with sku_run_val_residuals; winning columns are never    *)
(* NULL.                                                                   *)
(***************************************************************************)
EXTENDS Forecasts, Sequences, FiniteSets

CONSTANTS
    Runs,         \* the run_id values, positive numbers
    Attempts,     \* the dispatches, numbered in the order they begin
    Outcomes,     \* the results of a cold forecast that are explored
    Plans,        \* who drives a run, and what gates its warm path
    MaxAttempts   \* MAX_ATTEMPTS of queue.rs

None == 0         \* no run, no attempt

\* drift check on, --no-drift-check, and --cold, which only single-sku has.
Gates    == {"check", "skip", "cold"}
AllPlans == [driver : {"queue", "cli"}, gate : Gates] \ {[driver |-> "queue", gate |-> "cold"]}
NoPlan   == [driver |-> "none", gate |-> "check"]

ASSUME RunsAssumption     == Runs \subseteq Nat \ {0}
ASSUME AttemptsAssumption == Attempts \subseteq Nat \ {0}
ASSUME OutcomesAssumption == Outcomes \subseteq ColdOutcomes
ASSUME PlansAssumption == Plans \subseteq AllPlans
ASSUME MaxAttemptsAssumption == MaxAttempts \in Nat \ {0}

VARIABLES
    plan,         \* of each run: who drives it, and what gates the warm path
    status,       \* forecast_runs.status of the runs the CLI completes itself
    call,         \* where each attempt is
    left,         \* the blobs the worker of each attempt has still to save
    skuRun,       \* sku_runs: [by, winner, at] of each run
    combos,       \* sku_run_combinations: the attempt that wrote each row
    models,       \* sku_run_models
    resid,        \* sku_run_val_residuals
    trajectory,   \* sku_run_predictions and sku_run_recommendation
    blob,         \* the joblib file of each slot, by the attempt that saved it
    pin,          \* sku_active_pin
    pinning,      \* the run set_sku_pin has found completed, before its upsert
    now,          \* the NOW() of the last transaction
    abandoned     \* runs with an attempt whose worker or COMMIT was given up on

rows == <<skuRun, combos, models, resid, trajectory>>
vars == <<plan, status, call, left, rows, blob, pin, pinning, now, abandoned>>

-----------------------------------------------------------------------------
Pc    == {"none", "load", "models", "rest", "drift", "warm", "cold", "waiting",
          "persist", "tx", "saved", "done", "erred"}
Live  == Pc \ {"none", "saved", "done", "erred"}

Spec0 == [run |-> None, winner |-> Zero, models |-> {}, resid |-> {}]
CachedSpec == [run : Runs \cup {None}, winner : Combos \cup {Zero},
               models : SUBSET Phases, resid : SUBSET Exogs]

Call == [pc : Pc, run : Runs \cup {None}, spec : CachedSpec,
         mode : {"none", "warm", "cold"}, out : Outcome, at : Nat]
NoCall == [pc |-> "none", run |-> None, spec |-> Spec0,
           mode |-> "none", out |-> NoOutcome, at |-> 0]

By == Attempts \cup {None}

TypeOK ==
    /\ plan \in [Runs -> AllPlans \cup {NoPlan}]
    /\ status \in [Runs -> {"absent", "running", "completed"}]
    /\ call \in [Attempts -> Call]
    /\ left \in [Attempts -> Seq(Phases)]
    /\ skuRun \in [Runs -> [by : By, winner : Combos \cup {Zero}, at : Nat]]
    /\ combos \in [Runs -> [Combos -> By]]
    /\ models \in [Runs -> [Phases -> By]]
    /\ resid \in [Runs -> [Exogs -> By]]
    /\ trajectory \in [Runs -> By]
    /\ blob \in [Runs -> [Phases -> By]]
    /\ pin \in Runs \cup {None}
    /\ pinning \in Runs \cup {None}
    /\ now \in Nat
    /\ abandoned \subseteq Runs

Init ==
    /\ plan = [r \in Runs |-> NoPlan]
    /\ status = [r \in Runs |-> "absent"]
    /\ call = [a \in Attempts |-> NoCall]
    /\ left = [a \in Attempts |-> <<>>]
    /\ skuRun = [r \in Runs |-> [by |-> None, winner |-> Zero, at |-> 0]]
    /\ combos = [r \in Runs |-> [k \in Combos |-> None]]
    /\ models = [r \in Runs |-> [p \in Phases |-> None]]
    /\ resid = [r \in Runs |-> [e \in Exogs |-> None]]
    /\ trajectory = [r \in Runs |-> None]
    /\ blob = [r \in Runs |-> [p \in Phases |-> None]]
    /\ pin = None
    /\ pinning = None
    /\ now = 0
    /\ abandoned = {}

-----------------------------------------------------------------------------
(* Which run a SKU stands for.                                             *)

HasRow(r) == skuRun[r].by # None

\* ORDER BY completed_at DESC, run_id DESC among the completed rows.
LatestByRunId ==
    CHOOSE r \in Runs \cup {None} :
        /\ r = None <=> \A q \in Runs : ~ HasRow(q)
        /\ r # None => HasRow(r) /\ \A q \in Runs : HasRow(q) => q <= r
Latest ==
    CHOOSE r \in Runs \cup {None} :
        /\ r = None <=> \A q \in Runs : ~ HasRow(q)
        /\ r # None =>
            /\ HasRow(r)
            /\ \A q \in Runs :
                   HasRow(q) => \/ skuRun[q].at < skuRun[r].at
                                \/ skuRun[q].at = skuRun[r].at /\ q <= r

\* An explicit pin first, if it has a completed row.
Active ==
    IF pin = None THEN Latest ELSE IF HasRow(pin) THEN pin ELSE None

-----------------------------------------------------------------------------
(* Attempts.                                                               *)

Goto(a, pc) == call' = [call EXCEPT ![a].pc = pc]
End(a, pc)  == call' = [call EXCEPT ![a] = [NoCall EXCEPT !.run = call[a].run, !.pc = pc]]
RunOf(a)    == call[a].run
Tries(r)    == {a \in Attempts : call[a].run = r}

\* A run appears: through the queue (POST /runs, POST /skus/{sku}/forecast,
\* monthly-run) or by `controller single-sku`.
CreateRun(r) ==
    /\ plan[r] = NoPlan
    /\ \A q \in Runs : q < r => plan[q] # NoPlan
    /\ \E p \in Plans : plan' = [plan EXCEPT ![r] = p]
    /\ status' = [status EXCEPT ![r] = "running"]
    /\ UNCHANGED <<call, left, rows, blob, pin, pinning, now, abandoned>>

\* dispatch.  The queue dispatches a SKU of a run again only after an error,
\* MaxAttempts times in all; the CLI dispatches once.
BeginAfterSaved(a, r) ==
    /\ call[a].pc = "none"
    /\ \A b \in Attempts : b < a => call[b].pc # "none"
    /\ plan[r] # NoPlan
    /\ \A b \in Tries(r) : call[b].pc \in {"erred", "saved"}
    /\ Cardinality(Tries(r)) < (IF plan[r].driver = "queue" THEN MaxAttempts ELSE 1)
    /\ call' = [call EXCEPT ![a] =
                   [NoCall EXCEPT !.run = r,
                                  !.pc = IF plan[r].gate = "cold" THEN "cold" ELSE "load"]]
    /\ UNCHANGED <<plan, status, left, rows, blob, pin, pinning, now, abandoned>>
Begin(a, r) ==
    /\ call[a].pc = "none"
    /\ \A b \in Attempts : b < a => call[b].pc # "none"
    /\ plan[r] # NoPlan
    /\ \A b \in Tries(r) : call[b].pc = "erred"
    /\ Cardinality(Tries(r)) < (IF plan[r].driver = "queue" THEN MaxAttempts ELSE 1)
    /\ call' = [call EXCEPT ![a] =
                   [NoCall EXCEPT !.run = r,
                                  !.pc = IF plan[r].gate = "cold" THEN "cold" ELSE "load"]]
    /\ UNCHANGED <<plan, status, left, rows, blob, pin, pinning, now, abandoned>>

\* load_latest, statement 1: the run, and what won in it.
Load(a) ==
    /\ call[a].pc = "load"
    /\ IF Active = None
       THEN Goto(a, "cold")
       ELSE call' = [call EXCEPT ![a].pc = "models",
                                 ![a].spec = [Spec0 EXCEPT !.run = Active,
                                                           !.winner = skuRun[Active].winner]]
    /\ UNCHANGED <<plan, status, left, rows, blob, pin, pinning, now, abandoned>>

\* Statement 2: its models.
ReadModels(a) ==
    /\ call[a].pc = "models"
    /\ call' = [call EXCEPT
                   ![a].pc = "rest",
                   ![a].spec.models = {p \in Phases : models[call[a].spec.run][p] # None}]
    /\ UNCHANGED <<plan, status, left, rows, blob, pin, pinning, now, abandoned>>

\* Statements 3 and 4: its exog selection and residuals.
ReadRestOfActive(a) ==
    /\ call[a].pc = "rest"
    /\ call' = [call EXCEPT
                   ![a].pc = IF plan[RunOf(a)].gate = "check" THEN "drift" ELSE "warm",
                   ![a].spec.resid = {e \in Exogs : resid[Active][e] # None}]
    /\ UNCHANGED <<plan, status, left, rows, blob, pin, pinning, now, abandoned>>
ReadRest(a) ==
    /\ call[a].pc = "rest"
    /\ call' = [call EXCEPT
                   ![a].pc = IF plan[RunOf(a)].gate = "check" THEN "drift" ELSE "warm",
                   ![a].spec.resid = {e \in Exogs : resid[call[a].spec.run][e] # None}]
    /\ UNCHANGED <<plan, status, left, rows, blob, pin, pinning, now, abandoned>>

DriftAnswers(a) ==
    /\ call[a].pc = "drift"
    /\ \E drifted \in BOOLEAN :
        /\ MayAnswer(call[a].spec, drifted)
        /\ Goto(a, IF drifted THEN "cold" ELSE "warm")
    /\ UNCHANGED <<plan, status, left, rows, blob, pin, pinning, now, abandoned>>

\* The drift check fails: only a warning, "proceeding warm".
DriftFails(a) ==
    /\ call[a].pc = "drift"
    /\ Goto(a, "warm")
    /\ UNCHANGED <<plan, status, left, rows, blob, pin, pinning, now, abandoned>>

\* POST /forecast/cold: PRE is fitted and saved, then REFIT.
SendCold(a) ==
    /\ call[a].pc = "cold"
    /\ \E o \in Outcomes :
        /\ call' = [call EXCEPT ![a].pc = "waiting", ![a].mode = "cold", ![a].out = o]
        /\ left' = [left EXCEPT ![a] = IF o.slots = {} THEN <<>> ELSE <<"PRE", "REFIT">>]
    /\ UNCHANGED <<plan, status, rows, blob, pin, pinning, now, abandoned>>

\* POST /forecast/warm: the slot of the winning phase is fitted and saved.  For
\* Intermittent the worker raises before, for Zero only after that.
SendWarm(a) ==
    /\ call[a].pc = "warm"
    /\ call' = [call EXCEPT ![a].pc = "waiting", ![a].mode = "warm",
                            ![a].out = WarmOutcome(call[a].spec)]
    /\ left' = [left EXCEPT ![a] = IF call[a].spec.winner = Intermittent THEN <<>>
                                   ELSE <<call[a].spec.winner.phase>>]
    /\ UNCHANGED <<plan, status, rows, blob, pin, pinning, now, abandoned>>

\* The worker saves a blob, whether or not anyone still waits for it:
\* {model_dir}/{sku}/{run_id}/{slot}.joblib is written over.
SaveBlob(a) ==
    /\ left[a] # <<>>
    /\ blob' = [blob EXCEPT ![RunOf(a)][Head(left[a])] = a]
    /\ left' = [left EXCEPT ![a] = Tail(@)]
    /\ UNCHANGED <<plan, status, call, rows, pin, pinning, now, abandoned>>

AnswerBeforeSaving(a) ==
    /\ call[a].pc = "waiting"
    /\ call[a].out # NoOutcome
    /\ Goto(a, "persist")
    /\ UNCHANGED <<plan, status, left, rows, blob, pin, pinning, now, abandoned>>
Answer(a) ==
    /\ call[a].pc = "waiting"
    /\ left[a] = <<>>
    /\ call[a].out # NoOutcome
    /\ Goto(a, "persist")
    /\ UNCHANGED <<plan, status, left, rows, blob, pin, pinning, now, abandoned>>

\* The worker raises, or its process dies: the blobs saved so far stay.
WorkerFails(a) ==
    /\ call[a].pc = "waiting"
    /\ End(a, "erred")
    /\ left' = [left EXCEPT ![a] = <<>>]
    /\ UNCHANGED <<plan, status, rows, blob, pin, pinning, now, abandoned>>

\* The client gives up (30 minutes, a broken connection); the worker does not.
GiveUp(a) ==
    /\ call[a].pc = "waiting"
    /\ End(a, "erred")
    /\ abandoned' = abandoned \cup {RunOf(a)}
    /\ UNCHANGED <<plan, status, left, rows, blob, pin, pinning, now>>

\* Any statement before the commit, or a request that cannot be sent, fails.
Errs(a) ==
    /\ call[a].pc \in Live \ {"drift", "waiting"}
    /\ End(a, "erred")
    /\ UNCHANGED <<plan, status, left, rows, blob, pin, pinning, now, abandoned>>

-----------------------------------------------------------------------------
(* persist_result: one transaction, NOW() is the time it began.            *)

BeginTx(a) ==
    /\ call[a].pc = "persist"
    /\ now' = now + 1
    /\ call' = [call EXCEPT ![a].pc = "tx", ![a].at = now + 1]
    /\ UNCHANGED <<plan, status, left, rows, blob, pin, pinning, abandoned>>

\* DO UPDATE everywhere but for the combinations: DO NOTHING.
Upserted(table, keys, a) == [k \in DOMAIN table |-> IF k \in keys THEN a ELSE table[k]]
Inserted(table, keys, a) ==
    [k \in DOMAIN table |-> IF k \in keys /\ table[k] = None THEN a ELSE table[k]]

PersistKeepingModels(a) ==
    LET r == RunOf(a)
        o == call[a].out
    IN /\ skuRun' = [skuRun EXCEPT ![r] = [by |-> a, winner |-> o.winner, at |-> call[a].at]]
       /\ combos' = [combos EXCEPT ![r] = Inserted(@, o.combos, a)]
       /\ models' = [models EXCEPT ![r] = Inserted(@, o.slots, a)]
       /\ resid'  = [resid EXCEPT ![r] = Upserted(@, o.resid, a)]
       /\ trajectory' = [trajectory EXCEPT ![r] = a]
PersistResult(a) ==
    LET r == RunOf(a)
        o == call[a].out
    IN /\ skuRun' = [skuRun EXCEPT ![r] = [by |-> a, winner |-> o.winner, at |-> call[a].at]]
       /\ combos' = [combos EXCEPT ![r] = Inserted(@, o.combos, a)]
       /\ models' = [models EXCEPT ![r] = Upserted(@, o.slots, a)]
       /\ resid'  = [resid EXCEPT ![r] = Upserted(@, o.resid, a)]
       /\ trajectory' = [trajectory EXCEPT ![r] = a]

Commit(a) ==
    /\ call[a].pc = "tx"
    /\ PersistResult(a)
    /\ End(a, "saved")
    /\ UNCHANGED <<plan, status, left, blob, pin, pinning, now, abandoned>>

\* The COMMIT is applied and its answer lost: to the queue an error like others.
CommitLost(a) ==
    /\ call[a].pc = "tx"
    /\ PersistResult(a)
    /\ End(a, "erred")
    /\ abandoned' = abandoned \cup {RunOf(a)}
    /\ UNCHANGED <<plan, status, left, blob, pin, pinning, now>>

\* complete_run, for the CLI; the queue finalises its runs itself.  If it fails,
\* or the dispatch did, the row stays 'running'.
CompleteRunAnyway(a) ==
    /\ call[a].pc \in {"saved", "erred"}
    /\ plan[RunOf(a)].driver = "cli"
    /\ status' = [status EXCEPT ![RunOf(a)] = "completed"]
    /\ End(a, "done")
    /\ UNCHANGED <<plan, left, rows, blob, pin, pinning, now, abandoned>>
CompleteRun(a) ==
    /\ call[a].pc = "saved"
    /\ plan[RunOf(a)].driver = "cli"
    /\ status' = [status EXCEPT ![RunOf(a)] = "completed"]
    /\ End(a, "done")
    /\ UNCHANGED <<plan, left, rows, blob, pin, pinning, now, abandoned>>

-----------------------------------------------------------------------------
(* The operator pins a SKU to a run, and lets go.                          *)

\* set_sku_pin: SELECT a completed row of the run ...
CheckAnyPin(r) ==
    /\ pinning = None
    /\ plan[r] # NoPlan
    /\ pinning' = r
    /\ UNCHANGED <<plan, status, call, left, rows, blob, pin, now, abandoned>>
CheckPin(r) ==
    /\ pinning = None
    /\ HasRow(r)
    /\ pinning' = r
    /\ UNCHANGED <<plan, status, call, left, rows, blob, pin, now, abandoned>>

\* ... then upsert the pin.
SetPin ==
    /\ pinning # None
    /\ pin' = pinning
    /\ pinning' = None
    /\ UNCHANGED <<plan, status, call, left, rows, blob, now, abandoned>>

DeletePin ==
    /\ pin # None
    /\ pin' = None
    /\ UNCHANGED <<plan, status, call, left, rows, blob, pinning, now, abandoned>>

-----------------------------------------------------------------------------
Reading(a)    == Load(a) \/ ReadModels(a) \/ ReadRest(a)
Deciding(a)   == DriftAnswers(a) \/ DriftFails(a) \/ SendCold(a) \/ SendWarm(a)
Working(a)    == SaveBlob(a) \/ Answer(a) \/ WorkerFails(a) \/ GiveUp(a) \/ Errs(a)
Persisting(a) == BeginTx(a) \/ Commit(a) \/ CommitLost(a) \/ CompleteRun(a)
Pinning       == (\E r \in Runs : CheckPin(r)) \/ SetPin \/ DeletePin

Next ==
    \/ \E r \in Runs : CreateRun(r) \/ \E a \in Attempts : Begin(a, r)
    \/ \E a \in Attempts : Reading(a) \/ Deciding(a) \/ Working(a) \/ Persisting(a)
    \/ Pinning

Spec == Init /\ [][Next]_vars

-----------------------------------------------------------------------------
(* Properties.                                                             *)

\* The rows under a run support what its sku_runs row says won, however many
\* attempts have written them and in whatever mode: trajectory and
\* recommendation and the winner's models come from the attempt that wrote the
\* row, and the winner is among the combinations and has its residuals.
WinnerIsBacked ==
    \A r \in Runs :
        LET w == skuRun[r].winner
        IN /\ trajectory[r] = skuRun[r].by
           /\ w # Zero => combos[r][w] # None
           /\ w \in Dense => /\ models[r][w.phase] = skuRun[r].by
                            /\ resid[r][w.exog] # None

\* load_latest reads in four statements while other attempts persist.  Even so
\* the spec of a dense winner has the model slot and the residuals of that
\* winner: a warm forecast never falls back to default hyperparameters
\* (warm.py:79) or to no residuals (warm.py:157).
SpecIsUsable ==
    \A a \in Attempts :
        /\ call[a].pc \in {"drift", "warm"}
        /\ call[a].spec.winner \in Dense
        => /\ call[a].spec.winner.phase \in call[a].spec.models
           /\ call[a].spec.winner.exog \in call[a].spec.resid

\* As long as no worker and no COMMIT of a run was given up on, all its rows are
\* of one attempt, and so are the blobs they point to: retries after plain
\* errors leave no mixture behind.
CleanRunIsOfOneAttempt ==
    \A r \in Runs \ abandoned :
        /\ \A k \in Combos : combos[r][k] \in {None, skuRun[r].by}
        /\ \A p \in Phases : models[r][p] # None =>
               models[r][p] = skuRun[r].by /\ blob[r][p] = skuRun[r].by

\* A blob a model row points to exists: it is saved before the row is.
BlobsExist ==
    \A r \in Runs, p \in Phases : models[r][p] # None => blob[r][p] # None

\* What set_sku_pin checks (server.rs:680-681, "otherwise future reads would
\* silently return nothing") is still so when the pin is set, and ever after.
PinResolves == pin # None => Active = pin

\* A run `controller single-sku` reports as completed has its forecast, and it
\* is the forecast of the attempt that run made, whichever gate it took.
CompletedRunHasForecast ==
    \A r \in Runs :
        status[r] = "completed" =>
            /\ HasRow(r)
            /\ \E a \in Tries(r) : call[a].pc = "done" /\ skuRun[r].by = a

\* load_latest has no transaction around its statements: between them other
\* attempts persist, and pins come and go.  Even so the spec is a snapshot: winner,
\* models and residuals are all that is stored under one run, and are so as long as
\* the attempt goes by them.  Only a run in which something was given up on may be
\* stored again after it was read.
SpecIsASnapshot ==
    \A a \in Attempts :
        LET spec == call[a].spec
        IN spec.run \in Runs \ abandoned =>
             /\ spec.winner = skuRun[spec.run].winner
             /\ call[a].pc # "models" =>
                  spec.models = {p \in Phases : models[spec.run][p] # None}
             /\ call[a].pc \notin {"models", "rest"} =>
                  spec.resid = {e \in Exogs : resid[spec.run][e] # None}

\* The run the dashboard and the warm path take for the latest never moves back
\* in time, although transactions commit out of the order they began in and runs
\* are persisted again.
LatestIsMonotone ==
    [][skuRun' # skuRun /\ Latest # None
         => skuRun'[Latest'].at >= skuRun[Latest].at]_vars

\* warm.py:53-55 of the Intermittent guard: "this only comes this far when
\* drift_check is disabled".
IntermittentOnlyUnchecked ==
    \A a \in Attempts :
        /\ call[a].mode = "warm"
        /\ call[a].spec.winner = Intermittent
        => plan[RunOf(a)].gate # "check"

\* cached_spec.rs:3-5: the spec is that of a prior run (CachedSpec.prior_run_id),
\* and there is none when the SKU has no prior completed run.
SpecIsOfAPriorRun ==
    \A a \in Attempts : call[a].spec.run # None => call[a].spec.run # RunOf(a)
=============================================================================
