--------------------------- MODULE Replenishment ---------------------------
(***************************************************************************)
(* From the panel to an order: while loads write the tables (PanelIngest), *)
(* a monthly run enqueues the SKUs it finds there and forecasts one of     *)
(* them: the controller reads the panel and the policy parameters in two   *)
(* statements (orchestrator.rs), the worker answers a SKU without recent   *)
(* sales with zeros and computes an order from simulated demand for any    *)
(* other (pipelines/cold.py and warm.py, oms/), and the dashboard computes *)
(* the order again from what it is shown (policy.ts).                      *)
(* The simulations themselves are chosen freely from Demands.              *)
(***************************************************************************)
EXTENDS PanelIngest, OrderPolicy

CONSTANTS Runner,     \* the process that runs `controller monthly-run`
          Demands,    \* simulations: sets of [months -> [draws -> parts]]
          Factors,    \* bias factors of the cold path, in parts
          Cutoff,     \* first month of the dead-SKU window
          TestStart,  \* first month of the TEST window
          None        \* no recommendation yet

ASSUME RunnerAssumption ==
    /\ Runner \in Procs \ Loaders
    /\ Cutoff \in Nat /\ TestStart \in Nat /\ Cutoff <= TestStart

\* What sku_config holds; t_check and h_cover in months (in a file, in quarters
\* of one).
ASSUME PolicyAssumption ==
    /\ Policies \subseteq [t_check : Nat, h_cover : Nat, q_target : 0 .. Unit,
                           moq : Nat, lot_size : Nat, override : Int \cup {NoStock}]
    /\ \A params \in Policies : Stored(params) \in Policies

\* A simulation has draws of a whole number of parts for one month or more;
\* a factor is clipped to a positive range (cold.py:435).
ASSUME DemandAssumption ==
    /\ Unit \in Factors /\ Factors \subseteq Nat
    /\ \A sims \in Demands :
         /\ Horizon(sims) \in Nat \ {0}
         /\ sims \in [1 .. Horizon(sims) -> [Draws(sims) -> Int]]
         /\ IsFiniteSet(Draws(sims)) /\ Draws(sims) # {}

VARIABLES job,   \* what the run has read so far
          rec    \* sku_run_recommendation of the job's SKU, None before

vars == <<startupVars, ingestVars, job, rec>>

NoJob == [sku |-> None, jobs |-> {}, hash |-> {}, rows |-> << >>, params |-> None,
          afterSeed |-> FALSE]

Init == InitIngest /\ job = NoJob /\ rec = None

-----------------------------------------------------------------------------
(* The controller.                                                         *)

Present == {k \in Keys : panel[k] # Absent}

\* SELECT DISTINCT sku FROM sales_panel.
SkusOf(keys) == {k[1] : k \in keys}

\* The hash covers the keys of the panel, not the values; the jobs are the
\* SKUs that have a row.  The run loop then takes one of the jobs.
CreateRun ==
    /\ pc[Runner] = "enqueue"
    /\ LET jobs == SkusOf(Present)
       IN IF jobs = {} THEN GoTo(Runner, "done") /\ UNCHANGED job
          ELSE \E sku \in jobs :
                 /\ job' = [NoJob EXCEPT !.sku = sku, !.jobs = jobs,
                                         !.hash = Present, !.afterSeed = loaded]
                 /\ GoTo(Runner, "load_panel_rows")
    /\ UNCHANGED <<database, schema, crashes, ingestVars, rec>>

BeforeTest(sku) ==
    [ds \in {k[2] : k \in {x \in Present : x[1] = sku /\ x[2] < TestStart}} |->
        panel[<<sku, ds>>]]
RowsOf(sku) ==
    [ds \in {k[2] : k \in {x \in Present : x[1] = sku}} |-> panel[<<sku, ds>>]]

load_panel_rows ==
    /\ pc[Runner] = "load_panel_rows"
    /\ job' = [job EXCEPT !.rows = RowsOf(job.sku)]
    /\ GoTo(Runner, "load_params")
    /\ UNCHANGED <<database, schema, crashes, ingestVars, rec>>

\* A SKU without a sku_config row fails its job.
load_params ==
    /\ pc[Runner] = "load_params"
    /\ IF config[job.sku] = Absent
       THEN GoTo(Runner, "done") /\ UNCHANGED job
       ELSE /\ job' = [job EXCEPT !.params = config[job.sku]]
            /\ GoTo(Runner, "forecast")
    /\ UNCHANGED <<database, schema, crashes, ingestVars, rec>>

-----------------------------------------------------------------------------
(* The worker.                                                             *)

\* The window is open at its end: it takes the TEST months in as well.
NoRecentSales(rows) ==
    MapThenSumSet(LAMBDA ds : rows[ds].y, {ds \in DOMAIN rows : ds >= Cutoff}) = 0

StockBefore(rows) ==
    LET past == {ds \in DOMAIN rows : ds < TestStart}
    IN IF past = {} THEN NoStock ELSE rows[Max(past)].stock

\* What a recommendation row holds of the policy; p6 and triggered are the
\* risk computed beside it, from the same simulations before any scaling.
Recommendation(mode, factor, stock, params, cumQ, p6, triggered) ==
    [mode |-> mode, factor |-> factor, starting_stock |-> stock,
     h_cover |-> params.h_cover, moq |-> params.moq, lot_size |-> params.lot_size,
     cum_demand_q |-> cumQ,
     order_qty_raw |-> cumQ - stock,
     order_qty_rounded |-> round_moq_lot(cumQ - stock, params.moq, params.lot_size),
     p6 |-> p6, triggered |-> triggered]

\* A SKU without recent sales gets zeros, whatever stock it has.
ZeroForecast(params) == Recommendation("dead_sku", Unit, 0, params, 0, 0, FALSE)

\* The winner's simulations on the Full horizon: the risk comes from them as
\* they are, the order from the bias-corrected ones.  Warm corrects nothing.
Forecast(mode, sims, factor, rows, params) ==
    LET stock == infer_starting_stock(StockBefore(rows), params.override)
        cumQ  == cum_demand_quantile(Scaled(sims, factor), params.h_cover, params.q_target)
    IN Recommendation(mode, factor, stock, params, cumQ,
                      stockout_probability(stock, sims, 6),
                      ExpectedWithin(stock, sims, params.t_check))

run_forecast ==
    /\ pc[Runner] = "forecast"
    /\ \/ /\ NoRecentSales(job.rows)
          /\ rec' = ZeroForecast(job.params)
       \/ \E sims \in Demands, factor \in Factors :
            /\ ~NoRecentSales(job.rows)
            /\ rec' = Forecast("cold", sims, factor, job.rows, job.params)
       \/ \E sims \in Demands :
            rec' = Forecast("warm_with_refit", sims, Unit, job.rows, job.params)
    /\ GoTo(Runner, "done")
    /\ UNCHANGED <<database, schema, crashes, ingestVars, job>>

-----------------------------------------------------------------------------
KillRunner ==
    /\ Crash(Runner)
    /\ job' = NoJob
    /\ UNCHANGED <<ingestVars, rec>>

Run ==
    \/ (Start(Runner) \/ CheckExists(Runner) \/ CreateDatabase(Runner)
          \/ RunMigrations(Runner, "enqueue")) /\ UNCHANGED <<ingestVars, job, rec>>
    \/ CreateRun \/ load_panel_rows \/ load_params \/ run_forecast

Load(p) == Loader(p) /\ UNCHANGED <<job, rec>>

Kill == KillRunner \/ \E p \in Loaders : KillLoader(p) /\ UNCHANGED <<job, rec>>

Next == Run \/ (\E p \in Loaders : Load(p)) \/ Kill

Spec     == Init /\ [][Next]_vars
FairSpec == Spec /\ \A p \in Loaders : WF_vars(Load(p))

-----------------------------------------------------------------------------
(* Properties.                                                             *)

TypeOK ==
    /\ database \in BOOLEAN /\ schema \in BOOLEAN /\ loaded \in BOOLEAN
    /\ pc \in [Procs -> Starting \cup {"panel", "config", "enqueue",
                   "load_panel_rows", "load_params", "forecast", "done"}]
    /\ \A k \in Keys : panel[k] \in Rows \cup {Absent}
    /\ at \in [Loaders -> 0 .. Len(PanelFile) + Len(ConfigFile)]
    /\ badRow \in BadRows
    /\ warned \subseteq Skus
    /\ job.jobs \subseteq Skus /\ job.hash \subseteq Keys
    /\ rec # None => /\ rec.mode \in {"dead_sku", "cold", "warm_with_refit"}
                     /\ rec.cum_demand_q \in Int /\ rec.order_qty_rounded \in Int

\* The panel is at every moment what was there before, overwritten by the
\* first rows of the file up to a chunk's end: no chunk is written partly,
\* skipped or undone by a load that fails, is killed, runs again or runs
\* beside another one.
Overlaid(n) ==
    [k \in Keys |-> IF Written(1 .. n, k) = {} THEN base[k]
                    ELSE Value(PanelFile[Max(Written(1 .. n, k))])]
PanelIsAPrefix ==
    \E n \in {i \in 0 .. Len(PanelFile) : i % CHUNK = 0 \/ i = Len(PanelFile)} :
        panel = Overlaid(n)

\* "Idempotent: re-running only upserts" (deploy/seed.sh:8): once a seed has
\* run to its end the tables are the files, except for the config rows it
\* has logged as failed, and no later load ever takes anything of it back.
ReseedChangesNothing ==
    loaded =>
        /\ panel = Overlaid(Len(PanelFile))
        /\ \A i \in DOMAIN ConfigFile :
             ConfigFile[i].sku \notin warned =>
                 config[ConfigFile[i].sku] = Stored(ConfigFile[i].params)

\* A run started after a completed seed forecasts every SKU of the file from
\* all its rows, so a SKU that still sells is not taken for a dead one; a
\* run started in the middle of the first load has no such guarantee.
RunAfterASeedSeesTheFile ==
    LET full == Overlaid(Len(PanelFile)) IN
    job.afterSeed =>
        /\ \A i \in DOMAIN PanelFile : /\ PanelFile[i].sku \in job.jobs
                                       /\ Key(PanelFile[i]) \in job.hash
        /\ pc[Runner] \in {"load_params", "forecast"} =>
             \A k \in Keys : k[1] = job.sku =>
                 /\ k[2] \in DOMAIN job.rows <=> full[k] # Absent
                 /\ k[2] \in DOMAIN job.rows => job.rows[k[2]] = full[k]

\* An order covers what the stock leaves open of the demand quantile, is a
\* whole number of lots, not below the MOQ, and no lot larger than needed.
OrderCoversDemand ==
    rec # None =>
        LET open == rec.cum_demand_q - rec.starting_stock
            size == rec.order_qty_rounded
            lot  == Step(rec.lot_size)
        IN /\ size >= open /\ size >= 0
           /\ size % lot = 0
           /\ size > 0 => /\ open > 0 /\ size >= rec.moq
                          /\ size - lot < open \/ size - lot < rec.moq

\* The order the dashboard computes from an unedited recommendation is the
\* one that was stored.
WhatIfAgrees ==
    rec # None =>
        recomputeOrderQty(rec.starting_stock, rec.cum_demand_q, rec.moq, rec.lot_size)
            = rec.order_qty_rounded

\* A plan that covers at most six months orders nothing when no simulation
\* runs out of stock within six months, unless bias correction has scaled
\* the demand up behind the risk shown beside the order.
NoOrderWithoutRisk ==
    rec # None =>
        (rec.order_qty_rounded > 0 /\ rec.p6 = 0 =>
            rec.h_cover > 6 \/ rec.factor > Unit)

\* "reorder fires if `E[T_stockout] <= T_CHECK`" (docs/PROJECT_OVERVIEW.md:180).
OrderOnlyWhenTriggered ==
    rec # None => (rec.order_qty_rounded > 0 => rec.triggered)

\* A file without a malformed row gets loaded: a process that loses the race
\* to create the database, or is killed, is started again and gets through.
SeedCompletes == (badRow = 0) ~> loaded
=============================================================================
