---------------------------- MODULE ModelSelection ----------------------------
(***************************************************************************)
(* How the worker makes one cold forecast (run_cold, pipelines/cold.py):   *)
(* the dead-SKU fast path, the fit before the refit (PRE), probe and       *)
(* escalation of exog methods, the combinations on both test horizons, the *)
(* refit and its rollback, and the choice of the winner.                   *)
(*                                                                         *)
(* A row is the best Y variant of a combination, "single" the best of the  *)
(* basic exog methods; their MAEs are data.  ENABLE_REFIT,                 *)
(* EXOG_PER_VAR_SELECTION, ENABLE_INTERMITTENT and INTERMITTENT_SELECTOR   *)
(* are as config.py sets them.                                             *)
(***************************************************************************)
EXTENDS Forecasts

CONSTANTS
    ProbeMethods,    \* probe_methods
    EnabledGlobal,   \* exog_methods_enabled_global
    EscalateDense,   \* escalate_methods_dense
    Maes,            \* the errors explored, on an integer scale
    DeltaPct,        \* delta_better_than_baseline, in percent
    EpsPct           \* refit_rollback_eps, in percent

Allowed == EnabledGlobal \cup {"ML-Exog RF", "ML-Exog XGB"}
Methods == (ProbeMethods \cap Allowed) \cup EscalateDense

ASSUME BasicMethodAssumption == (ProbeMethods \cap Allowed) \ {"Intermittent"} # {}
ASSUME EscalateAssumption    == "Intermittent" \notin EscalateDense
ASSUME MaesAssumption        == Maes \subseteq Nat
ASSUME DeltaAssumption       == DeltaPct \in 0..100
ASSUME EpsAssumption         == EpsPct \in Nat

Horizons == {"Full", "Short3"}

\* What the panel of the SKU is: no sale in the last year, select_intermittent,
\* half of its months zero, should_dense_override.  The threshold of zeroHeavy
\* (0.50) is above that of sparse (0.40).
Series == {s \in [dead : BOOLEAN, sparse : BOOLEAN, zeroHeavy : BOOLEAN, override : BOOLEAN] :
               s.zeroHeavy => s.sparse}

Row == [horizon : Horizons, exog : Exogs \cup {"Intermittent", "Zero"}, phase : Phases,
        mae : Nat]
ZeroRow == [horizon |-> "Full", exog |-> "Zero", phase |-> "PRE", mae |-> 0]

VARIABLES
    pc,             \* what run_cold does next
    series,         \* the input
    tried,          \* the basic exog methods tried on VAL: basic_methods
    combinations,   \* the rows that will be returned
    evaluated,      \* every row that was evaluated: per_combo_preds
    slots,          \* the phases with saved models: models_out
    resid,          \* the exogs with residual rows: val_residuals_rows
    winner          \* best

vars == <<pc, series, tried, combinations, evaluated, slots, resid, winner>>

Steps == {"start", "probe", "escalate", "pre", "refit", "select", "done", "raised"}

TypeOK ==
    /\ pc \in Steps
    /\ series \in Series
    /\ tried \subseteq Methods
    /\ combinations \subseteq evaluated
    /\ evaluated \subseteq Row
    /\ slots \subseteq Phases
    /\ resid \subseteq Exogs
    /\ winner \in evaluated \cup {ZeroRow}

Init ==
    /\ pc = "start"
    /\ series \in Series
    /\ tried = {}
    /\ combinations = {}
    /\ evaluated = {}
    /\ slots = {}
    /\ resid = {}
    /\ winner = ZeroRow

-----------------------------------------------------------------------------
\* No sales in the last dead_sku_window_mo months: a zero forecast, no fitting.
DeadSku ==
    /\ pc = "start" /\ series.dead
    /\ pc' = "done"
    /\ UNCHANGED <<series, tried, combinations, evaluated, slots, resid, winner>>

FitPre ==
    /\ pc = "start" /\ ~ series.dead
    /\ slots' = slots \cup {"PRE"}
    /\ pc' = "probe"
    /\ UNCHANGED <<series, tried, combinations, evaluated, resid, winner>>

\* build_probe_list: the configured methods that are enabled, and Intermittent
\* for a sparse series; that one is no exog method.
ProbeList ==
    {m \in ProbeMethods : IF m = "Intermittent" THEN series.sparse ELSE m \in Allowed}

Probe ==
    /\ pc = "probe"
    /\ tried' = ProbeList \ {"Intermittent"}
    /\ pc' = "escalate"
    /\ UNCHANGED <<series, combinations, evaluated, slots, resid, winner>>

\* should_escalate: the best of the methods does not beat the baseline by delta.
ShouldEscalate(probeBest, base) ==
    tried = {} \/ probeBest * 100 > base * (100 - DeltaPct)

\* build_escalate_list; no SKU is critical, so never the seasonal methods.
EscalateList == IF series.sparse /\ ~ series.override THEN {} ELSE EscalateDense

Escalate ==
    /\ pc = "escalate"
    /\ \E probeBest, base \in Maes :
           tried' = tried \cup
               (IF ShouldEscalate(probeBest, base) THEN EscalateList ELSE {})
    /\ pc' = "pre"
    /\ UNCHANGED <<series, combinations, evaluated, slots, resid, winner>>

\* The exog tables: the basic methods, and the hybrid made from them.
Pool == IF tried = {} THEN {} ELSE Exogs

Evaluate(exogs, phase) ==
    \E mae \in [Horizons \X exogs -> Maes] :
        LET rows == {[horizon |-> k[1], exog |-> k[2], phase |-> phase, mae |-> mae[k]] :
                         k \in Horizons \X exogs}
        IN /\ combinations' = combinations \cup rows
           /\ evaluated' = evaluated \cup rows

\* All combinations on both horizons, Intermittent ones for a sparse series.
EvaluatePre ==
    /\ pc = "pre"
    /\ Evaluate(Pool \cup ({"Intermittent"} \cap ProbeList), "PRE")
    /\ resid' = Pool
    /\ pc' = IF Pool = {} THEN "select" ELSE "refit"
    /\ UNCHANGED <<series, tried, slots, winner>>

\* The models fitted again on train and VAL, and the same tables evaluated.
RefitUnsaved ==
    /\ pc = "refit"
    /\ Evaluate(Pool, "REFIT")
    /\ pc' = "select"
    /\ UNCHANGED <<series, tried, slots, resid, winner>>
Refit ==
    /\ pc = "refit"
    /\ Evaluate(Pool, "REFIT")
    /\ slots' = slots \cup {"REFIT"}
    /\ pc' = "select"
    /\ UNCHANGED <<series, tried, resid, winner>>

-----------------------------------------------------------------------------
(* The winner, on the Full horizon.                                        *)

FullRows(rows)         == {c \in rows : c.horizon = "Full"}
OfPhase(rows, phase)   == {c \in rows : c.phase = phase}
IntermittentRows(rows) == {c \in FullRows(rows) : c.exog = "Intermittent"}
Minimal(rows)          == {c \in rows : \A d \in rows : c.mae <= d.mae}

\* decide_phase(pre_best, refit_best) = "PRE": the best refit is worse than the
\* best row before it, by more than eps.
RefitIsBetter(rows) ==
    LET refit == OfPhase(FullRows(rows), "REFIT")
    IN /\ refit # {}
       /\ \E r \in refit : \A p \in OfPhase(FullRows(rows), "PRE") :
              r.mae * 100 < p.mae * (100 + EpsPct)
RefitIsWorse(rows) ==
    LET refit == OfPhase(FullRows(rows), "REFIT")
    IN /\ refit # {}
       /\ \E p \in OfPhase(FullRows(rows), "PRE") :
              \A r \in refit : r.mae * 100 > p.mae * (100 + EpsPct)

\* A rollback discards the REFIT rows of both horizons.
KeepShortRefit(rows) ==
    IF RefitIsWorse(rows) THEN rows \ OfPhase(FullRows(rows), "REFIT") ELSE rows
Kept(rows) == IF RefitIsWorse(rows) THEN OfPhase(rows, "PRE") ELSE rows

\* The TSB override: half zeros, and the best Intermittent row wins.
MinimalOfAll(rows) == Minimal(FullRows(rows))
Candidates(rows) ==
    IF series.zeroHeavy /\ IntermittentRows(rows) # {}
    THEN Minimal(IntermittentRows(rows))
    ELSE Minimal(FullRows(rows))

Select ==
    /\ pc = "select"
    /\ combinations' = Kept(combinations)
    /\ winner' \in Candidates(Kept(combinations))
    /\ pc' = "done"
    /\ UNCHANGED <<series, tried, evaluated, slots, resid>>

\* Any step may raise: the request fails, blobs that were saved stay.
Raise ==
    /\ pc \notin {"done", "raised"}
    /\ pc' = "raised"
    /\ UNCHANGED <<series, tried, combinations, evaluated, slots, resid, winner>>

Next ==
    \/ DeadSku \/ FitPre \/ Probe \/ Escalate
    \/ EvaluatePre \/ Refit \/ Select \/ Raise

Spec == Init /\ [][Next]_vars

\* The ForecastResult.
Combo(row) == [exog |-> row.exog, phase |-> row.phase]
Result == [winner |-> Combo(winner), combos |-> {Combo(c) : c \in combinations},
           slots |-> slots, resid |-> resid]

-----------------------------------------------------------------------------
(* Properties.                                                             *)

\* What a cold forecast returns is one of the outcomes that the storage side is
\* checked with: both phases saved, residuals of every exog, Intermittent rows
\* PRE only, all REFIT combinations or none, the winner among those returned.
ResultIsAColdOutcome == pc = "done" => Result \in ColdOutcomes

\* No combination that was evaluated on the Full horizon, kept or discarded by
\* the rollback, is better than the winner, unless the TSB override chose it.
WinnerIsBest ==
    pc = "done" /\ ~ series.dead /\ ~ series.zeroHeavy =>
        \A c \in FullRows(evaluated) : winner.mae <= c.mae

\* The override wins over a better dense row and over a kept refit, and takes
\* the best Intermittent row that was evaluated.
OverrideIsIntermittent ==
    pc = "done" /\ ~ series.dead /\ series.zeroHeavy =>
        /\ winner.exog = "Intermittent"
        /\ \A c \in IntermittentRows(evaluated) : winner.mae <= c.mae

\* The rollback is whole, the same combinations remain on both horizons, and
\* just: a refit is kept only if one of its rows is within eps of every row
\* before it.
RollbackIsWholeAndJust ==
    pc = "done" =>
        /\ {Combo(c) : c \in FullRows(combinations)} =
           {Combo(c) : c \in combinations \ FullRows(combinations)}
        /\ OfPhase(combinations, "REFIT") # {} =>
               \A p \in OfPhase(FullRows(evaluated), "PRE") :
                   \E r \in OfPhase(FullRows(combinations), "REFIT") :
                       r.mae * 100 <= p.mae * (100 + EpsPct)
=============================================================================
