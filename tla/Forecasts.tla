------------------------------ MODULE Forecasts ------------------------------
(***************************************************************************)
(* The vocabulary of forecast results (ForecastResult, schemas/responses.py *)
(* and controller/src/types.rs), as far as storage and model selection     *)
(* tell results apart: what won, which combinations, fitted models and     *)
(* residuals come with it.  The exog methods are "single", any one method, *)
(* and "hybrid", the best method per column; the Y variants (RF, XGB,      *)
(* Y-ENS) of a combination are not told apart, nor the RF and XGB models   *)
(* of a phase.                                                             *)
(***************************************************************************)
EXTENDS Naturals

Phases == {"PRE", "REFIT"}       \* phase_kind; also the model slot of the phase
Exogs  == {"single", "hybrid"}

Dense        == [exog : Exogs, phase : Phases]
Intermittent == [exog |-> "Intermittent", phase |-> "PRE"]
Zero         == [exog |-> "Zero", phase |-> "PRE"]
Combos       == Dense \cup {Intermittent}

Outcome == [winner : Combos \cup {Zero}, combos : SUBSET Combos,
            slots : SUBSET Phases, resid : SUBSET Exogs]

\* A dead SKU has a zero forecast, and no rows but the winner's.
DeadOutcome == [winner |-> Zero, combos |-> {}, slots |-> {}, resid |-> {}]

\* Any other SKU is fitted before (PRE) and after (REFIT) the refit, and both
\* are saved; the REFIT combinations are discarded on a rollback.  The
\* Intermittent ones are PRE only.
FittedOutcome(exogs, phases, sparse, winner) ==
    [winner |-> winner,
     combos |-> [exog : exogs, phase : phases] \cup (IF sparse THEN {Intermittent} ELSE {}),
     slots  |-> Phases,
     resid  |-> exogs]

\* What a cold forecast may return.  Any SKU has a hybrid, since the probe
\* always has a basic method.
FittedOutcomes(phases, sparse) ==
    {o \in {FittedOutcome(Exogs, phases, sparse, w) : w \in Combos} : o.winner \in o.combos}

ColdOutcomes ==
    {DeadOutcome} \cup
    UNION {FittedOutcomes(phases, sparse) : phases \in {{"PRE"}, Phases}, sparse \in BOOLEAN}

-----------------------------------------------------------------------------
(* What the worker makes of a cached spec [winner, models, resid]: the     *)
(* winner of an earlier run with its models and residuals.                 *)

\* No result; it differs from every outcome in having residuals and no rows.
NoOutcome == [winner |-> Zero, combos |-> {}, slots |-> {}, resid |-> Exogs]

\* The worker finds the model and the exog method of the spec's winner.
HasModel(spec)  == {spec.winner.phase, "PRE"} \cap spec.models # {}
Buildable(spec) ==
    /\ spec.winner \in Dense
    /\ spec.winner.exog = "hybrid" => "hybrid" \in spec.resid

\* run_drift_check, for a panel with rows in the VAL window: Intermittent, or no
\* model, is a drift; else two errors are compared, if the exog can be built.
MayAnswer(spec, drifted) ==
    IF spec.winner = Intermittent \/ ~ HasModel(spec) THEN drifted ELSE Buildable(spec)

\* What a warm forecast returns: the cached winner evaluated again, with the
\* residuals passed through.  Intermittent and Zero cannot be built: no result.
WarmOutcomeWithoutResiduals(spec) ==
    IF Buildable(spec)
    THEN [winner |-> spec.winner, combos |-> {spec.winner},
          slots  |-> {spec.winner.phase}, resid |-> {}]
    ELSE NoOutcome
WarmOutcome(spec) ==
    IF Buildable(spec)
    THEN [winner |-> spec.winner, combos |-> {spec.winner},
          slots  |-> {spec.winner.phase}, resid |-> spec.resid]
    ELSE NoOutcome
=============================================================================
