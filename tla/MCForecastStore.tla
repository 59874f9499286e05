-------------------------- MODULE MCForecastStore --------------------------
(* The instances of ForecastStore that TLC checks: two runs of a SKU, and  *)
(* a cold forecast of each kind: a dead SKU, a sparse one that an          *)
(* Intermittent method wins, a refit rolled back, and a refit kept with a  *)
(* hybrid winner.  Three attempts: of the queue with its drift check, or of *)
(* single-sku with --no-drift-check or --cold.                             *)
EXTENDS ForecastStore

TwoRuns       == {1, 2}
ThreeAttempts == {1, 2, 3}

OnlyQueue     == {[driver |-> "queue", gate |-> "check"]}
OneOfEachGate == OnlyQueue \cup [driver : {"cli"}, gate : {"skip", "cold"}]

Won(exog, phase) == [exog |-> exog, phase |-> phase]

OneOfEachKind ==
    { DeadOutcome,
      FittedOutcome(Exogs, {"PRE"}, TRUE, Intermittent),
      FittedOutcome(Exogs, {"PRE"}, FALSE, Won("single", "PRE")),
      FittedOutcome(Exogs, Phases, FALSE, Won("hybrid", "REFIT")) }
=============================================================================
