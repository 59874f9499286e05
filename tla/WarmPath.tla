------------------------------ MODULE WarmPath ------------------------------
(***************************************************************************)
(* One SKU over many runs: a cold run chooses, and every run after it is   *)
(* warm until the drift check says otherwise (pipelines/drift.py and       *)
(* warm.py, called by dispatch of orchestrator.rs).  A warm run stores a   *)
(* spec the next run may start from, so what it copies and what it leaves  *)
(* out adds up.  Attempts at the same time, faults and blobs are those of  *)
(* ForecastStore; here a run is alone, and the panel is loaded between and *)
(* during the runs.  It always has rows before the VAL window.             *)
(***************************************************************************)
EXTENDS Forecasts

CONSTANTS Errors,      \* what an MAE may be
          Params,      \* what the search may choose, Default among them
          Default,     \* the parameters of the models' own defaults: {}
          DriftPct,    \* drift_eps, in percent
          ColdSpecs,   \* what a cold run of a SKU with sales may store
          MaxRuns      \* a bound on the runs

Families == {"RF", "XGB"}
Variants == {"RF", "XGB", "Y-ENS"}      \* those of a dense winner
Absent   == 0                           \* no row of sku_run_models

\* MAE per variant: the ensemble is a convex combination of the two.
ErrorsOf == {e \in [Variants -> Errors] : e["Y-ENS"] <= e["RF"] \/ e["Y-ENS"] <= e["XGB"]}

\* A stored result, as load_latest reads it.  hyper: the hyperparameters of
\* each model slot; resid: the exog tables with residual rows; mae: the means of
\* the absolute residuals of the winner's exog table.
SpecType == [winner  : Combos \cup {Zero},
             variant : Variants \cup {"TSB", "Zero"},
             hyper   : [Families -> [Phases -> Params \cup {Absent}]],
             resid   : SUBSET Exogs,
             mae     : [Variants -> Errors]]

\* A winner of cold has residuals, and both phases of RF are fitted.
Wellformed(s) ==
    /\ s.winner \in Combos
    /\ \A p \in Phases : s.hyper["RF"][p] # Absent
    /\ s.winner \in Dense => s.variant \in Variants /\ s.winner.exog \in s.resid
    /\ s.winner = Intermittent => s.variant = "TSB"
    /\ "hybrid" \in s.resid

ASSUME WarmAssumption ==
    /\ Errors \subseteq Nat /\ 0 \in Errors
    /\ Params \subseteq Nat \ {Absent} /\ Default \in Params
    /\ DriftPct \in Nat /\ MaxRuns \in Nat
    /\ ColdSpecs \subseteq {s \in SpecType : Wellformed(s)}

NoParams == [f \in Families |-> [p \in Phases |-> Absent]]
NoErrors == [v \in Variants |-> 0]
ZeroSpec == [winner |-> Zero, variant |-> "Zero", hyper |-> NoParams,
             resid |-> {}, mae |-> NoErrors]

\* The spec ForecastStore and Forecasts speak of.
Abstract(s) == [winner |-> s.winner,
                models |-> {p \in Phases : s.hyper["RF"][p] # Absent},
                resid  |-> s.resid]

VARIABLES
    panel,    \* what sales_panel holds of the SKU: recent sales, rows in the VAL window
    stored,   \* rows of completed runs [spec, origin]; origin: the cold spec it descends from
    runs,     \* runs begun
    pc,       \* "idle", "gate", "warm", "cold" or "done"
    loaded,   \* the panel the run has loaded
    cached,   \* the row load_latest found, pinned or latest
    gate,     \* what the drift check said: "none", "open", "closed" or "failed"
    fresh,    \* the errors of the cached models on the VAL rows it was given
    answer    \* the spec the run has stored, or Refused

vars == <<panel, stored, runs, pc, loaded, cached, gate, fresh, answer>>

Refused == [ZeroSpec EXCEPT !.resid = Exogs]    \* differs from every spec stored
NoRow   == [spec |-> ZeroSpec, origin |-> ZeroSpec]
Panels  == [sold : BOOLEAN, val : BOOLEAN]

Init ==
    /\ panel \in Panels /\ loaded = panel
    /\ stored = {} /\ cached = NoRow
    /\ runs = 0 /\ pc = "idle" /\ gate = "none"
    /\ fresh = NoErrors /\ answer = Refused

-----------------------------------------------------------------------------
(* The drift check.                                                        *)

\* The slot of the winning phase, or else of PRE.
Chosen(s, f) ==
    IF s.hyper[f][s.winner.phase] # Absent THEN s.hyper[f][s.winner.phase]
    ELSE s.hyper[f]["PRE"]

\* The mean absolute residual of the winner, if there are such residuals.
CachedMae(s) ==
    IF s.winner \in Dense /\ s.winner.exog \in s.resid THEN s.mae[s.variant] ELSE 0

Exceeds(new, old) == old > 0 /\ new * 100 > old * (100 + DriftPct)

\* No VAL rows: no drift.  No RF model: drift.  Else the RF model, whatever the
\* variant of the winner, is measured against the winner's residuals.
DriftOfAnyModel(s, e) == loaded.val /\ Exceeds(e["RF"], CachedMae(s))
Drift(s, e) ==
    \/ s.winner = Intermittent
    \/ loaded.val /\ Chosen(s, "RF") = Absent
    \/ loaded.val /\ Exceeds(e["RF"], CachedMae(s))

\* The exog table cannot be built: an error, and no answer.
Answers(s) ==
    \/ s.winner = Intermittent \/ ~ loaded.val \/ Chosen(s, "RF") = Absent
    \/ Buildable(Abstract(s))

DriftAnswers ==
    /\ pc = "gate"
    /\ Answers(cached.spec)
    /\ fresh' \in ErrorsOf
    /\ gate' = IF Drift(cached.spec, fresh') THEN "closed" ELSE "open"
    /\ pc' = IF gate' = "closed" THEN "cold" ELSE "warm"
    /\ UNCHANGED <<panel, stored, runs, loaded, cached, answer>>

\* A failed check is a warning: "proceeding warm".
DriftFails ==
    /\ pc = "gate"
    /\ gate' = "failed" /\ pc' = "warm"
    /\ UNCHANGED <<panel, stored, runs, loaded, cached, fresh, answer>>

-----------------------------------------------------------------------------
(* The two pipelines.                                                      *)

Store(row) == stored' = stored \cup {row} /\ answer' = row.spec
Refuse     == answer' = Refused /\ UNCHANGED stored

\* A dead SKU is zero.  Others are searched and evaluated, which takes VAL rows.
RunCold ==
    /\ pc = "cold" /\ pc' = "done"
    /\ IF ~ loaded.sold THEN Store(NoRow)
       ELSE IF loaded.val THEN \E s \in ColdSpecs : Store([spec |-> s, origin |-> s])
       ELSE Refuse
    /\ UNCHANGED <<panel, runs, loaded, cached, gate, fresh>>

\* The slots of the winning phase are fitted with the cached hyperparameters:
\* RF always, XGB if the spec has it.
RefittedWithoutXGB(s) ==
    [f \in Families |-> [p \in Phases |->
        IF p # s.winner.phase \/ f = "XGB" THEN Absent ELSE Chosen(s, f)]]
Refitted(s) ==
    [f \in Families |-> [p \in Phases |->
        IF p # s.winner.phase THEN Absent
        ELSE IF f = "RF" /\ Chosen(s, f) = Absent THEN Default
        ELSE Chosen(s, f)]]

\* Winner and residuals, of every exog table, are passed on as they are.
WarmSpecWithoutResid(s)  == [s EXCEPT !.hyper = Refitted(s), !.resid = {s.winner.exog}]
WarmSpecOfFreshErrors(s) == [s EXCEPT !.hyper = Refitted(s), !.mae = fresh]
WarmSpec(s)              == [s EXCEPT !.hyper = Refitted(s)]

RunWarm ==
    /\ pc = "warm" /\ pc' = "done"
    /\ IF Buildable(Abstract(cached.spec))
       THEN Store([spec |-> WarmSpec(cached.spec), origin |-> cached.origin])
       ELSE Refuse
    /\ UNCHANGED <<panel, runs, loaded, cached, gate, fresh>>

-----------------------------------------------------------------------------
(* A run, and the world around it.                                         *)

\* dispatch reads the spec, pinned or latest, and the panel, once.  Without a
\* spec, or with --cold, it is cold; with --no-drift-check it goes straight to
\* warm.
Begin ==
    /\ pc \in {"idle", "done"}
    /\ runs < MaxRuns /\ runs' = runs + 1
    /\ loaded' = panel /\ gate' = "none" /\ fresh' = NoErrors /\ answer' = Refused
    /\ \/ cached' = NoRow /\ pc' = "cold"
       \/ cached' \in stored /\ pc' \in {"gate", "warm"}
    /\ UNCHANGED <<panel, stored>>

\* A load of the panel, or the windows of the configuration move on.
Ingest ==
    /\ \E p \in Panels \ {panel} : panel' = p
    /\ UNCHANGED <<stored, runs, pc, loaded, cached, gate, fresh, answer>>

Next == Begin \/ DriftAnswers \/ DriftFails \/ RunCold \/ RunWarm \/ Ingest

Spec == Init /\ [][Next]_vars

-----------------------------------------------------------------------------
RowType == [spec : SpecType, origin : SpecType]

\* The type invariant.
TypeOK ==
    /\ panel \in Panels /\ loaded \in Panels
    /\ stored \subseteq RowType /\ cached \in RowType
    /\ runs \in 0 .. MaxRuns
    /\ pc \in {"idle", "gate", "warm", "cold", "done"}
    /\ gate \in {"none", "open", "closed", "failed"}
    /\ fresh \in [Variants -> Errors]
    /\ answer \in SpecType

\* However many warm runs lie between, a stored result has the winner, the
\* residuals and the hyperparameters of the cold run it descends from, and for
\* each family a model it can be refitted from: nothing wears off.
Inherits(s, o) ==
    /\ s.winner = o.winner /\ s.variant = o.variant
    /\ s.resid = o.resid /\ s.mae = o.mae
    /\ \A f \in Families : Chosen(s, f) = Chosen(o, f)
ChainKeepsItsOrigin == \A row \in stored : Inherits(row.spec, row.origin)

\* Where it compares errors, the drift check compares with what the last cold
\* run measured, not with a warm run in between: errors that creep up run after
\* run still add up to a drift.
Compared == gate \in {"open", "closed"} /\ loaded.val /\ cached.origin.winner \in Dense
GateMeasuresFromCold ==
    Compared => (gate = "closed" <=> Exceeds(fresh["RF"], CachedMae(cached.origin)))

\* A run the drift check lets through is served by the warm path, but for a SKU
\* that was dead when it was last run cold and has no rows in the VAL window.
PassedAndRefused == pc = "done" /\ gate = "open" /\ answer = Refused
RefusedOnlyUncovered ==
    PassedAndRefused => ~ loaded.val /\ cached.origin = ZeroSpec

\* The decision of the drift check and the result of warm are, for a panel that
\* covers the VAL window, those ForecastStore lets its worker choose from.
StoreAssumesRightly ==
    [][ /\ pc = "gate" /\ gate' \in {"open", "closed"} /\ loaded.val =>
              MayAnswer(Abstract(cached.spec), gate' = "closed")
        /\ pc = "warm" /\ pc' = "done" =>
              WarmOutcome(Abstract(cached.spec)) =
                  IF answer' = Refused THEN NoOutcome
                  ELSE LET a == Abstract(answer')
                       IN [winner |-> a.winner, combos |-> {a.winner},
                           slots |-> a.models, resid |-> a.resid] ]_vars
=============================================================================
