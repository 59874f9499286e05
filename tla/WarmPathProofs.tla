--------------------------- MODULE WarmPathProofs ---------------------------
(***************************************************************************)
(* Theorems about WarmPath, for any errors, hyperparameters, drift margin, *)
(* cold results and number of runs.  A stored row descends from a cold     *)
(* result or from the zero forecast and has inherited everything of it     *)
(* (RowOK), and a gate that is open has not seen an Intermittent winner,   *)
(* nor a Zero one with rows in the VAL window (GateOK).                    *)
(***************************************************************************)
EXTENDS WarmPath, TLAPS

RowOK(row) ==
    /\ row \in RowType
    /\ row.origin \in ColdSpecs \cup {ZeroSpec}
    /\ Inherits(row.spec, row.origin)

GateOK ==
    /\ gate = "open" => /\ cached.spec.winner # Intermittent
                        /\ loaded.val => cached.spec.winner # Zero
    /\ pc = "gate" => gate = "none"
    /\ pc = "cold" => gate # "open"

\* The inductive invariant.
WarmInv ==
    /\ TypeOK
    /\ RowOK(cached)
    /\ \A row \in stored : RowOK(row)
    /\ GateMeasuresFromCold
    /\ GateOK
    /\ RefusedOnlyUncovered

-----------------------------------------------------------------------------
(* Specs.                                                                  *)

LEMMA WinnersDiffer ==
    /\ Intermittent \notin Dense /\ Zero \notin Dense /\ Intermittent # Zero
    /\ \A w \in Dense : w.exog \in Exogs /\ w.phase \in Phases
    /\ Intermittent.phase \in Phases /\ Zero.phase \in Phases
<1>1. /\ Intermittent.exog = "Intermittent" /\ Zero.exog = "Zero"
      /\ Intermittent.phase = "PRE" /\ Zero.phase = "PRE"
  BY DEF Intermittent, Zero
<1>2. \A w \in Dense : w.exog \in Exogs /\ w.phase \in Phases
  BY DEF Dense
<1>3. "Intermittent" \notin Exogs /\ "Zero" \notin Exogs /\ "PRE" \in Phases
  BY DEF Exogs, Phases
<1>. QED  BY <1>1, <1>2, <1>3

LEMMA PhaseOfSpec ==
    ASSUME NEW s \in SpecType
    PROVE  s.winner.phase \in Phases
BY WinnersDiffer DEF SpecType, Combos

LEMMA NoParamsType == NoParams \in [Families -> [Phases -> Params \cup {Absent}]]
BY DEF NoParams

LEMMA NoErrorsType == NoErrors \in [Variants -> Errors]
BY WarmAssumption DEF NoErrors

LEMMA ZeroSpecType ==
    /\ ZeroSpec \in SpecType
    /\ ZeroSpec.winner = Zero
    /\ Refused \in SpecType
    /\ Refused # ZeroSpec
<1>1. ZeroSpec \in SpecType
  BY NoParamsType, NoErrorsType DEF ZeroSpec, SpecType
<1>2. ZeroSpec.winner = Zero /\ ZeroSpec.resid = {}
  BY DEF ZeroSpec
<1>3. Refused \in SpecType
  BY <1>1 DEF Refused, SpecType
<1>4. Refused.resid = Exogs /\ Exogs # {}
  BY DEF Refused, ZeroSpec, Exogs
<1>. QED  BY <1>1, <1>2, <1>3, <1>4

\* No spec with rows of residuals for every exog table is Zero.
LEMMA NotRefused ==
    ASSUME NEW s, s.winner # Zero
    PROVE  s # Refused
<1>1. Refused.winner = Zero
  BY DEF Refused, ZeroSpec
<1>. QED  BY <1>1

\* A row with a dense winner descends from a cold result, so it can be refitted.
LEMMA DenseRow ==
    ASSUME NEW row, RowOK(row), row.spec.winner \in Dense
    PROVE  /\ row.origin \in ColdSpecs
           /\ row.spec.variant \in Variants
           /\ row.spec.winner.exog \in row.spec.resid
           /\ "hybrid" \in row.spec.resid
           /\ Chosen(row.spec, "RF") # Absent
<1>1. row.origin.winner \in Dense
  BY DEF RowOK, Inherits
<1>2. row.origin \in ColdSpecs
  BY <1>1, WinnersDiffer, ZeroSpecType DEF RowOK
<1>3. Wellformed(row.origin) /\ row.origin \in SpecType
  BY <1>2, WarmAssumption
<1>4. Chosen(row.origin, "RF") # Absent
  BY <1>3, PhaseOfSpec DEF Wellformed, Chosen
<1>5. Chosen(row.spec, "RF") = Chosen(row.origin, "RF")
  BY DEF RowOK, Inherits, Families
<1>. QED  BY <1>1, <1>2, <1>3, <1>4, <1>5 DEF RowOK, Inherits, Wellformed

LEMMA ZeroRow ==
    ASSUME NEW row, RowOK(row), row.spec.winner = Zero
    PROVE  row.origin = ZeroSpec
<1>1. row.origin.winner = Zero
  BY DEF RowOK, Inherits
<1>2. CASE row.origin \in ColdSpecs
  <2>1. row.origin.winner \in Combos
    BY <1>2, WarmAssumption DEF Wellformed
  <2>. QED  BY <1>1, <2>1, WinnersDiffer DEF Combos
<1>. QED  BY <1>2 DEF RowOK

LEMMA DenseIsBuildable ==
    ASSUME NEW row, RowOK(row), row.spec.winner \in Dense
    PROVE  Buildable(Abstract(row.spec))
BY DenseRow DEF Buildable, Abstract

LEMMA BuildableIsDense ==
    ASSUME NEW s, Buildable(Abstract(s))
    PROVE  s.winner \in Dense
BY DEF Buildable, Abstract

-----------------------------------------------------------------------------
(* What a cold and a warm run store.                                       *)

LEMMA ColdRow ==
    ASSUME NEW s \in ColdSpecs
    PROVE  RowOK([spec |-> s, origin |-> s])
<1>1. s \in SpecType
  BY WarmAssumption
<1>. QED  BY <1>1 DEF RowOK, RowType, Inherits

LEMMA NoRowOK == RowOK(NoRow)
BY ZeroSpecType DEF RowOK, RowType, Inherits, NoRow

\* Only the slots of the winning phase are left, with the parameters chosen.
LEMMA RefittedKeeps ==
    ASSUME NEW s \in SpecType, Chosen(s, "RF") # Absent
    PROVE  /\ Refitted(s) \in [Families -> [Phases -> Params \cup {Absent}]]
           /\ \A f \in Families : Chosen(WarmSpec(s), f) = Chosen(s, f)
<1>1. s.winner.phase \in Phases
  BY PhaseOfSpec
<1>2. \A f \in Families : Chosen(s, f) \in Params \cup {Absent}
  BY <1>1 DEF Chosen, SpecType, Phases
<1>3. \A f \in Families, p \in Phases :
        Refitted(s)[f][p] = IF p = s.winner.phase THEN Chosen(s, f) ELSE Absent
  BY DEF Refitted
<1>4. Refitted(s) \in [Families -> [Phases -> Params \cup {Absent}]]
  BY <1>2, WarmAssumption DEF Refitted
<1>5. WarmSpec(s).winner = s.winner /\ WarmSpec(s).hyper = Refitted(s)
  BY DEF WarmSpec, SpecType
<1>6. ASSUME NEW f \in Families
      PROVE  Chosen(WarmSpec(s), f) = Chosen(s, f)
  <2>1. WarmSpec(s).hyper[f][WarmSpec(s).winner.phase] = Chosen(s, f)
    BY <1>1, <1>3, <1>5
  <2>2. CASE Chosen(s, f) # Absent
    BY <2>1, <2>2 DEF Chosen
  <2>3. CASE Chosen(s, f) = Absent
    <3>1. Refitted(s)[f]["PRE"] = Absent
      BY <1>3, <2>3 DEF Phases
    <3>. QED  BY <2>1, <2>3, <3>1, <1>5 DEF Chosen
  <2>. QED  BY <2>2, <2>3
<1>. QED  BY <1>4, <1>6

LEMMA WarmRow ==
    ASSUME NEW row, RowOK(row), row.spec.winner \in Dense
    PROVE  RowOK([spec |-> WarmSpec(row.spec), origin |-> row.origin])
<1>1. row.spec \in SpecType /\ row.origin \in SpecType
  BY DEF RowOK, RowType
<1>2. Chosen(row.spec, "RF") # Absent
  BY DenseRow
<1>3. WarmSpec(row.spec) \in SpecType
  BY <1>1, <1>2, RefittedKeeps DEF WarmSpec, SpecType
<1>4. /\ WarmSpec(row.spec).winner = row.spec.winner
      /\ WarmSpec(row.spec).variant = row.spec.variant
      /\ WarmSpec(row.spec).resid = row.spec.resid
      /\ WarmSpec(row.spec).mae = row.spec.mae
  BY <1>1 DEF WarmSpec, SpecType
<1>5. \A f \in Families : Chosen(WarmSpec(row.spec), f) = Chosen(row.spec, f)
  BY <1>1, <1>2, RefittedKeeps
<1>6. Inherits(WarmSpec(row.spec), row.origin)
  BY <1>4, <1>5 DEF RowOK, Inherits
<1>. QED  BY <1>1, <1>3, <1>6 DEF RowOK, RowType

-----------------------------------------------------------------------------
(* The drift check.                                                        *)

\* The baseline of a row is that of its origin.
LEMMA SameBaseline ==
    ASSUME NEW row, RowOK(row)
    PROVE  CachedMae(row.spec) = CachedMae(row.origin)
BY DEF RowOK, Inherits, CachedMae

\* With rows in the VAL window and a dense winner, only errors decide.
LEMMA VerdictOfErrors ==
    ASSUME NEW row, RowOK(row), row.origin.winner \in Dense, loaded.val, NEW e
    PROVE  Drift(row.spec, e) <=> Exceeds(e["RF"], CachedMae(row.origin))
<1>1. row.spec.winner \in Dense
  BY DEF RowOK, Inherits
<1>2. row.spec.winner # Intermittent /\ Chosen(row.spec, "RF") # Absent
  BY <1>1, WinnersDiffer, DenseRow
<1>. QED  BY <1>2, SameBaseline DEF Drift

\* A Zero winner has no models: with rows in the VAL window it drifts.
LEMMA ZeroDrifts ==
    ASSUME NEW row, RowOK(row), row.spec.winner = Zero, loaded.val, NEW e
    PROVE  Drift(row.spec, e)
<1>1. row.origin = ZeroSpec
  BY ZeroRow
<1>2. Chosen(ZeroSpec, "RF") = Absent
  BY DEF Chosen, ZeroSpec, NoParams, Families, Phases, Zero
<1>3. Chosen(row.spec, "RF") = Absent
  BY <1>1, <1>2 DEF RowOK, Inherits, Families
<1>. QED  BY <1>3 DEF Drift

-----------------------------------------------------------------------------
(* The inductive invariant.                                                *)

LEMMA InitEstablishes == Init => WarmInv
<1>. SUFFICES ASSUME Init PROVE WarmInv  OBVIOUS
<1>1. TypeOK
  BY ZeroSpecType, NoErrorsType, NoRowOK, WarmAssumption DEF Init, TypeOK, RowOK
<1>. QED
  BY <1>1, NoRowOK DEF Init, WarmInv, GateMeasuresFromCold, Compared, GateOK,
                       RefusedOnlyUncovered, PassedAndRefused

LEMMA BeginKeeps == WarmInv /\ Begin => WarmInv'
<1>. SUFFICES ASSUME WarmInv, Begin PROVE WarmInv'  OBVIOUS
<1>1. /\ gate' = "none" /\ fresh' = NoErrors /\ answer' = Refused /\ loaded' = panel
      /\ panel' = panel /\ stored' = stored /\ runs' = runs + 1 /\ runs < MaxRuns
      /\ pc' \in {"cold", "gate", "warm"}
      /\ cached' = NoRow \/ cached' \in stored
  BY DEF Begin
<1>2. RowOK(cached')
  BY <1>1, NoRowOK DEF WarmInv
<1>3. TypeOK'
  <2>1. runs' \in 0 .. MaxRuns
    BY <1>1, WarmAssumption DEF WarmInv, TypeOK
  <2>2. cached' \in RowType
    BY <1>2 DEF RowOK
  <2>. QED  BY <1>1, <2>1, <2>2, NoErrorsType, ZeroSpecType DEF WarmInv, TypeOK
<1>4. (\A row \in stored : RowOK(row))' /\ RowOK(cached)'
  BY <1>1, <1>2 DEF WarmInv, RowOK
<1>. QED
  BY <1>1, <1>3, <1>4 DEF WarmInv, GateMeasuresFromCold, Compared, GateOK,
                          RefusedOnlyUncovered, PassedAndRefused

LEMMA DriftAnswersKeeps == WarmInv /\ DriftAnswers => WarmInv'
<1>. SUFFICES ASSUME WarmInv, DriftAnswers PROVE WarmInv'  OBVIOUS
<1>1. /\ UNCHANGED <<panel, stored, runs, loaded, cached, answer>>
      /\ fresh' \in ErrorsOf
      /\ gate' = IF Drift(cached.spec, fresh') THEN "closed" ELSE "open"
      /\ pc' = IF gate' = "closed" THEN "cold" ELSE "warm"
  BY DEF DriftAnswers
<1>2. gate' \in {"open", "closed"} /\ pc' \in {"cold", "warm"}
  BY <1>1
<1>3. gate' = "closed" <=> Drift(cached.spec, fresh')
  BY <1>1
<1>4. TypeOK'
  BY <1>1, <1>2 DEF WarmInv, TypeOK, ErrorsOf
<1>5. (\A row \in stored : RowOK(row))' /\ RowOK(cached)'
  BY <1>1 DEF WarmInv, RowOK
<1>6. GateMeasuresFromCold'
  BY <1>1, <1>3, VerdictOfErrors DEF WarmInv, GateMeasuresFromCold, Compared
<1>7. GateOK'
  <2>1. gate' = "open" => ~ Drift(cached.spec, fresh')
    BY <1>3
  <2>2. ~ Drift(cached.spec, fresh') => cached.spec.winner # Intermittent
    BY DEF Drift
  <2>3. ~ Drift(cached.spec, fresh') /\ loaded.val => cached.spec.winner # Zero
    BY ZeroDrifts DEF WarmInv
  <2>. QED  BY <1>1, <1>2, <2>1, <2>2, <2>3 DEF GateOK
<1>8. RefusedOnlyUncovered'
  BY <1>2 DEF RefusedOnlyUncovered, PassedAndRefused
<1>. QED  BY <1>4, <1>5, <1>6, <1>7, <1>8 DEF WarmInv

LEMMA DriftFailsKeeps == WarmInv /\ DriftFails => WarmInv'
<1>. SUFFICES ASSUME WarmInv, DriftFails PROVE WarmInv'  OBVIOUS
<1>1. /\ gate' = "failed" /\ pc' = "warm"
      /\ UNCHANGED <<panel, stored, runs, loaded, cached, fresh, answer>>
  BY DEF DriftFails
<1>2. TypeOK'
  BY <1>1 DEF WarmInv, TypeOK
<1>3. (\A row \in stored : RowOK(row))' /\ RowOK(cached)'
  BY <1>1 DEF WarmInv, RowOK
<1>. QED
  BY <1>1, <1>2, <1>3 DEF WarmInv, GateMeasuresFromCold, Compared, GateOK,
                          RefusedOnlyUncovered, PassedAndRefused

\* What the end of a run has to preserve, cold or warm.
LEMMA EndKeeps ==
    ASSUME WarmInv, NEW row, RowOK(row), pc' = "done",
           UNCHANGED <<panel, runs, loaded, cached, gate, fresh>>,
           Store(row) \/ Refuse,
           PassedAndRefused' => ~ loaded.val /\ cached.origin = ZeroSpec
    PROVE  WarmInv'
<1>1. stored' = stored \/ stored' = stored \cup {row}
  BY DEF Store, Refuse
<1>2. row \in RowType /\ row.spec \in SpecType
  BY DEF RowOK, RowType
<1>3. answer' \in SpecType
  BY <1>2, ZeroSpecType DEF Store, Refuse
<1>4. TypeOK'
  BY <1>1, <1>2, <1>3 DEF WarmInv, TypeOK
<1>5. (\A r \in stored : RowOK(r))' /\ RowOK(cached)'
  BY <1>1 DEF WarmInv, RowOK
<1>6. GateMeasuresFromCold' /\ GateOK'
  BY DEF WarmInv, GateMeasuresFromCold, Compared, GateOK
<1>7. RefusedOnlyUncovered'
  BY DEF RefusedOnlyUncovered
<1>. QED  BY <1>4, <1>5, <1>6, <1>7 DEF WarmInv

\* An open gate does not lead to a cold run, which may be refused.
LEMMA RunColdKeeps == WarmInv /\ RunCold => WarmInv'
<1>. SUFFICES ASSUME WarmInv, RunCold PROVE WarmInv'  OBVIOUS
<1>1. /\ pc' = "done" /\ UNCHANGED <<panel, runs, loaded, cached, gate, fresh>>
      /\ ~ PassedAndRefused'
  BY DEF RunCold, PassedAndRefused, WarmInv, GateOK
<1>2. PICK row : RowOK(row) /\ (Store(row) \/ Refuse)
  <2>1. CASE \E s \in ColdSpecs : Store([spec |-> s, origin |-> s])
    BY <2>1, ColdRow
  <2>2. CASE Store(NoRow) \/ Refuse
    BY <2>2, NoRowOK
  <2>. QED  BY <2>1, <2>2 DEF RunCold
<1>. QED  BY <1>1, <1>2, EndKeeps

\* A gate that let the run pass leaves but one winner warm cannot serve.
LEMMA RunWarmKeeps == WarmInv /\ RunWarm => WarmInv'
<1>. SUFFICES ASSUME WarmInv, RunWarm PROVE WarmInv'  OBVIOUS
<1>1. pc' = "done" /\ UNCHANGED <<panel, runs, loaded, cached, gate, fresh>>
  BY DEF RunWarm
<1>2. RowOK(cached) /\ cached.spec \in SpecType
  BY DEF WarmInv, RowOK, RowType
<1>3. CASE Buildable(Abstract(cached.spec))
  <2>. DEFINE row == [spec |-> WarmSpec(cached.spec), origin |-> cached.origin]
  <2>1. cached.spec.winner \in Dense
    BY <1>3, BuildableIsDense
  <2>2. Store(row) /\ RowOK(row)
    BY <1>2, <1>3, <2>1, WarmRow DEF RunWarm
  <2>3. answer'.winner = cached.spec.winner
    BY <1>2, <2>2 DEF Store, WarmSpec, SpecType
  <2>4. answer' # Refused
    BY <2>1, <2>3, WinnersDiffer, NotRefused
  <2>. QED  BY <1>1, <2>2, <2>4, EndKeeps DEF PassedAndRefused
<1>4. CASE ~ Buildable(Abstract(cached.spec))
  <2>1. Refuse
    BY <1>4 DEF RunWarm
  <2>2. cached.spec.winner \notin Dense
    BY <1>2, <1>4, DenseIsBuildable
  <2>3. gate = "open" => cached.spec.winner = Zero /\ ~ loaded.val
    BY <1>2, <2>2 DEF WarmInv, GateOK, SpecType, Combos
  <2>4. gate = "open" => ~ loaded.val /\ cached.origin = ZeroSpec
    BY <1>2, <2>3, ZeroRow
  <2>. QED  BY <1>1, <2>1, <2>4, NoRowOK, EndKeeps DEF PassedAndRefused
<1>. QED  BY <1>3, <1>4

LEMMA IngestKeeps == WarmInv /\ Ingest => WarmInv'
<1>. SUFFICES ASSUME WarmInv, Ingest PROVE WarmInv'  OBVIOUS
<1>1. /\ panel' \in Panels
      /\ UNCHANGED <<stored, runs, pc, loaded, cached, gate, fresh, answer>>
  BY DEF Ingest
<1>2. TypeOK'
  BY <1>1 DEF WarmInv, TypeOK
<1>3. (\A row \in stored : RowOK(row))' /\ RowOK(cached)'
  BY <1>1 DEF WarmInv, RowOK
<1>. QED
  BY <1>1, <1>2, <1>3 DEF WarmInv, GateMeasuresFromCold, Compared, GateOK,
                          RefusedOnlyUncovered, PassedAndRefused

LEMMA StutterKeeps == WarmInv /\ UNCHANGED vars => WarmInv'
BY DEF WarmInv, vars, TypeOK, RowOK, GateMeasuresFromCold, Compared, GateOK,
       RefusedOnlyUncovered, PassedAndRefused
THEOREM WarmInvHolds == Spec => []WarmInv
<1>1. Init => WarmInv
  BY InitEstablishes
<1>2. WarmInv /\ [Next]_vars => WarmInv'
  BY BeginKeeps, DriftAnswersKeeps, DriftFailsKeeps, RunColdKeeps, RunWarmKeeps,
     IngestKeeps, StutterKeeps DEF Next
<1>. QED  BY <1>1, <1>2, PTL DEF Spec

-----------------------------------------------------------------------------
(* The properties.                                                         *)

\* The type invariant.
THEOREM TypeCorrect == Spec => []TypeOK
<1>1. WarmInv => TypeOK
  BY DEF WarmInv
<1>. QED  BY <1>1, WarmInvHolds, PTL

\* However long a chain of warm runs, it has all of its cold origin.
THEOREM ChainKeepsItsOriginHolds == Spec => []ChainKeepsItsOrigin
<1>1. WarmInv => ChainKeepsItsOrigin
  BY DEF WarmInv, RowOK, ChainKeepsItsOrigin
<1>. QED  BY <1>1, WarmInvHolds, PTL

\* The drift check measures from the last cold run.
THEOREM GateMeasuresFromColdHolds == Spec => []GateMeasuresFromCold
<1>1. WarmInv => GateMeasuresFromCold
  BY DEF WarmInv
<1>. QED  BY <1>1, WarmInvHolds, PTL

\* Of the runs that pass the drift check, warm refuses only those of a SKU last
\* seen dead and with no rows in the VAL window.
THEOREM RefusedOnlyUncoveredHolds == Spec => []RefusedOnlyUncovered
<1>1. WarmInv => RefusedOnlyUncovered
  BY DEF WarmInv
<1>. QED  BY <1>1, WarmInvHolds, PTL

-----------------------------------------------------------------------------
(* What ForecastStore assumes of the worker.                               *)

\* Of a stored row, the RF slot of the winning phase, or else of PRE, is missing
\* just when the abstract spec has no model.
LEMMA ModelOfSpec ==
    ASSUME NEW s \in SpecType
    PROVE  HasModel(Abstract(s)) <=> Chosen(s, "RF") # Absent
<1>1. s.winner.phase \in Phases /\ "PRE" \in Phases
  BY PhaseOfSpec DEF Phases
<1>2. Abstract(s).winner = s.winner
      /\ Abstract(s).models = {p \in Phases : s.hyper["RF"][p] # Absent}
  BY DEF Abstract
<1>. QED  BY <1>1, <1>2 DEF HasModel, Chosen

LEMMA AbstractVerdict ==
    ASSUME NEW s \in SpecType, NEW e, loaded.val, Answers(s)
    PROVE  MayAnswer(Abstract(s), Drift(s, e))
<1>1. Abstract(s).winner = s.winner
  BY DEF Abstract
<1>2. HasModel(Abstract(s)) <=> Chosen(s, "RF") # Absent
  BY ModelOfSpec
<1>. QED  BY <1>1, <1>2 DEF MayAnswer, Answers, Drift

\* The refitted spec has the RF slot of the winning phase and no other.
LEMMA RefittedModels ==
    ASSUME NEW s \in SpecType, Chosen(s, "RF") # Absent
    PROVE  Abstract(WarmSpec(s)).models = {s.winner.phase}
<1>1. s.winner.phase \in Phases /\ "RF" \in Families
  BY PhaseOfSpec DEF Families
<1>2. WarmSpec(s).hyper = Refitted(s)
  BY DEF WarmSpec, SpecType
<1>3. \A p \in Phases : Refitted(s)["RF"][p] # Absent <=> p = s.winner.phase
  BY <1>1 DEF Refitted
<1>4. Abstract(WarmSpec(s)).models = {p \in Phases : Refitted(s)["RF"][p] # Absent}
  BY <1>2 DEF Abstract
<1>. QED  BY <1>1, <1>3, <1>4

LEMMA AbstractResult ==
    ASSUME NEW row, RowOK(row), row.spec.winner \in Dense
    PROVE  LET a == Abstract(WarmSpec(row.spec))
           IN  WarmOutcome(Abstract(row.spec)) =
                   [winner |-> a.winner, combos |-> {a.winner},
                    slots |-> a.models, resid |-> a.resid]
<1>1. row.spec \in SpecType /\ Chosen(row.spec, "RF") # Absent
  BY DenseRow DEF RowOK, RowType
<1>2. /\ Abstract(WarmSpec(row.spec)).winner = row.spec.winner
      /\ Abstract(WarmSpec(row.spec)).resid = row.spec.resid
  BY <1>1 DEF Abstract, WarmSpec, SpecType
<1>3. Abstract(WarmSpec(row.spec)).models = {row.spec.winner.phase}
  BY <1>1, RefittedModels
<1>4. Buildable(Abstract(row.spec))
  BY DenseIsBuildable
<1>5. Abstract(row.spec).winner = row.spec.winner
      /\ Abstract(row.spec).resid = row.spec.resid
  BY DEF Abstract
<1>. QED  BY <1>2, <1>3, <1>4, <1>5 DEF WarmOutcome

\* Verdicts and results of the detailed worker are among those ForecastStore is
\* checked and proved with, for panels that cover the VAL window.
THEOREM StoreAssumesRightlyHolds == Spec => StoreAssumesRightly
<1>. DEFINE Verdict == pc = "gate" /\ gate' \in {"open", "closed"} /\ loaded.val =>
                         MayAnswer(Abstract(cached.spec), gate' = "closed")
            Result  == pc = "warm" /\ pc' = "done" =>
                         WarmOutcome(Abstract(cached.spec)) =
                           IF answer' = Refused THEN NoOutcome
                           ELSE LET a == Abstract(answer')
                                IN [winner |-> a.winner, combos |-> {a.winner},
                                    slots |-> a.models, resid |-> a.resid]
<1>1. ASSUME WarmInv, DriftAnswers PROVE Verdict /\ Result
  <2>1. cached.spec \in SpecType
    BY <1>1 DEF WarmInv, RowOK, RowType
  <2>2. /\ pc = "gate" /\ Answers(cached.spec)
        /\ gate' = IF Drift(cached.spec, fresh') THEN "closed" ELSE "open"
    BY <1>1 DEF DriftAnswers
  <2>3. (gate' = "closed") = Drift(cached.spec, fresh')
    BY <2>2 DEF Drift
  <2>4. loaded.val => MayAnswer(Abstract(cached.spec), Drift(cached.spec, fresh'))
    BY <2>1, <2>2, AbstractVerdict
  <2>. QED  BY <2>2, <2>3, <2>4
<1>2. ASSUME WarmInv, RunWarm PROVE Verdict /\ Result
  <2>1. pc = "warm" /\ RowOK(cached) /\ cached.spec \in SpecType
    BY <1>2 DEF WarmInv, RunWarm, RowOK, RowType
  <2>2. CASE Buildable(Abstract(cached.spec))
    <3>1. answer' = WarmSpec(cached.spec)
      BY <1>2, <2>2 DEF RunWarm, Store
    <3>2. cached.spec.winner \in Dense
      BY <2>2, BuildableIsDense
    <3>3. answer'.winner = cached.spec.winner
      BY <2>1, <3>1 DEF WarmSpec, SpecType
    <3>4. answer' # Refused
      BY <3>2, <3>3, WinnersDiffer, NotRefused
    <3>. QED  BY <2>1, <3>1, <3>2, <3>4, AbstractResult
  <2>3. CASE ~ Buildable(Abstract(cached.spec))
    <3>1. answer' = Refused
      BY <1>2, <2>3 DEF RunWarm, Refuse
    <3>. QED  BY <2>1, <2>3, <3>1 DEF WarmOutcome
  <2>. QED  BY <2>2, <2>3
<1>3. ASSUME WarmInv, [Next]_vars, ~ DriftAnswers, ~ RunWarm PROVE Verdict /\ Result
  <2>1. CASE Begin
    BY <2>1 DEF Begin
  <2>2. CASE DriftFails
    BY <2>2 DEF DriftFails
  <2>3. CASE RunCold
    BY <2>3 DEF RunCold
  <2>4. CASE Ingest \/ UNCHANGED vars
    <3>1. pc' = pc /\ gate' = gate
      BY <2>4 DEF Ingest, vars
    <3>. QED  BY <1>3, <3>1 DEF WarmInv, GateOK
  <2>. QED  BY <1>3, <2>1, <2>2, <2>3, <2>4 DEF Next
<1>4. WarmInv /\ [Next]_vars => [Verdict /\ Result]_vars
  BY <1>1, <1>2, <1>3
<1>. QED  BY <1>4, WarmInvHolds, PTL DEF Spec, StoreAssumesRightly
=============================================================================
