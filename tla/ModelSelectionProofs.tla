------------------------ MODULE ModelSelectionProofs ------------------------
(***************************************************************************)
(* Theorems about ModelSelection, for every list of methods, every margin  *)
(* and every set of errors.  Until the winner is chosen every evaluated    *)
(* row is still a candidate (Inv), so what the rollback discards is beaten *)
(* by a row it keeps (DiscardedIsBeaten).                                  *)
(***************************************************************************)
EXTENDS ModelSelection, TLAPS

Paired(rows) ==
    {Combo(c) : c \in FullRows(rows)} = {Combo(c) : c \in rows \ FullRows(rows)}

RefitOnMerit ==
    OfPhase(combinations, "REFIT") # {} =>
        \A p \in OfPhase(FullRows(evaluated), "PRE") :
            \E r \in OfPhase(FullRows(combinations), "REFIT") :
                r.mae * 100 <= p.mae * (100 + EpsPct)

Inv ==
    /\ TypeOK
    /\ pc # "done" => combinations = evaluated
    /\ Paired(combinations)
    /\ WinnerIsBest
    /\ pc = "done" => RefitOnMerit

-----------------------------------------------------------------------------
(* A row that is worse than another by more than a margin is worse.        *)
LEMMA WorseByMargin ==
    ASSUME NEW p \in Nat, NEW r \in Nat, r * 100 > p * (100 + EpsPct)
    PROVE  p < r
<1>1. EpsPct \in Nat
  BY EpsAssumption
<1>2. p * EpsPct \in Nat
  BY <1>1
<1>3. p * (100 + EpsPct) = p * 100 + p * EpsPct
  BY <1>1
<1>4. QED
  BY <1>2, <1>3

(* What Kept and FullRows return are rows of their argument.               *)
LEMMA KeptIsPart ==
    ASSUME NEW rows
    PROVE  Kept(rows) \subseteq rows /\ FullRows(rows) \subseteq rows
  BY DEF Kept, FullRows, OfPhase

(* A row that the rollback discards is beaten by a row that it keeps.      *)
LEMMA DiscardedIsBeaten ==
    ASSUME NEW rows \in SUBSET Row, NEW c \in FullRows(rows), c \notin Kept(rows)
    PROVE  \E k \in FullRows(Kept(rows)) : k.mae < c.mae
<1>1. RefitIsWorse(rows) /\ c.phase # "PRE"
  BY DEF Kept, FullRows, OfPhase
<1>2. c \in rows /\ c.phase \in Phases /\ c.mae \in Nat /\ c.horizon = "Full"
  BY DEF FullRows, Row
<1>3. c \in OfPhase(FullRows(rows), "REFIT")
  BY <1>1, <1>2 DEF FullRows, OfPhase, Phases
<1>4. PICK p \in OfPhase(FullRows(rows), "PRE") :
          \A r \in OfPhase(FullRows(rows), "REFIT") : r.mae * 100 > p.mae * (100 + EpsPct)
  BY <1>1 DEF RefitIsWorse
<1>5. p.mae \in Nat
  BY <1>4 DEF FullRows, OfPhase, Row
<1>6. p.mae < c.mae
  BY <1>2, <1>3, <1>4, <1>5, WorseByMargin
<1>7. p \in FullRows(Kept(rows))
  BY <1>1, <1>4 DEF Kept, FullRows, OfPhase
<1>8. QED
  BY <1>6, <1>7

(* Unless the override applies, the winner is no worse than any row that   *)
(* was there before the rollback.                                          *)
LEMMA MinimalOfKept ==
    ASSUME NEW rows \in SUBSET Row, NEW w \in Candidates(Kept(rows)), ~ series.zeroHeavy,
           NEW c \in FullRows(rows)
    PROVE  w.mae <= c.mae
<1>1. w \in FullRows(Kept(rows)) /\ \A k \in FullRows(Kept(rows)) : w.mae <= k.mae
  BY DEF Candidates, Minimal
<1>2. CASE c \in Kept(rows)
  <2>1. c \in FullRows(Kept(rows))
    BY <1>2 DEF FullRows
  <2>2. QED
    BY <1>1, <2>1
<1>3. CASE c \notin Kept(rows)
  <2>1. PICK k \in FullRows(Kept(rows)) : k.mae < c.mae
    BY <1>3, DiscardedIsBeaten
  <2>2. w \in rows /\ k \in rows /\ c \in rows
    BY <1>1, KeptIsPart DEF FullRows
  <2>3. w.mae \in Nat /\ k.mae \in Nat /\ c.mae \in Nat
    BY <2>2 DEF Row
  <2>4. QED
    BY <1>1, <2>1, <2>3
<1>4. QED
  BY <1>2, <1>3

(* The rollback keeps or discards a combination on both horizons.          *)
LEMMA KeptIsPaired ==
    ASSUME NEW rows, Paired(rows)
    PROVE  Paired(Kept(rows))
<1>1. CASE ~ RefitIsWorse(rows)
  BY <1>1 DEF Kept
<1>2. CASE RefitIsWorse(rows)
  <2>1. Kept(rows) = {c \in rows : c.phase = "PRE"}
    BY <1>2 DEF Kept, OfPhase
  <2>2. \A c \in FullRows(Kept(rows)) :
            \E d \in Kept(rows) \ FullRows(Kept(rows)) : Combo(d) = Combo(c)
    <3>1. TAKE c \in FullRows(Kept(rows))
    <3>2. c \in FullRows(rows) /\ c.phase = "PRE"
      BY <2>1 DEF FullRows
    <3>3. PICK d \in rows \ FullRows(rows) : Combo(d) = Combo(c)
      BY <3>2 DEF Paired
    <3>4. d.phase = "PRE"
      BY <3>2, <3>3 DEF Combo
    <3>5. QED
      BY <2>1, <3>3, <3>4 DEF FullRows
  <2>3. \A d \in Kept(rows) \ FullRows(Kept(rows)) :
            \E c \in FullRows(Kept(rows)) : Combo(c) = Combo(d)
    <3>1. TAKE d \in Kept(rows) \ FullRows(Kept(rows))
    <3>2. d \in rows \ FullRows(rows) /\ d.phase = "PRE"
      BY <2>1 DEF FullRows
    <3>3. PICK c \in FullRows(rows) : Combo(c) = Combo(d)
      BY <3>2 DEF Paired
    <3>4. c.phase = "PRE"
      BY <3>2, <3>3 DEF Combo
    <3>5. QED
      BY <2>1, <3>3, <3>4 DEF FullRows
  <2>4. QED
    BY <2>2, <2>3 DEF Paired
<1>3. QED
  BY <1>1, <1>2

(* What Evaluate adds: rows of both horizons, in pairs.                    *)
LEMMA EvaluateAdds ==
    ASSUME NEW exogs \in SUBSET (Exogs \cup {"Intermittent"}), NEW phase \in Phases,
           combinations = evaluated, evaluated \subseteq Row, Paired(combinations),
           Evaluate(exogs, phase)
    PROVE  /\ combinations' = evaluated'
           /\ evaluated \subseteq evaluated'
           /\ evaluated' \subseteq Row
           /\ Paired(combinations')
<1>1. PICK mae \in [Horizons \X exogs -> Maes] :
          LET rows == {[horizon |-> k[1], exog |-> k[2], phase |-> phase, mae |-> mae[k]] :
                           k \in Horizons \X exogs}
          IN combinations' = combinations \cup rows /\ evaluated' = evaluated \cup rows
  BY DEF Evaluate
<1> DEFINE row(h, e) == [horizon |-> h, exog |-> e, phase |-> phase, mae |-> mae[<<h, e>>]]
           rows == {[horizon |-> k[1], exog |-> k[2], phase |-> phase, mae |-> mae[k]] :
                        k \in Horizons \X exogs}
<1>2. combinations' = combinations \cup rows /\ evaluated' = evaluated \cup rows
  BY <1>1
<1>3. \A c \in rows : \E h \in Horizons, e \in exogs : c = row(h, e)
  OBVIOUS
<1>4. \A h \in Horizons, e \in exogs : row(h, e) \in rows
  <2>1. TAKE h \in Horizons, e \in exogs
  <2>2. <<h, e>> \in Horizons \X exogs
    OBVIOUS
  <2>3. QED
    BY <2>2
<1>5. \A h \in Horizons, e \in exogs : row(h, e) \in Row
  BY MaesAssumption DEF Row
<1>6. rows \subseteq Row
  BY <1>3, <1>5
<1> HIDE DEF rows
<1>7. \A c \in rows : c.horizon \in Horizons /\ c.exog \in exogs /\ c.phase = phase
  <2>1. TAKE c \in rows
  <2>2. PICK h \in Horizons, e \in exogs : c = row(h, e)
    BY <1>3
  <2>3. QED
    BY <2>2
<1>8. \A c \in rows, h \in Horizons : row(h, c.exog) \in rows /\ Combo(row(h, c.exog)) = Combo(c)
  BY <1>4, <1>7 DEF Combo
<1>9. \A c \in FullRows(combinations') :
          \E d \in combinations' \ FullRows(combinations') : Combo(d) = Combo(c)
  <2>1. TAKE c \in FullRows(combinations')
  <2>2. CASE c \in rows
    <3>1. row("Short3", c.exog) \in rows /\ Combo(row("Short3", c.exog)) = Combo(c)
      BY <1>8, <2>2 DEF Horizons
    <3>2. QED
      BY <1>2, <3>1 DEF FullRows
  <2>3. CASE c \notin rows
    <3>1. c \in FullRows(combinations)
      BY <1>2, <2>3 DEF FullRows
    <3>2. PICK d \in combinations \ FullRows(combinations) : Combo(d) = Combo(c)
      BY <3>1 DEF Paired
    <3>3. QED
      BY <1>2, <3>2 DEF FullRows
  <2>4. QED
    BY <2>2, <2>3
<1>10. \A d \in combinations' \ FullRows(combinations') :
           \E c \in FullRows(combinations') : Combo(c) = Combo(d)
  <2>1. TAKE d \in combinations' \ FullRows(combinations')
  <2>2. CASE d \in rows
    <3>1. row("Full", d.exog) \in rows /\ Combo(row("Full", d.exog)) = Combo(d)
      BY <1>8, <2>2 DEF Horizons
    <3>2. QED
      BY <1>2, <3>1 DEF FullRows
  <2>3. CASE d \notin rows
    <3>1. d \in combinations \ FullRows(combinations)
      BY <1>2, <2>1, <2>3 DEF FullRows
    <3>2. PICK c \in FullRows(combinations) : Combo(c) = Combo(d)
      BY <3>1 DEF Paired
    <3>3. QED
      BY <1>2, <3>2 DEF FullRows
  <2>4. QED
    BY <2>2, <2>3
<1>11. Paired(combinations')
  BY <1>9, <1>10 DEF Paired
<1>12. QED
  BY <1>2, <1>6, <1>11

-----------------------------------------------------------------------------
LEMMA InvInit == Init => Inv
<1> SUFFICES ASSUME Init
             PROVE  Inv
  OBVIOUS
<1>1. TypeOK
  BY DEF Init, TypeOK, Steps
<1>2. Paired(combinations)
  BY DEF Init, Paired, FullRows
<1>3. QED
  BY <1>1, <1>2 DEF Init, Inv, WinnerIsBest

(* A step before the evaluation, or Raise, leaves all rows as they are.    *)
LEMMA RowsUnchanged ==
    ASSUME Inv, pc # "done", TypeOK',
           UNCHANGED <<series, combinations, evaluated, winner>>,
           pc' = "done" => series.dead /\ combinations = {}
    PROVE  Inv'
<1>1. (pc # "done" => combinations = evaluated)'
  BY DEF Inv
<1>2. Paired(combinations)'
  BY DEF Inv, Paired, FullRows, Combo
<1>3. WinnerIsBest'
  BY DEF WinnerIsBest
<1>4. (pc = "done" => RefitOnMerit)'
  BY DEF RefitOnMerit, OfPhase
<1>5. QED
  BY <1>1, <1>2, <1>3, <1>4 DEF Inv

(* Before the evaluation there are no rows.                                *)
Fresh == pc \in {"start", "probe", "escalate", "pre"} => combinations = {}

LEMMA FreshHolds == Inv /\ Fresh /\ [Next]_vars => Fresh'
  BY DEF Inv, TypeOK, Fresh, Next, vars, DeadSku, FitPre, Probe, Escalate, EvaluatePre,
         Refit, Select, Raise

LEMMA InvEvaluate ==
    ASSUME Inv, pc \in {"pre", "refit"}, pc' \in {"refit", "select"},
           NEW exogs \in SUBSET (Exogs \cup {"Intermittent"}), NEW phase \in Phases,
           Evaluate(exogs, phase), UNCHANGED <<series, tried, winner>>,
           slots' \subseteq Phases, resid' \subseteq Exogs
    PROVE  Inv'
<1>1. /\ combinations' = evaluated' /\ evaluated \subseteq evaluated'
      /\ evaluated' \subseteq Row /\ Paired(combinations')
  BY EvaluateAdds DEF Inv, TypeOK
<1>2. TypeOK'
  BY <1>1 DEF Inv, TypeOK, Steps
<1>3. Paired(combinations)'
  BY <1>1 DEF Paired, FullRows, Combo
<1>4. QED
  BY <1>1, <1>2, <1>3 DEF Inv, WinnerIsBest

LEMMA InvSelect == ASSUME Inv, Select PROVE Inv'
<1>1. /\ pc = "select" /\ pc' = "done" /\ combinations' = Kept(evaluated)
      /\ winner' \in Candidates(Kept(evaluated))
      /\ UNCHANGED <<series, tried, evaluated, slots, resid>>
  BY DEF Inv, Select
<1>2. evaluated \in SUBSET Row
  BY DEF Inv, TypeOK
<1>3. TypeOK'
  <2>1. winner' \in Kept(evaluated)
    BY <1>1 DEF Candidates, Minimal, IntermittentRows, FullRows
  <2>2. QED
    BY <1>1, <2>1, KeptIsPart DEF Inv, TypeOK, Steps
<1>4. Paired(combinations)'
  <2>1. Paired(Kept(evaluated))
    BY <1>1, KeptIsPaired DEF Inv
  <2>2. QED
    BY <1>1, <2>1 DEF Paired, FullRows, Combo
<1>5. WinnerIsBest'
  <2>1. ASSUME ~ series.zeroHeavy, NEW c \in FullRows(evaluated)
        PROVE  winner'.mae <= c.mae
    BY <1>1, <1>2, <2>1, MinimalOfKept
  <2>2. QED
    BY <1>1, <2>1 DEF WinnerIsBest, FullRows
<1>6. RefitOnMerit'
  <2>1. CASE RefitIsWorse(evaluated)
    BY <1>1, <2>1 DEF RefitOnMerit, Kept, OfPhase
  <2>2. CASE ~ RefitIsWorse(evaluated)
    <3>1. combinations' = evaluated
      BY <1>1, <2>2 DEF Kept
    <3>2. SUFFICES ASSUME OfPhase(evaluated, "REFIT") # {},
                          NEW p \in OfPhase(FullRows(evaluated), "PRE")
                   PROVE  \E r \in OfPhase(FullRows(evaluated), "REFIT") :
                              r.mae * 100 <= p.mae * (100 + EpsPct)
      BY <1>1, <3>1 DEF RefitOnMerit, OfPhase, FullRows
    <3>3. OfPhase(FullRows(evaluated), "REFIT") # {}
      <4>1. PICK c \in evaluated : c.phase = "REFIT"
        BY <3>2 DEF OfPhase
      <4>2. CASE c \in FullRows(evaluated)
        BY <4>1, <4>2 DEF OfPhase
      <4>3. CASE c \notin FullRows(evaluated)
        <5>1. PICK d \in FullRows(evaluated) : Combo(d) = Combo(c)
          BY <1>1, <4>1, <4>3 DEF Inv, Paired
        <5>2. d.phase = "REFIT"
          BY <4>1, <5>1 DEF Combo
        <5>3. QED
          BY <5>1, <5>2 DEF OfPhase
      <4>4. QED
        BY <4>2, <4>3
    <3>4. PICK r \in OfPhase(FullRows(evaluated), "REFIT") :
              ~ (r.mae * 100 > p.mae * (100 + EpsPct))
      BY <2>2, <3>2, <3>3 DEF RefitIsWorse
    <3>5. p.mae \in Nat /\ r.mae \in Nat
      BY <1>2 DEF OfPhase, FullRows, Row
    <3>6. r.mae * 100 \in Nat /\ p.mae * (100 + EpsPct) \in Nat
      BY <3>5, EpsAssumption
    <3>7. QED
      BY <3>4, <3>5, <3>6
  <2>3. QED
    BY <2>1, <2>2
<1>7. QED
  BY <1>1, <1>3, <1>4, <1>5, <1>6 DEF Inv

LEMMA InvStep == Inv /\ Fresh /\ [Next]_vars => Inv'
<1> SUFFICES ASSUME Inv, Fresh, [Next]_vars
             PROVE  Inv'
  OBVIOUS
<1>1. CASE DeadSku
  <2>1. TypeOK'
    BY <1>1 DEF Inv, TypeOK, Steps, DeadSku
  <2>2. QED
    BY <1>1, <2>1, RowsUnchanged DEF DeadSku, Fresh
<1>2. CASE FitPre
  <2>1. TypeOK'
    BY <1>2 DEF Inv, TypeOK, Steps, Phases, FitPre
  <2>2. QED
    BY <1>2, <2>1, RowsUnchanged DEF FitPre
<1>3. CASE Probe
  <2>1. TypeOK'
    BY <1>3 DEF Inv, TypeOK, Steps, Probe, ProbeList, Methods
  <2>2. QED
    BY <1>3, <2>1, RowsUnchanged DEF Probe
<1>4. CASE Escalate
  <2>1. TypeOK'
    BY <1>4 DEF Inv, TypeOK, Steps, Escalate, EscalateList, Methods
  <2>2. QED
    BY <1>4, <2>1, RowsUnchanged DEF Escalate
<1>5. CASE EvaluatePre
  <2>1. Pool \subseteq Exogs /\ "PRE" \in Phases /\ "REFIT" \in Phases
    BY DEF Pool, Phases
  <2>2. QED
    BY <1>5, <2>1, InvEvaluate DEF EvaluatePre, Inv, TypeOK
<1>6. CASE Refit
  <2>1. Pool \subseteq Exogs /\ "PRE" \in Phases /\ "REFIT" \in Phases
    BY DEF Pool, Phases
  <2>2. QED
    BY <1>6, <2>1, InvEvaluate DEF Refit, Inv, TypeOK
<1>7. CASE Select
  BY <1>7, InvSelect
<1>8. CASE Raise
  <2>1. TypeOK'
    BY <1>8 DEF Inv, TypeOK, Steps, Raise
  <2>2. QED
    BY <1>8, <2>1, RowsUnchanged DEF Raise
<1>9. CASE UNCHANGED vars
  BY <1>9 DEF Inv, TypeOK, Paired, FullRows, Combo, WinnerIsBest, RefitOnMerit, OfPhase, vars
<1>10. QED
  BY <1>1, <1>2, <1>3, <1>4, <1>5, <1>6, <1>7, <1>8, <1>9 DEF Next

LEMMA InvHolds == Spec => []Inv
<1>1. Init => Inv /\ Fresh
  BY InvInit DEF Init, Fresh
<1>2. Inv /\ Fresh /\ [Next]_vars => (Inv /\ Fresh)'
  BY InvStep, FreshHolds
<1>3. QED
  BY <1>1, <1>2, PTL DEF Spec

(* Every state of run_cold is well typed: what is returned was evaluated.  *)
THEOREM TypeCorrect == Spec => []TypeOK
<1>1. Inv => TypeOK
  BY DEF Inv
<1>2. QED
  BY <1>1, InvHolds, PTL

(* The winner of a cold forecast is at least as good as every combination  *)
(* that was evaluated on the Full horizon, those of a refit rolled back    *)
(* included, unless the override chose it.                                 *)
THEOREM WinnerIsBestHolds == Spec => []WinnerIsBest
<1>1. Inv => WinnerIsBest
  BY DEF Inv
<1>2. QED
  BY <1>1, InvHolds, PTL

(* The rollback is made on both horizons or none, and a refit is kept only *)
(* if one of its rows is within eps of every row before it.                *)
THEOREM RollbackIsWholeAndJustHolds == Spec => []RollbackIsWholeAndJust
<1>1. Inv => RollbackIsWholeAndJust
  BY DEF Inv, Paired, RefitOnMerit, RollbackIsWholeAndJust
<1>2. QED
  BY <1>1, InvHolds, PTL

-----------------------------------------------------------------------------
(* What is returned.  The combinations before the refit are those of the   *)
(* pool and, for a sparse series, the Intermittent one; the refit adds the *)
(* pool's, and the rollback takes exactly those away.                      *)

CombosOf(rows) == {Combo(c) : c \in rows}

Sparse == "Intermittent" \in ProbeList

Returned(phases) ==
    [exog : Exogs, phase : phases] \cup (IF Sparse THEN {Intermittent} ELSE {})

Progress ==
    /\ pc = "start" => slots = {} /\ resid = {} /\ winner = ZeroRow
    /\ pc \in {"probe", "escalate", "pre", "refit"} => slots = {"PRE"}
    /\ pc \in {"escalate", "pre", "refit"} => tried # {}
    /\ pc \in {"refit", "select"} => resid = Exogs
    /\ pc = "refit" => CombosOf(evaluated) = Returned({"PRE"})
    /\ pc = "select" => CombosOf(evaluated) = Returned(Phases) /\ slots = Phases
    /\ pc \notin {"start", "done", "raised"} => ~ series.dead

(* Evaluate adds the combinations of the exogs it is given.                *)
LEMMA EvaluateCombos ==
    ASSUME NEW exogs, NEW phase, Evaluate(exogs, phase)
    PROVE  CombosOf(evaluated') = CombosOf(evaluated) \cup [exog : exogs, phase : {phase}]
<1>1. PICK mae \in [Horizons \X exogs -> Maes] :
          LET rows == {[horizon |-> k[1], exog |-> k[2], phase |-> phase, mae |-> mae[k]] :
                           k \in Horizons \X exogs}
          IN combinations' = combinations \cup rows /\ evaluated' = evaluated \cup rows
  BY DEF Evaluate
<1> DEFINE row(k) == [horizon |-> k[1], exog |-> k[2], phase |-> phase, mae |-> mae[k]]
           rows == {row(k) : k \in Horizons \X exogs}
<1>2. evaluated' = evaluated \cup rows
  BY <1>1
<1>3. \A c \in rows : c.exog \in exogs /\ c.phase = phase
  OBVIOUS
<1>4. \A e \in exogs : \E c \in rows : c.exog = e /\ c.phase = phase
  <2>1. TAKE e \in exogs
  <2>2. <<"Full", e>> \in Horizons \X exogs
    BY DEF Horizons
  <2>3. row(<<"Full", e>>) \in rows /\ row(<<"Full", e>>).exog = e
    BY <2>2
  <2>4. QED
    BY <2>3
<1> HIDE DEF rows
<1>5. CombosOf(rows) = [exog : exogs, phase : {phase}]
  <2>1. ASSUME NEW x \in CombosOf(rows)
        PROVE  x \in [exog : exogs, phase : {phase}]
    BY <1>3 DEF CombosOf, Combo
  <2>2. ASSUME NEW x \in [exog : exogs, phase : {phase}]
        PROVE  x \in CombosOf(rows)
    <3>1. PICK c \in rows : c.exog = x.exog /\ c.phase = phase
      BY <1>4
    <3>2. x = Combo(c)
      BY <3>1 DEF Combo
    <3>3. QED
      BY <3>2 DEF CombosOf
  <2>3. QED
    BY <2>1, <2>2
<1>6. CombosOf(evaluated') = CombosOf(evaluated) \cup CombosOf(rows)
  BY <1>2 DEF CombosOf
<1>7. QED
  BY <1>5, <1>6

(* The rollback leaves the combinations before the refit, or all.          *)
LEMMA KeptCombos ==
    ASSUME NEW rows, CombosOf(rows) = Returned(Phases)
    PROVE  \E phases \in {{"PRE"}, Phases} : CombosOf(Kept(rows)) = Returned(phases)
<1>1. CASE ~ RefitIsWorse(rows)
  BY <1>1 DEF Kept
<1>2. CASE RefitIsWorse(rows)
  <2>1. Kept(rows) = {c \in rows : c.phase = "PRE"}
    BY <1>2 DEF Kept, OfPhase
  <2>2. ASSUME NEW x \in CombosOf(Kept(rows))
        PROVE  x \in Returned({"PRE"})
    <3>1. PICK c \in Kept(rows) : x = Combo(c)
      BY DEF CombosOf
    <3>2. x \in Returned(Phases) /\ x.phase = "PRE"
      BY <2>1, <3>1 DEF CombosOf, Combo
    <3>3. QED
      BY <3>2 DEF Returned
  <2>3. ASSUME NEW x \in Returned({"PRE"})
        PROVE  x \in CombosOf(Kept(rows))
    <3>1. x \in Returned(Phases) /\ x.phase = "PRE"
      BY DEF Returned, Phases, Intermittent
    <3>2. PICK c \in rows : x = Combo(c)
      BY <3>1 DEF CombosOf
    <3>3. c \in Kept(rows)
      BY <2>1, <3>1, <3>2 DEF Combo
    <3>4. QED
      BY <3>2, <3>3 DEF CombosOf
  <2>4. QED
    BY <2>2, <2>3
<1>3. QED
  BY <1>1, <1>2

LEMMA ProgressStep == Inv /\ Fresh /\ Progress /\ [Next]_vars => Progress'
<1> SUFFICES ASSUME Inv, Fresh, Progress, [Next]_vars
             PROVE  Progress'
  OBVIOUS
<1> USE DEF Progress
<1>1. CASE DeadSku
  BY <1>1 DEF DeadSku
<1>2. CASE FitPre
  BY <1>2 DEF FitPre
<1>3. CASE Probe
  <2>1. PICK m \in ProbeMethods \cap Allowed : m # "Intermittent"
    BY BasicMethodAssumption
  <2>2. m \in ProbeList
    BY <2>1 DEF ProbeList
  <2>3. QED
    BY <1>3, <2>1, <2>2 DEF Probe
<1>4. CASE Escalate
  BY <1>4 DEF Escalate
<1>5. CASE EvaluatePre
  <2>1. Pool = Exogs /\ Exogs # {}
    BY <1>5 DEF EvaluatePre, Pool, Exogs
  <2>2. evaluated = {}
    BY <1>5 DEF EvaluatePre, Inv, Fresh
  <2>3. CombosOf(evaluated) = {}
    BY <2>2 DEF CombosOf
  <2>4. CombosOf(evaluated')
          = [exog : Exogs \cup ({"Intermittent"} \cap ProbeList), phase : {"PRE"}]
    BY <1>5, <2>1, <2>3, EvaluateCombos DEF EvaluatePre
  <2>5. [exog : Exogs \cup ({"Intermittent"} \cap ProbeList), phase : {"PRE"}]
          = Returned({"PRE"})
    <3>1. ASSUME NEW x \in [exog : Exogs \cup ({"Intermittent"} \cap ProbeList), phase : {"PRE"}]
          PROVE  x \in Returned({"PRE"})
      <4>1. CASE x.exog \in Exogs
        BY <4>1 DEF Returned
      <4>2. CASE x.exog \notin Exogs
        <5>1. x = Intermittent /\ Sparse
          BY <4>2 DEF Intermittent, Sparse
        <5>2. QED
          BY <5>1 DEF Returned
      <4>3. QED
        BY <4>1, <4>2
    <3>2. ASSUME NEW x \in Returned({"PRE"})
          PROVE  x \in [exog : Exogs \cup ({"Intermittent"} \cap ProbeList), phase : {"PRE"}]
      BY DEF Returned, Sparse, Intermittent
    <3>3. QED
      BY <3>1, <3>2
  <2>6. Returned({"PRE"})' = Returned({"PRE"})
    BY <1>5 DEF EvaluatePre, Returned, Sparse, ProbeList
  <2>7. /\ pc = "pre" /\ pc' = "refit" /\ resid' = Exogs
        /\ UNCHANGED <<slots, series, tried>>
    BY <1>5, <2>1 DEF EvaluatePre
  <2>8. CombosOf(evaluated)' = Returned({"PRE"})'
    BY <2>4, <2>5, <2>6 DEF CombosOf, Combo
  <2>9. QED
    BY <2>7, <2>8
<1>6. CASE Refit
  <2>1. Pool = Exogs
    BY <1>6 DEF Refit, Pool
  <2>2. CombosOf(evaluated') = Returned({"PRE"}) \cup [exog : Exogs, phase : {"REFIT"}]
    BY <1>6, <2>1, EvaluateCombos DEF Refit
  <2>3. Returned({"PRE"}) \cup [exog : Exogs, phase : {"REFIT"}] = Returned(Phases)
    BY DEF Returned, Phases
  <2>4. Returned(Phases)' = Returned(Phases)
    BY <1>6 DEF Refit, Returned, Sparse, ProbeList
  <2>5. /\ pc = "refit" /\ pc' = "select" /\ series' = series /\ resid' = resid
        /\ slots' = Phases
    BY <1>6 DEF Refit, Phases
  <2>6. CombosOf(evaluated)' = Returned(Phases)'
    BY <2>2, <2>3, <2>4 DEF CombosOf, Combo
  <2>7. QED
    BY <2>5, <2>6
<1>7. CASE Select
  BY <1>7 DEF Select
<1>8. CASE Raise
  BY <1>8 DEF Raise
<1>9. CASE UNCHANGED vars
  BY <1>9 DEF vars, CombosOf, Combo, Returned, Sparse, ProbeList
<1>10. QED
  BY <1>1, <1>2, <1>3, <1>4, <1>5, <1>6, <1>7, <1>8, <1>9 DEF Next

(* What Select returns, by what was evaluated.                             *)
LEMMA SelectReturns ==
    ASSUME Inv, Progress, Select
    PROVE  /\ Result' \in ColdOutcomes
           /\ ~ series.dead
           /\ series.zeroHeavy /\ "Intermittent" \in ProbeMethods =>
                 /\ winner'.exog = "Intermittent"
                 /\ \A c \in IntermittentRows(evaluated) : winner'.mae <= c.mae
<1> DEFINE kept == Kept(evaluated)
<1>1. /\ pc = "select" /\ pc' = "done"
      /\ combinations' = kept /\ winner' \in Candidates(kept)
      /\ UNCHANGED <<series, tried, evaluated, slots, resid>>
  BY DEF Inv, Select
<1>2. CombosOf(evaluated) = Returned(Phases) /\ slots = Phases /\ resid = Exogs /\ ~ series.dead
  BY <1>1 DEF Progress
<1>3. PICK phases \in {{"PRE"}, Phases} : CombosOf(kept) = Returned(phases)
  BY <1>2, KeptCombos
<1>4. winner' \in FullRows(kept)
  BY <1>1 DEF Candidates, Minimal, IntermittentRows, FullRows
<1>5. Combo(winner') \in Returned(phases)
  BY <1>3, <1>4 DEF CombosOf, FullRows
<1>6. Result' \in ColdOutcomes
  <2> DEFINE w == Combo(winner')
             o == FittedOutcome(Exogs, phases, Sparse, w)
  <2>1. Returned(phases) \subseteq Combos
    BY <1>3 DEF Returned, Combos, Dense, Phases
  <2>2. Result' = [winner |-> w, combos |-> CombosOf(kept), slots |-> Phases, resid |-> Exogs]
    BY <1>1, <1>2 DEF Result, CombosOf, Combo
  <2>3. Result' = o
    BY <1>3, <2>2 DEF FittedOutcome, Returned
  <2>4. o.winner = w /\ o.combos = Returned(phases)
    BY DEF FittedOutcome, Returned
  <2>5. Sparse \in BOOLEAN /\ w \in Combos
    BY <1>5, <2>1 DEF Sparse
  <2>6. o \in FittedOutcomes(phases, Sparse)
    BY <1>5, <2>4, <2>5 DEF FittedOutcomes
  <2>7. QED
    BY <1>3, <2>3, <2>5, <2>6 DEF ColdOutcomes
<1>7. ASSUME series.zeroHeavy, "Intermittent" \in ProbeMethods
      PROVE  /\ winner'.exog = "Intermittent"
             /\ \A c \in IntermittentRows(evaluated) : winner'.mae <= c.mae
  <2>1. Sparse
    BY <1>7 DEF Sparse, ProbeList, Inv, TypeOK, Series
  <2>2. \A c \in evaluated : c.exog = "Intermittent" => c.phase = "PRE"
    <3>1. TAKE c \in evaluated
    <3>2. Combo(c) \in Returned(Phases)
      BY <1>2 DEF CombosOf
    <3>3. Combo(c) \in Dense => c.exog \in Exogs
      BY DEF Dense, Combo
    <3>4. Combo(c) \in Dense \/ Combo(c) = Intermittent
      BY <3>2 DEF Returned, Dense
    <3>5. QED
      BY <3>3, <3>4 DEF Combo, Intermittent, Exogs
  <2>3. IntermittentRows(evaluated) = IntermittentRows(kept)
    BY <2>2 DEF IntermittentRows, FullRows, Kept, OfPhase
  <2>4. IntermittentRows(evaluated) # {}
    <3>1. Intermittent \in CombosOf(evaluated)
      BY <1>2, <2>1 DEF Returned
    <3>2. PICK c \in evaluated : Combo(c) = Intermittent
      BY <3>1 DEF CombosOf
    <3>3. PICK d \in FullRows(evaluated) : Combo(d) = Intermittent
      <4>1. CASE c \in FullRows(evaluated)
        BY <3>2, <4>1
      <4>2. CASE c \notin FullRows(evaluated)
        BY <1>1, <3>2, <4>2 DEF Inv, Paired
      <4>3. QED
        BY <4>1, <4>2
    <3>4. d \in IntermittentRows(evaluated)
      BY <3>3 DEF IntermittentRows, Combo, Intermittent
    <3>5. QED
      BY <3>4
  <2>5. winner' \in Minimal(IntermittentRows(kept))
    BY <1>1, <1>7, <2>3, <2>4 DEF Candidates
  <2>6. QED
    BY <2>3, <2>5 DEF Minimal, IntermittentRows
<1>8. QED
  BY <1>2, <1>6, <1>7

Answered ==
    /\ ResultIsAColdOutcome
    /\ "Intermittent" \in ProbeMethods => OverrideIsIntermittent

LEMMA AnsweredStep == Inv /\ Fresh /\ Progress /\ Answered /\ [Next]_vars => Answered'
<1> SUFFICES ASSUME Inv, Fresh, Progress, Answered, [Next]_vars
             PROVE  Answered'
  OBVIOUS
<1>1. CASE DeadSku
  <2>1. /\ pc = "start" /\ series.dead /\ series' = series
        /\ combinations' = {} /\ slots' = {} /\ resid' = {} /\ winner' = ZeroRow
    BY <1>1 DEF DeadSku, Fresh, Progress
  <2>2. Combo(ZeroRow) = Zero
    BY DEF Combo, ZeroRow, Zero
  <2>3. Result' = DeadOutcome
    BY <2>1, <2>2 DEF Result, DeadOutcome, Combo
  <2>4. QED
    BY <2>1, <2>3 DEF Answered, ResultIsAColdOutcome, ColdOutcomes, OverrideIsIntermittent
<1>2. CASE Select
  <2>1. /\ Result' \in ColdOutcomes
        /\ series.zeroHeavy /\ "Intermittent" \in ProbeMethods =>
             /\ winner'.exog = "Intermittent"
             /\ \A c \in IntermittentRows(evaluated) : winner'.mae <= c.mae
    BY <1>2, SelectReturns
  <2>2. series' = series /\ evaluated' = evaluated
    BY <1>2 DEF Select
  <2>3. IntermittentRows(evaluated)' = IntermittentRows(evaluated)
    BY <2>2 DEF IntermittentRows, FullRows
  <2>4. QED
    BY <2>1, <2>2, <2>3
       DEF Answered, ResultIsAColdOutcome, OverrideIsIntermittent
<1>3. CASE FitPre \/ Probe \/ Escalate \/ EvaluatePre \/ Refit \/ Raise
  <2>1. pc' # "done"
    BY <1>3 DEF FitPre, Probe, Escalate, EvaluatePre, Refit, Raise
  <2>2. QED
    BY <2>1 DEF Answered, ResultIsAColdOutcome, OverrideIsIntermittent
<1>4. CASE UNCHANGED vars
  BY <1>4 DEF vars, Answered, ResultIsAColdOutcome, OverrideIsIntermittent, Result, Combo,
              IntermittentRows, FullRows
<1>5. QED
  BY <1>1, <1>2, <1>3, <1>4 DEF Next

LEMMA AnsweredHolds == Spec => []Answered
<1>1. Init => Inv /\ Fresh /\ Progress /\ Answered
  <2>1. ASSUME Init
        PROVE  Progress /\ Answered
    BY <2>1 DEF Init, Progress, Answered, ResultIsAColdOutcome, OverrideIsIntermittent
  <2>2. QED
    BY <2>1, InvInit DEF Init, Fresh
<1>2. Inv /\ Fresh /\ Progress /\ Answered /\ [Next]_vars
          => (Inv /\ Fresh /\ Progress /\ Answered)'
  BY InvStep, FreshHolds, ProgressStep, AnsweredStep
<1>3. QED
  BY <1>1, <1>2, PTL DEF Spec

(* What run_cold returns is, for every configuration and any errors, one   *)
(* of the results the storage side is checked with.                        *)
THEOREM ResultIsAColdOutcomeHolds == Spec => []ResultIsAColdOutcome
<1>1. Answered => ResultIsAColdOutcome
  BY DEF Answered
<1>2. QED
  BY <1>1, AnsweredHolds, PTL

(* When Intermittent is among the probe methods, the override of a series  *)
(* with half its months zero returns the best Intermittent row, whatever   *)
(* the dense rows and the rollback.                                        *)
THEOREM OverrideIsIntermittentHolds ==
    ASSUME "Intermittent" \in ProbeMethods
    PROVE  Spec => []OverrideIsIntermittent
<1>1. Answered => OverrideIsIntermittent
  BY DEF Answered
<1>2. QED
  BY <1>1, AnsweredHolds, PTL
=============================================================================
