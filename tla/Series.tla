------------------------------- MODULE Series -------------------------------
(***************************************************************************)
(* A SKU's series in the worker: month after month is recorded, the search *)
(* splits what there is into folds (RollingOrigin), decides whether it is  *)
(* intermittent (Intermittent), and a forecast walks forward through the   *)
(* feature frame (Features), over the VAL months to score a method or over *)
(* the TEST months to use it.                                              *)
(***************************************************************************)
EXTENDS RollingOrigin, Intermittent

CONSTANTS Months,     \* what each month may be: a set of [sold, stocked]
          ValStart,   \* first month of the VAL window
          TestStart,  \* first month of the TEST window
          TestEnd,    \* its last month
          Nothing     \* no forecast under way

ASSUME WindowAssumption ==
    /\ ValStart \in Nat /\ TestStart \in Nat /\ TestEnd \in Nat
    /\ 1 < ValStart /\ ValStart < TestStart /\ TestStart <= TestEnd
    /\ Months \in [1 .. TestStart - 1 -> SUBSET [sold : Nat, stocked : BOOLEAN]]

VARIABLES y,     \* monthly sales recorded so far
          empty, \* the stock observations that are zero
          job    \* the forecast under way

vars == <<y, empty, job>>

F == INSTANCE Features WITH EmptyStock <- empty

Init == y = << >> /\ empty = {} /\ job = Nothing

\* The panel grows by a month.
RecordMonth ==
    /\ Len(y) < TestStart - 1
    /\ \E month \in Months[Len(y) + 1] :
         /\ y' = Append(y, month.sold)
         /\ empty' = IF month.stocked THEN empty ELSE empty \cup {<<"stock", Len(y) + 1>>}
    /\ UNCHANGED job

-----------------------------------------------------------------------------
(* Histories: train months are prepared centered, VAL months causally, and *)
(* each part on its own.                                                   *)

TrainHistory == F!History(1, ValStart - 1, FALSE)
TrainValHistory == F!Below(TrainHistory, F!History(ValStart, TestStart - 1, TRUE))

\* recursive_predict_for_val, and the forecasts of a PRE and a REFIT model.
\* REFIT keeps the history of the train months only.
Starts(kind, exog) ==
    [kind |-> kind, at |-> 1,
     hist |-> IF kind = "PRE" THEN TestStart - 1 ELSE ValStart - 1,
     full |-> CASE kind = "VAL"   -> F!Below(TrainHistory,
                                             F!Future(ValStart, TestStart - 1, exog))
                [] kind = "PRE"   -> F!Below(TrainValHistory,
                                             F!Future(TestStart, TestEnd, exog))
                [] kind = "REFIT" -> F!Below(TrainHistory,
                                             F!Future(TestStart, TestEnd, exog))]

\* The forecast stock may be zero for the first months, or for all of them.
StartForecast ==
    /\ Len(y) = TestStart - 1
    /\ job = Nothing
    /\ \E kind \in {"VAL", "PRE", "REFIT"}, exog \in SUBSET {"orders_hat", "stock_hat"} :
         \E dry \in IF "stock_hat" \in exog THEN {0, 1, TestEnd} ELSE {0} :
           LET first == IF kind = "VAL" THEN ValStart ELSE TestStart
           IN /\ job' = Starts(kind, exog)
              /\ empty' = empty \cup {<<"stock_hat", m>> : m \in first .. first + dry - 1}
    /\ UNCHANGED y

Row == job.hist + job.at

PredictMonth ==
    /\ job # Nothing
    /\ Row <= Len(job.full.ds)
    /\ job' = [job EXCEPT !.full = F!Predicted(@, Row), !.at = @ + 1]
    /\ UNCHANGED <<y, empty>>

Next == RecordMonth \/ StartForecast \/ PredictMonth

Spec == Init /\ [][Next]_vars

-----------------------------------------------------------------------------
(* The search.                                                             *)

\* Once a series has five months, every fold of the search trains on months
\* that exist and scores the ones right after them, and the newest month is
\* scored by one of them: the code yields without looking at what it yields.
SearchIsSound ==
    Len(y) >= 5 =>
        /\ \A fold \in rolling_origin_splits(Len(y)) : Sound(fold, Len(y))
        /\ \E fold \in rolling_origin_splits(Len(y)) : fold.end = Len(y)

\* "SKUs with high zero ratio / high ADI switch to Croston/SBA/TSB"
\* (docs/PROJECT_OVERVIEW.md:271), the ADI being the months there are to a
\* month that sells: the selector sends no other series there.
ManyMonthsPerSale(sales) == 100 * Len(sales) > 132 * Cardinality(Sold(sales))
IntermittentOnlyIfSparse ==
    Len(y) > 0 /\ select_intermittent(y) => HighZeroRatio(y) \/ ManyMonthsPerSale(y)

\* An intermittent series is never sent on to the dearer methods: a unit sold
\* in the last months keeps the TSB level above "near zero", so the override
\* of should_dense_override cannot happen.
OverrideNeverRescues == MayEscalate(y) <=> ~select_intermittent(y)

\* The intermittent forecasts stay between zero and the largest month sold,
\* SBA never exceeds Croston, and a series that never sold forecasts zero.
LevelsStayInRange ==
    LET top == Max({0} \cup {y[i] : i \in DOMAIN y})
        croston == predict_intermittent(y, "Croston")
        sba == predict_intermittent(y, "SBA")
    IN /\ \A method \in {"Croston", "SBA", "TSB"} :
            LET f == predict_intermittent(y, method)
            IN f.den > 0 /\ 0 <= f.num /\ f.num <= top * f.den
       /\ sba.num * croston.den <= croston.num * sba.den

-----------------------------------------------------------------------------
(* Which observation reaches which feature.                                *)

Demand == {"y", "yhat"}

\* A feature of the month ds may use what is known of that month but its
\* demand; a ratio with none before it is filled from the months after it.
Causal(feature, value, ds, firstRatio) ==
    \/ feature = "orders_ratio" /\ firstRatio
    \/ \A o \in value : IF o[1] \in Demand THEN o[2] < ds ELSE o[2] <= ds

NoRatioYet(frame, i) == F!KnownUpTo(F!Ratio(frame), i) = {}

\* Whichever way a part the model is fitted on is imputed, its rows after the
\* first hold no demand of their own or a later month and no later orders or
\* stock, and neither does the first, its demand lag apart.
LaterRowsAreCausal ==
    Len(y) = TestStart - 1 /\ job = Nothing =>
        \A part \in {[frame |-> F!PanelFrame(1, ValStart - 1), causal |-> FALSE],
                     [frame |-> F!PanelFrame(ValStart, TestStart - 1), causal |-> TRUE]} :
            LET rows == F!prep_features_y(part.frame, part.causal)
            IN \A f \in DOMAIN rows, i \in DOMAIN part.frame.ds :
                 (f = "y_lag1" => i > 1) =>
                     Causal(f, rows[f][i], part.frame.ds[i], NoRatioYet(part.frame, i))

\* "Keeps strict causality under `causal=True`" (features/pipeline.py:3): no
\* feature of a VAL month holds a demand that is not of an earlier month, or
\* the orders or stock of a later one.
CausalPrepIsStrict ==
    Len(y) = TestStart - 1 /\ job = Nothing =>
        LET frame == F!PanelFrame(ValStart, TestStart - 1)
            rows == F!prep_features_y(frame, TRUE)
        IN \A f \in DOMAIN rows, i \in DOMAIN frame.ds :
             Causal(f, rows[f][i], frame.ds[i], FALSE)

Predicting == job # Nothing /\ Row <= Len(job.full.ds)
Inputs == F!prep_features_y(job.full, TRUE)

\* The row a forecast is made from holds nothing of a later month, at every
\* step of the recursion, though the whole frame is filled and smoothed again
\* at each of them and the rows below hold the exogenous forecasts.
RowsAreCausal ==
    Predicting => \A f \in DOMAIN Inputs :
        Causal(f, Inputs[f][Row], job.full.ds[Row], NoRatioYet(job.full, Row))

\* Each forecast month reads the demand of the month right before it: the last
\* of the history for the first, the previous forecast for the others.  Only a
\* REFIT forecast starts from a demand as old as the whole VAL window, its
\* history ending before it.
RecursionFeedsItself ==
    Predicting =>
        Inputs.y_lag1[Row] =
            IF job.at > 1 THEN F!Observed("yhat", job.full.ds[Row] - 1)
            ELSE F!Observed("y", IF job.kind = "REFIT" THEN ValStart - 1
                                 ELSE job.full.ds[Row] - 1)

\* Smoothing the frame again at every step widens what a forecast sees by two
\* rows a step and no more, whatever is missing: the orders and the stock of
\* the h-th month are a mean over its own row and the 2h before it, and two more
\* for a PRE forecast, whose VAL months were smoothed when they were prepared.
SmoothingReach ==
    Predicting =>
        LET reach == 2 * job.at + (IF job.kind = "PRE" THEN 2 ELSE 0)
        IN \A f \in {"orders", "stock"}, i \in 1 .. Row - reach - 1 :
             \A o \in Inputs[f][Row] : o[2] # job.full.ds[i]
=============================================================================
