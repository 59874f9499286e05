------------------------------ MODULE Features ------------------------------
(***************************************************************************)
(* The feature frame of the demand model (services/worker/features) and    *)
(* the recursion that fills it month by month (forecasting/recursive.py).  *)
(*                                                                         *)
(* What matters here is which observation reaches which feature, so a      *)
(* value is the set of observations it is computed from, each <<column,    *)
(* month>>; the empty set is a value that is missing (NaN), or the zero    *)
(* it is replaced with in the end.  A column is a sequence of values, a    *)
(* frame a record of columns with the month `ds` of every row.             *)
(***************************************************************************)
EXTENDS Integers, Sequences, FiniteSetsExt

CONSTANT EmptyStock  \* the observations of a stock that are zero

NaN == {}

Observed(col, m) == {<<col, m>>}

-----------------------------------------------------------------------------
(* Columns.                                                                *)

shift(col, k) == [i \in DOMAIN col |-> IF i > k THEN col[i - k] ELSE NaN]

KnownUpTo(col, i) == {j \in DOMAIN col : j <= i /\ col[j] # NaN}
KnownFrom(col, i) == {j \in DOMAIN col : j >= i /\ col[j] # NaN}

ffill(col) == [i \in DOMAIN col |->
    IF KnownUpTo(col, i) = {} THEN NaN ELSE col[Max(KnownUpTo(col, i))]]
bfill(col) == [i \in DOMAIN col |->
    IF KnownFrom(col, i) = {} THEN NaN ELSE col[Min(KnownFrom(col, i))]]

BackwardFirst(col) == ffill(bfill(col))
Filled(col) == bfill(ffill(col))

\* rolling(window=3).mean(): over the three rows up to this one, or around it.
Mean(col, rows) == UNION {col[j] : j \in rows \cap DOMAIN col}
Centered(col) == [i \in DOMAIN col |-> Mean(col, i - 1 .. i + 1)]
WindowOfFour(col) == [i \in DOMAIN col |-> Mean(col, i - 3 .. i)]
Trailing(col) == [i \in DOMAIN col |-> Mean(col, i - 2 .. i)]

rolling_impute(col, causal) ==
    IF causal THEN bfill(Trailing(ffill(col)))
    ELSE Filled([i \in DOMAIN col |-> IF col[i] # NaN THEN col[i] ELSE Centered(col)[i]])

\* orders / stock, missing where either is missing or the stock is zero: a
\* mean is zero when all it is the mean of is.
Ratio(frame) == [i \in DOMAIN frame.ds |->
    IF frame.orders[i] = NaN \/ frame.stock[i] \subseteq EmptyStock THEN NaN
    ELSE frame.orders[i] \cup frame.stock[i]]

-----------------------------------------------------------------------------
(* Frames.                                                                 *)

\* build_lags_y comes first: the lags are of the columns before imputation.
LagAhead(frame, causal) ==
    [y_lag1       |-> Filled([i \in DOMAIN frame.y |->
                                 IF i < Len(frame.y) THEN frame.y[i + 1] ELSE NaN]),
     orders_lag1  |-> Filled(shift(frame.orders, 1)),
     orders_lag3  |-> Filled(shift(frame.orders, 3)),
     stock_lag1   |-> Filled(shift(frame.stock, 1)),
     stock_lag3   |-> Filled(shift(frame.stock, 3)),
     orders_ratio |-> Filled(Ratio(frame)),
     orders       |-> rolling_impute(frame.orders, causal),
     stock        |-> rolling_impute(frame.stock, causal)]
prep_features_y(frame, causal) ==
    [y_lag1       |-> Filled(shift(frame.y, 1)),
     orders_lag1  |-> Filled(shift(frame.orders, 1)),
     orders_lag3  |-> Filled(shift(frame.orders, 3)),
     stock_lag1   |-> Filled(shift(frame.stock, 1)),
     stock_lag3   |-> Filled(shift(frame.stock, 3)),
     orders_ratio |-> Filled(Ratio(frame)),
     orders       |-> rolling_impute(frame.orders, causal),
     stock        |-> rolling_impute(frame.stock, causal)]

\* The panel's months, as they are read.
PanelFrame(first, last) ==
    LET months == [i \in 1 .. last - first + 1 |-> first + i - 1]
        column(c) == [i \in DOMAIN months |-> Observed(c, months[i])]
    IN [ds |-> months, y |-> column("y"), orders |-> column("orders"),
        stock |-> column("stock")]

\* The columns a history keeps of a prepared frame; later rows go below.
History(first, last, causal) ==
    LET frame == PanelFrame(first, last)
    IN [frame EXCEPT !.orders = rolling_impute(@, causal),
                     !.stock  = rolling_impute(@, causal)]

Below(upper, lower) ==
    [ds |-> upper.ds \o lower.ds, y |-> upper.y \o lower.y,
     orders |-> upper.orders \o lower.orders, stock |-> upper.stock \o lower.stock]

\* Months to forecast, with what the exogenous models say of them; a model
\* that could not be fitted leaves its column missing.
Future(first, last, exog) ==
    LET months == [i \in 1 .. last - first + 1 |-> first + i - 1]
        column(c) == [i \in DOMAIN months |->
                         IF c \in exog THEN Observed(c, months[i]) ELSE NaN]
    IN [ds |-> months, y |-> [i \in DOMAIN months |-> NaN],
        orders |-> column("orders_hat"), stock |-> column("stock_hat")]

\* One step of recursive_forward_predict_y at row i: the forecast becomes the
\* month's demand, and both other columns are smoothed once more.
KeepsTheGap(full, i) ==
    [full EXCEPT !.orders = rolling_impute(@, TRUE), !.stock = rolling_impute(@, TRUE)]
Predicted(full, i) ==
    [full EXCEPT !.y[i]   = Observed("yhat", full.ds[i]),
                 !.orders = rolling_impute(@, TRUE),
                 !.stock  = rolling_impute(@, TRUE)]
=============================================================================
