--------------------------- MODULE RollingOrigin ---------------------------
(***************************************************************************)
(* The folds of the grid search (services/worker/selection/rocv.py) over   *)
(* a series of n consecutive months, 1 the oldest.  A fold trains on the   *)
(* months 1 .. last and validates on first .. end.                         *)
(***************************************************************************)
EXTENDS Integers

CONSTANTS NSplits,  \* n_splits: 3
          MinTrain  \* min_train_months: 24

ASSUME SplitsAssumption == NSplits \in Nat \ {0} /\ MinTrain \in Nat \ {0}

Fold(last, first, end) == [last |-> last, first |-> first, end |-> end]

\* A series too short for NSplits folds: the last four months validate.
ShortFold(n) == Fold(n - 4, n - 3, n)

\* The k-th fold from the end: three months that end k - 1 months early.
Overlaps(n, k) == Fold(n - k - 1, n - k - 1, n - k + 1)
FoldFromEnd(n, k) == Fold(n - k - 2, n - k - 1, n - k + 1)

Yielded(fold) == fold.last >= MinTrain /\ fold.end - fold.first + 1 >= 2

rolling_origin_splits(n) ==
    IF n < MinTrain + NSplits THEN {ShortFold(n)}
    ELSE {fold \in {FoldFromEnd(n, k) : k \in 1 .. NSplits} : Yielded(fold)}

\* A fold trains on months that exist and all lie before the ones it is
\* scored on, which are the months right after them.
Sound(fold, n) ==
    /\ 1 <= fold.last
    /\ fold.first = fold.last + 1
    /\ fold.first <= fold.end /\ fold.end <= n
=============================================================================
