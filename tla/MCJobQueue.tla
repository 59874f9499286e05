----------------------------- MODULE MCJobQueue -----------------------------
(* The instance of JobQueue that TLC checks: one run over a panel of two   *)
(* SKUs and one SKU the panel does not hold, with up to two tasks.         *)
EXTENDS JobQueue

OneRun  == {1}
NoSkus  == {}
TwoSkus == {1, 2}
ASkuNotInThePanel == {3}

NoneToTwoTasks == {0, 1, 2}
=============================================================================
