---------------------------- MODULE MCWarmPath ----------------------------
(* The instance of WarmPath that TLC checks: a cold run that RF wins after *)
(* the refit, that XGB and the ensemble win before it, and a sparse SKU.   *)
(* The errors lie on both sides of a drift of 20% from 5, 6 and 7, and on  *)
(* the boundary: 6 is 20% above 5.                                         *)
EXTENDS WarmPath

ErrorLevels == {0, 5, 6, 7, 9}
Searched    == {1, 2, 3}

\* Searched again for the refit, RF may find other hyperparameters, XGB too.
Hyper(rf, rfRefit, xgb, xgbRefit) ==
    [f \in Families |-> [p \in Phases |->
        IF f = "RF" THEN IF p = "PRE" THEN rf ELSE rfRefit
        ELSE IF p = "PRE" THEN xgb ELSE xgbRefit]]
Mae(rf, xgb, ens) ==
    [v \in Variants |-> IF v = "RF" THEN rf ELSE IF v = "XGB" THEN xgb ELSE ens]
Cold(exog, phase, variant, hyper, mae) ==
    [winner |-> [exog |-> exog, phase |-> phase], variant |-> variant,
     hyper |-> hyper, resid |-> Exogs, mae |-> mae]

OneOfEachVariant ==
    { Cold("hybrid", "REFIT", "RF",  Hyper(2, 3, 1, 2), Mae(5, 7, 6)),
      Cold("single", "PRE", "XGB",   Hyper(2, 3, 3, 1), Mae(6, 5, 5)),
      Cold("hybrid", "PRE", "Y-ENS", Hyper(1, 1, 2, 3), Mae(7, 6, 6)),
      [winner |-> Intermittent, variant |-> "TSB", hyper |-> Hyper(1, 2, 3, 3),
       resid |-> Exogs, mae |-> Mae(5, 5, 5)] }
=============================================================================
