-------------------------- MODULE MCModelSelection --------------------------
(* ModelSelection with the methods that config.py lists, and three errors, *)
(* enough for a row between two others.                                    *)
EXTENDS ModelSelection

ConfiguredProbe    == {"CarryForward", "ETS", "Intermittent", "ML-Exog RF"}
ConfiguredEnabled  == {"ETS", "ML-Exog XGB", "Prophet", "SARIMA", "Ensemble"}
ConfiguredEscalate == {"ML-Exog XGB"}
ThreeErrors        == {98, 100, 102}
=============================================================================
