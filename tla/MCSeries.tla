------------------------------ MODULE MCSeries ------------------------------
(* A small instance of Series: four train months, a VAL window of three and  *)
(* a TEST window of three.  A month sells nothing with an empty stock, or it *)
(* sells one unit or four.                                                   *)
EXTENDS Series

MCMonths ==
    [m \in 1 .. TestStart - 1 |->
        {[sold |-> 0, stocked |-> FALSE], [sold |-> 4, stocked |-> TRUE]}
        \cup (IF m <= 3 THEN {[sold |-> 1, stocked |-> TRUE]} ELSE {})]
=============================================================================
