---------------------------- MODULE Intermittent ----------------------------
(***************************************************************************)
(* Models for sparse sales (services/worker/models/intermittent.py) and    *)
(* what the search does about them (selection/probe_escalate.py).  Sales   *)
(* are a sequence of monthly quantities, the oldest first.  The smoothing  *)
(* weight alpha is 1/AlphaInv; a level is an exact fraction [num, den].    *)
(***************************************************************************)
EXTENDS Integers, Sequences, FiniteSetsExt

CONSTANTS AlphaInv,   \* 1 / intermittent_alpha: 10
          EpsInv,     \* 1 / tsb_near_zero_eps: 10^6
          DenseLastN  \* dense_override_last_n: 6

\* b to the power of 0, .., n.
Powers(b, n) == LET p[i \in 0 .. n] == IF i = 0 THEN 1 ELSE b * p[i - 1] IN p

\* A unit sold within the last DenseLastN months leaves more than eps of the
\* level: alpha^2 (1 - alpha)^(DenseLastN - 1) > eps.
ASSUME NearZeroAssumption ==
    /\ AlphaInv \in Nat \ {0, 1} /\ EpsInv \in Nat \ {0} /\ DenseLastN \in Nat \ {0}
    /\ LET n == DenseLastN + 1
       IN Powers(AlphaInv - 1, n)[n - 2] * EpsInv > Powers(AlphaInv, n)[n]

\* x + alpha * (target - x), for x and the result scaled by powers of AlphaInv.
Towards(x, target, scale) == AlphaInv * x + (target * scale - x)

\* z and p are scaled by `scale`; q counts months since the last sale.
ForgetsToReset(s, x) ==
    IF x > 0
    THEN [z |-> IF s.init THEN Towards(s.z, x, s.scale) ELSE AlphaInv * s.scale * x,
          p |-> IF s.init THEN Towards(s.p, s.q, s.scale) ELSE AlphaInv * s.scale * s.q,
          q |-> 0, init |-> TRUE, scale |-> AlphaInv * s.scale]
    ELSE [s EXCEPT !.z = AlphaInv * @, !.p = AlphaInv * @, !.q = @ + 1, !.scale = AlphaInv * @]
CrostonMonth(s, x) ==
    IF x > 0
    THEN [z |-> IF s.init THEN Towards(s.z, x, s.scale) ELSE AlphaInv * s.scale * x,
          p |-> IF s.init THEN Towards(s.p, s.q, s.scale) ELSE AlphaInv * s.scale * s.q,
          q |-> 1, init |-> TRUE, scale |-> AlphaInv * s.scale]
    ELSE [s EXCEPT !.z = AlphaInv * @, !.p = AlphaInv * @, !.q = @ + 1, !.scale = AlphaInv * @]

\* The level before the first month, and after each of them.
CrostonLevels(y) ==
    LET s[i \in 0 .. Len(y)] ==
            IF i = 0 THEN [z |-> 0, p |-> 0, q |-> 1, init |-> FALSE, scale |-> 1]
            ELSE CrostonMonth(s[i - 1], y[i])
    IN s

croston_forecast(y) ==
    LET s == CrostonLevels(y)[Len(y)]
    IN IF ~s.init \/ s.p <= 0 THEN [num |-> 0, den |-> 1] ELSE [num |-> s.z, den |-> s.p]

sba_forecast(y) ==
    LET f == croston_forecast(y)
    IN [num |-> f.num * (2 * AlphaInv - 1), den |-> f.den * 2 * AlphaInv]

\* The first month sets the level and the probability, sold or not.
ForgetsTheLevel(s, x) ==
    LET occ == IF x > 0 THEN 1 ELSE 0
    IN IF ~s.init THEN [z |-> x, p |-> occ, init |-> TRUE, scale |-> 1]
       ELSE [s EXCEPT !.p = AlphaInv * s.scale * occ, !.scale = AlphaInv * @,
                      !.z = IF x > 0 THEN Towards(@, x, s.scale) ELSE AlphaInv * @]
TsbMonth(s, x) ==
    LET occ == IF x > 0 THEN 1 ELSE 0
    IN IF ~s.init THEN [z |-> IF x > 0 THEN x ELSE 0, p |-> occ, init |-> TRUE, scale |-> 1]
       ELSE [s EXCEPT !.p = Towards(@, occ, s.scale), !.scale = AlphaInv * @,
                      !.z = IF x > 0 THEN Towards(@, x, s.scale) ELSE AlphaInv * @]

TsbLevels(y) ==
    LET s[i \in 0 .. Len(y)] ==
            IF i = 0 THEN [z |-> 0, p |-> 0, init |-> FALSE, scale |-> 1]
            ELSE TsbMonth(s[i - 1], y[i])
    IN s

tsb_forecast(y) ==
    LET s == TsbLevels(y)[Len(y)]
    IN [num |-> s.z * s.p, den |-> s.scale * s.scale]

predict_intermittent(y, method) ==
    CASE method = "Croston" -> croston_forecast(y)
      [] method = "SBA"     -> sba_forecast(y)
      [] OTHER              -> tsb_forecast(y)

-----------------------------------------------------------------------------
(* Which series are intermittent (selector "auto").                        *)

Sold(y) == {i \in DOMAIN y : y[i] # 0}

\* Months without a sale before each sale and after the last one.
Gaps(y) ==
    LET stops == Sold(y) \cup {Len(y) + 1}
        gap(i) == i - 1 - Max({0} \cup {j \in Sold(y) : j < i})
    IN {<<i, gap(i)>> : i \in stops}
LongGaps(y) == {g \in Gaps(y) : g[2] > 0}

\* adi > 1.32, adi being one more than the mean of the gaps that are not empty.
HighADI(y) ==
    /\ LongGaps(y) # {}
    /\ 100 * MapThenSumSet(LAMBDA g : g[2], LongGaps(y)) > 32 * Cardinality(LongGaps(y))

HighZeroRatio(y) == 100 * (Len(y) - Cardinality(Sold(y))) > 40 * Len(y)

select_intermittent(y) == Sold(y) = {} \/ HighADI(y) \/ HighZeroRatio(y)

\* A recent sale with a TSB level near zero makes the series a dense one.
should_dense_override(y) ==
    /\ \E i \in DOMAIN y : i > Len(y) - DenseLastN /\ y[i] > 0
    /\ tsb_forecast(y).num * EpsInv <= tsb_forecast(y).den

\* Whether the search goes on to the dearer methods at all.
MayEscalate(y) == ~select_intermittent(y) \/ should_dense_override(y)
=============================================================================
