---------------------------- MODULE OrderPolicy ----------------------------
(***************************************************************************)
(* The ordering policy of the worker (services/worker/oms) and the copy of *)
(* it the dashboard computes with (entities/recommendation/policy.ts), as  *)
(* operators.  A quantity is an integer that counts parts of a piece, Unit *)
(* parts to a piece, so that what a quantile interpolates is exact.        *)
(* Simulated demand is a function [months -> [draws -> parts]].            *)
(***************************************************************************)
EXTENDS Integers, FiniteSets, FiniteSetsExt

CONSTANTS Unit,    \* parts of a piece: the quantity 1.0
          NoStock  \* a starting_stock_override that is not set

ASSUME UnitAssumption == Unit \in Nat \ {0}

-----------------------------------------------------------------------------
(* Rounding to the minimum order quantity and the lot.                     *)

\* math.ceil(q / lot) * lot, for lot > 0.
CeilTo(q, lot) == ((q + lot - 1) \div lot) * lot

\* A lot that is missing, zero or negative is a lot of one piece.
Step(lot) == IF lot > 0 THEN lot ELSE Unit

NonNeg(q) == IF q > 0 THEN q ELSE 0

FloorOfMoq(q, moq) == IF q > 0 /\ q < moq THEN moq ELSE q

MoqAfterLot(q, moq, lot) ==
    LET lots == CeilTo(NonNeg(q), Step(lot)) IN FloorOfMoq(lots, moq)
round_moq_lot(q, moq, lot) == CeilTo(FloorOfMoq(NonNeg(q), moq), Step(lot))

\* The dashboard's replica, and the what-if built on it.
RoundsDown(rawQty, moq, lotSize) ==
    IF rawQty <= 0 THEN 0
    ELSE (Max({rawQty, moq}) \div Step(lotSize)) * Step(lotSize)
roundMoqLot(rawQty, moq, lotSize) ==
    IF rawQty <= 0 THEN 0
    ELSE LET base == IF rawQty < moq THEN moq ELSE rawQty
         IN IF lotSize <= 0 THEN CeilTo(base, Unit) ELSE CeilTo(base, lotSize)

recomputeOrderQty(startingStock, cumDemandQ, moq, lotSize) ==
    roundMoqLot(NonNeg(cumDemandQ - startingStock), moq, lotSize)

\* The stock a forecast starts from; `seen` is the stock of the last month
\* the panel has before test_start, or NoStock when it has none.
infer_starting_stock(seen, override) ==
    IF override # NoStock THEN override
    ELSE IF seen # NoStock THEN NonNeg(seen) ELSE 0

-----------------------------------------------------------------------------
(* Stockout risk and cumulative demand over simulated months.              *)

Draws(sims)   == DOMAIN sims[1]
Horizon(sims) == Cardinality(DOMAIN sims)

\* np.cumsum along the months; draws are clipped at zero first.
Cum(sims, b, m) ==
    LET cum[i \in 0 .. m] == IF i = 0 THEN 0 ELSE cum[i - 1] + NonNeg(sims[i][b])
    IN cum[m]

\* tts: the first month whose cumulative demand reaches the stock, if any.
Reached(stock, sims, b) == {m \in DOMAIN sims : Cum(sims, b, m) >= stock}
Emptied(stock, sims)    == {b \in Draws(sims) : Reached(stock, sims, b) # {}}
tts(stock, sims, b)     == Min(Reached(stock, sims, b))

\* p3 and p6: how many draws are out of stock within m months.
stockout_probability(stock, sims, m) ==
    Cardinality({b \in Emptied(stock, sims) : tts(stock, sims, b) <= m})

\* e_t <= t_check, e_t being the mean of tts over the draws that have one
\* (NaN, which is below nothing, when none has).
ExpectedWithin(stock, sims, t_check) ==
    /\ Emptied(stock, sims) # {}
    /\ MapThenSumSet(LAMBDA b : tts(stock, sims, b), Emptied(stock, sims))
           <= t_check * Cardinality(Emptied(stock, sims))

\* The k-th smallest (from 0) of what f holds for the draws.
OrderStatistic(f, k) ==
    CHOOSE v \in {f[b] : b \in DOMAIN f} :
        /\ Cardinality({b \in DOMAIN f : f[b] < v}) <= k
        /\ Cardinality({b \in DOMAIN f : f[b] <= v}) > k

\* np.nanquantile, linear between two draws; q in parts, Unit being 1.0.
nanquantile(f, q) ==
    LET pos == q * (Cardinality(DOMAIN f) - 1)
        lo  == OrderStatistic(f, pos \div Unit)
    IN IF pos % Unit = 0 THEN lo
       ELSE lo + ((OrderStatistic(f, pos \div Unit + 1) - lo) * (pos % Unit)) \div Unit

\* The rows of the first `months` months: sims[:months] is cut at the horizon.
WholeHorizon(sims, months, q) ==
    nanquantile([b \in Draws(sims) |-> Cum(sims, b, Horizon(sims))], q)
cum_demand_quantile(sims, months, q) ==
    IF months <= 0 THEN 0
    ELSE nanquantile([b \in Draws(sims) |-> Cum(sims, b, Min({months, Horizon(sims)}))], q)

\* Bias correction of a cold winner; factor in parts, Unit being 1.0.
Scaled(sims, factor) ==
    [m \in DOMAIN sims |-> [b \in DOMAIN sims[m] |-> (sims[m][b] * factor) \div Unit]]
=============================================================================
