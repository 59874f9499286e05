-------------------------- MODULE OrderPolicyProofs --------------------------
(***************************************************************************)
(* What the rounding of an order guarantees for every quantity, MOQ and    *)
(* lot, and that the dashboard's replica is the worker's function.         *)
(***************************************************************************)
EXTENDS OrderPolicy, RecursionTheorems

LEMMA DivBounds ==
    ASSUME NEW x \in Int, NEW lot \in Nat \ {0}
    PROVE  /\ x \div lot \in Int
           /\ (x \div lot) * lot <= x
           /\ x < (x \div lot) * lot + lot
BY SMT

LEMMA MultipleHasNoRest ==
    ASSUME NEW k \in Int, NEW lot \in Nat \ {0}
    PROVE  k * lot \in Int /\ (k * lot) % lot = 0
BY SMT

\* Rounding up reaches the quantity, by less than one lot too much.
LEMMA CeilProperties ==
    ASSUME NEW q \in Int, NEW lot \in Nat \ {0}
    PROVE  /\ CeilTo(q, lot) \in Int
           /\ q <= CeilTo(q, lot)
           /\ CeilTo(q, lot) < q + lot
           /\ CeilTo(q, lot) % lot = 0
<1> DEFINE k == (q + lot - 1) \div lot
<1>1. q + lot - 1 \in Int OBVIOUS
<1>2. k \in Int /\ k * lot <= q + lot - 1 /\ q + lot - 1 < k * lot + lot
  BY <1>1, DivBounds
<1>3. k * lot \in Int /\ (k * lot) % lot = 0
  BY <1>2, MultipleHasNoRest
<1> HIDE DEF k
<1>4. CeilTo(q, lot) = k * lot BY DEF CeilTo, k
<1> QED BY <1>2, <1>3, <1>4

LEMMA StepType == \A lot \in Int : Step(lot) \in Nat \ {0}
BY UnitAssumption DEF Step

\* Nothing is rounded up to an order: zero is a whole number of lots.
LEMMA CeilOfZero == \A lot \in Nat \ {0} : CeilTo(0, lot) = 0
<1> SUFFICES ASSUME NEW lot \in Nat \ {0} PROVE CeilTo(0, lot) = 0 OBVIOUS
<1>1. (0 + lot - 1) \div lot = 0
  <2> DEFINE k == (lot - 1) \div lot
  <2>1. k \in Int /\ k * lot <= lot - 1 /\ lot - 1 < k * lot + lot
    BY DivBounds, lot - 1 \in Int
  <2>2. k = 0
    <3> HIDE DEF k
    <3>1. CASE k >= 1
      <4>1. k * lot >= lot BY <3>1, <2>1, SMT
      <4> QED BY <4>1, <2>1, SMT
    <3>2. CASE k <= -1
      <4>1. k * lot + lot <= 0 BY <3>2, <2>1, SMT
      <4> QED BY <4>1, <2>1, SMT
    <3> QED BY <3>1, <3>2, <2>1
  <2> QED BY <2>2
<1> QED BY <1>1 DEF CeilTo

\* An order covers the quantity asked for, is a whole number of lots and not
\* below the MOQ, exceeds both by less than a lot, and is zero exactly when
\* nothing was asked for (policy.py round_moq_lot).
THEOREM RoundingIsRight ==
    ASSUME NEW q \in Int, NEW moq \in Int, NEW lot \in Int
    PROVE  LET r == round_moq_lot(q, moq, lot) IN
           /\ r \in Int /\ r >= 0 /\ r >= q
           /\ r % Step(lot) = 0
           /\ r > 0 => /\ q > 0 /\ r >= moq
                       /\ r - Step(lot) < q \/ r - Step(lot) < moq
           /\ q > 0 => r > 0
<1> DEFINE base == FloorOfMoq(NonNeg(q), moq)
           r == round_moq_lot(q, moq, lot)
<1>1. base \in Int /\ base >= 0 /\ base >= q
  BY DEF FloorOfMoq, NonNeg
<1>2. q <= 0 => base = 0
  BY DEF FloorOfMoq, NonNeg
<1>3. q > 0 => base >= moq /\ (base = q \/ base = moq)
  BY DEF FloorOfMoq, NonNeg
<1>4. Step(lot) \in Nat \ {0}
  BY StepType
<1>5. r = CeilTo(base, Step(lot))
  BY DEF round_moq_lot
<1> HIDE DEF base, r
<1>6. r \in Int /\ base <= r /\ r < base + Step(lot) /\ r % Step(lot) = 0
  BY <1>1, <1>4, <1>5, CeilProperties
<1>7. base = 0 => r = 0
  BY <1>4, <1>5, CeilOfZero
<1>8. r > 0 => q > 0 /\ r >= moq /\ (r - Step(lot) < q \/ r - Step(lot) < moq)
  BY <1>1, <1>2, <1>3, <1>4, <1>6, <1>7
<1>9. q > 0 => r > 0
  BY <1>1, <1>6
<1> QED BY <1>1, <1>6, <1>8, <1>9 DEF r

\* The dashboard rounds every quantity the way the worker does.
THEOREM ReplicaAgrees ==
    ASSUME NEW q \in Int, NEW moq \in Int, NEW lot \in Int
    PROVE  roundMoqLot(q, moq, lot) = round_moq_lot(q, moq, lot)
<1>1. Step(lot) \in Nat \ {0} BY StepType
<1>2. CASE q <= 0
  <2>1. NonNeg(q) = 0 /\ FloorOfMoq(0, moq) = 0
    BY <1>2 DEF NonNeg, FloorOfMoq
  <2> QED BY <1>1, <1>2, <2>1, CeilOfZero DEF roundMoqLot, round_moq_lot
<1>3. CASE q > 0
  <2>1. NonNeg(q) = q /\ FloorOfMoq(q, moq) = IF q < moq THEN moq ELSE q
    BY <1>3 DEF NonNeg, FloorOfMoq
  <2>2. ~(q <= 0) BY <1>3
  <2> QED BY <2>1, <2>2 DEF roundMoqLot, round_moq_lot, Step
<1> QED BY <1>2, <1>3

\* A larger need never gets the smaller order.
THEOREM RoundingIsMonotone ==
    ASSUME NEW p \in Int, NEW q \in Int, p <= q, NEW moq \in Int, NEW lot \in Int
    PROVE  round_moq_lot(p, moq, lot) <= round_moq_lot(q, moq, lot)
<1> DEFINE s == Step(lot)
           a == FloorOfMoq(NonNeg(p), moq)
           b == FloorOfMoq(NonNeg(q), moq)
           j == (a + s - 1) \div s
           k == (b + s - 1) \div s
<1>1. s \in Nat \ {0} BY StepType
<1>2. a \in Int /\ b \in Int /\ a <= b BY DEF FloorOfMoq, NonNeg
<1> HIDE DEF s, a, b
<1>3. j \in Int /\ j * s <= a + s - 1
  BY <1>1, <1>2, DivBounds, a + s - 1 \in Int
<1>4. k \in Int /\ b + s - 1 < k * s + s
  BY <1>1, <1>2, DivBounds, b + s - 1 \in Int
<1>5. round_moq_lot(p, moq, lot) = j * s /\ round_moq_lot(q, moq, lot) = k * s
  BY DEF round_moq_lot, CeilTo, s, a, b
<1> HIDE DEF j, k
<1>6. j * s < (k + 1) * s
  BY <1>1, <1>2, <1>3, <1>4, SMT
<1>7. j <= k
  <2> SUFFICES ASSUME j >= k + 1 PROVE FALSE BY <1>3, <1>4
  <2>1. j * s >= (k + 1) * s BY <1>1, <1>3, <1>4, SMT
  <2> QED BY <2>1, <1>6, <1>1, <1>3, <1>4, SMT
<1>8. j * s <= k * s
  BY <1>1, <1>3, <1>4, <1>7, SMT
<1> QED BY <1>5, <1>8

-----------------------------------------------------------------------------
(* Cumulative demand of a draw.                                            *)

\* Simulations of H months with the draws D.
Sims(H, D) == [1 .. H -> [D -> Int]]

LEMMA MonthsDemand ==
    ASSUME NEW H, NEW D, NEW sims \in Sims(H, D), NEW b \in D, NEW m \in 1 .. H
    PROVE  NonNeg(sims[m][b]) \in Nat
<1>1. sims[m][b] \in Int
  BY DEF Sims
<1> QED BY <1>1 DEF NonNeg

\* f sums up the demand of the draw b.
SumsUp(f, sims, b, m) ==
    f[0] = 0 /\ \A i \in 1 .. m : f[i] = f[i - 1] + NonNeg(sims[i][b])

\* Cumulative demand is the last value of such a sum.
LEMMA CumUnfolds ==
    ASSUME NEW H \in Nat, NEW D, NEW sims \in Sims(H, D), NEW b \in D, NEW m \in 0 .. H
    PROVE  \E f : SumsUp(f, sims, b, m) /\ Cum(sims, b, m) = f[m]
<1> DEFINE step == [i \in 1 .. m |-> [v \in Nat |-> v + NonNeg(sims[i][b])]]
           eqs(f) == f = [i \in 0 .. m |-> IF i = 0 THEN 0
                                           ELSE f[i - 1] + NonNeg(sims[i][b])]
<1>1. \A i \in 1 .. m : NonNeg(sims[i][b]) \in Nat
  BY MonthsDemand
<1>2. m \in Nat /\ \A i \in 1 .. m, v \in Nat : step[i][v] \in Nat
  BY <1>1
<1>3. PICK f \in [0 .. m -> Nat] : Follows(f, m, 0, step)
  <2> HIDE DEF step
  <2> QED BY <1>2, RecursionUpTo
<1>4. ASSUME NEW i \in 1 .. m PROVE f[i] = f[i - 1] + NonNeg(sims[i][b])
  <2>1. i - 1 \in 0 .. m /\ f[i - 1] \in Nat
    BY <1>2
  <2> QED BY <1>3, <2>1 DEF Follows
<1>5. eqs(f)
  BY <1>3, <1>4 DEF Follows
<1>6. PICK c : c = (CHOOSE g : eqs(g))
  OBVIOUS
<1>7. eqs(c)
  BY <1>5, <1>6
<1>8. Cum(sims, b, m) = c[m]
  BY <1>6 DEF Cum
<1>9. SumsUp(c, sims, b, m)
  <2>1. c[0] = 0
    BY <1>7, 0 \in 0 .. m
  <2>2. ASSUME NEW i \in 1 .. m PROVE c[i] = c[i - 1] + NonNeg(sims[i][b])
    <3>1. i \in 0 .. m /\ i # 0
      OBVIOUS
    <3> QED BY <1>7, <3>1
  <2> QED BY <2>1, <2>2 DEF SumsUp
<1> QED BY <1>8, <1>9

\* Two sums agree as far as both go.
LEMMA SumsAgree ==
    ASSUME NEW m \in Nat, NEW n \in Nat, m <= n, NEW sims, NEW b, NEW f, NEW g,
           SumsUp(f, sims, b, m), SumsUp(g, sims, b, n)
    PROVE  f[m] = g[m]
<1> DEFINE A == {i \in 0 .. m : f[i] = g[i]}
<1>1. 0 \in A
  BY DEF SumsUp
<1>2. \A i \in 1 .. m : i - 1 \in A => i \in A
  BY DEF SumsUp
<1> HIDE DEF A
<1>3. \A i \in 0 .. m : i \in A
  BY <1>1, <1>2, UpTo
<1>4. m \in A
  BY <1>3
<1> QED BY <1>4 DEF A

\* Cumulative demand starts at zero and grows by the demand of each month,
\* negative demand counting as none.
LEMMA CumStep ==
    ASSUME NEW H \in Nat, NEW D, NEW sims \in Sims(H, D), NEW b \in D
    PROVE  /\ Cum(sims, b, 0) = 0
           /\ \A m \in 1 .. H : Cum(sims, b, m) = Cum(sims, b, m - 1) + NonNeg(sims[m][b])
<1>1. Cum(sims, b, 0) = 0
  <2>1. PICK f : SumsUp(f, sims, b, 0) /\ Cum(sims, b, 0) = f[0]
    BY CumUnfolds, 0 \in 0 .. H
  <2> QED BY <2>1 DEF SumsUp
<1>2. ASSUME NEW m \in 1 .. H
      PROVE  Cum(sims, b, m) = Cum(sims, b, m - 1) + NonNeg(sims[m][b])
  <2>1. PICK f : SumsUp(f, sims, b, m) /\ Cum(sims, b, m) = f[m]
    BY CumUnfolds, m \in 0 .. H
  <2>2. PICK g : SumsUp(g, sims, b, m - 1) /\ Cum(sims, b, m - 1) = g[m - 1]
    BY CumUnfolds, m - 1 \in 0 .. H
  <2>3. f[m] = f[m - 1] + NonNeg(sims[m][b])
    BY <2>1 DEF SumsUp
  <2>4. m - 1 \in Nat /\ m \in Nat /\ m - 1 <= m
    OBVIOUS
  <2>5. g[m - 1] = f[m - 1]
    BY <2>1, <2>2, <2>4, SumsAgree
  <2> QED BY <2>1, <2>2, <2>3, <2>5
<1> QED BY <1>1, <1>2

LEMMA CumType ==
    ASSUME NEW H \in Nat, NEW D, NEW sims \in Sims(H, D), NEW b \in D, NEW m \in 0 .. H
    PROVE  Cum(sims, b, m) \in Nat
<1> DEFINE A == {i \in 0 .. H : Cum(sims, b, i) \in Nat}
<1>1. 0 \in A
  <2>1. Cum(sims, b, 0) = 0
    BY CumStep
  <2> QED BY <2>1
<1>2. ASSUME NEW i \in 1 .. H, i - 1 \in A PROVE i \in A
  <2>1. NonNeg(sims[i][b]) \in Nat
    BY MonthsDemand
  <2>2. Cum(sims, b, i) = Cum(sims, b, i - 1) + NonNeg(sims[i][b])
    BY CumStep
  <2> QED BY <1>2, <2>1, <2>2
<1> HIDE DEF A
<1>3. \A i \in 0 .. H : i \in A
  BY <1>1, <1>2, UpTo
<1> QED BY <1>3 DEF A

\* More months never demand less.
LEMMA CumGrows ==
    ASSUME NEW H \in Nat, NEW D, NEW sims \in Sims(H, D), NEW b \in D,
           NEW m \in 0 .. H, NEW n \in 0 .. H, m <= n
    PROVE  Cum(sims, b, m) <= Cum(sims, b, n)
<1> DEFINE A == {i \in 0 .. H : m <= i => Cum(sims, b, m) <= Cum(sims, b, i)}
<1>1. 0 \in A
  <2>1. Cum(sims, b, m) \in Nat
    BY CumType
  <2>2. m <= 0 => m = 0
    OBVIOUS
  <2> QED BY <2>1, <2>2
<1>2. ASSUME NEW i \in 1 .. H, i - 1 \in A PROVE i \in A
  <2>1. NonNeg(sims[i][b]) \in Nat
    BY MonthsDemand
  <2>2. Cum(sims, b, i) = Cum(sims, b, i - 1) + NonNeg(sims[i][b])
    BY CumStep
  <2>3. i - 1 \in 0 .. H /\ i \in 0 .. H
    OBVIOUS
  <2>4. Cum(sims, b, m) \in Nat /\ Cum(sims, b, i - 1) \in Nat /\ Cum(sims, b, i) \in Nat
    BY <2>3, CumType
  <2>5. CASE m <= i - 1
    BY <1>2, <2>1, <2>2, <2>4, <2>5
  <2>6. CASE m = i
    BY <2>4, <2>6
  <2> QED BY <2>5, <2>6
<1> HIDE DEF A
<1>3. \A i \in 0 .. H : i \in A
  BY <1>1, <1>2, UpTo
<1> QED BY <1>3 DEF A

\* Larger simulations demand more.
LEMMA CumFollowsSims ==
    ASSUME NEW H \in Nat, NEW D, NEW b \in D, NEW m \in 0 .. H,
           NEW less \in Sims(H, D), NEW more \in Sims(H, D),
           \A i \in 1 .. H : NonNeg(less[i][b]) <= NonNeg(more[i][b])
    PROVE  Cum(less, b, m) <= Cum(more, b, m)
<1> DEFINE A == {i \in 0 .. H : Cum(less, b, i) <= Cum(more, b, i)}
<1>1. 0 \in A
  <2>1. Cum(less, b, 0) = 0 /\ Cum(more, b, 0) = 0
    BY CumStep
  <2> QED BY <2>1
<1>2. ASSUME NEW i \in 1 .. H, i - 1 \in A PROVE i \in A
  <2>1. NonNeg(less[i][b]) \in Nat /\ NonNeg(more[i][b]) \in Nat
    BY MonthsDemand
  <2>2. Cum(less, b, i - 1) \in Nat /\ Cum(more, b, i - 1) \in Nat
    BY CumType, i - 1 \in 0 .. H
  <2>3. /\ Cum(less, b, i) = Cum(less, b, i - 1) + NonNeg(less[i][b])
        /\ Cum(more, b, i) = Cum(more, b, i - 1) + NonNeg(more[i][b])
    BY CumStep
  <2> QED BY <1>2, <2>1, <2>2, <2>3
<1> HIDE DEF A
<1>3. \A i \in 0 .. H : i \in A
  BY <1>1, <1>2, UpTo
<1> QED BY <1>3 DEF A

-----------------------------------------------------------------------------
(* Quantiles.                                                              *)

\* The draws of f that lie below v, and those that do not lie above it.
Below(f, v)  == {b \in DOMAIN f : f[b] < v}
UpToIt(f, v) == {b \in DOMAIN f : f[b] <= v}

LEMMA CountType ==
    ASSUME NEW D, IsFiniteSet(D), NEW f \in [D -> Int], NEW v \in Int
    PROVE  /\ Below(f, v) \subseteq UpToIt(f, v) /\ UpToIt(f, v) \subseteq D
           /\ IsFiniteSet(Below(f, v)) /\ Cardinality(Below(f, v)) \in Nat
           /\ IsFiniteSet(UpToIt(f, v)) /\ Cardinality(UpToIt(f, v)) \in Nat
           /\ Cardinality(UpToIt(f, v)) <= Cardinality(D) /\ Cardinality(D) \in Nat
<1>1. Below(f, v) \subseteq UpToIt(f, v) /\ UpToIt(f, v) \subseteq D
  BY DEF Below, UpToIt
<1>2. IsFiniteSet(Below(f, v)) /\ IsFiniteSet(UpToIt(f, v))
  BY <1>1, FS_Subset
<1>3. Cardinality(UpToIt(f, v)) <= Cardinality(D)
  BY <1>1, FS_Subset
<1> QED BY <1>1, <1>2, <1>3, FS_CardinalityType

\* v is the k-th smallest, from zero, of the values of f.
IsRanked(f, k, v) ==
    /\ v \in {f[b] : b \in DOMAIN f}
    /\ Cardinality(Below(f, v)) <= k
    /\ Cardinality(UpToIt(f, v)) > k

\* There is a k-th smallest for every k below the number of draws.
LEMMA SomeRanked ==
    ASSUME NEW D, IsFiniteSet(D), NEW f \in [D -> Int],
           NEW k \in Nat, k < Cardinality(D)
    PROVE  \E v : IsRanked(f, k, v)
<1> DEFINE count(b) == Cardinality(UpToIt(f, f[b]))
           Counts == {n \in Nat : n > k /\ \E b \in D : count(b) = n}
<1>1. \A b \in D : f[b] \in Int
  OBVIOUS
<1>2. \A b \in D : count(b) \in Nat /\ count(b) <= Cardinality(D)
  BY <1>1, CountType
<1>3. Cardinality(D) \in Nat
  BY FS_CardinalityType
\* Among any draws there is one with the largest value.
<1>4. ASSUME NEW S, S \subseteq D, S # {}
      PROVE  \E b \in S : \A c \in S : f[c] <= f[b]
  <2> DEFINE Left == {n \in Nat : \E b \in S : Cardinality(D) - count(b) = n}
  <2>1. \A b \in S : Cardinality(D) - count(b) \in Left
    <3> HIDE DEF count
    <3> QED BY <1>2, <1>3, <1>4
  <2>2. Left \subseteq Nat /\ Left # {}
    BY <1>4, <2>1
  <2>3. PICK n \in Left : \A l \in Left : n <= l
    <3> HIDE DEF Left
    <3> QED BY <2>2, LeastNat
  <2>4. PICK b \in S : Cardinality(D) - count(b) = n
    BY <2>3
  <2>5. ASSUME NEW c \in S, ~(f[c] <= f[b]) PROVE FALSE
    <3>1. f[b] \in Int /\ f[c] \in Int /\ f[b] < f[c] /\ b \in D /\ c \in D
      BY <1>1, <1>4, <2>5
    <3>2. UpToIt(f, f[b]) \subseteq UpToIt(f, f[c])
      BY <1>1, <3>1 DEF UpToIt
    <3>3. c \in UpToIt(f, f[c]) /\ c \notin UpToIt(f, f[b])
      BY <3>1 DEF UpToIt
    <3>4. count(b) < count(c)
      <4>1. IsFiniteSet(UpToIt(f, f[c]))
        BY <3>1, CountType
      <4>2. UpToIt(f, f[b]) \in SUBSET UpToIt(f, f[c])
        BY <3>2
      <4>3. count(b) <= count(c) /\ (count(c) = count(b) => UpToIt(f, f[c]) = UpToIt(f, f[b]))
        BY <4>1, <4>2, FS_Subset
      <4>4. count(b) # count(c)
        BY <3>3, <4>3
      <4> HIDE DEF count
      <4> QED BY <1>2, <3>1, <4>3, <4>4
    <3> HIDE DEF count
    <3>5. n <= Cardinality(D) - count(c)
      BY <2>1, <2>3
    <3> QED BY <1>2, <1>3, <2>4, <3>1, <3>4, <3>5
  <2> QED BY <2>5
<1>5. D # {}
  BY FS_EmptySet
\* The draw with the largest value counts them all, so some count exceeds k.
<1>6. Counts # {}
  <2>1. PICK b \in D : \A c \in D : f[c] <= f[b]
    BY <1>4, <1>5
  <2>2. UpToIt(f, f[b]) = D
    BY <2>1 DEF UpToIt
  <2>3. count(b) = Cardinality(D)
    BY <2>2
  <2> HIDE DEF count
  <2> QED BY <1>3, <2>3
<1>7. PICK n \in Counts : \A l \in Counts : n <= l
  <2>1. Counts \subseteq Nat
    OBVIOUS
  <2> HIDE DEF Counts
  <2> QED BY <1>6, <2>1, LeastNat
<1>8. PICK b \in D : count(b) = n
  BY <1>7
<1>9. Cardinality(Below(f, f[b])) <= k
  <2> SUFFICES ASSUME ~(Cardinality(Below(f, f[b])) <= k) PROVE FALSE
    OBVIOUS
  <2>1. IsFiniteSet(Below(f, f[b])) /\ Cardinality(Below(f, f[b])) \in Nat
        /\ Below(f, f[b]) \subseteq D
    BY <1>1, CountType
  <2>2. Below(f, f[b]) # {}
    BY <2>1, FS_EmptySet
  <2>3. PICK c \in Below(f, f[b]) : \A d \in Below(f, f[b]) : f[d] <= f[c]
    BY <1>4, <2>1, <2>2
  <2>4. c \in D /\ f[c] < f[b]
    BY <2>3 DEF Below
  <2>5. UpToIt(f, f[c]) = Below(f, f[b])
    BY <1>1, <2>3, <2>4 DEF Below, UpToIt
  <2>6. count(c) > k
    BY <2>1, <2>5
  <2>7. n <= count(c)
    <3> HIDE DEF count
    <3>1. count(c) \in Counts
      BY <1>2, <2>4, <2>6
    <3> QED BY <1>7, <3>1
  <2>8. b \in UpToIt(f, f[b]) /\ b \notin Below(f, f[b])
    BY <1>1 DEF Below, UpToIt
  <2>9. count(c) < count(b)
    <3>1. IsFiniteSet(UpToIt(f, f[b])) /\ UpToIt(f, f[c]) \in SUBSET UpToIt(f, f[b])
      BY <1>1, <2>5, CountType
    <3>2. count(c) <= count(b) /\ (count(b) = count(c) => UpToIt(f, f[b]) = UpToIt(f, f[c]))
      BY <3>1, FS_Subset
    <3>3. count(b) # count(c)
      BY <2>5, <2>8, <3>2
    <3> HIDE DEF count
    <3> QED BY <1>2, <2>4, <3>2, <3>3
  <2> HIDE DEF count
  <2> QED BY <1>2, <1>8, <2>4, <2>7, <2>9
<1>10. Cardinality(UpToIt(f, f[b])) > k
  BY <1>7, <1>8
<1> QED BY <1>9, <1>10 DEF IsRanked

LEMMA OrderStatisticIsRanked ==
    ASSUME NEW D, IsFiniteSet(D), NEW f \in [D -> Int],
           NEW k \in Nat, k < Cardinality(D)
    PROVE  /\ IsRanked(f, k, OrderStatistic(f, k))
           /\ OrderStatistic(f, k) \in Int
           /\ \E b \in D : OrderStatistic(f, k) = f[b]
<1>1. PICK v : IsRanked(f, k, v)
  BY SomeRanked
<1>2. IsRanked(f, k, OrderStatistic(f, k))
  BY <1>1 DEF IsRanked, OrderStatistic, Below, UpToIt
<1> QED BY <1>2 DEF IsRanked

\* Of two functions with the one nowhere above the other, and of two ranks.
LEMMA OrderStatisticIsMonotone ==
    ASSUME NEW D, IsFiniteSet(D), NEW f \in [D -> Int], NEW g \in [D -> Int],
           \A b \in D : f[b] <= g[b],
           NEW j \in Nat, NEW k \in Nat, j <= k, k < Cardinality(D)
    PROVE  OrderStatistic(f, j) <= OrderStatistic(g, k)
<1> DEFINE v == OrderStatistic(f, j)
           w == OrderStatistic(g, k)
<1>0. Cardinality(D) \in Nat
  BY FS_CardinalityType
<1>1. j < Cardinality(D)
  BY <1>0
<1>2. IsRanked(f, j, v) /\ v \in Int
  BY <1>1, OrderStatisticIsRanked
<1>3. IsRanked(g, k, w) /\ w \in Int
  BY OrderStatisticIsRanked
<1> HIDE DEF v, w
<1>4. SUFFICES ASSUME w < v PROVE FALSE
  BY <1>2, <1>3 DEF v, w
<1>5. UpToIt(g, w) \subseteq Below(f, v)
  BY <1>2, <1>3, <1>4 DEF UpToIt, Below
<1>6. Cardinality(UpToIt(g, w)) <= Cardinality(Below(f, v))
  <2>1. IsFiniteSet(Below(f, v)) /\ UpToIt(g, w) \in SUBSET Below(f, v)
    BY <1>2, <1>5, CountType
  <2> QED BY <2>1, FS_Subset
<1>7. Cardinality(UpToIt(g, w)) \in Nat /\ Cardinality(Below(f, v)) \in Nat
  BY <1>2, <1>3, CountType
<1> QED BY <1>2, <1>3, <1>6, <1>7 DEF IsRanked

\* A point on the way from lo to hi, r of Unit parts of it done.
Between(lo, hi, r) == lo + ((hi - lo) * r) \div Unit

LEMMA BetweenIsBetween ==
    ASSUME NEW lo \in Int, NEW hi \in Int, lo <= hi, NEW r \in 0 .. Unit
    PROVE  Between(lo, hi, r) \in Int /\ lo <= Between(lo, hi, r) /\ Between(lo, hi, r) <= hi
<1> DEFINE x == (hi - lo) * r
           d == x \div Unit
<1> USE UnitAssumption
<1>1. hi - lo \in Nat
  OBVIOUS
<1>2. x \in Int /\ 0 <= x
  <2> HIDE DEF d
  <2> QED BY <1>1, SMT
<1>3. x <= (hi - lo) * Unit
  <2> DEFINE y == hi - lo
             z == Unit - r
  <2>1. y \in Nat /\ z \in Nat
    BY <1>1
  <2>2. y * z >= 0
    <3> HIDE DEF y, z
    <3> QED BY <2>1, SMT
  <2>3. y * Unit = y * r + y * z
    <3>1. y \in Int /\ r \in Int /\ Unit \in Int
      BY <1>1
    <3> HIDE DEF y
    <3> QED BY <3>1, SMT
  <2>4. y * r \in Int /\ y * Unit \in Int /\ y * z \in Int
    <3> HIDE DEF y, z
    <3> QED BY <2>1, SMT
  <2>5. y * r <= y * Unit
    <3> HIDE DEF y, z
    <3> QED BY <2>2, <2>3, <2>4
  <2> QED BY <2>5
<1> HIDE DEF x
<1>4. d \in Int /\ d * Unit <= x /\ x < d * Unit + Unit
  BY <1>2, DivBounds
<1> HIDE DEF d
<1>5. d >= 0
  <2> SUFFICES ASSUME d <= -1 PROVE FALSE
    BY <1>4
  <2>1. d * Unit + Unit <= 0
    BY <1>4, SMT
  <2> QED BY <1>2, <1>4, <2>1, SMT
<1>6. d <= hi - lo
  <2> SUFFICES ASSUME d >= hi - lo + 1 PROVE FALSE
    BY <1>1, <1>4
  <2>1. d * Unit >= (hi - lo + 1) * Unit
    BY <1>1, <1>4, SMT
  <2>2. (hi - lo + 1) * Unit = (hi - lo) * Unit + Unit
    BY <1>1, SMT
  <2>3. (hi - lo) * Unit \in Int /\ d * Unit \in Int
    BY <1>1, <1>4, SMT
  <2> QED BY <1>2, <1>3, <1>4, <2>1, <2>2, <2>3, SMT
<1>7. Between(lo, hi, r) = lo + d
  BY DEF Between, d, x
<1> QED BY <1>4, <1>5, <1>6, <1>7

LEMMA BetweenIsMonotone ==
    ASSUME NEW lo \in Int, NEW hi \in Int, NEW lo2 \in Int, NEW hi2 \in Int,
           NEW r \in 0 .. Unit, NEW r2 \in 0 .. Unit,
           lo <= lo2, hi <= hi2, lo2 <= hi2, r <= r2
    PROVE  Between(lo, hi, r) <= Between(lo2, hi2, r2)
<1> USE UnitAssumption
<1> DEFINE x == (hi - lo) * r
           x2 == (hi2 - lo2) * r2
           d == x \div Unit
           d2 == x2 \div Unit
<1>1. x \in Int /\ x2 \in Int
  BY SMT
\* lo and hi enter with weights that are not negative.
<1>2. lo * Unit + x <= lo2 * Unit + x2
  <2> DEFINE a == lo2 - lo
             b == hi2 - hi
             c == hi2 - lo2
             w == Unit - r
             e == r2 - r
  <2>1. a \in Nat /\ b \in Nat /\ c \in Nat /\ w \in Nat /\ e \in Nat /\ r \in Nat /\ Unit \in Nat
    OBVIOUS
  <2>2. a * w >= 0 /\ b * r >= 0 /\ c * e >= 0
    <3> HIDE DEF a, b, c, w, e
    <3> QED BY <2>1, SMT
  <2>3. (lo2 * Unit + x2) - (lo * Unit + x) = a * w + b * r + c * e
    BY SMT
  <2>4. a * w \in Int /\ b * r \in Int /\ c * e \in Int /\ lo * Unit \in Int /\ lo2 * Unit \in Int
    <3> HIDE DEF a, b, c, w, e
    <3> QED BY <2>1, SMT
  <2> HIDE DEF a, b, c, w, e, x, x2
  <2> QED BY <1>1, <2>2, <2>3, <2>4
<1> HIDE DEF x, x2
<1>3. d \in Int /\ d * Unit <= x
  BY <1>1, DivBounds
<1>4. d2 \in Int /\ x2 < d2 * Unit + Unit
  BY <1>1, DivBounds
<1> HIDE DEF d, d2
<1>5. lo + d <= lo2 + d2
  <2> SUFFICES ASSUME lo + d >= lo2 + d2 + 1 PROVE FALSE
    BY <1>3, <1>4
  <2>1. (lo + d) * Unit >= (lo2 + d2 + 1) * Unit
    BY <1>3, <1>4, SMT
  <2>2. (lo + d) * Unit = lo * Unit + d * Unit
    BY <1>3, SMT
  <2>3. (lo2 + d2 + 1) * Unit = lo2 * Unit + d2 * Unit + Unit
    BY <1>4, SMT
  <2>4. lo * Unit \in Int /\ d * Unit \in Int /\ lo2 * Unit \in Int /\ d2 * Unit \in Int
    BY <1>3, <1>4, SMT
  <2>5. lo * Unit + d * Unit >= lo2 * Unit + d2 * Unit + Unit
    BY <2>1, <2>2, <2>3
  <2>6. lo2 * Unit + d2 * Unit + Unit > lo2 * Unit + x2
    BY <1>1, <1>4, <2>4
  <2>7. lo * Unit + d * Unit <= lo * Unit + x
    BY <1>1, <1>3, <2>4
  <2> QED BY <1>1, <1>2, <2>4, <2>5, <2>6, <2>7
<1>6. Between(lo, hi, r) = lo + d /\ Between(lo2, hi2, r2) = lo2 + d2
  BY DEF Between, d, d2, x, x2
<1> QED BY <1>5, <1>6

\* The rank a quantile starts from, and how far it goes to the next.
Rank(n, q) == (q * (n - 1)) \div Unit
Rest(n, q) == (q * (n - 1)) % Unit

LEMMA RankOfQuantile ==
    ASSUME NEW n \in Nat \ {0}, NEW q \in 0 .. Unit
    PROVE  /\ Rank(n, q) \in Nat /\ Rank(n, q) < n
           /\ Rest(n, q) \in 0 .. Unit
           /\ Rest(n, q) # 0 => Rank(n, q) + 1 < n
           /\ q * (n - 1) = Rank(n, q) * Unit + Rest(n, q) /\ Rest(n, q) < Unit
<1> USE UnitAssumption
<1> DEFINE pos == q * (n - 1)
           k == Rank(n, q)
           r == Rest(n, q)
<1>1. n - 1 \in Nat
  OBVIOUS
<1>2. pos \in Nat
  BY <1>1, SMT
<1>3. pos <= Unit * (n - 1)
  <2> DEFINE u == Unit - q
             m == n - 1
  <2>1. u \in Nat /\ m \in Nat
    BY <1>1
  <2>2. u * m >= 0
    <3> HIDE DEF u, m
    <3> QED BY <2>1, SMT
  <2>3. Unit * m - q * m = u * m
    BY <1>1, SMT
  <2>4. Unit * m \in Int /\ q * m \in Int /\ u * m \in Int
    BY <1>1, SMT
  <2>5. q * m <= Unit * m
    <3> HIDE DEF u, m
    <3> QED BY <2>2, <2>3, <2>4
  <2> QED BY <2>5
<1>4. k = pos \div Unit /\ r = pos % Unit
  BY DEF Rank, Rest
<1> HIDE DEF pos, k, r
<1>5. k \in Int /\ r \in 0 .. Unit - 1 /\ pos = k * Unit + r
  BY <1>2, <1>4, SMT
<1>6. k >= 0
  <2> SUFFICES ASSUME k <= -1 PROVE FALSE
    BY <1>5
  <2>1. k * Unit <= -Unit
    BY <1>5, SMT
  <2> QED BY <1>2, <1>5, <2>1, SMT
<1>7. k <= n - 1 /\ (r # 0 => k < n - 1)
  <2>1. k * Unit \in Int /\ Unit * (n - 1) \in Int
    BY <1>1, <1>5, SMT
  <2>2. k * Unit <= Unit * (n - 1) /\ (r # 0 => k * Unit < Unit * (n - 1))
    BY <1>3, <1>5, <2>1, <1>2
  <2>3. ASSUME k >= n - 1 + 1 PROVE FALSE
    <3>1. k * Unit >= (n - 1 + 1) * Unit
      BY <1>1, <1>5, <2>3, SMT
    <3>2. (n - 1 + 1) * Unit = Unit * (n - 1) + Unit
      BY <1>1, SMT
    <3> QED BY <2>1, <2>2, <3>1, <3>2
  <2>4. ASSUME k = n - 1, r # 0 PROVE FALSE
    <3>1. k * Unit = Unit * (n - 1)
      BY <1>1, <1>5, <2>4, SMT
    <3> QED BY <2>1, <2>2, <2>4, <3>1
  <2> QED BY <1>1, <1>5, <2>3, <2>4
<1>8. k \in Nat /\ k < n /\ (r # 0 => k + 1 < n)
  BY <1>1, <1>5, <1>6, <1>7
<1> QED BY <1>5, <1>8 DEF k, r, pos

LEMMA QuantileIs ==
    ASSUME NEW D, NEW f \in [D -> Int], NEW q
    PROVE  LET n == Cardinality(D) IN
           nanquantile(f, q) =
               IF Rest(n, q) = 0 THEN OrderStatistic(f, Rank(n, q))
               ELSE Between(OrderStatistic(f, Rank(n, q)),
                            OrderStatistic(f, Rank(n, q) + 1), Rest(n, q))
<1>1. DOMAIN f = D
  OBVIOUS
<1> QED BY <1>1 DEF nanquantile, Rank, Rest, Between

\* A quantile lies between two of the draws, and between the order statistics
\* around its rank.
LEMMA QuantileAround ==
    ASSUME NEW D, IsFiniteSet(D), D # {}, NEW f \in [D -> Int], NEW q \in 0 .. Unit
    PROVE  LET n == Cardinality(D) IN
           /\ nanquantile(f, q) \in Int
           /\ OrderStatistic(f, Rank(n, q)) <= nanquantile(f, q)
           /\ Rest(n, q) = 0 => nanquantile(f, q) = OrderStatistic(f, Rank(n, q))
           /\ Rest(n, q) # 0 => nanquantile(f, q) <= OrderStatistic(f, Rank(n, q) + 1)
           /\ \E b \in D : f[b] <= nanquantile(f, q)
           /\ \E b \in D : nanquantile(f, q) <= f[b]
<1> DEFINE n == Cardinality(D)
           k == Rank(n, q)
           r == Rest(n, q)
           v == nanquantile(f, q)
           lo == OrderStatistic(f, k)
           hi == OrderStatistic(f, k + 1)
<1>1. n \in Nat \ {0}
  BY FS_CardinalityType, FS_EmptySet
<1> HIDE DEF n
<1>2. k \in Nat /\ k < n /\ r \in 0 .. Unit /\ (r # 0 => k + 1 < n)
  BY <1>1, RankOfQuantile
<1>3. v = IF r = 0 THEN lo ELSE Between(lo, hi, r)
  BY QuantileIs DEF n
<1> HIDE DEF k, r, v
<1>4. lo \in Int /\ \E b \in D : lo = f[b]
  BY <1>2, OrderStatisticIsRanked DEF n
<1>5. CASE r = 0
  <2>1. v = lo
    BY <1>3, <1>5
  <2> HIDE DEF lo
  <2>2. v \in Int /\ lo <= v /\ \E b \in D : f[b] = v
    BY <1>4, <2>1
  <2>3. (\E b \in D : f[b] <= v) /\ (\E b \in D : v <= f[b])
    BY <2>2
  <2> QED BY <1>5, <2>1, <2>2, <2>3 DEF k, r, v, lo, n
<1>6. CASE r # 0
  <2>1. k + 1 \in Nat /\ k + 1 < Cardinality(D) /\ k <= k + 1
    BY <1>2, <1>6 DEF n
  <2>2. hi \in Int /\ \E b \in D : hi = f[b]
    BY <2>1, OrderStatisticIsRanked
  <2>3. lo <= hi
    <3>1. \A b \in D : f[b] <= f[b]
      OBVIOUS
    <3> QED BY <1>2, <2>1, <3>1, OrderStatisticIsMonotone
  <2> HIDE DEF lo, hi
  <2>4. v \in Int /\ lo <= v /\ v <= hi
    BY <1>2, <1>3, <1>4, <1>6, <2>2, <2>3, BetweenIsBetween
  <2>5. (\E b \in D : f[b] <= v) /\ (\E b \in D : v <= f[b])
    BY <1>4, <2>2, <2>4
  <2> QED BY <1>6, <2>4, <2>5 DEF k, r, v, lo, hi, n
<1> QED BY <1>5, <1>6

\* A higher quantile of draws none of which is smaller is not smaller.
LEMMA QuantileIsMonotone ==
    ASSUME NEW D, IsFiniteSet(D), D # {}, NEW f \in [D -> Int], NEW g \in [D -> Int],
           \A b \in D : f[b] <= g[b],
           NEW p \in 0 .. Unit, NEW q \in 0 .. Unit, p <= q
    PROVE  nanquantile(f, p) <= nanquantile(g, q)
<1> USE UnitAssumption
<1> DEFINE n == Cardinality(D)
           j == Rank(n, p)
           k == Rank(n, q)
           r == Rest(n, p)
           s == Rest(n, q)
           v == nanquantile(f, p)
           w == nanquantile(g, q)
           F(i) == OrderStatistic(f, i)
           G(i) == OrderStatistic(g, i)
<1>1. n \in Nat \ {0}
  BY FS_CardinalityType, FS_EmptySet
<1>2. \A i, l \in Nat : i <= l /\ l < n => F(i) <= G(l)
  BY OrderStatisticIsMonotone
<1>3. \A i \in Nat : i < n => F(i) \in Int /\ G(i) \in Int
  BY OrderStatisticIsRanked
<1>4. /\ v \in Int /\ F(j) <= v
      /\ r = 0 => v = F(j)
      /\ r # 0 => v <= F(j + 1)
  BY QuantileAround
<1>5. w \in Int /\ G(k) <= w
  BY QuantileAround
<1>6. /\ s = 0 => w = G(k)
      /\ s # 0 => w = Between(G(k), G(k + 1), s)
  BY QuantileIs
<1>7. r # 0 => v = Between(F(j), F(j + 1), r)
  BY QuantileIs
<1>8. \A i \in Nat : i + 1 < n => G(i) <= G(i + 1)
  <2>1. \A b \in D : g[b] <= g[b]
    OBVIOUS
  <2> SUFFICES ASSUME NEW i \in Nat, i + 1 < n PROVE G(i) <= G(i + 1)
    OBVIOUS
  <2>2. i + 1 \in Nat /\ i <= i + 1
    OBVIOUS
  <2> QED BY <2>1, <2>2, OrderStatisticIsMonotone
<1> HIDE DEF n, v, w, F, G
<1>9. /\ j \in Nat /\ j < n /\ r \in 0 .. Unit /\ (r # 0 => j + 1 < n)
      /\ p * (n - 1) = j * Unit + r /\ r < Unit
  BY <1>1, RankOfQuantile
<1>10. /\ k \in Nat /\ k < n /\ s \in 0 .. Unit /\ (s # 0 => k + 1 < n)
       /\ q * (n - 1) = k * Unit + s /\ s < Unit
  BY <1>1, RankOfQuantile
<1> HIDE DEF j, k, r, s
<1>11. j * Unit + r <= k * Unit + s
  <2>1. n - 1 \in Nat /\ q - p \in Nat
    BY <1>1
  <2>2. (q - p) * (n - 1) >= 0
    BY <2>1, SMT
  <2>3. q * (n - 1) - p * (n - 1) = (q - p) * (n - 1)
    BY <2>1, SMT
  <2>4. q * (n - 1) \in Int /\ p * (n - 1) \in Int
    BY <2>1, SMT
  <2> QED BY <1>9, <1>10, <2>2, <2>3, <2>4
<1>12. j <= k
  <2> SUFFICES ASSUME j >= k + 1 PROVE FALSE
    BY <1>9, <1>10
  <2>1. j * Unit >= (k + 1) * Unit
    BY <1>9, <1>10, SMT
  <2>2. (k + 1) * Unit = k * Unit + Unit
    BY <1>10, SMT
  <2>3. j * Unit \in Int /\ k * Unit \in Int
    BY <1>9, <1>10, SMT
  <2> QED BY <1>9, <1>10, <1>11, <2>1, <2>2, <2>3
<1>13. CASE j < k
  <2>1. F(j) <= G(k) /\ (r # 0 => F(j + 1) <= G(k))
    BY <1>2, <1>9, <1>10, <1>13
  <2>2. F(j) \in Int /\ G(k) \in Int /\ (r # 0 => F(j + 1) \in Int)
    BY <1>3, <1>9, <1>10
  <2> QED BY <1>4, <1>5, <2>1, <2>2 DEF v, w
<1>14. CASE j = k
  <2>1. r <= s
    <3>1. j * Unit \in Int
      BY <1>9, SMT
    <3> QED BY <1>9, <1>10, <1>11, <1>14, <3>1
  <2>2. F(k) <= G(k) /\ F(k) \in Int /\ G(k) \in Int
    BY <1>2, <1>3, <1>10
  <2>3. CASE r = 0
    BY <1>4, <1>5, <1>14, <2>2, <2>3 DEF v, w
  <2>4. CASE r # 0
    <3>1. s # 0
      BY <1>9, <1>10, <2>1, <2>4
    <3>2. /\ F(k + 1) \in Int /\ G(k + 1) \in Int
          /\ F(k + 1) <= G(k + 1) /\ G(k) <= G(k + 1)
      BY <1>2, <1>3, <1>8, <1>10, <3>1, k + 1 \in Nat
    <3>3. v = Between(F(k), F(k + 1), r) /\ w = Between(G(k), G(k + 1), s)
      BY <1>6, <1>7, <1>14, <2>4, <3>1
    <3> QED BY <1>9, <1>10, <2>1, <2>2, <3>2, <3>3, BetweenIsMonotone DEF v, w
  <2> QED BY <2>3, <2>4
<1> QED BY <1>9, <1>10, <1>12, <1>13, <1>14

-----------------------------------------------------------------------------
(* The demand an order covers.                                             *)

LEMMA MinOfTwo ==
    ASSUME NEW a \in Int, NEW b \in Int
    PROVE  Min({a, b}) = IF a <= b THEN a ELSE b
<1>1. CASE a <= b
  <2>1. \A x \in {a, b} : a <= x
    BY <1>1
  <2> QED BY <1>1, <2>1 DEF Min
<1>2. CASE ~(a <= b)
  <2>1. \A x \in {a, b} : b <= x
    BY <1>2
  <2> QED BY <1>2, <2>1 DEF Min
<1> QED BY <1>1, <1>2

\* A demand quantile is a quantile of the draws' cumulative demand after as
\* many months as the plan and the simulations have.
Covered(H, months) == IF months <= H THEN months ELSE H

LEMMA DemandQuantileIs ==
    ASSUME NEW H \in Nat \ {0}, NEW D, NEW sims \in Sims(H, D),
           NEW months \in Int, months > 0, NEW q
    PROVE  /\ Covered(H, months) \in 1 .. H
           /\ [b \in D |-> Cum(sims, b, Covered(H, months))] \in [D -> Int]
           /\ cum_demand_quantile(sims, months, q)
                = nanquantile([b \in D |-> Cum(sims, b, Covered(H, months))], q)
<1>1. Horizon(sims) = H
  <2>1. DOMAIN sims = 1 .. H
    BY DEF Sims
  <2>2. Cardinality(1 .. H) = H
    BY FS_Interval
  <2> QED BY <2>1, <2>2 DEF Horizon
<1>2. Draws(sims) = D
  BY 1 \in 1 .. H DEF Sims, Draws
<1>3. Min({months, Horizon(sims)}) = Covered(H, months)
  BY <1>1, MinOfTwo DEF Covered
<1>4. Covered(H, months) \in 1 .. H
  BY DEF Covered
<1>5. \A b \in D : Cum(sims, b, Covered(H, months)) \in Nat
  BY <1>4, CumType
<1>6. ~(months <= 0)
  OBVIOUS
<1> QED BY <1>2, <1>3, <1>4, <1>5, <1>6 DEF cum_demand_quantile

\* What an order has to cover is a quantity and never negative, whatever the
\* simulations are (stockout.py clips them at zero).
THEOREM DemandQuantileIsQuantity ==
    ASSUME NEW H \in Nat \ {0}, NEW D, IsFiniteSet(D), D # {}, NEW sims \in Sims(H, D),
           NEW months \in Int, NEW q \in 0 .. Unit
    PROVE  cum_demand_quantile(sims, months, q) \in Nat
<1>1. CASE months <= 0
  BY <1>1 DEF cum_demand_quantile
<1>2. CASE months > 0
  <2> DEFINE c == Covered(H, months)
             f == [b \in D |-> Cum(sims, b, c)]
  <2>1. f \in [D -> Int] /\ c \in 1 .. H
        /\ cum_demand_quantile(sims, months, q) = nanquantile(f, q)
    BY <1>2, DemandQuantileIs
  <2>2. \A b \in D : f[b] \in Nat
    BY <2>1, CumType
  <2> HIDE DEF f, c
  <2>3. nanquantile(f, q) \in Int /\ \E b \in D : f[b] <= nanquantile(f, q)
    BY <2>1, QuantileAround
  <2> QED BY <2>1, <2>2, <2>3
<1> QED BY <1>1, <1>2

\* A longer cover, a higher target and larger simulations never need less.
THEOREM DemandQuantileIsMonotone ==
    ASSUME NEW H \in Nat \ {0}, NEW D, IsFiniteSet(D), D # {},
           NEW less \in Sims(H, D), NEW more \in Sims(H, D),
           \A i \in 1 .. H, b \in D : NonNeg(less[i][b]) <= NonNeg(more[i][b]),
           NEW m \in Int, NEW n \in Int, m <= n,
           NEW p \in 0 .. Unit, NEW q \in 0 .. Unit, p <= q
    PROVE  cum_demand_quantile(less, m, p) <= cum_demand_quantile(more, n, q)
<1>1. CASE m <= 0
  <2>1. cum_demand_quantile(less, m, p) = 0
    BY <1>1 DEF cum_demand_quantile
  <2>2. cum_demand_quantile(more, n, q) \in Nat
    BY DemandQuantileIsQuantity
  <2> QED BY <2>1, <2>2
<1>2. CASE m > 0
  <2> DEFINE c == Covered(H, m)
             d == Covered(H, n)
             f == [b \in D |-> Cum(less, b, c)]
             g == [b \in D |-> Cum(more, b, d)]
  <2>1. f \in [D -> Int] /\ c \in 1 .. H /\ cum_demand_quantile(less, m, p) = nanquantile(f, p)
    BY <1>2, DemandQuantileIs
  <2>2. g \in [D -> Int] /\ d \in 1 .. H /\ cum_demand_quantile(more, n, q) = nanquantile(g, q)
    <3>1. n > 0
      BY <1>2
    <3> QED BY <3>1, DemandQuantileIs
  <2>3. c <= d
    BY <1>2 DEF Covered
  <2>4. ASSUME NEW b \in D PROVE f[b] <= g[b]
    <3>1. c \in 0 .. H /\ d \in 0 .. H /\ H \in Nat
      BY <2>1, <2>2
    <3> HIDE DEF c, d
    <3>2. Cum(less, b, c) <= Cum(more, b, c)
      BY <3>1, CumFollowsSims
    <3>3. Cum(more, b, c) <= Cum(more, b, d)
      BY <2>3, <3>1, CumGrows
    <3>4. Cum(less, b, c) \in Nat /\ Cum(more, b, c) \in Nat /\ Cum(more, b, d) \in Nat
      BY <3>1, CumType
    <3> QED BY <3>2, <3>3, <3>4
  <2> HIDE DEF f, g, c, d
  <2>5. nanquantile(f, p) <= nanquantile(g, q)
    BY <2>1, <2>2, <2>4, QuantileIsMonotone
  <2> QED BY <2>1, <2>2, <2>5
<1> QED BY <1>1, <1>2

-----------------------------------------------------------------------------
(* Bias correction.                                                        *)

LEMMA DivIsMonotone ==
    ASSUME NEW x \in Int, NEW y \in Int, x <= y, NEW u \in Nat \ {0}
    PROVE  x \div u <= y \div u
<1> DEFINE j == x \div u
           k == y \div u
<1>1. j \in Int /\ j * u <= x
  BY DivBounds
<1>2. k \in Int /\ y < k * u + u
  BY DivBounds
<1> HIDE DEF j, k
<1>3. SUFFICES ASSUME j >= k + 1 PROVE FALSE
  BY <1>1, <1>2 DEF j, k
<1>4. j * u >= (k + 1) * u
  BY <1>1, <1>2, <1>3, SMT
<1>5. (k + 1) * u = k * u + u /\ k * u \in Int /\ j * u \in Int
  BY <1>1, <1>2, SMT
<1> QED BY <1>1, <1>2, <1>4, <1>5

LEMMA ScaledType ==
    ASSUME NEW H, NEW D, NEW sims \in Sims(H, D), NEW factor \in Nat
    PROVE  /\ Scaled(sims, factor) \in Sims(H, D)
           /\ \A i \in 1 .. H, b \in D : /\ sims[i][b] \in Int
                                         /\ Scaled(sims, factor)[i][b]
                                              = (sims[i][b] * factor) \div Unit
<1> USE UnitAssumption
<1>1. \A i \in 1 .. H, b \in D : sims[i][b] \in Int
  BY DEF Sims
<1>2. \A x \in Int : (x * factor) \div Unit \in Int
  <2> SUFFICES ASSUME NEW x \in Int PROVE (x * factor) \div Unit \in Int
    OBVIOUS
  <2>1. x * factor \in Int
    BY SMT
  <2> QED BY <2>1, DivBounds
<1>3. DOMAIN sims = 1 .. H /\ \A i \in 1 .. H : DOMAIN sims[i] = D
  BY DEF Sims
<1>4. Scaled(sims, factor) = [i \in 1 .. H |-> [b \in D |-> (sims[i][b] * factor) \div Unit]]
  BY <1>3 DEF Scaled
<1>5. Scaled(sims, factor) \in Sims(H, D)
  BY <1>1, <1>2, <1>4 DEF Sims
<1> QED BY <1>1, <1>4, <1>5

\* Scaling up by more never makes a month's demand smaller.
LEMMA ScaledIsMonotone ==
    ASSUME NEW H, NEW D, NEW sims \in Sims(H, D), NEW f \in Nat, NEW g \in Nat, f <= g,
           NEW i \in 1 .. H, NEW b \in D
    PROVE  NonNeg(Scaled(sims, f)[i][b]) <= NonNeg(Scaled(sims, g)[i][b])
<1> USE UnitAssumption
<1> DEFINE x == sims[i][b]
           j == (x * f) \div Unit
           k == (x * g) \div Unit
<1>1. x \in Int /\ Scaled(sims, f)[i][b] = j /\ Scaled(sims, g)[i][b] = k
  <2>1. x \in Int /\ Scaled(sims, f)[i][b] = j
    <3> HIDE DEF k
    <3> QED BY ScaledType
  <2>2. Scaled(sims, g)[i][b] = k
    <3> HIDE DEF j
    <3> QED BY ScaledType
  <2> QED BY <2>1, <2>2
<1> HIDE DEF x
<1>2. x * f \in Int /\ x * g \in Int
  BY <1>1, SMT
<1>3. j \in Int /\ k \in Int
  BY <1>2, DivBounds
<1>4. CASE x >= 0
  <2>1. x * f <= x * g
    BY <1>1, <1>4, SMT
  <2>2. j <= k
    BY <1>2, <2>1, DivIsMonotone
  <2> HIDE DEF j, k
  <2> QED BY <1>1, <1>3, <2>2 DEF NonNeg
<1>5. CASE x < 0
  <2>1. x * f <= 0
    BY <1>1, <1>5, SMT
  <2>2. j <= 0 \div Unit
    BY <1>2, <2>1, DivIsMonotone
  <2>3. 0 \div Unit = 0
    BY SMT
  <2> HIDE DEF j, k
  <2> QED BY <1>1, <1>3, <2>2, <2>3 DEF NonNeg
<1> QED BY <1>1, <1>4, <1>5

\* A factor of one changes nothing.
LEMMA ScaledByOne ==
    ASSUME NEW H, NEW D, NEW sims \in Sims(H, D), NEW i \in 1 .. H, NEW b \in D
    PROVE  Scaled(sims, Unit)[i][b] = sims[i][b]
<1> USE UnitAssumption
<1>1. sims[i][b] \in Int /\ Scaled(sims, Unit)[i][b] = (sims[i][b] * Unit) \div Unit
  BY ScaledType
<1>2. \A x \in Int : (x * Unit) \div Unit = x
  <2> SUFFICES ASSUME NEW x \in Int PROVE (x * Unit) \div Unit = x
    OBVIOUS
  <2> DEFINE k == (x * Unit) \div Unit
  <2>1. x * Unit \in Int
    BY SMT
  <2>2. k \in Int /\ k * Unit <= x * Unit /\ x * Unit < k * Unit + Unit
    BY <2>1, DivBounds
  <2> HIDE DEF k
  <2>3. (x - k) * Unit >= 0 /\ (x - k) * Unit < Unit
    <3>1. (x - k) * Unit = x * Unit - k * Unit /\ k * Unit \in Int
      BY <2>2, SMT
    <3> QED BY <2>1, <2>2, <3>1
  <2>4. ASSUME x - k >= 1 PROVE FALSE
    <3>1. (x - k) * Unit >= Unit
      BY <2>2, <2>4, SMT
    <3> QED BY <2>2, <2>3, <3>1, SMT
  <2>5. ASSUME x - k <= -1 PROVE FALSE
    <3>1. (x - k) * Unit <= -Unit
      BY <2>2, <2>5, SMT
    <3> QED BY <2>2, <2>3, <3>1, SMT
  <2>6. x = k
    BY <2>2, <2>4, <2>5
  <2> QED BY <2>6 DEF k
<1> QED BY <1>1, <1>2

-----------------------------------------------------------------------------
(* Risk and order come from the same simulations.                          *)

\* A draw that reaches the stock is counted by the month it does.
LEMMA RiskCounts ==
    ASSUME NEW H \in Nat \ {0}, NEW D, NEW sims \in Sims(H, D), NEW stock \in Int,
           NEW K, NEW b \in D, NEW m \in 1 .. H, m <= K, K \in Int,
           Cum(sims, b, m) >= stock
    PROVE  b \in {x \in Emptied(stock, sims) : tts(stock, sims, x) <= K}
<1> DEFINE R == Reached(stock, sims, b)
<1>1. Draws(sims) = D /\ DOMAIN sims = 1 .. H
  BY 1 \in 1 .. H DEF Sims, Draws
<1>2. m \in R /\ R \subseteq Nat
  BY <1>1 DEF Reached
<1>3. b \in Emptied(stock, sims)
  BY <1>1, <1>2 DEF Emptied
<1> HIDE DEF R
<1>4. \E x \in R : \A y \in R : x <= y
  BY <1>2, LeastNat
<1>5. Min(R) \in R /\ \A y \in R : Min(R) <= y
  BY <1>4 DEF Min
<1>6. tts(stock, sims, b) = Min(R)
  BY DEF tts, R
<1>7. Min(R) <= m /\ Min(R) \in Nat
  BY <1>2, <1>5
<1>8. tts(stock, sims, b) <= K
  BY <1>6, <1>7
<1> QED BY <1>3, <1>8

\* The recommendation is consistent with the risk shown beside it: if no draw
\* runs out of stock within K months, a plan of at most K months needs nothing
\* beyond the stock, at any target, unless the demand was scaled up.
THEOREM NoRiskNoNeed ==
    ASSUME NEW H \in Nat \ {0}, NEW D, IsFiniteSet(D), D # {}, NEW sims \in Sims(H, D),
           NEW stock \in Int, NEW K \in Nat \ {0},
           stockout_probability(stock, sims, K) = 0,
           NEW months \in Int, months <= K, NEW q \in 0 .. Unit,
           NEW factor \in Nat, factor <= Unit
    PROVE  cum_demand_quantile(Scaled(sims, factor), months, q) < stock
<1> USE UnitAssumption
<1> DEFINE Out == {x \in Emptied(stock, sims) : tts(stock, sims, x) <= K}
           more == Scaled(sims, factor)
<1>1. Out = {}
  <2>1. Out \subseteq D
    BY 1 \in 1 .. H DEF Sims, Draws, Emptied
  <2>2. IsFiniteSet(Out)
    BY <2>1, FS_Subset
  <2>3. Cardinality(Out) = 0
    BY DEF stockout_probability
  <2> HIDE DEF Out
  <2> QED BY <2>2, <2>3, FS_EmptySet
<1>2. ASSUME NEW b \in D, NEW m \in 1 .. H, m <= K
      PROVE  Cum(sims, b, m) < stock
  <2>1. Cum(sims, b, m) \in Nat
    BY CumType
  <2>2. ASSUME Cum(sims, b, m) >= stock PROVE FALSE
    <3>1. b \in Out
      BY <1>2, <2>2, RiskCounts, K \in Int
    <3> QED BY <1>1, <3>1
  <2> QED BY <2>1, <2>2
<1>3. stock > 0
  <2>1. PICK b \in D : TRUE
    OBVIOUS
  <2>2. 1 \in 1 .. H /\ 1 <= K
    OBVIOUS
  <2>3. Cum(sims, b, 1) < stock /\ Cum(sims, b, 1) \in Nat
    BY <1>2, <2>2, CumType, 1 \in 0 .. H
  <2> QED BY <2>3
<1>4. CASE months <= 0
  BY <1>3, <1>4 DEF cum_demand_quantile
<1>5. CASE months > 0
  <2> DEFINE c == Covered(H, months)
             f == [b \in D |-> Cum(more, b, c)]
  <2>1. more \in Sims(H, D)
    BY ScaledType
  <2> HIDE DEF more
  <2>2. f \in [D -> Int] /\ c \in 1 .. H
        /\ cum_demand_quantile(more, months, q) = nanquantile(f, q)
    BY <1>5, <2>1, DemandQuantileIs
  <2>3. c <= K /\ c \in 0 .. H
    BY <2>2 DEF Covered
  <2>4. ASSUME NEW b \in D PROVE f[b] < stock
    <3>1. \A i \in 1 .. H : NonNeg(more[i][b]) <= NonNeg(sims[i][b])
      <4> SUFFICES ASSUME NEW i \in 1 .. H PROVE NonNeg(more[i][b]) <= NonNeg(sims[i][b])
        OBVIOUS
      <4>1. NonNeg(Scaled(sims, factor)[i][b]) <= NonNeg(Scaled(sims, Unit)[i][b])
        BY ScaledIsMonotone, Unit \in Nat
      <4>2. Scaled(sims, Unit)[i][b] = sims[i][b]
        BY ScaledByOne
      <4> QED BY <4>1, <4>2 DEF more
    <3>2. Cum(more, b, c) <= Cum(sims, b, c)
      <4> HIDE DEF c
      <4> QED BY <2>1, <2>3, <3>1, CumFollowsSims
    <3>3. Cum(sims, b, c) < stock
      BY <1>2, <2>2, <2>3
    <3>4. Cum(more, b, c) \in Nat /\ Cum(sims, b, c) \in Nat
      <4> HIDE DEF c
      <4> QED BY <2>1, <2>3, CumType
    <3> QED BY <3>2, <3>3, <3>4
  <2> HIDE DEF f, c
  <2>5. nanquantile(f, q) \in Int /\ \E b \in D : nanquantile(f, q) <= f[b]
    BY <2>2, QuantileAround
  <2>6. cum_demand_quantile(more, months, q) < stock
    <3>1. \A b \in D : f[b] \in Int
      BY <2>2
    <3> QED BY <2>2, <2>4, <2>5, <3>1
  <2> QED BY <2>6 DEF more
<1> QED BY <1>4, <1>5
=============================================================================
