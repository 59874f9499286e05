---------------------------- MODULE SeriesProofs ----------------------------
(***************************************************************************)
(* What the search and a recursive forecast see of a series, for windows   *)
(* of any length and any sequence of months.                               *)
(***************************************************************************)
EXTENDS Series, SequenceTheorems, RecursionTheorems

Columns == {"y", "yhat", "orders", "stock", "orders_hat", "stock_hat"}
Vals    == SUBSET (Columns \X Int)

-----------------------------------------------------------------------------
(* The folds of the search (RollingOrigin).                                *)

\* No fold is scored on a month it was trained on or on one before it, from
\* the fifth month of a series on; before that the only fold trains on nothing.
THEOREM FoldsAreSound ==
    ASSUME NEW n \in Nat, n >= 5, NEW fold \in rolling_origin_splits(n)
    PROVE  Sound(fold, n)
<1>1. CASE n < MinTrain + NSplits
  <2>1. fold = ShortFold(n) BY <1>1 DEF rolling_origin_splits
  <2> QED BY <2>1 DEF ShortFold, Fold, Sound
<1>2. CASE ~(n < MinTrain + NSplits)
  <2>1. PICK k \in 1 .. NSplits : fold = FoldFromEnd(n, k) /\ Yielded(fold)
    BY <1>2 DEF rolling_origin_splits
  <2>2. n - k - 2 >= MinTrain
    BY <2>1 DEF FoldFromEnd, Fold, Yielded
  <2>3. k \in Nat /\ k >= 1 /\ MinTrain >= 1 /\ MinTrain \in Nat
    BY SplitsAssumption
  <2> QED BY <2>1, <2>2, <2>3 DEF FoldFromEnd, Fold, Sound
<1> QED BY <1>1, <1>2

\* The newest month is scored by some fold, so the search never runs without
\* a score, provided there are three splits or more (the code has three).
THEOREM NewestMonthIsScored ==
    ASSUME NSplits >= 3, NEW n \in Nat
    PROVE  \E fold \in rolling_origin_splits(n) : fold.end = n
<1>1. CASE n < MinTrain + NSplits
  BY <1>1 DEF rolling_origin_splits, ShortFold, Fold
<1>2. CASE ~(n < MinTrain + NSplits)
  <2>1. FoldFromEnd(n, 1) = [last |-> n - 3, first |-> n - 2, end |-> n]
    BY DEF FoldFromEnd, Fold
  <2>2. Yielded(FoldFromEnd(n, 1))
    BY <1>2, <2>1, SplitsAssumption DEF Yielded
  <2>3. 1 \in 1 .. NSplits BY SplitsAssumption
  <2> QED BY <1>2, <2>1, <2>2, <2>3 DEF rolling_origin_splits
<1> QED BY <1>1, <1>2

\* All the splits are there exactly from MinTrain + NSplits + 2 months on: two
\* months later than the length test lets them start.
THEOREM AllSplits ==
    ASSUME NEW n \in Nat, n >= MinTrain + NSplits
    PROVE  (\A k \in 1 .. NSplits : FoldFromEnd(n, k) \in rolling_origin_splits(n))
               <=> n >= MinTrain + NSplits + 2
<1> DEFINE Y(k) == n - k - 2 >= MinTrain
<1>1. ASSUME NEW k \in 1 .. NSplits
      PROVE  Yielded(FoldFromEnd(n, k)) <=> Y(k)
  BY SplitsAssumption DEF Yielded, FoldFromEnd, Fold
<1>2. ASSUME NEW k \in 1 .. NSplits
      PROVE  FoldFromEnd(n, k) \in rolling_origin_splits(n)
                 <=> Yielded(FoldFromEnd(n, k))
  BY SplitsAssumption DEF rolling_origin_splits
<1>3. (\A k \in 1 .. NSplits : Y(k)) <=> n >= MinTrain + NSplits + 2
  BY SplitsAssumption
<1> HIDE DEF Y
<1> QED BY <1>1, <1>2, <1>3

-----------------------------------------------------------------------------
(* Smoothed levels (Intermittent).                                         *)

\* The weight, the threshold and the months the override looks back.
LEMMA WeightType ==
    /\ AlphaInv \in Nat /\ 2 <= AlphaInv /\ AlphaInv - 1 \in Nat
    /\ EpsInv \in Nat /\ 1 <= EpsInv
    /\ DenseLastN \in Nat /\ 1 <= DenseLastN
BY NearZeroAssumption

\* Products of integers are integers, and grow with what is not negative.
LEMMA ProductGrows ==
    ASSUME NEW a \in Int, NEW b \in Int, NEW c \in Int, a <= b, 0 <= c
    PROVE  /\ a * c \in Int /\ b * c \in Int /\ a * c <= b * c
           /\ c * a = a * c /\ c * b = b * c
<1>1. 0 <= (b - a) * c
  BY SMT
<1>2. (b - a) * c = b * c - a * c
  BY SMT
<1>3. a * c \in Int /\ b * c \in Int
  OBVIOUS
<1> QED BY <1>1, <1>2, <1>3

\* A smoothed level stays between zero and the bound of the level and of what
\* it is moved towards, and keeps both its parts.
LEMMA TowardsStays ==
    ASSUME NEW x \in Int, NEW t \in Int, NEW scale \in Int, NEW top \in Int,
           0 <= x, x <= top * scale, 0 <= t, t <= top, 0 <= scale
    PROVE  /\ Towards(x, t, scale) \in Int
           /\ Towards(x, t, scale) = (AlphaInv - 1) * x + t * scale
           /\ 0 <= (AlphaInv - 1) * x /\ 0 <= t * scale
           /\ Towards(x, t, scale) <= top * (AlphaInv * scale)
<1>1. AlphaInv \in Int /\ 1 <= AlphaInv - 1 /\ AlphaInv - 1 \in Int
  BY WeightType
<1> DEFINE A == AlphaInv - 1
<1>2. AlphaInv * x = A * x + x /\ AlphaInv * scale = A * scale + scale
  BY <1>1
<1> HIDE DEF A
<1>3. A \in Int /\ 1 <= A
  BY <1>1 DEF A
<1>4. t * scale \in Int /\ top * scale \in Int /\ t * scale <= top * scale
  BY ProductGrows
<1>5. A * x \in Int /\ A * (top * scale) \in Int /\ A * x <= A * (top * scale)
  BY <1>3, <1>4, ProductGrows
<1>6. top * (A * scale + scale) = A * (top * scale) + top * scale
  BY <1>3
<1>7. 0 <= A * x /\ 0 <= t * scale
  BY <1>3, <1>4, <1>5, ProductGrows
<1>8. Towards(x, t, scale) = A * x + t * scale
  BY <1>2, <1>3, <1>4, <1>5 DEF Towards
<1> QED BY <1>2, <1>4, <1>5, <1>6, <1>7, <1>8 DEF A

\* A scaled level is all but one part of it and that part.
LEMMA Unscaled ==
    ASSUME NEW x \in Int
    PROVE  AlphaInv * x = x * (AlphaInv - 1) + x /\ AlphaInv * x \in Int /\ x * (AlphaInv - 1) \in Int
<1>1. AlphaInv \in Int
  BY WeightType
<1> QED BY <1>1

InRange(v, bound) == v \in Int /\ 0 <= v /\ v <= bound

\* The same, for levels known by their range.
LEMMA TowardsInRange ==
    ASSUME NEW x, NEW t, NEW scale \in Int, NEW top \in Int,
           InRange(x, top * scale), InRange(t, top), 0 <= scale
    PROVE  InRange(Towards(x, t, scale), top * (AlphaInv * scale))
<1>1. x \in Int /\ t \in Int /\ 0 <= x /\ x <= top * scale /\ 0 <= t /\ t <= top
  BY DEF InRange
<1>2. /\ Towards(x, t, scale) \in Int
      /\ Towards(x, t, scale) = (AlphaInv - 1) * x + t * scale
      /\ 0 <= (AlphaInv - 1) * x /\ 0 <= t * scale
      /\ Towards(x, t, scale) <= top * (AlphaInv * scale)
  BY <1>1, TowardsStays
<1>3. (AlphaInv - 1) * x \in Int /\ t * scale \in Int
  BY <1>1, WeightType
<1>4. 0 <= Towards(x, t, scale)
  BY <1>2, <1>3
<1> QED BY <1>2, <1>4 DEF InRange

\* And it keeps all of what it is moved towards, and all but one part of
\* what it was.
LEMMA TowardsKeeps ==
    ASSUME NEW x, NEW t, NEW scale \in Int, NEW top \in Int,
           InRange(x, top * scale), InRange(t, top), 0 <= scale
    PROVE  /\ Towards(x, t, scale) \in Int
           /\ InRange(t * scale, Towards(x, t, scale))
           /\ InRange((AlphaInv - 1) * x, Towards(x, t, scale))
<1>1. x \in Int /\ t \in Int /\ 0 <= x /\ x <= top * scale /\ 0 <= t /\ t <= top
  BY DEF InRange
<1>2. /\ Towards(x, t, scale) \in Int
      /\ Towards(x, t, scale) = (AlphaInv - 1) * x + t * scale
      /\ 0 <= (AlphaInv - 1) * x /\ 0 <= t * scale
  BY <1>1, TowardsStays
<1>3. (AlphaInv - 1) * x \in Int /\ t * scale \in Int
  BY <1>1, WeightType
<1> QED BY <1>2, <1>3 DEF InRange

CrostonStates(top) ==
    {s \in [z : Int, p : Int, q : Int, init : BOOLEAN, scale : Int] :
        /\ 1 <= s.scale /\ 1 <= s.q
        /\ 0 <= s.z /\ s.z <= top * s.scale
        /\ s.init => s.scale <= s.p}

TsbStates(top) ==
    {s \in [z : Int, p : Int, init : BOOLEAN, scale : Int] :
        /\ 1 <= s.scale
        /\ 0 <= s.z /\ s.z <= top * s.scale
        /\ 0 <= s.p /\ s.p <= s.scale}

NoCroston == [z |-> 0, p |-> 0, q |-> 1, init |-> FALSE, scale |-> 1]
NoTsb == [z |-> 0, p |-> 0, init |-> FALSE, scale |-> 1]

\* A level scaled by one more power of AlphaInv.
LEMMA ScaledUp ==
    ASSUME NEW x \in Int, NEW b \in Int, 0 <= x, x <= b
    PROVE  /\ AlphaInv * x \in Int /\ AlphaInv * b \in Int
           /\ 0 <= AlphaInv * x /\ AlphaInv * x <= AlphaInv * b /\ x <= AlphaInv * x
<1>1. AlphaInv \in Int /\ 1 <= AlphaInv
  BY WeightType
<1>2. x * AlphaInv <= b * AlphaInv /\ x * AlphaInv = AlphaInv * x /\ b * AlphaInv = AlphaInv * b
  BY <1>1, ProductGrows
<1>3. 1 * x <= AlphaInv * x
  BY <1>1, ProductGrows
<1> QED BY <1>1, <1>2, <1>3

\* A month of Croston keeps the level in range, and the interval at least one.
LEMMA CrostonMonthStays ==
    ASSUME NEW top \in Nat, NEW s \in CrostonStates(top), NEW x \in Nat, x <= top
    PROVE  CrostonMonth(s, x) \in CrostonStates(top)
<1> DEFINE u == CrostonMonth(s, x)
           scale == AlphaInv * s.scale
<1>1. /\ s \in [z : Int, p : Int, q : Int, init : BOOLEAN, scale : Int]
      /\ s.z \in Int /\ s.p \in Int /\ s.q \in Int /\ s.scale \in Int
      /\ 1 <= s.scale /\ 1 <= s.q /\ 0 <= s.z /\ s.z <= top * s.scale
      /\ s.init \in BOOLEAN /\ (s.init => s.scale <= s.p)
      /\ top * s.scale \in Int /\ top \in Int /\ x \in Int
  BY DEF CrostonStates
<1>2. scale \in Int /\ 1 <= scale
  BY <1>1, ScaledUp
<1>3. CASE ~(x > 0)
  <2>1. u = [s EXCEPT !.z = AlphaInv * @, !.p = AlphaInv * @, !.q = @ + 1,
                      !.scale = AlphaInv * @]
    BY <1>3 DEF CrostonMonth
  <2>2. u = [z |-> AlphaInv * s.z, p |-> AlphaInv * s.p, q |-> s.q + 1, init |-> s.init,
             scale |-> scale]
    BY <1>1, <2>1
  <2>3. AlphaInv * s.z \in Int /\ 0 <= AlphaInv * s.z /\ AlphaInv * s.z <= AlphaInv * (top * s.scale)
    BY <1>1, ScaledUp
  <2>4. AlphaInv * (top * s.scale) = top * scale
    BY <1>1, WeightType
  <2>5. AlphaInv * s.p \in Int /\ (s.init => scale <= AlphaInv * s.p)
    BY <1>1, ScaledUp, WeightType
  <2> HIDE DEF u, scale
  <2> QED BY <1>1, <1>2, <2>2, <2>3, <2>4, <2>5 DEF CrostonStates, u
<1>4. CASE x > 0 /\ ~s.init
  <2>1. u = [z |-> scale * x, p |-> scale * s.q, q |-> 1, init |-> TRUE, scale |-> scale]
    BY <1>4 DEF CrostonMonth
  <2> HIDE DEF u, scale
  <2>2. scale * x \in Int /\ 0 <= scale * x /\ scale * x <= top * scale
    BY <1>1, <1>2, ProductGrows
  <2>3. scale * s.q \in Int /\ 1 * scale <= scale * s.q
    BY <1>1, <1>2, ProductGrows
  <2> QED BY <1>2, <2>1, <2>2, <2>3 DEF CrostonStates, u
<1>5. CASE x > 0 /\ s.init
  <2> DEFINE p == Towards(s.p, s.q, s.scale)
             z == Towards(s.z, x, s.scale)
  <2>1. u = [z |-> z, p |-> p, q |-> 1, init |-> TRUE, scale |-> scale]
    BY <1>5 DEF CrostonMonth
  <2>2. z \in Int /\ 0 <= z /\ z <= top * scale
    <3>1. InRange(s.z, top * s.scale) /\ InRange(x, top) /\ 0 <= s.scale
      BY <1>1 DEF InRange
    <3>2. InRange(z, top * scale)
      BY <1>1, <3>1, TowardsInRange
    <3> QED BY <3>2 DEF InRange
  <2>3. p \in Int /\ scale <= p
    <3>1. AlphaInv - 1 \in Int /\ 0 <= AlphaInv - 1
      BY WeightType
    <3>2. s.scale * (AlphaInv - 1) <= s.p * (AlphaInv - 1) /\ 1 * s.scale <= s.q * s.scale
      BY <1>1, <1>5, <3>1, ProductGrows
    <3>3. p = s.p * (AlphaInv - 1) + s.q * s.scale
      BY <3>1, <1>1, WeightType, Unscaled DEF Towards
    <3>5. scale = s.scale * (AlphaInv - 1) + s.scale
      BY <1>1, Unscaled
    <3>4. /\ s.scale * (AlphaInv - 1) \in Int /\ s.p * (AlphaInv - 1) \in Int
          /\ s.q * s.scale \in Int
      BY <1>1, <3>1
    <3> HIDE DEF p, scale
    <3> QED BY <1>1, <3>2, <3>3, <3>4, <3>5
  <2> HIDE DEF u, scale, p, z
  <2> QED BY <1>2, <2>1, <2>2, <2>3 DEF CrostonStates, u
<1> QED BY <1>1, <1>3, <1>4, <1>5

\* A month of TSB keeps the level in range, and the probability at most one.
LEMMA TsbMonthStays ==
    ASSUME NEW top \in Nat, NEW s \in TsbStates(top), NEW x \in Nat, x <= top
    PROVE  TsbMonth(s, x) \in TsbStates(top)
<1> DEFINE u == TsbMonth(s, x)
           scale == AlphaInv * s.scale
           occ == IF x > 0 THEN 1 ELSE 0
           p == Towards(s.p, occ, s.scale)
           z == IF x > 0 THEN Towards(s.z, x, s.scale) ELSE AlphaInv * s.z
<1>1. /\ s \in [z : Int, p : Int, init : BOOLEAN, scale : Int]
      /\ s.z \in Int /\ s.p \in Int /\ s.scale \in Int
      /\ 1 <= s.scale /\ 0 <= s.z /\ s.z <= top * s.scale
      /\ 0 <= s.p /\ s.p <= s.scale
      /\ s.init \in BOOLEAN /\ top * s.scale \in Int /\ top \in Int /\ x \in Int
  BY DEF TsbStates
<1>2. scale \in Int /\ 1 <= scale
  BY <1>1, ScaledUp
<1>3. CASE ~s.init
  <2>1. u = [z |-> IF x > 0 THEN x ELSE 0, p |-> occ, init |-> TRUE, scale |-> 1]
    BY <1>3 DEF TsbMonth
  <2> HIDE DEF u
  <2> QED BY <1>1, <2>1 DEF TsbStates, u
<1>4. CASE s.init
  <2>1. u = [s EXCEPT !.p = p, !.scale = AlphaInv * @,
                      !.z = IF x > 0 THEN Towards(@, x, s.scale) ELSE AlphaInv * @]
    BY <1>4 DEF TsbMonth
  <2>2. u = [z |-> z, p |-> p, init |-> s.init, scale |-> scale]
    BY <1>1, <2>1
  <2>3. z \in Int /\ 0 <= z /\ z <= top * scale
    <3>1. CASE x > 0
      <4>1. InRange(s.z, top * s.scale) /\ InRange(x, top) /\ 0 <= s.scale
        BY <1>1 DEF InRange
      <4>2. InRange(Towards(s.z, x, s.scale), top * scale)
        BY <1>1, <4>1, TowardsInRange
      <4> QED BY <3>1, <4>2 DEF InRange
    <3>2. CASE ~(x > 0)
      <4>1. z = AlphaInv * s.z
        BY <3>2
      <4>2. /\ AlphaInv * s.z \in Int /\ 0 <= AlphaInv * s.z
            /\ AlphaInv * s.z <= AlphaInv * (top * s.scale)
        BY <1>1, ScaledUp
      <4>3. AlphaInv * (top * s.scale) = top * scale
        BY <1>1, WeightType
      <4> HIDE DEF z, scale
      <4> QED BY <4>1, <4>2, <4>3
    <3> QED BY <3>1, <3>2
  <2>4. p \in Int /\ 0 <= p /\ p <= scale
    <3>1. InRange(s.p, 1 * s.scale) /\ InRange(occ, 1) /\ 0 <= s.scale
      BY <1>1 DEF InRange
    <3> HIDE DEF occ
    <3>2. InRange(p, 1 * scale)
      BY <1>1, <3>1, TowardsInRange
    <3> HIDE DEF p, scale
    <3> QED BY <1>2, <3>2 DEF InRange
  <2> HIDE DEF u, scale, p, z
  <2> QED BY <1>1, <1>2, <2>2, <2>3, <2>4 DEF TsbStates, u
<1> QED BY <1>1, <1>3, <1>4

\* The levels of Croston and of TSB are functions of the month, and in range.
LEMMA CrostonLevelsUnfold ==
    ASSUME NEW top \in Nat, NEW h \in Seq(0 .. top)
    PROVE  CrostonLevels(h)[Len(h)] \in CrostonStates(top)
<1> DEFINE n == Len(h)
           S == CrostonStates(top)
           step == [i \in 1 .. n |-> [s \in S |-> CrostonMonth(s, h[i])]]
           eqs(f) == f = [i \in 0 .. n |-> IF i = 0 THEN NoCroston
                                           ELSE CrostonMonth(f[i - 1], h[i])]
<1>1. n \in Nat /\ \A i \in 1 .. n : h[i] \in Nat /\ h[i] <= top
  OBVIOUS
<1>2. NoCroston \in S
  BY DEF NoCroston, CrostonStates
<1>3. \A i \in 1 .. n, s \in S : CrostonMonth(s, h[i]) \in S
  BY <1>1, CrostonMonthStays
<1> HIDE DEF n, S
<1>4. \A i \in 1 .. n, s \in S : step[i][s] \in S
  BY <1>3
<1>5. PICK f \in [0 .. n -> S] : Follows(f, n, NoCroston, step)
  <2> HIDE DEF step
  <2> QED BY <1>1, <1>2, <1>4, RecursionUpTo
<1>6. eqs(f)
  <2>1. ASSUME NEW i \in 1 .. n PROVE f[i] = CrostonMonth(f[i - 1], h[i])
    <3>1. i - 1 \in 0 .. n /\ f[i - 1] \in S
      BY <1>1
    <3> QED BY <1>5, <3>1 DEF Follows
  <2> QED BY <1>5, <2>1 DEF Follows
<1>7. PICK c : c = (CHOOSE g : eqs(g))
  OBVIOUS
<1>8. eqs(c)
  BY <1>6, <1>7
<1>9. CrostonLevels(h) = c
  BY <1>7 DEF CrostonLevels, NoCroston, n
<1>10. c[0] \in S
  BY <1>1, <1>2, <1>8, 0 \in 0 .. n
<1>11. \A i \in 1 .. n : c[i - 1] \in S => c[i] \in S
  BY <1>1, <1>3, <1>8
<1> HIDE DEF eqs
<1>12. \A i \in 0 .. n : c[i] \in S
  BY <1>1, <1>10, <1>11, StaysIn
<1> QED BY <1>1, <1>9, <1>12 DEF n, S

\* TSB's level after each month of h.
TsbFollows(t, h) ==
    t[0] = NoTsb /\ \A i \in 1 .. Len(h) : t[i] = TsbMonth(t[i - 1], h[i])

\* The same for TSB.
LEMMA TsbLevelsUnfold ==
    ASSUME NEW top \in Nat, NEW h \in Seq(0 .. top)
    PROVE  /\ TsbFollows(TsbLevels(h), h)
           /\ \A i \in 0 .. Len(h) : TsbLevels(h)[i] \in TsbStates(top)
<1> DEFINE n == Len(h)
           S == TsbStates(top)
           step == [i \in 1 .. n |-> [s \in S |-> TsbMonth(s, h[i])]]
           eqs(f) == f = [i \in 0 .. n |-> IF i = 0 THEN NoTsb ELSE TsbMonth(f[i - 1], h[i])]
<1>1. n \in Nat /\ \A i \in 1 .. n : h[i] \in Nat /\ h[i] <= top
  OBVIOUS
<1>2. NoTsb \in S
  BY DEF NoTsb, TsbStates
<1>3. \A i \in 1 .. n, s \in S : TsbMonth(s, h[i]) \in S
  BY <1>1, TsbMonthStays
<1> HIDE DEF n, S
<1>4. \A i \in 1 .. n, s \in S : step[i][s] \in S
  BY <1>3
<1>5. PICK f \in [0 .. n -> S] : Follows(f, n, NoTsb, step)
  <2> HIDE DEF step
  <2> QED BY <1>1, <1>2, <1>4, RecursionUpTo
<1>6. eqs(f)
  <2>1. ASSUME NEW i \in 1 .. n PROVE f[i] = TsbMonth(f[i - 1], h[i])
    <3>1. i - 1 \in 0 .. n /\ f[i - 1] \in S
      BY <1>1
    <3> QED BY <1>5, <3>1 DEF Follows
  <2> QED BY <1>5, <2>1 DEF Follows
<1>7. PICK c : c = (CHOOSE g : eqs(g))
  OBVIOUS
<1>8. eqs(c)
  BY <1>6, <1>7
<1>9. TsbLevels(h) = c
  BY <1>7 DEF TsbLevels, NoTsb, n
<1>10. c[0] = NoTsb
  BY <1>1, <1>8, 0 \in 0 .. n
<1>11. \A i \in 1 .. n : c[i] = TsbMonth(c[i - 1], h[i])
  BY <1>1, <1>8
<1> HIDE DEF eqs
<1>12. c[0] \in S /\ \A i \in 1 .. n : c[i - 1] \in S => c[i] \in S
  BY <1>2, <1>3, <1>10, <1>11
<1>13. \A i \in 0 .. n : c[i] \in S
  BY <1>1, <1>12, StaysIn
<1> QED BY <1>9, <1>10, <1>11, <1>13 DEF TsbFollows, n, S

\* A finite set of integers has a largest one, which is what Max is.
LEMMA MaxOfFinite ==
    ASSUME NEW D, IsFiniteSet(D), D \subseteq Int, D # {}
    PROVE  Max(D) \in D /\ \A x \in D : x <= Max(D)
<1> DEFINE Top(s) == \E m \in s : \A x \in s : x <= m
           A == {s \in SUBSET D : s # {} => Top(s)}
<1>1. {} \in A
  OBVIOUS
<1>2. ASSUME NEW s \in SUBSET D, s # {}
      PROVE  \E v \in s : s \ {v} \in A => s \in A
  <2>1. PICK v \in s : TRUE
    BY <1>2
  <2>2. ASSUME s \ {v} \in A PROVE Top(s)
    <3>1. CASE s \ {v} = {}
      BY <2>1, <3>1
    <3>2. CASE s \ {v} # {}
      <4>1. PICK m \in s \ {v} : \A x \in s \ {v} : x <= m
        BY <2>2, <3>2
      <4>2. v \in Int /\ m \in Int /\ \A x \in s : x \in Int
        OBVIOUS
      <4>3. CASE v <= m
        BY <4>1, <4>2, <4>3
      <4>4. CASE m <= v
        BY <4>1, <4>2, <4>4
      <4> QED BY <4>2, <4>3, <4>4
    <3> QED BY <3>1, <3>2
  <2> QED BY <2>2
<1> HIDE DEF A
<1>3. D \in A
  BY <1>1, <1>2, AllSubsets
<1>4. PICK m \in D : \A x \in D : x <= m
  BY <1>3 DEF A
<1>5. Max(D) = CHOOSE m2 \in D : \A x \in D : m2 >= x
  BY DEF Max
<1>6. \A x \in D : m >= x
  BY <1>4
<1>7. Max(D) \in D /\ \A x \in D : Max(D) >= x
  BY <1>5, <1>6
<1> QED BY <1>7

\* The largest month sold.
LEMMA LargestMonth ==
    ASSUME NEW h \in Seq(Nat)
    PROVE  LET top == Max({0} \cup {h[i] : i \in DOMAIN h})
           IN top \in Nat /\ h \in Seq(0 .. top)
<1> DEFINE D == {0} \cup {h[i] : i \in DOMAIN h}
<1>1. D \subseteq Nat /\ D \subseteq Int /\ 0 \in D /\ \A i \in 1 .. Len(h) : h[i] \in D
  OBVIOUS
<1>2. IsFiniteSet(D)
  <2> DEFINE T == {h[i] : i \in DOMAIN h}
  <2>1. IsFiniteSet(DOMAIN h)
    <3>1. DOMAIN h = 1 .. Len(h) /\ Len(h) \in Int
      OBVIOUS
    <3> QED BY <3>1, FS_Interval
  <2>2. h \in Surjection(DOMAIN h, T)
    <3>1. h \in [DOMAIN h -> T]
      OBVIOUS
    <3> QED BY <3>1 DEF Surjection
  <2>3. IsFiniteSet(T)
    BY <2>1, <2>2, FS_Surjection
  <2> QED BY <2>3, FS_Singleton, FS_Union
<1> HIDE DEF D
<1>3. Max(D) \in D /\ \A x \in D : x <= Max(D)
  BY <1>1, <1>2, MaxOfFinite
<1>4. Max(D) \in Nat /\ \A i \in 1 .. Len(h) : h[i] \in 0 .. Max(D)
  <2> DEFINE m == Max(D)
  <2>1. m \in Nat /\ \A x \in D : x <= m
    BY <1>1, <1>3
  <2> HIDE DEF m
  <2>2. \A i \in 1 .. Len(h) : h[i] \in Nat /\ h[i] <= m
    BY <1>1, <2>1
  <2>3. \A i \in 1 .. Len(h) : h[i] \in 0 .. m
    BY <2>1, <2>2
  <2> QED BY <2>1, <2>3 DEF m
<1>5. h \in Seq(0 .. Max(D))
  BY <1>4
<1> QED BY <1>4, <1>5 DEF D

\* The levels the forecasts are made from stay in range.
LEMMA ForecastsStayInRange ==
    ASSUME NEW h \in Seq(Nat)
    PROVE  LET top == Max({0} \cup {h[i] : i \in DOMAIN h})
               croston == predict_intermittent(h, "Croston")
               sba == predict_intermittent(h, "SBA")
           IN /\ \A method \in {"Croston", "SBA", "TSB"} :
                    LET f == predict_intermittent(h, method)
                    IN f.den > 0 /\ 0 <= f.num /\ f.num <= top * f.den
              /\ sba.num * croston.den <= croston.num * sba.den
<1> DEFINE top == Max({0} \cup {h[i] : i \in DOMAIN h})
           c == CrostonLevels(h)[Len(h)]
           t == TsbLevels(h)[Len(h)]
           croston == croston_forecast(h)
           sba == sba_forecast(h)
           tsb == tsb_forecast(h)
<1>1. top \in Nat /\ h \in Seq(0 .. top)
  BY LargestMonth
<1>2. /\ predict_intermittent(h, "Croston") = croston
      /\ predict_intermittent(h, "SBA") = sba
      /\ predict_intermittent(h, "TSB") = tsb
  BY DEF predict_intermittent
<1> HIDE DEF top
<1>3. c \in CrostonStates(top)
  BY <1>1, CrostonLevelsUnfold
<1>4. t \in TsbStates(top)
  <2>1. Len(h) \in 0 .. Len(h)
    BY <1>1
  <2> QED BY <1>1, <2>1, TsbLevelsUnfold
<1>5. /\ croston.num \in Int /\ croston.den \in Int
      /\ 0 < croston.den /\ 0 <= croston.num /\ croston.num <= top * croston.den
  <2> HIDE DEF c
  <2>1. CASE ~c.init \/ c.p <= 0
    <3>1. croston = [num |-> 0, den |-> 1]
      BY <2>1 DEF croston_forecast, c
    <3> QED BY <1>1, <3>1
  <2>2. CASE ~(~c.init \/ c.p <= 0)
    <3>1. croston = [num |-> c.z, den |-> c.p]
      BY <2>2 DEF croston_forecast, c
    <3>2. /\ c.z \in Int /\ c.p \in Int /\ c.scale \in Int /\ top \in Int /\ 0 <= top
          /\ 1 <= c.scale /\ c.scale <= c.p /\ 0 <= c.z /\ c.z <= top * c.scale
      BY <1>1, <1>3, <2>2 DEF CrostonStates
    <3>3. top * c.scale <= top * c.p /\ top * c.scale \in Int /\ top * c.p \in Int
      BY <3>2, ProductGrows
    <3> QED BY <3>1, <3>2, <3>3
  <2> QED BY <2>1, <2>2
<1> HIDE DEF croston
<1>6. LET k == 2 * AlphaInv - 1
      IN /\ sba = [num |-> croston.num * k, den |-> croston.den * 2 * AlphaInv]
         /\ k \in Int /\ 0 <= k /\ k <= 2 * AlphaInv /\ 2 * AlphaInv \in Int
         /\ croston.den * 2 * AlphaInv = croston.den * (2 * AlphaInv)
  BY <1>5, WeightType DEF sba_forecast, croston
<1> DEFINE k == 2 * AlphaInv - 1
           m == 2 * AlphaInv
<1>7. /\ sba.num = croston.num * k /\ sba.den = croston.den * m
      /\ k \in Int /\ 0 <= k /\ k <= m /\ m \in Int /\ 1 <= m
  BY <1>6, WeightType
<1> HIDE DEF sba, k, m
<1> DEFINE N == croston.num
           D == croston.den
<1>a. N \in Int /\ D \in Int /\ top * D \in Int /\ 0 <= N /\ 0 <= D /\ 0 <= m
      /\ N <= top * D /\ k \in Int /\ m \in Int /\ 0 <= k /\ k <= m /\ 1 <= m
  BY <1>1, <1>5, <1>7
<1>8. /\ N * k \in Int /\ N * m \in Int /\ 0 <= N * k /\ N * k <= N * m
      /\ D <= D * m /\ D * m \in Int
      /\ N * m <= (top * D) * m
  <2>1. 0 * k <= N * k /\ N * k \in Int
    BY <1>a, ProductGrows
  <2>2. N * k <= N * m /\ N * m \in Int
    BY <1>a, ProductGrows
  <2>3. 1 * D <= D * m /\ D * m \in Int
    BY <1>a, ProductGrows
  <2>4. N * m <= (top * D) * m
    BY <1>a, ProductGrows
  <2> QED BY <1>a, <2>1, <2>2, <2>3, <2>4
<1>9. top \in Int /\ (top * D) * m = top * (D * m)
  BY <1>1, <1>5, <1>7
<1>10. sba.den > 0 /\ 0 <= sba.num /\ sba.num <= top * sba.den
  <2>1. (top * D) * m \in Int
    BY <1>a
  <2>2. N * k <= top * (D * m) /\ D * m > 0
    BY <1>5, <1>8, <1>9, <2>1
  <2> QED BY <1>7, <1>8, <2>2
<1>11. sba.num * croston.den <= croston.num * sba.den
  <2>1. (N * k) * D <= (N * m) * D
    BY <1>5, <1>8, ProductGrows
  <2>2. (N * m) * D = N * (D * m)
    BY <1>5, <1>7
  <2> QED BY <1>7, <2>1, <2>2
<1>12. tsb.den > 0 /\ 0 <= tsb.num /\ tsb.num <= top * tsb.den
  <2> DEFINE s == t.scale
  <2>1. tsb = [num |-> t.z * t.p, den |-> s * s]
    BY DEF tsb_forecast
  <2>2. /\ t.z \in Int /\ t.p \in Int /\ s \in Int /\ top \in Int
        /\ 1 <= s /\ 0 <= t.z /\ t.z <= top * s /\ 0 <= t.p /\ t.p <= s
        /\ top * s \in Int /\ 0 <= s
    BY <1>1, <1>4 DEF TsbStates
  <2> HIDE DEF t, s
  <2>3. 1 * s <= s * s /\ s * s \in Int
    BY <2>2, ProductGrows
  <2>4. 0 * t.p <= t.z * t.p /\ t.z * t.p <= t.z * s /\ t.z * s <= (top * s) * s
        /\ t.z * t.p \in Int /\ t.z * s \in Int /\ (top * s) * s \in Int
    BY <2>2, ProductGrows
  <2>5. (top * s) * s = top * (s * s)
    BY <2>2
  <2> QED BY <2>1, <2>2, <2>3, <2>4, <2>5
<1>13. croston.den > 0 /\ 0 <= croston.num /\ croston.num <= top * croston.den
  BY <1>1, <1>5
<1> HIDE DEF tsb
<1> QED BY <1>2, <1>10, <1>11, <1>12, <1>13 DEF top

-----------------------------------------------------------------------------
(* The selector.                                                           *)

\* A sum of values of at least one is at least their number.
LEMMA SumOfPositives ==
    ASSUME NEW L, IsFiniteSet(L), \A g \in L : g[2] \in Nat /\ g[2] >= 1
    PROVE  /\ MapThenSumSet(LAMBDA g : g[2], L) \in Nat
           /\ MapThenSumSet(LAMBDA g : g[2], L) >= Cardinality(L)
<1> DEFINE pick == [s \in SUBSET L |-> CHOOSE x \in s : TRUE]
           step == [x \in L |-> [v \in Nat |-> x[2] + v]]
           eqs(f) == f = [s \in SUBSET L |-> IF s = {} THEN 0
                                             ELSE LET x == CHOOSE x \in s : TRUE
                                                  IN  x[2] + f[s \ {x}]]
<1>1. PicksOne(pick, L)
  BY DEF PicksOne
<1>2. step \in [L -> [Nat -> Nat]]
  OBVIOUS
<1>3. PICK f \in [SUBSET L -> Nat] : FollowsPicks(f, L, 0, pick, step)
  <2>1. 0 \in Nat
    OBVIOUS
  <2> HIDE DEF pick, step
  <2> QED BY <1>1, <1>2, <2>1, RecursionOverSubsets
<1>4. ASSUME NEW s \in SUBSET L, s # {}
      PROVE  f[s] = pick[s][2] + f[s \ {pick[s]}]
  <2>1. f[s] = step[pick[s]][f[s \ {pick[s]}]]
    BY <1>3, <1>4 DEF FollowsPicks
  <2>2. pick[s] \in L /\ s \ {pick[s]} \in SUBSET L
    BY <1>1, <1>4 DEF PicksOne
  <2> HIDE DEF pick
  <2>3. f[s \ {pick[s]}] \in Nat
    BY <2>2
  <2> QED BY <2>1, <2>2, <2>3
<1>5. eqs(f)
  <2>1. f[{}] = 0
    BY <1>3 DEF FollowsPicks
  <2>2. ASSUME NEW s \in SUBSET L
        PROVE  f[s] = IF s = {} THEN 0 ELSE LET x == CHOOSE x \in s : TRUE
                                            IN  x[2] + f[s \ {x}]
    <3>1. s # {} => pick[s] = CHOOSE x \in s : TRUE
      OBVIOUS
    <3> HIDE DEF pick
    <3> QED BY <1>4, <2>1, <3>1
  <2> QED BY <1>3, <2>2
<1>6. PICK c : c = (CHOOSE g : eqs(g))
  OBVIOUS
<1>7. eqs(c)
  <2> HIDE DEF eqs
  <2> QED BY <1>5, <1>6
<1>8. MapThenSumSet(LAMBDA g : g[2], L) = c[L]
  BY <1>6 DEF MapThenSumSet, MapThenFoldSet
<1> DEFINE A == {s \in SUBSET L : c[s] \in Nat /\ c[s] >= Cardinality(s)}
<1>9. {} \in A
  BY <1>7, FS_EmptySet
<1>10. ASSUME NEW s \in SUBSET L, s # {}
       PROVE  \E x \in s : s \ {x} \in A => s \in A
  <2> DEFINE x == CHOOSE x \in s : TRUE
  <2>1. x \in s /\ c[s] = x[2] + c[s \ {x}]
    BY <1>7, <1>10
  <2> HIDE DEF x
  <2>2. IsFiniteSet(s) /\ Cardinality(s) \in Nat
    BY FS_Subset, FS_CardinalityType
  <2>3. Cardinality(s \ {x}) = Cardinality(s) - 1
    BY <2>1, <2>2, FS_RemoveElement
  <2>4. x[2] \in Nat /\ x[2] >= 1
    BY <2>1
  <2> HIDE DEF eqs
  <2>5. s \ {x} \in A => s \in A
    BY <2>1, <2>2, <2>3, <2>4
  <2> QED BY <2>1, <2>5
<1> HIDE DEF A, eqs
<1>11. L \in A
  BY <1>9, <1>10, AllSubsets
<1> QED BY <1>8, <1>11 DEF A

\* The last sale before month i, or zero.
LastSale(h, i) == Max({0} \cup {j \in Sold(h) : j < i})

\* It is the largest of the months with a sale before i.
LEMMA LastSaleBefore ==
    ASSUME NEW h \in Seq(Nat), NEW i \in 1 .. Len(h) + 1
    PROVE  /\ LastSale(h, i) \in 0 .. i - 1
           /\ LastSale(h, i) = 0 \/ LastSale(h, i) \in Sold(h)
           /\ \A j \in Sold(h) : j < i => j <= LastSale(h, i)
<1> DEFINE D == {0} \cup {j \in Sold(h) : j < i}
<1>1. Len(h) \in Nat /\ DOMAIN h = 1 .. Len(h)
  OBVIOUS
<1>2. D \subseteq 0 .. Len(h) /\ D \subseteq Int /\ D # {}
  BY <1>1 DEF Sold
<1>3. IsFiniteSet(D)
  <2>1. IsFiniteSet(0 .. Len(h))
    BY <1>1, FS_Interval
  <2> QED BY <1>2, <2>1, FS_Subset
<1>4. LastSale(h, i) = Max(D)
  BY DEF LastSale
<1> HIDE DEF D
<1>5. Max(D) \in D /\ \A x \in D : x <= Max(D)
  BY <1>2, <1>3, MaxOfFinite
<1> DEFINE m == LastSale(h, i)
<1>6. m \in D /\ \A x \in D : x <= m
  BY <1>4, <1>5
<1> HIDE DEF m
<1>7. m \in 0 .. i - 1 /\ (m = 0 \/ m \in Sold(h)) /\ \A j \in Sold(h) : j < i => j <= m
  BY <1>1, <1>6 DEF D, Sold
<1> QED BY <1>7 DEF m

Stops(h) == Sold(h) \cup {Len(h) + 1}

\* The gaps are a finite set of stops with the months before each.
LEMMA GapsAreFinite ==
    ASSUME NEW h \in Seq(Nat)
    PROVE  /\ Gaps(h) = {<<i, i - 1 - LastSale(h, i)>> : i \in Stops(h)}
           /\ Stops(h) \subseteq 1 .. Len(h) + 1
           /\ IsFiniteSet(Gaps(h)) /\ IsFiniteSet(LongGaps(h))
<1>1. Gaps(h) = {<<i, i - 1 - LastSale(h, i)>> : i \in Stops(h)}
  BY DEF Gaps, LastSale, Stops
<1>2. Stops(h) \subseteq 1 .. Len(h) + 1 /\ Len(h) \in Nat
  BY DEF Stops, Sold
<1>3. IsFiniteSet(Stops(h))
  <2>1. IsFiniteSet(1 .. Len(h) + 1)
    BY <1>2, FS_Interval
  <2> QED BY <1>2, <2>1, FS_Subset
<1> DEFINE f == [i \in Stops(h) |-> <<i, i - 1 - LastSale(h, i)>>]
<1>4. f \in Surjection(Stops(h), Gaps(h))
  BY <1>1 DEF Surjection
<1>5. IsFiniteSet(Gaps(h))
  BY <1>3, <1>4, FS_Surjection
<1>6. LongGaps(h) \subseteq Gaps(h)
  BY DEF LongGaps
<1> QED BY <1>1, <1>2, <1>5, <1>6, FS_Subset

\* One month without a sale makes a series intermittent, however long it is and
\* however often it sells, and a series that sells every month is none: the mean
\* compared with 1.32 leaves out the empty gaps (select_intermittent).
THEOREM SelectorFindsAGap ==
    ASSUME NEW h \in Seq(Nat), Len(h) > 0
    PROVE  select_intermittent(h) <=> \E i \in DOMAIN h : h[i] = 0
<1>1. Len(h) \in Nat /\ DOMAIN h = 1 .. Len(h)
  OBVIOUS
<1>2. \A i \in 1 .. Len(h) : i \in Sold(h) <=> h[i] # 0
  BY DEF Sold
<1>3. ASSUME NEW i0 \in 1 .. Len(h), h[i0] = 0, Sold(h) # {}
      PROVE  HighADI(h)
  <2> DEFINE Next1 == {s \in Stops(h) : s > i0}
  <2>1. Next1 \subseteq Nat /\ Len(h) + 1 \in Next1
    BY <1>1, GapsAreFinite DEF Stops
  <2>2. PICK t \in Next1 : \A s \in Next1 : t <= s
    <3> HIDE DEF Next1
    <3> QED BY <2>1, LeastNat
  <2>3. t \in Stops(h) /\ t > i0 /\ t \in 1 .. Len(h) + 1
    BY <2>2, GapsAreFinite
  <2>4. \A j \in Sold(h) : j < t => j < i0
    <3> SUFFICES ASSUME NEW j \in Sold(h), j < t, ~(j < i0) PROVE FALSE
      OBVIOUS
    <3>1. j \in 1 .. Len(h) /\ j # i0 /\ j \in Stops(h)
      BY <1>3 DEF Sold, Stops
    <3>2. j > i0
      BY <3>1
    <3> QED BY <2>2, <2>3, <3>1, <3>2
  <2> DEFINE m == LastSale(h, t)
  <2>5. m \in 0 .. t - 1 /\ (m = 0 \/ m \in Sold(h))
    BY <2>3, LastSaleBefore
  <2> HIDE DEF m
  <2>6. m < i0
    BY <2>3, <2>4, <2>5
  <2>7. <<t, t - 1 - m>> \in Gaps(h) /\ t - 1 - m \in Nat /\ t - 1 - m > 0
    BY <2>3, <2>5, <2>6, GapsAreFinite DEF m
  <2>8. <<t, t - 1 - m>> \in LongGaps(h)
    BY <2>7 DEF LongGaps
  <2> DEFINE L == LongGaps(h)
             sum == MapThenSumSet(LAMBDA g : g[2], L)
  <2>9. \A g \in L : g[2] \in Nat /\ g[2] >= 1
    <3> SUFFICES ASSUME NEW g \in L PROVE g[2] \in Nat /\ g[2] >= 1
      OBVIOUS
    <3>1. g \in Gaps(h) /\ g[2] > 0
      BY DEF LongGaps
    <3>2. PICK i \in Stops(h) : g = <<i, i - 1 - LastSale(h, i)>>
      BY <3>1, GapsAreFinite
    <3>3. i \in 1 .. Len(h) + 1
      BY <3>2, GapsAreFinite
    <3>4. LastSale(h, i) \in 0 .. i - 1
      BY <3>3, LastSaleBefore
    <3>5. i - 1 - LastSale(h, i) \in Nat /\ g[2] = i - 1 - LastSale(h, i)
      BY <3>2, <3>3, <3>4
    <3> QED BY <3>1, <3>5
  <2>10. IsFiniteSet(L) /\ L # {}
    BY <2>8, GapsAreFinite
  <2> DEFINE n == Cardinality(L)
  <2>11. sum \in Nat /\ sum >= n /\ n \in Nat /\ n # 0
    <3> HIDE DEF L
    <3>1. sum \in Nat /\ sum >= n
      BY <2>9, <2>10, SumOfPositives
    <3>2. n \in Nat /\ n # 0
      BY <2>10, FS_CardinalityType, FS_EmptySet
    <3> QED BY <3>1, <3>2
  <2> HIDE DEF sum, n
  <2>12. 100 * sum > 32 * n
    BY <2>11
  <2> QED BY <2>10, <2>12 DEF HighADI, sum, n
<1>4. ASSUME \A i \in 1 .. Len(h) : h[i] # 0
      PROVE  ~select_intermittent(h)
  <2>1. Sold(h) = 1 .. Len(h)
    BY <1>1, <1>4 DEF Sold
  <2>2. Sold(h) # {}
    <3>1. 1 \in 1 .. Len(h)
      BY <1>1
    <3> QED BY <2>1, <3>1
  <2>3. LongGaps(h) = {}
    <3> SUFFICES ASSUME NEW g \in LongGaps(h) PROVE FALSE
      OBVIOUS
    <3>1. g \in Gaps(h) /\ g[2] > 0
      BY DEF LongGaps
    <3>2. PICK i \in Stops(h) : g = <<i, i - 1 - LastSale(h, i)>>
      BY <3>1, GapsAreFinite
    <3>3. i \in 1 .. Len(h) + 1
      BY <3>2, GapsAreFinite
    <3> DEFINE m == LastSale(h, i)
    <3>4. m \in 0 .. i - 1 /\ \A j \in Sold(h) : j < i => j <= m
      BY <3>3, LastSaleBefore
    <3> HIDE DEF m
    <3>5. CASE i = 1
      BY <3>1, <3>2, <3>4, <3>5 DEF m
    <3>6. CASE i > 1
      <4>1. i - 1 \in Sold(h) /\ i - 1 < i
        BY <1>1, <2>1, <3>3, <3>6
      <4>2. i - 1 <= m
        BY <3>4, <4>1
      <4> QED BY <3>1, <3>2, <3>3, <3>4, <4>2 DEF m
    <3> QED BY <3>3, <3>5, <3>6
  <2>4. ~HighADI(h)
    BY <2>3 DEF HighADI
  <2>5. ~HighZeroRatio(h)
    <3>1. Cardinality(Sold(h)) = Len(h)
      <4>1. 1 \in Int /\ Len(h) \in Int /\ ~(1 > Len(h)) /\ Len(h) - 1 + 1 = Len(h)
        BY <1>1
      <4> QED BY <2>1, <4>1, FS_Interval
    <3> QED BY <1>1, <3>1 DEF HighZeroRatio
  <2> QED BY <2>2, <2>4, <2>5 DEF select_intermittent
<1> QED BY <1>1, <1>3, <1>4 DEF select_intermittent

-----------------------------------------------------------------------------
(* The dense override.                                                     *)

\* Powers are what they are called.
LEMMA PowersUnfold ==
    ASSUME NEW b \in Nat, NEW n \in Nat
    PROVE  /\ \A i \in 0 .. n : Powers(b, n)[i] \in Nat
           /\ Powers(b, n)[0] = 1
           /\ \A i \in 1 .. n : Powers(b, n)[i] = b * Powers(b, n)[i - 1]
<1> DEFINE step == [i \in 1 .. n |-> [v \in Nat |-> b * v]]
           eqs(f) == f = [i \in 0 .. n |-> IF i = 0 THEN 1 ELSE b * f[i - 1]]
<1>1. \A i \in 1 .. n, v \in Nat : step[i][v] \in Nat
  OBVIOUS
<1>2. PICK f \in [0 .. n -> Nat] : Follows(f, n, 1, step)
  <2>1. 1 \in Nat
    OBVIOUS
  <2> HIDE DEF step
  <2> QED BY <1>1, <2>1, RecursionUpTo
<1>3. eqs(f)
  <2>1. ASSUME NEW i \in 1 .. n PROVE f[i] = b * f[i - 1]
    <3>1. i - 1 \in 0 .. n /\ f[i - 1] \in Nat
      OBVIOUS
    <3> QED BY <1>2, <3>1 DEF Follows
  <2> QED BY <1>2, <2>1 DEF Follows
<1>4. PICK c : c = (CHOOSE g : eqs(g))
  OBVIOUS
<1>5. eqs(c)
  <2> HIDE DEF eqs
  <2> QED BY <1>3, <1>4
<1>6. Powers(b, n) = c
  BY <1>4 DEF Powers
<1>7. c[0] = 1 /\ \A i \in 1 .. n : c[i] = b * c[i - 1]
  BY <1>5
<1>8. c[0] \in Nat /\ \A i \in 1 .. n : c[i - 1] \in Nat => c[i] \in Nat
  BY <1>7
<1> HIDE DEF eqs
<1>9. \A i \in 0 .. n : c[i] \in Nat
  BY <1>8, StaysIn
<1> QED BY <1>6, <1>7, <1>9

PowA == Powers(AlphaInv, DenseLastN + 1)
PowB == Powers(AlphaInv - 1, DenseLastN + 1)

\* The powers the assumption is about.
LEMMA PowersOfTheWeight ==
    /\ \A i \in 0 .. DenseLastN + 1 : PowA[i] \in Nat /\ PowB[i] \in Nat
    /\ PowA[0] = 1 /\ PowB[0] = 1
    /\ \A i \in 1 .. DenseLastN + 1 : /\ PowA[i] = AlphaInv * PowA[i - 1]
                                      /\ PowB[i] = (AlphaInv - 1) * PowB[i - 1]
<1>1. AlphaInv \in Nat /\ AlphaInv - 1 \in Nat /\ DenseLastN + 1 \in Nat
  BY WeightType
<1>2. /\ \A i \in 0 .. DenseLastN + 1 : PowA[i] \in Nat
      /\ PowA[0] = 1
      /\ \A i \in 1 .. DenseLastN + 1 : PowA[i] = AlphaInv * PowA[i - 1]
  BY <1>1, PowersUnfold DEF PowA
<1>3. /\ \A i \in 0 .. DenseLastN + 1 : PowB[i] \in Nat
      /\ PowB[0] = 1
      /\ \A i \in 1 .. DenseLastN + 1 : PowB[i] = (AlphaInv - 1) * PowB[i - 1]
  BY <1>1, PowersUnfold DEF PowB
<1> QED BY <1>2, <1>3

\* The assumption is about the oldest of the last months; a unit sold in a
\* later one leaves more.
LEMMA LaterSalesLeaveMore ==
    ASSUME NEW k \in 0 .. DenseLastN - 1
    PROVE  PowB[k] * EpsInv > PowA[k + 2]
<1> DEFINE D == DenseLastN - 1
           A == {d \in 0 .. D : PowB[D - d] * EpsInv > PowA[D - d + 2]}
<1>1. /\ D \in Nat /\ EpsInv \in Nat /\ AlphaInv \in Nat /\ AlphaInv >= 2
      /\ D + 2 = DenseLastN + 1
  BY WeightType
<1>2. 0 \in A
  <2>1. D - 0 = DenseLastN + 1 - 2 /\ D - 0 + 2 = DenseLastN + 1 /\ 0 \in 0 .. D
    BY <1>1, WeightType
  <2> QED BY <2>1, NearZeroAssumption DEF PowA, PowB
<1>3. ASSUME NEW d \in 1 .. D, d - 1 \in A PROVE d \in A
  <2> DEFINE m == D - d
  <2>1. m \in Nat /\ m + 1 = D - (d - 1) /\ m + 3 = D - (d - 1) + 2 /\ m + 3 \in 1 .. DenseLastN + 1
        /\ m + 1 \in 1 .. DenseLastN + 1 /\ m + 2 \in 0 .. DenseLastN + 1 /\ m \in 0 .. DenseLastN + 1
        /\ m + 3 - 1 = m + 2 /\ m + 1 - 1 = m
    BY <1>1
  <2>2. PowB[m + 1] * EpsInv > PowA[m + 3]
    BY <1>3, <2>1
  <2>3. PowB[m + 1] = (AlphaInv - 1) * PowB[m] /\ PowA[m + 3] = AlphaInv * PowA[m + 2]
    BY <2>1, PowersOfTheWeight
  <2>4. PowB[m] \in Int /\ PowA[m + 2] \in Int /\ 0 <= PowA[m + 2]
    BY <2>1, PowersOfTheWeight
  <2>5. SUFFICES ASSUME PowB[m] * EpsInv <= PowA[m + 2] PROVE FALSE
    BY <1>1, <2>1, <2>4
  <2> DEFINE b == PowB[m]
             a == PowA[m + 2]
             w == AlphaInv - 1
  <2>6. /\ b \in Int /\ a \in Int /\ 0 <= a /\ b * EpsInv <= a /\ w \in Int /\ 0 <= w
        /\ w <= AlphaInv /\ AlphaInv \in Int /\ EpsInv \in Int
        /\ (w * b) * EpsInv > AlphaInv * a
    BY <1>1, <2>2, <2>3, <2>4, <2>5
  <2> HIDE DEF b, a, w
  <2>7. (b * EpsInv) * w <= a * w /\ a * w <= AlphaInv * a
        /\ a * w \in Int /\ AlphaInv * a \in Int /\ (b * EpsInv) * w \in Int
    BY <2>6, ProductGrows
  <2>8. (w * b) * EpsInv = (b * EpsInv) * w
    BY <2>6
  <2> QED BY <2>6, <2>7, <2>8
<1> HIDE DEF A, D
<1>4. \A d \in 0 .. D : d \in A
  BY <1>1, <1>2, <1>3, UpTo
<1>5. D - k \in 0 .. D /\ D - (D - k) = k
  BY <1>1 DEF D
<1>6. D - k \in A
  BY <1>4, <1>5
<1> QED BY <1>5, <1>6 DEF A

\* What is left of a unit k months after it was sold.
LeftAfter(s, k) ==
    /\ s.init
    /\ s.scale <= s.z * AlphaInv
    /\ PowB[k] * s.scale <= s.p * PowA[k + 1]

\* A sale leaves a level and a probability of one part in AlphaInv.
LEMMA SaleLeaves ==
    ASSUME NEW top \in Nat, NEW s \in TsbStates(top), NEW x \in Nat, 0 < x, x <= top
    PROVE  LeftAfter(TsbMonth(s, x), 0)
<1> DEFINE u == TsbMonth(s, x)
<1>1. /\ s \in [z : Int, p : Int, init : BOOLEAN, scale : Int]
      /\ s.z \in Int /\ s.p \in Int /\ s.scale \in Int
      /\ 1 <= s.scale /\ 0 <= s.z /\ s.z <= top * s.scale
      /\ 0 <= s.p /\ s.p <= 1 * s.scale /\ top \in Int /\ x \in Int
  BY DEF TsbStates
<1>2. /\ AlphaInv \in Int /\ 2 <= AlphaInv /\ PowB[0] = 1 /\ PowA[0 + 1] = AlphaInv
      /\ AlphaInv - 1 \in Int
  <2>1. 1 \in 1 .. DenseLastN + 1 /\ 0 + 1 = 1 /\ 1 - 1 = 0
    BY WeightType
  <2>2. PowA[1] = AlphaInv * PowA[1 - 1]
    BY <2>1, PowersOfTheWeight
  <2> QED BY <2>1, <2>2, PowersOfTheWeight, WeightType
<1>3. CASE ~s.init
  <2>1. u = [z |-> x, p |-> 1, init |-> TRUE, scale |-> 1]
    BY <1>3 DEF TsbMonth
  <2>2. u.init /\ u.z = x /\ u.p = 1 /\ u.scale = 1
    BY <2>1
  <2>3. 1 * AlphaInv <= x * AlphaInv /\ x * AlphaInv \in Int
    BY <1>1, <1>2, ProductGrows
  <2> HIDE DEF u
  <2>4. LeftAfter(u, 0)
    BY <1>2, <2>2, <2>3 DEF LeftAfter
  <2> QED BY <2>4 DEF u
<1>4. CASE s.init
  <2> DEFINE z == Towards(s.z, x, s.scale)
             p == Towards(s.p, 1, s.scale)
             scale == AlphaInv * s.scale
  <2>1. u = [s EXCEPT !.p = p, !.scale = AlphaInv * @, !.z = Towards(@, x, s.scale)]
    BY <1>4 DEF TsbMonth
  <2>2. u.init /\ u.z = z /\ u.p = p /\ u.scale = scale
    BY <1>1, <1>4, <2>1
  <2>3. z \in Int /\ s.scale <= z
    <3>1. InRange(s.z, top * s.scale) /\ InRange(x, top) /\ 0 <= s.scale
      BY <1>1 DEF InRange
    <3>2. z \in Int /\ InRange(x * s.scale, z)
      BY <1>1, <3>1, TowardsKeeps
    <3>3. 1 * s.scale <= x * s.scale /\ x * s.scale \in Int
      BY <1>1, ProductGrows
    <3> HIDE DEF z
    <3> QED BY <1>1, <3>2, <3>3 DEF InRange
  <2>4. p \in Int /\ s.scale <= p
    <3>1. InRange(s.p, 1 * s.scale) /\ InRange(1, 1) /\ 0 <= s.scale
      BY <1>1 DEF InRange
    <3>2. p \in Int /\ InRange(1 * s.scale, p)
      BY <1>1, <3>1, TowardsKeeps
    <3> HIDE DEF p
    <3> QED BY <1>1, <3>2 DEF InRange
  <2> HIDE DEF z, p, u
  <2>5. s.scale * AlphaInv <= z * AlphaInv /\ s.scale * AlphaInv <= p * AlphaInv
    BY <1>1, <1>2, <2>3, <2>4, ProductGrows
  <2>6. s.scale * AlphaInv = scale /\ 1 * scale = scale
    BY <1>1, <1>2
  <2> HIDE DEF scale
  <2>7. LeftAfter(u, 0)
    BY <1>2, <2>2, <2>5, <2>6 DEF LeftAfter
  <2> QED BY <2>7 DEF u
<1> QED BY <1>1, <1>3, <1>4

\* A month more takes at most one part in AlphaInv of the probability.
LEMMA MonthLeaves ==
    ASSUME NEW top \in Nat, NEW s \in TsbStates(top), NEW x \in Nat, x <= top,
           NEW k \in 1 .. DenseLastN - 1, LeftAfter(s, k - 1)
    PROVE  LeftAfter(TsbMonth(s, x), k)
<1> DEFINE u == TsbMonth(s, x)
           occ == IF x > 0 THEN 1 ELSE 0
           z == IF x > 0 THEN Towards(s.z, x, s.scale) ELSE AlphaInv * s.z
           p == Towards(s.p, occ, s.scale)
           scale == AlphaInv * s.scale
           w == AlphaInv - 1
<1>1. /\ s \in [z : Int, p : Int, init : BOOLEAN, scale : Int]
      /\ s.z \in Int /\ s.p \in Int /\ s.scale \in Int
      /\ 1 <= s.scale /\ 0 <= s.z /\ s.z <= top * s.scale
      /\ 0 <= s.p /\ s.p <= 1 * s.scale /\ top \in Int /\ x \in Int
      /\ s.init /\ s.scale <= s.z * AlphaInv
  BY DEF TsbStates, LeftAfter
<1>2. AlphaInv \in Int /\ 2 <= AlphaInv /\ w \in Int /\ 1 <= w /\ scale \in Int
  BY <1>1, WeightType
<1>3. u = [s EXCEPT !.p = p, !.scale = AlphaInv * @,
                    !.z = IF x > 0 THEN Towards(@, x, s.scale) ELSE AlphaInv * @]
  BY <1>1 DEF TsbMonth
<1>4. u.init /\ u.z = z /\ u.p = p /\ u.scale = scale
  BY <1>1, <1>3
<1>5. scale <= z * AlphaInv
  <2>1. CASE x > 0
    <3>1. LeftAfter(TsbMonth(s, x), 0)
      BY <2>1, SaleLeaves
    <3> QED BY <1>4, <3>1 DEF LeftAfter
  <2>2. CASE ~(x > 0)
    <3>1. z = AlphaInv * s.z
      BY <2>2
    <3>2. s.scale * AlphaInv <= (s.z * AlphaInv) * AlphaInv
      BY <1>1, <1>2, ProductGrows
    <3>3. s.scale * AlphaInv = scale /\ (s.z * AlphaInv) * AlphaInv = (AlphaInv * s.z) * AlphaInv
      BY <1>1, <1>2
    <3> QED BY <3>1, <3>2, <3>3
  <2> QED BY <2>1, <2>2
<1>6. p \in Int /\ w * s.p <= p
  <2>1. InRange(s.p, 1 * s.scale) /\ InRange(occ, 1) /\ 0 <= s.scale
    BY <1>1 DEF InRange
  <2> HIDE DEF occ
  <2>2. p \in Int /\ InRange(w * s.p, p)
    BY <1>1, <2>1, TowardsKeeps
  <2> HIDE DEF p, w
  <2> QED BY <2>2 DEF InRange
<1> DEFINE a == PowA[k]
           b == PowB[k - 1]
<1>7. /\ a \in Int /\ 0 <= a /\ b \in Int /\ PowB[k] = w * b /\ PowA[k + 1] = AlphaInv * a
      /\ b * s.scale <= s.p * a
  <2>1. /\ k \in 1 .. DenseLastN + 1 /\ k + 1 \in 1 .. DenseLastN + 1
        /\ k \in 0 .. DenseLastN + 1 /\ k - 1 \in 0 .. DenseLastN + 1 /\ k + 1 - 1 = k /\ k - 1 + 1 = k
    BY WeightType
  <2>2. PowB[k] = w * b /\ PowA[k + 1] = AlphaInv * PowA[k + 1 - 1]
    BY <2>1, PowersOfTheWeight
  <2>3. PowA[k] \in Nat /\ PowB[k - 1] \in Nat
    BY <2>1, PowersOfTheWeight
  <2> QED BY <2>1, <2>2, <2>3 DEF LeftAfter
<1> HIDE DEF u, z, p, w, a, b
<1> DEFINE c == w * AlphaInv
<1>8. c \in Int /\ 0 <= c
  <2>1. 0 * AlphaInv <= w * AlphaInv
    BY <1>2, ProductGrows
  <2> QED BY <1>2, <2>1
<1>9. (b * s.scale) * c <= (s.p * a) * c /\ (w * s.p) * (AlphaInv * a) <= p * (AlphaInv * a)
  <2>1. b * s.scale \in Int /\ s.p * a \in Int /\ w * s.p \in Int /\ AlphaInv * a \in Int
    BY <1>1, <1>2, <1>7
  <2>2. 0 <= AlphaInv * a
    BY <1>2, <1>7, ScaledUp
  <2> HIDE DEF c
  <2> QED BY <1>6, <1>7, <1>8, <2>1, <2>2, ProductGrows
<1>10. (b * s.scale) * c = (w * b) * scale /\ (s.p * a) * c = (w * s.p) * (AlphaInv * a)
  BY <1>1, <1>2, <1>7
<1>11. (w * b) * scale <= p * (AlphaInv * a)
  <2>1. /\ (b * s.scale) * c \in Int /\ (s.p * a) * c \in Int /\ p * (AlphaInv * a) \in Int
    BY <1>1, <1>2, <1>6, <1>7, <1>8
  <2> HIDE DEF c, scale
  <2> QED BY <1>9, <1>10, <2>1
<1>12. LeftAfter(u, k)
  BY <1>4, <1>5, <1>7, <1>11 DEF LeftAfter
<1> QED BY <1>12 DEF u

\* A unit sold in one of the last months keeps the forecast above near zero.
LEMMA RecentSaleIsNotNearZero ==
    ASSUME NEW h \in Seq(Nat), NEW i \in DOMAIN h, i > Len(h) - DenseLastN, h[i] > 0
    PROVE  ~(tsb_forecast(h).num * EpsInv <= tsb_forecast(h).den)
<1>1. PICK top \in Nat : h \in Seq(0 .. top)
  BY LargestMonth
<1> DEFINE n == Len(h)
           t == TsbLevels(h)
           d == n - i
           K == {k \in 0 .. d : LeftAfter(t[i + k], k)}
<1>a. n \in Nat /\ i \in 1 .. n /\ \A j \in 1 .. n : h[j] \in Nat /\ h[j] <= top
  BY <1>1
<1>2. n \in Nat /\ i \in Nat /\ i \in 1 .. n /\ d \in Nat /\ d <= DenseLastN - 1 /\ i + d = n
  <2>1. i > n - DenseLastN /\ DenseLastN \in Int
    BY WeightType
  <2> HIDE DEF n
  <2> QED BY <1>a, <2>1
<1>3. /\ \A j \in 0 .. n : t[j] \in TsbStates(top)
      /\ \A j \in 1 .. n : t[j] = TsbMonth(t[j - 1], h[j])
  BY <1>1, TsbLevelsUnfold DEF TsbFollows
<1> HIDE DEF n, t, d
<1>4. 0 \in K
  <2>1. i - 1 \in 0 .. n /\ i + 0 = i /\ 0 \in 0 .. d
    BY <1>2
  <2>2. t[i - 1] \in TsbStates(top) /\ t[i] = TsbMonth(t[i - 1], h[i]) /\ 0 < h[i]
    BY <1>2, <1>3, <2>1
  <2>3. LeftAfter(t[i], 0)
    BY <1>a, <1>2, <2>2, SaleLeaves
  <2> QED BY <2>1, <2>3
<1>5. ASSUME NEW k \in 1 .. d, k - 1 \in K PROVE k \in K
  <2>1. /\ i + k \in 1 .. n /\ i + (k - 1) = i + k - 1 /\ i + k - 1 \in 0 .. n
        /\ k \in 1 .. DenseLastN - 1 /\ k \in 0 .. d
    BY <1>2, WeightType
  <2>2. LeftAfter(t[i + k - 1], k - 1)
    BY <1>5, <2>1
  <2>3. t[i + k - 1] \in TsbStates(top) /\ t[i + k] = TsbMonth(t[i + k - 1], h[i + k])
    <3> DEFINE j == i + k
    <3>1. j \in 1 .. n /\ j - 1 \in 0 .. n
      BY <2>1
    <3> HIDE DEF j
    <3>2. t[j - 1] \in TsbStates(top) /\ t[j] = TsbMonth(t[j - 1], h[j])
      BY <1>3, <3>1
    <3> QED BY <3>2 DEF j
  <2>5. h[i + k] \in Nat /\ h[i + k] <= top
    BY <1>a, <2>1
  <2>4. LeftAfter(t[i + k], k)
    <3> DEFINE v == t[i + k - 1]
               x == h[i + k]
    <3>1. v \in TsbStates(top) /\ LeftAfter(v, k - 1) /\ x \in Nat /\ x <= top
      BY <2>2, <2>3, <2>5
    <3> HIDE DEF v, x
    <3>2. LeftAfter(TsbMonth(v, x), k)
      BY <2>1, <3>1, MonthLeaves
    <3> QED BY <2>3, <3>2 DEF v, x
  <2> QED BY <2>1, <2>4
<1> HIDE DEF K
<1>6. d \in K
  <2>1. \A k \in 0 .. d : k \in K
    BY <1>2, <1>4, <1>5, UpTo
  <2> QED BY <1>2, <2>1
<1> DEFINE s == t[n]
<1>7. LeftAfter(s, d) /\ s \in TsbStates(top)
  <2>1. i + d = n /\ n \in 0 .. n
    BY <1>2
  <2> QED BY <1>3, <1>6, <2>1 DEF K
<1>8. tsb_forecast(h) = [num |-> s.z * s.p, den |-> s.scale * s.scale]
  BY DEF tsb_forecast, t, n
<1> DEFINE a == PowA[d + 1]
           b == PowB[d]
<1>9. /\ a \in Int /\ 0 <= a /\ b \in Int /\ b * EpsInv > AlphaInv * a
      /\ EpsInv \in Int /\ 1 <= EpsInv /\ AlphaInv \in Int /\ 2 <= AlphaInv
  <2>1. /\ d \in 0 .. DenseLastN + 1 /\ d + 1 \in 0 .. DenseLastN + 1
        /\ d + 2 \in 1 .. DenseLastN + 1 /\ d + 2 - 1 = d + 1 /\ d \in 0 .. DenseLastN - 1
    BY <1>2, WeightType
  <2>2. PowB[d] * EpsInv > PowA[d + 2]
    BY <2>1, LaterSalesLeaveMore
  <2>3. PowA[d + 2] = AlphaInv * PowA[d + 2 - 1]
    BY <2>1, PowersOfTheWeight
  <2>4. PowA[d + 1] \in Nat /\ PowB[d] \in Nat
    BY <2>1, PowersOfTheWeight
  <2>5. PowA[d + 2] = AlphaInv * PowA[d + 1]
    BY <2>1, <2>3
  <2> HIDE DEF PowA, PowB
  <2> QED BY <2>2, <2>4, <2>5, WeightType
<1> DEFINE z == s.z
           p == s.p
           c == s.scale
<1>10. /\ z \in Int /\ p \in Int /\ c \in Int /\ 1 <= c /\ 0 <= z /\ 0 <= p
       /\ c <= z * AlphaInv /\ b * c <= p * a
  BY <1>7 DEF TsbStates, LeftAfter
<1> HIDE DEF s, a, b, z, p, c
<1> SUFFICES ASSUME (z * p) * EpsInv <= c * c PROVE FALSE
  BY <1>8 DEF z, p, c
<1> DEFINE Aa == AlphaInv * a
<1>11. Aa \in Int /\ 0 <= Aa
  BY <1>9, ScaledUp
<1>12. ((z * p) * EpsInv) * Aa <= (c * c) * Aa
  <2>1. (z * p) * EpsInv \in Int /\ c * c \in Int
    BY <1>9, <1>10
  <2> HIDE DEF Aa
  <2> QED BY <1>11, <2>1, ProductGrows
<1>13. (c * (b * c)) * EpsInv <= ((z * AlphaInv) * (p * a)) * EpsInv
  <2> DEFINE zA == z * AlphaInv
             pa == p * a
             bc == b * c
  <2>1. zA \in Int /\ pa \in Int /\ bc \in Int /\ bc <= pa /\ c <= zA
    BY <1>9, <1>10
  <2>2. 0 <= pa
    <3>1. 0 * a <= p * a
      BY <1>9, <1>10, ProductGrows
    <3> QED BY <3>1, <1>9
  <2> HIDE DEF zA, pa, bc
  <2>3. c * bc <= c * pa /\ c * pa <= zA * pa
    BY <1>10, <2>1, <2>2, ProductGrows
  <2>4. c * bc \in Int /\ c * pa \in Int /\ zA * pa \in Int
    BY <1>10, <2>1
  <2>5. c * bc <= zA * pa
    BY <2>3, <2>4
  <2>6. (c * bc) * EpsInv <= (zA * pa) * EpsInv
    <3> DEFINE u == c * bc
               v == zA * pa
    <3>1. u \in Int /\ v \in Int /\ u <= v /\ EpsInv \in Int /\ 0 <= EpsInv
      BY <1>9, <2>4, <2>5
    <3> HIDE DEF u, v
    <3>2. u * EpsInv <= v * EpsInv
      BY <3>1, ProductGrows
    <3> QED BY <3>2 DEF u, v
  <2> QED BY <2>6 DEF zA, pa, bc
<1>14. /\ (c * (b * c)) * EpsInv = (b * EpsInv) * (c * c)
       /\ ((z * AlphaInv) * (p * a)) * EpsInv = ((z * p) * EpsInv) * Aa
       /\ (c * c) * Aa = Aa * (c * c)
  BY <1>9, <1>10
<1>15. (Aa + 1) * (c * c) <= (b * EpsInv) * (c * c) /\ (Aa + 1) * (c * c) = Aa * (c * c) + c * c
       /\ 1 <= c * c /\ c * c \in Int
  <2> DEFINE cc == c * c
             bE == b * EpsInv
  <2>1. 1 * c <= c * c /\ c * c \in Int
    BY <1>10, ProductGrows
  <2>2. cc \in Int /\ 1 <= cc /\ bE \in Int /\ Aa + 1 <= bE /\ Aa + 1 \in Int
    BY <1>9, <1>10, <1>11, <2>1
  <2> HIDE DEF cc, bE, Aa
  <2>3. (Aa + 1) * cc <= bE * cc /\ (Aa + 1) * cc = Aa * cc + cc
    BY <1>11, <2>2, ProductGrows
  <2> QED BY <2>2, <2>3 DEF cc, bE
<1>16. /\ Aa * (c * c) \in Int /\ (b * EpsInv) * (c * c) \in Int
       /\ ((z * p) * EpsInv) * Aa \in Int
  BY <1>9, <1>10, <1>11
<1> DEFINE X == Aa * (c * c)
           Y == (b * EpsInv) * (c * c)
           Z == ((z * p) * EpsInv) * Aa
           cc == c * c
<1>17. X \in Int /\ Y \in Int /\ Z \in Int /\ cc \in Int /\ 1 <= cc
       /\ Z <= X /\ Y <= Z /\ X + cc <= Y
  BY <1>12, <1>13, <1>14, <1>15, <1>16
<1> HIDE DEF X, Y, Z, cc
<1> QED BY <1>17

\* The values the worker is deployed with (config.py: alpha 0.1, eps 1e-6, the
\* last six months) satisfy what NearZeroAssumption asks of them.
LEMMA DeployedWeights == Powers(10 - 1, 6 + 1)[6 - 1] * 1000000 > Powers(10, 6 + 1)[6 + 1]
<1>1. Powers(9, 7)[5] = 59049
  <2>1. /\ Powers(9, 7)[0] = 1
        /\ \A i \in 1 .. 7 : Powers(9, 7)[i] = 9 * Powers(9, 7)[i - 1]
    BY PowersUnfold
  <2> DEFINE P(i) == Powers(9, 7)[i]
  <2>2. /\ P(0) = 1 /\ P(1) = 9 * P(0) /\ P(2) = 9 * P(1) /\ P(3) = 9 * P(2)
        /\ P(4) = 9 * P(3) /\ P(5) = 9 * P(4)
    BY <2>1
  <2> HIDE DEF P
  <2>3. P(5) = 59049
    BY <2>2
  <2> QED BY <2>3 DEF P
<1>2. Powers(10, 7)[7] = 10000000
  <2>1. /\ Powers(10, 7)[0] = 1
        /\ \A i \in 1 .. 7 : Powers(10, 7)[i] = 10 * Powers(10, 7)[i - 1]
    BY PowersUnfold
  <2> DEFINE P(i) == Powers(10, 7)[i]
  <2>2. /\ P(0) = 1 /\ P(1) = 10 * P(0) /\ P(2) = 10 * P(1) /\ P(3) = 10 * P(2)
        /\ P(4) = 10 * P(3) /\ P(5) = 10 * P(4) /\ P(6) = 10 * P(5) /\ P(7) = 10 * P(6)
    BY <2>1
  <2> HIDE DEF P
  <2>3. P(7) = 10000000
    BY <2>2
  <2> QED BY <2>3 DEF P
<1>3. 10 - 1 = 9 /\ 6 + 1 = 7 /\ 6 - 1 = 5
  OBVIOUS
<1> QED BY <1>1, <1>2, <1>3

\* So the override is never what sends a series to the dearer methods.
LEMMA OverrideIsOutOfReach ==
    ASSUME NEW h \in Seq(Nat)
    PROVE  ~should_dense_override(h)
BY RecentSaleIsNotNearZero DEF should_dense_override

-----------------------------------------------------------------------------
(* The first and the last of some rows.                                    *)

\* Min and Max are what bfill and ffill take them for.
LEMMA FirstRow ==
    ASSUME NEW S, S \subseteq Nat, S # {}
    PROVE  F!Min(S) \in S /\ \A z \in S : F!Min(S) <= z
BY LeastNat DEF F!Min

\* The same for the last of some rows among 1 .. n.
LEMMA LastRow ==
    ASSUME NEW n \in Nat, NEW S, S \subseteq 1 .. n, S # {}
    PROVE  F!Max(S) \in S /\ \A z \in S : z <= F!Max(S)
<1> DEFINE T == {y0 \in Nat : n - y0 \in S}
<1>1. \A z \in S : z \in Int /\ n - z \in Nat /\ n - (n - z) = z
  OBVIOUS
<1>2. \A z \in S : n - z \in T
  BY <1>1
<1>3. T \subseteq Nat /\ T # {}
  BY <1>2
<1>4. \A m \in T : n - m \in S
  OBVIOUS
<1> HIDE DEF T
<1>5. PICK m \in T : \A z \in T : m <= z
  BY <1>3, LeastNat
<1>6. n - m \in S /\ \A z \in S : n - m >= z
  BY <1>1, <1>2, <1>3, <1>4, <1>5
<1> QED BY <1>1, <1>6 DEF F!Max

-----------------------------------------------------------------------------
(* Filling a column.                                                       *)

\* ffill: a row holds the last value known up to it, or none.
LEMMA FillForward ==
    ASSUME NEW n \in Nat, NEW col \in [1 .. n -> Vals]
    PROVE  /\ F!ffill(col) \in [1 .. n -> Vals]
           /\ \A i \in 1 .. n :
                \/ /\ \A j \in 1 .. i : col[j] = {}
                   /\ F!ffill(col)[i] = {}
                \/ \E k \in 1 .. i : col[k] # {} /\ F!ffill(col)[i] = col[k]
           /\ \A i \in 1 .. n : col[i] # {} => F!ffill(col)[i] = col[i]
<1> DEFINE K(i) == F!KnownUpTo(col, i)
<1>1. F!ffill(col) = [i \in 1 .. n |-> IF K(i) = {} THEN {} ELSE col[F!Max(K(i))]]
  BY DEF F!ffill, F!NaN
<1>2. ASSUME NEW i \in 1 .. n
      PROVE  /\ K(i) \subseteq 1 .. i
             /\ \A j \in 1 .. i : j \in K(i) <=> col[j] # {}
  BY DEF F!KnownUpTo, F!NaN
<1> HIDE DEF K
<1>3. ASSUME NEW i \in 1 .. n, K(i) # {}
      PROVE  F!Max(K(i)) \in K(i) /\ \A z \in K(i) : z <= F!Max(K(i))
  BY <1>2, <1>3, LastRow
<1>4. ASSUME NEW i \in 1 .. n
      PROVE  /\ F!ffill(col)[i] \in Vals
             /\ \/ /\ \A j \in 1 .. i : col[j] = {}
                   /\ F!ffill(col)[i] = {}
                \/ \E k \in 1 .. i : col[k] # {} /\ F!ffill(col)[i] = col[k]
  <2>1. CASE K(i) = {}
    BY <1>1, <1>2, <2>1 DEF Vals
  <2>2. CASE K(i) # {}
    <3> DEFINE k == F!Max(K(i))
    <3>1. k \in 1 .. i /\ k \in 1 .. n /\ col[k] # {} /\ F!ffill(col)[i] = col[k]
      BY <1>1, <1>2, <1>3, <2>2
    <3> HIDE DEF k
    <3> QED BY <3>1
  <2> QED BY <2>1, <2>2
<1>5. ASSUME NEW i \in 1 .. n, col[i] # {}
      PROVE  F!ffill(col)[i] = col[i]
  <2>1. i \in K(i)
    BY <1>2, <1>5
  <2>2. F!Max(K(i)) = i
    BY <1>2, <1>3, <2>1
  <2> QED BY <1>1, <2>1, <2>2
<1> QED BY <1>1, <1>4, <1>5

\* The row it is filled from is the last one known.
LEMMA FilledFromTheLast ==
    ASSUME NEW n \in Nat, NEW col \in [1 .. n -> Vals], NEW i \in 1 .. n,
           NEW h \in 1 .. i, col[h] # {}
    PROVE  \E k \in h .. i : F!ffill(col)[i] = col[k]
<1> DEFINE K == F!KnownUpTo(col, i)
<1>1. F!ffill(col)[i] = IF K = {} THEN {} ELSE col[F!Max(K)]
  BY DEF F!ffill, F!NaN
<1>2. K \subseteq 1 .. i /\ h \in K /\ K # {} /\ i \in Nat
  BY DEF F!KnownUpTo, F!NaN
<1> HIDE DEF K
<1> DEFINE k == F!Max(K)
<1>3. k \in K /\ \A z \in K : z <= k
  BY <1>2, LastRow
<1> HIDE DEF k
<1>4. k \in h .. i
  BY <1>2, <1>3
<1> QED BY <1>1, <1>2, <1>4 DEF k

\* bfill: a row holds the first value known from it on, or none.
LEMMA FillBackward ==
    ASSUME NEW n \in Nat, NEW col \in [1 .. n -> Vals]
    PROVE  /\ F!bfill(col) \in [1 .. n -> Vals]
           /\ \A i \in 1 .. n :
                \/ /\ \A j \in i .. n : col[j] = {}
                   /\ F!bfill(col)[i] = {}
                \/ \E k \in i .. n : /\ col[k] # {} /\ F!bfill(col)[i] = col[k]
                                     /\ \A j \in i .. k - 1 : col[j] = {}
           /\ \A i \in 1 .. n : col[i] # {} => F!bfill(col)[i] = col[i]
<1> DEFINE K(i) == F!KnownFrom(col, i)
<1>1. F!bfill(col) = [i \in 1 .. n |-> IF K(i) = {} THEN {} ELSE col[F!Min(K(i))]]
  BY DEF F!bfill, F!NaN
<1>2. ASSUME NEW i \in 1 .. n
      PROVE  /\ K(i) \subseteq i .. n
             /\ \A j \in i .. n : j \in K(i) <=> col[j] # {}
  BY DEF F!KnownFrom, F!NaN
<1> HIDE DEF K
<1>3. ASSUME NEW i \in 1 .. n, K(i) # {}
      PROVE  F!Min(K(i)) \in K(i) /\ \A z \in K(i) : F!Min(K(i)) <= z
  <2>1. K(i) \subseteq Nat
    BY <1>2
  <2> QED BY <1>3, <2>1, FirstRow
<1>4. ASSUME NEW i \in 1 .. n
      PROVE  /\ F!bfill(col)[i] \in Vals
             /\ \/ /\ \A j \in i .. n : col[j] = {}
                   /\ F!bfill(col)[i] = {}
                \/ \E k \in i .. n : /\ col[k] # {} /\ F!bfill(col)[i] = col[k]
                                     /\ \A j \in i .. k - 1 : col[j] = {}
  <2>1. CASE K(i) = {}
    BY <1>1, <1>2, <2>1 DEF Vals
  <2>2. CASE K(i) # {}
    <3> DEFINE k == F!Min(K(i))
    <3>1. k \in i .. n /\ col[k] # {} /\ F!bfill(col)[i] = col[k]
      BY <1>1, <1>2, <1>3, <2>2
    <3>2. \A j \in i .. k - 1 : col[j] = {}
      BY <1>2, <1>3, <2>2, <3>1
    <3> QED BY <3>1, <3>2
  <2> QED BY <2>1, <2>2
<1>5. ASSUME NEW i \in 1 .. n, col[i] # {}
      PROVE  F!bfill(col)[i] = col[i]
  <2>1. i \in K(i)
    BY <1>2, <1>5
  <2>2. F!Min(K(i)) = i
    BY <1>2, <1>3, <2>1
  <2> QED BY <1>1, <2>1, <2>2
<1> QED BY <1>1, <1>4, <1>5

\* A value that is filled in comes from a row before, or from the first row
\* that has one.
LEMMA FilledFrom ==
    ASSUME NEW n \in Nat, NEW col \in [1 .. n -> Vals]
    PROVE  /\ F!Filled(col) \in [1 .. n -> Vals]
           /\ \A i \in 1 .. n : col[i] # {} => F!Filled(col)[i] = col[i]
           /\ \A i \in 1 .. n :
                \/ F!Filled(col)[i] = {}
                \/ \E k \in 1 .. n : /\ F!Filled(col)[i] = col[k]
                                     /\ k <= i \/ \A j \in 1 .. k - 1 : col[j] = {}
<1> DEFINE up == F!ffill(col)
<1>1. up \in [1 .. n -> Vals]
  BY FillForward
<1>2. \A i \in 1 .. n : \/ (\A j \in 1 .. i : col[j] = {}) /\ up[i] = {}
                        \/ \E k \in 1 .. i : col[k] # {} /\ up[i] = col[k]
  BY FillForward
<1>3. \A i \in 1 .. n : col[i] # {} => up[i] = col[i]
  BY FillForward
<1>4. F!Filled(col) = F!bfill(up)
  BY DEF F!Filled
<1> HIDE DEF up
<1>5. F!Filled(col) \in [1 .. n -> Vals]
  BY <1>1, <1>4, FillBackward
<1>6. \A i \in 1 .. n :
        \/ F!Filled(col)[i] = {}
        \/ \E k \in i .. n : /\ up[k] # {} /\ F!Filled(col)[i] = up[k]
                             /\ \A j \in i .. k - 1 : up[j] = {}
  BY <1>1, <1>4, FillBackward
<1>7. ASSUME NEW i \in 1 .. n, col[i] # {}
      PROVE  F!Filled(col)[i] = col[i]
  BY <1>1, <1>3, <1>4, <1>7, FillBackward
<1>8. ASSUME NEW i \in 1 .. n, F!Filled(col)[i] # {}
      PROVE  \E k \in 1 .. n : /\ F!Filled(col)[i] = col[k]
                               /\ k <= i \/ \A j \in 1 .. k - 1 : col[j] = {}
  <2>1. PICK m \in i .. n : /\ up[m] # {} /\ F!Filled(col)[i] = up[m]
                            /\ \A j \in i .. m - 1 : up[j] = {}
    BY <1>8, <1>6
  <2>2. m \in 1 .. n
    BY <2>1
  <2>3. PICK k \in 1 .. m : col[k] # {} /\ up[m] = col[k]
    BY <1>2, <2>1, <2>2
  <2>4. CASE k <= i
    BY <2>1, <2>3, <2>4, <2>2
  <2>5. CASE k > i
    <3>1. ASSUME NEW j \in 1 .. k - 1 PROVE col[j] = {}
      <4>1. CASE j < i
        <5>1. CASE i = m
          BY <2>3, <2>5, <5>1
        <5>2. CASE i < m
          <6>1. up[i] = {}
            BY <2>1, <5>2
          <6>2. \A h \in 1 .. i : col[h] = {}
            BY <1>2, <6>1
          <6> QED BY <4>1, <6>2
        <5> QED BY <5>1, <5>2, <2>1
      <4>2. CASE j >= i
        BY <1>3, <2>1, <2>2, <2>3, <4>2
      <4> QED BY <4>1, <4>2
    <3> QED BY <2>1, <2>2, <2>3, <3>1
  <2> QED BY <2>2, <2>3, <2>4, <2>5
<1> QED BY <1>5, <1>7, <1>8

-----------------------------------------------------------------------------
(* Columns that hold nothing of a later month, and no demand.              *)

Increasing(ds, n) ==
    /\ ds \in [1 .. n -> Int]
    /\ \A i, j \in 1 .. n : i < j => ds[i] < ds[j]

CausalAt(value, d) == \A o \in value : o[1] \notin Demand /\ o[2] <= d

CausalColumn(col, ds, n) ==
    /\ col \in [1 .. n -> Vals]
    /\ \A i \in 1 .. n : CausalAt(col[i], ds[i])

\* What a value is made of has a column and a month.
LEMMA ValuesAreTyped ==
    ASSUME NEW v \in Vals, NEW o \in v PROVE o[1] \in Columns /\ o[2] \in Int
BY DEF Vals

\* What is causal in a month is causal in the months after it.
LEMMA LaterIsCausal ==
    ASSUME NEW n \in Nat, NEW ds, Increasing(ds, n), NEW i \in 1 .. n, NEW k \in 1 .. i,
           NEW v \in Vals, CausalAt(v, ds[k])
    PROVE  CausalAt(v, ds[i])
<1>1. ds[k] <= ds[i] /\ ds[k] \in Int /\ ds[i] \in Int
  BY DEF Increasing
<1> QED BY <1>1, ValuesAreTyped DEF CausalAt

\* A column is filled with earlier values once its first row has one.
LEMMA FillIsCausal ==
    ASSUME NEW n \in Nat, NEW ds, Increasing(ds, n),
           NEW col, CausalColumn(col, ds, n), col[1] # {}
    PROVE  /\ CausalColumn(F!ffill(col), ds, n)
           /\ \A i \in 1 .. n : F!ffill(col)[i] # {}
<1>1. col \in [1 .. n -> Vals]
  BY DEF CausalColumn
<1>2. ASSUME NEW i \in 1 .. n
      PROVE  F!ffill(col)[i] # {} /\ CausalAt(F!ffill(col)[i], ds[i])
  <2>1. PICK k \in 1 .. i : col[k] # {} /\ F!ffill(col)[i] = col[k]
    BY <1>1, FillForward
  <2>2. k \in 1 .. n /\ CausalAt(col[k], ds[k]) /\ col[k] \in Vals
    BY <1>1 DEF CausalColumn
  <2> QED BY <2>1, <2>2, LaterIsCausal
<1>3. F!ffill(col) \in [1 .. n -> Vals]
  BY <1>1, FillForward
<1> QED BY <1>2, <1>3 DEF CausalColumn

\* Smoothing over the rows up to this one keeps a column causal.
LEMMA TrailingIsCausal ==
    ASSUME NEW n \in Nat, NEW ds, Increasing(ds, n),
           NEW col, CausalColumn(col, ds, n), \A i \in 1 .. n : col[i] # {}
    PROVE  /\ CausalColumn(F!Trailing(col), ds, n)
           /\ \A i \in 1 .. n : F!Trailing(col)[i] # {}
<1>1. col \in [1 .. n -> Vals]
  BY DEF CausalColumn
<1>2. F!Trailing(col) = [i \in 1 .. n |-> UNION {col[j] : j \in (i - 2 .. i) \cap 1 .. n}]
  BY <1>1 DEF F!Trailing, F!Mean
<1>3. ASSUME NEW i \in 1 .. n
      PROVE  /\ F!Trailing(col)[i] \in Vals
             /\ F!Trailing(col)[i] # {}
             /\ CausalAt(F!Trailing(col)[i], ds[i])
  <2>1. \A o : o \in F!Trailing(col)[i] <=> \E j \in (i - 2 .. i) \cap 1 .. n : o \in col[j]
    BY <1>2
  <2>2. F!Trailing(col)[i] \in Vals
    BY <1>1, <2>1 DEF Vals
  <2>3. i \in (i - 2 .. i) \cap 1 .. n
    OBVIOUS
  <2>4. F!Trailing(col)[i] # {}
    BY <2>1, <2>3
  <2>5. ASSUME NEW o \in F!Trailing(col)[i]
        PROVE  o[1] \notin Demand /\ o[2] <= ds[i]
    <3>1. PICK j \in (i - 2 .. i) \cap 1 .. n : o \in col[j]
      BY <2>1
    <3>2. j \in 1 .. i /\ j \in 1 .. n
      BY <3>1
    <3>3. CausalAt(col[j], ds[i])
      BY <1>1, <3>2, LaterIsCausal DEF CausalColumn
    <3> QED BY <3>1, <3>3 DEF CausalAt
  <2> QED BY <2>2, <2>4, <2>5 DEF CausalAt
<1> QED BY <1>2, <1>3 DEF CausalColumn

\* A column without gaps is not filled.
LEMMA KnownIsNotFilled ==
    ASSUME NEW n \in Nat, NEW col \in [1 .. n -> Vals], \A i \in 1 .. n : col[i] # {}
    PROVE  F!bfill(col) = col /\ F!Filled(col) = col
<1>1. F!bfill(col) \in [1 .. n -> Vals] /\ \A i \in 1 .. n : F!bfill(col)[i] = col[i]
  BY FillBackward
<1>2. F!Filled(col) \in [1 .. n -> Vals] /\ \A i \in 1 .. n : F!Filled(col)[i] = col[i]
  BY FilledFrom
<1> QED BY <1>1, <1>2

\* Causal smoothing keeps a column causal, and without gaps, once it has started.
LEMMA ImputeIsCausal ==
    ASSUME NEW n \in Nat, NEW ds, Increasing(ds, n),
           NEW col, CausalColumn(col, ds, n), col[1] # {}
    PROVE  /\ CausalColumn(F!rolling_impute(col, TRUE), ds, n)
           /\ \A i \in 1 .. n : F!rolling_impute(col, TRUE)[i] # {}
<1> DEFINE up == F!ffill(col)
           mean == F!Trailing(up)
<1>1. CausalColumn(up, ds, n) /\ \A i \in 1 .. n : up[i] # {}
  BY FillIsCausal
<1>2. F!rolling_impute(col, TRUE) = F!bfill(mean)
  BY DEF F!rolling_impute
<1> HIDE DEF up
<1>3. CausalColumn(mean, ds, n) /\ \A i \in 1 .. n : mean[i] # {}
  BY <1>1, TrailingIsCausal
<1>4. mean \in [1 .. n -> Vals]
  BY <1>3 DEF CausalColumn
<1> HIDE DEF mean
<1>5. F!bfill(mean) = mean
  BY <1>3, <1>4, KnownIsNotFilled
<1> QED BY <1>2, <1>3, <1>5

\* Centered smoothing only fills: a column without gaps stays as it is.
LEMMA TrainColumnsStay ==
    ASSUME NEW n \in Nat, NEW col \in [1 .. n -> Vals], \A i \in 1 .. n : col[i] # {}
    PROVE  F!rolling_impute(col, FALSE) = col
<1>1. [i \in DOMAIN col |-> IF col[i] # F!NaN THEN col[i] ELSE F!Centered(col)[i]] = col
  BY DEF F!NaN
<1>2. F!rolling_impute(col, FALSE)
        = F!Filled([i \in DOMAIN col |-> IF col[i] # F!NaN THEN col[i] ELSE F!Centered(col)[i]])
  BY DEF F!rolling_impute
<1> QED BY <1>1, <1>2, KnownIsNotFilled

-----------------------------------------------------------------------------
(* Features of a row.                                                      *)

\* shift moves a column down by k rows.
LEMMA ShiftedColumn ==
    ASSUME NEW n \in Nat, NEW col \in [1 .. n -> Vals], NEW k \in Nat \ {0}
    PROVE  /\ F!shift(col, k) \in [1 .. n -> Vals]
           /\ \A i \in 1 .. n : F!shift(col, k)[i] = IF i > k THEN col[i - k] ELSE {}
<1>1. F!shift(col, k) = [i \in 1 .. n |-> IF i > k THEN col[i - k] ELSE {}]
  BY DEF F!shift, F!NaN
<1>2. \A i \in 1 .. n : i > k => i - k \in 1 .. n
  OBVIOUS
<1> QED BY <1>1, <1>2 DEF Vals

\* A lag looks back, from the second row on even where it is filled in.
LEMMA LagIsCausal ==
    ASSUME NEW n \in Nat, NEW ds, Increasing(ds, n), NEW k \in Nat \ {0},
           NEW col, CausalColumn(col, ds, n), col[1] # {}, NEW i \in 1 .. n
    PROVE  CausalAt(F!Filled(F!shift(col, k))[i], ds[i])
<1> DEFINE lag == F!shift(col, k)
<1>1. col \in [1 .. n -> Vals]
  BY DEF CausalColumn
<1>2. /\ lag \in [1 .. n -> Vals]
      /\ \A j \in 1 .. n : lag[j] = IF j > k THEN col[j - k] ELSE {}
  BY <1>1, ShiftedColumn
<1> HIDE DEF lag
<1>3. CASE F!Filled(lag)[i] = {}
  BY <1>3 DEF CausalAt, lag
<1>4. CASE F!Filled(lag)[i] # {}
  <2>1. PICK j \in 1 .. n : /\ F!Filled(lag)[i] = lag[j]
                            /\ j <= i \/ \A h \in 1 .. j - 1 : lag[h] = {}
    BY <1>2, <1>4, FilledFrom
  <2>2. j > k /\ lag[j] = col[j - k] /\ j - k \in 1 .. n
    BY <1>2, <1>4, <2>1
  <2>3. j - k <= i
    <3>1. CASE j <= i
      BY <3>1
    <3>2. CASE \A h \in 1 .. j - 1 : lag[h] = {}
      <4>1. CASE j > k + 1
        <5>1. k + 1 \in 1 .. j - 1 /\ k + 1 \in 1 .. n
          BY <4>1
        <5>2. lag[k + 1] = col[k + 1 - k] /\ k + 1 - k = 1
          BY <1>2, <5>1
        <5> QED BY <3>2, <5>1, <5>2
      <4>2. CASE j = k + 1
        BY <4>2
      <4> QED BY <4>1, <4>2, <2>2
    <3> QED BY <2>1, <3>1, <3>2
  <2>4. col[j - k] \in Vals /\ CausalAt(col[j - k], ds[j - k])
    BY <2>2 DEF CausalColumn
  <2>5. j - k \in 1 .. i
    BY <2>2, <2>3
  <2>6. CausalAt(col[j - k], ds[i])
    BY <2>4, <2>5, LaterIsCausal
  <2> QED BY <2>1, <2>2, <2>6 DEF lag
<1> QED BY <1>3, <1>4

-----------------------------------------------------------------------------
(* Frames.                                                                 *)

Known(c, d) == {<<c, d>>}

Cols(n) == [1 .. n -> Vals]
Frames(n) == [ds : [1 .. n -> Int], y : Cols(n), orders : Cols(n), stock : Cols(n)]

IsFrame(fr, n) ==
    /\ fr \in Frames(n)
    /\ Increasing(fr.ds, n)
    /\ CausalColumn(fr.orders, fr.ds, n)
    /\ CausalColumn(fr.stock, fr.ds, n)

\* Months first .. first + n - 1, row by row.
Consecutive(fr, first, n) == \A i \in 1 .. n : fr.ds[i] = first + i - 1

ObservedDemand(fr, n) == \A i \in 1 .. n : fr.y[i] = Known("y", fr.ds[i])

Started(fr) == fr.orders[1] # {} /\ fr.stock[1] # {}

\* An observation of orders or stock is causal in its own month.
LEMMA ObservedIsCausal ==
    ASSUME NEW c \in Columns, NEW d \in Int
    PROVE  /\ F!Observed(c, d) = Known(c, d)
           /\ Known(c, d) \in Vals /\ Known(c, d) # {}
           /\ c \notin Demand => CausalAt(Known(c, d), d)
BY DEF F!Observed, Known, Vals, CausalAt

Renewed(fr, ord, st) == [fr EXCEPT !.orders = ord, !.stock = st]

\* Imputed columns make a frame of a frame.
LEMMA NewColumns ==
    ASSUME NEW n \in Nat, NEW fr \in Frames(n), NEW ord \in Cols(n), NEW st \in Cols(n)
    PROVE  LET q == Renewed(fr, ord, st)
           IN /\ q \in Frames(n) /\ q.ds = fr.ds /\ q.y = fr.y
              /\ q.orders = ord /\ q.stock = st
BY DEF Frames, Renewed

\* The months of the panel are a causal frame without gaps.
LEMMA PanelIsFrame ==
    ASSUME NEW first \in Nat, NEW last \in Nat, first <= last
    PROVE  LET fr == F!PanelFrame(first, last)
               n == last - first + 1
           IN /\ IsFrame(fr, n) /\ Consecutive(fr, first, n) /\ ObservedDemand(fr, n)
              /\ \A i \in 1 .. n : fr.orders[i] # {} /\ fr.stock[i] # {}
<1> DEFINE n == last - first + 1
           fr == F!PanelFrame(first, last)
           Column(c) == [i \in 1 .. n |-> F!Observed(c, first + i - 1)]
<1>1. n \in Nat /\ n >= 1 /\ 1 \in 1 .. n
  OBVIOUS
<1>2. fr = [ds |-> [i \in 1 .. n |-> first + i - 1], y |-> Column("y"),
            orders |-> Column("orders"), stock |-> Column("stock")]
  BY DEF F!PanelFrame
<1> HIDE DEF n, fr
<1>3. ASSUME NEW c \in {"y", "orders", "stock"}
      PROVE  /\ Column(c) \in Cols(n)
             /\ \A i \in 1 .. n : /\ Column(c)[i] = Known(c, first + i - 1)
                                  /\ Column(c)[i] # {}
                                  /\ c # "y" => CausalAt(Column(c)[i], first + i - 1)
  <2>1. c \in Columns /\ (c # "y" => c \notin Demand)
    BY DEF Columns, Demand
  <2>2. \A i \in 1 .. n : first + i - 1 \in Int
    BY <1>1
  <2>3. \A i \in 1 .. n : F!Observed(c, first + i - 1) \in Vals
    BY <2>1, <2>2, ObservedIsCausal
  <2>4. Column(c) \in Cols(n)
    BY <2>3 DEF Cols
  <2>5. \A i \in 1 .. n : Column(c)[i] = F!Observed(c, first + i - 1)
    OBVIOUS
  <2> QED BY <2>1, <2>2, <2>4, <2>5, ObservedIsCausal
<1> HIDE DEF Column
<1>4. /\ fr \in Frames(n)
      /\ fr.ds \in [1 .. n -> Int] /\ \A i \in 1 .. n : fr.ds[i] = first + i - 1
      /\ fr.y = Column("y") /\ fr.orders = Column("orders") /\ fr.stock = Column("stock")
  BY <1>1, <1>2, <1>3 DEF Frames
<1>5. Increasing(fr.ds, n)
  BY <1>1, <1>4 DEF Increasing
<1>6. CausalColumn(fr.orders, fr.ds, n) /\ CausalColumn(fr.stock, fr.ds, n)
  BY <1>3, <1>4 DEF CausalColumn, Cols
<1>7. (\A i \in 1 .. n : fr.orders[i] # {}) /\ (\A i \in 1 .. n : fr.stock[i] # {})
  BY <1>3, <1>4
<1>8. Consecutive(fr, first, n) /\ ObservedDemand(fr, n)
  BY <1>3, <1>4 DEF Consecutive, ObservedDemand
<1> QED BY <1>4, <1>5, <1>6, <1>7, <1>8 DEF IsFrame, n, fr

\* Imputation, centered or causal, keeps such a column causal.
LEMMA EitherImputeIsCausal ==
    ASSUME NEW n \in Nat \ {0}, NEW ds, Increasing(ds, n), NEW causal \in BOOLEAN,
           NEW col, CausalColumn(col, ds, n), \A i \in 1 .. n : col[i] # {}
    PROVE  /\ CausalColumn(F!rolling_impute(col, causal), ds, n)
           /\ F!rolling_impute(col, causal)[1] # {}
<1>1. 1 \in 1 .. n /\ n \in Nat
  OBVIOUS
<1>2. CASE causal = TRUE
  <2>1. /\ CausalColumn(F!rolling_impute(col, TRUE), ds, n)
        /\ F!rolling_impute(col, TRUE)[1] # {}
    BY <1>1, ImputeIsCausal
  <2> QED BY <1>2, <2>1
<1>3. CASE causal = FALSE
  <2>1. col \in [1 .. n -> Vals]
    BY DEF CausalColumn
  <2>2. F!rolling_impute(col, FALSE) = col
    BY <1>1, <2>1, TrainColumnsStay
  <2> QED BY <1>1, <1>3, <2>2
<1> QED BY <1>2, <1>3

\* A history, train or VAL, is a causal frame of consecutive observed months.
LEMMA HistoryFrame ==
    ASSUME NEW first \in Nat, NEW last \in Nat, first <= last, NEW causal \in BOOLEAN
    PROVE  LET h == F!History(first, last, causal)
               n == last - first + 1
           IN /\ IsFrame(h, n) /\ Started(h)
              /\ Consecutive(h, first, n) /\ ObservedDemand(h, n)
<1> DEFINE n == last - first + 1
           fr == F!PanelFrame(first, last)
           h == F!History(first, last, causal)
           ord == F!rolling_impute(fr.orders, causal)
           st  == F!rolling_impute(fr.stock, causal)
<1>1. n \in Nat \ {0}
  OBVIOUS
<1>2. h = Renewed(fr, ord, st)
  BY DEF F!History, Renewed
<1>3. /\ IsFrame(fr, n) /\ Consecutive(fr, first, n) /\ ObservedDemand(fr, n)
      /\ \A i \in 1 .. n : fr.orders[i] # {} /\ fr.stock[i] # {}
  BY PanelIsFrame
<1> HIDE DEF n, fr, h
<1>4. /\ fr \in Frames(n) /\ Increasing(fr.ds, n)
      /\ CausalColumn(fr.orders, fr.ds, n) /\ CausalColumn(fr.stock, fr.ds, n)
  BY <1>3 DEF IsFrame
<1>5. CausalColumn(ord, fr.ds, n) /\ ord[1] # {}
  BY <1>1, <1>3, <1>4, EitherImputeIsCausal
<1>6. CausalColumn(st, fr.ds, n) /\ st[1] # {}
  BY <1>1, <1>3, <1>4, EitherImputeIsCausal
<1> HIDE DEF ord, st
<1>7. ord \in Cols(n) /\ st \in Cols(n)
  BY <1>5, <1>6 DEF CausalColumn, Cols
<1>8. /\ h \in Frames(n) /\ h.ds = fr.ds /\ h.y = fr.y
      /\ h.orders = ord /\ h.stock = st
  BY <1>1, <1>2, <1>4, <1>7, NewColumns
<1>9. IsFrame(h, n) /\ Started(h)
  BY <1>4, <1>5, <1>6, <1>8 DEF IsFrame, Started
<1>10. Consecutive(h, first, n) /\ ObservedDemand(h, n)
  BY <1>3, <1>8 DEF Consecutive, ObservedDemand
<1> QED BY <1>9, <1>10 DEF n, h

\* So is what is to be forecast, with or without exogenous forecasts, but for its demand.
LEMMA FutureFrame ==
    ASSUME NEW first \in Nat, NEW last \in Nat, first <= last,
           NEW exog \in SUBSET {"orders_hat", "stock_hat"}
    PROVE  LET h == F!Future(first, last, exog)
               n == last - first + 1
           IN IsFrame(h, n) /\ Consecutive(h, first, n)
<1> DEFINE n == last - first + 1
           h == F!Future(first, last, exog)
           Column(c) == [i \in 1 .. n |-> IF c \in exog THEN F!Observed(c, first + i - 1) ELSE {}]
           None == [i \in 1 .. n |-> {}]
<1>1. n \in Nat /\ n >= 1
  OBVIOUS
<1>2. h = [ds |-> [i \in 1 .. n |-> first + i - 1], y |-> None,
           orders |-> Column("orders_hat"), stock |-> Column("stock_hat")]
  BY DEF F!Future, F!NaN
<1> HIDE DEF n, h
<1>3. None \in Cols(n)
  BY DEF Cols, Vals
<1>4. ASSUME NEW c \in {"orders_hat", "stock_hat"}
      PROVE  /\ Column(c) \in Cols(n)
             /\ \A i \in 1 .. n : CausalAt(Column(c)[i], first + i - 1)
  <2>1. c \in Columns /\ c \notin Demand
    BY DEF Columns, Demand
  <2>2. \A i \in 1 .. n : first + i - 1 \in Int
    BY <1>1
  <2>3. \A i \in 1 .. n : /\ F!Observed(c, first + i - 1) \in Vals
                          /\ CausalAt(F!Observed(c, first + i - 1), first + i - 1)
    BY <2>1, <2>2, ObservedIsCausal
  <2>4. {} \in Vals /\ \A d \in Int : CausalAt({}, d)
    BY DEF Vals, CausalAt
  <2>5. CASE c \in exog
    <3>1. \A i \in 1 .. n : Column(c)[i] = F!Observed(c, first + i - 1)
      BY <2>5
    <3> QED BY <2>3, <2>5, <3>1 DEF Cols
  <2>6. CASE c \notin exog
    <3>1. \A i \in 1 .. n : Column(c)[i] = {}
      BY <2>6
    <3> QED BY <2>2, <2>4, <2>6, <3>1 DEF Cols
  <2> QED BY <2>5, <2>6
<1> HIDE DEF Column, None
<1>5. /\ h \in Frames(n)
      /\ h.ds \in [1 .. n -> Int] /\ \A i \in 1 .. n : h.ds[i] = first + i - 1
      /\ h.orders = Column("orders_hat") /\ h.stock = Column("stock_hat")
  BY <1>1, <1>2, <1>3, <1>4 DEF Frames
<1>6. Increasing(h.ds, n)
  BY <1>1, <1>5 DEF Increasing
<1>7. CausalColumn(h.orders, h.ds, n) /\ CausalColumn(h.stock, h.ds, n)
  BY <1>4, <1>5 DEF CausalColumn, Cols
<1> QED BY <1>5, <1>6, <1>7 DEF IsFrame, Consecutive, n, h

\* Rows below rows.
LEMMA Concatenated ==
    ASSUME NEW S, NEW m \in Nat, NEW k \in Nat, NEW a \in [1 .. m -> S], NEW b \in [1 .. k -> S]
    PROVE  /\ a \o b \in [1 .. m + k -> S]
           /\ \A i \in 1 .. m : (a \o b)[i] = a[i]
           /\ \A i \in 1 .. k : (a \o b)[m + i] = b[i]
<1>1. a \in Seq(S) /\ Len(a) = m /\ b \in Seq(S) /\ Len(b) = k
  OBVIOUS
<1>2. /\ a \o b \in Seq(S) /\ Len(a \o b) = m + k
      /\ \A i \in 1 .. m + k : (a \o b)[i] = IF i <= m THEN a[i] ELSE b[i - m]
  BY <1>1, ConcatProperties
<1>3. a \o b \in [1 .. m + k -> S]
  BY <1>2, LenProperties
<1>4. \A i \in 1 .. k : m + i \in 1 .. m + k /\ ~(m + i <= m) /\ m + i - m = i
  OBVIOUS
<1>5. \A i \in 1 .. m : i \in 1 .. m + k /\ i <= m
  OBVIOUS
<1>6. \A i \in 1 .. m : (a \o b)[i] = a[i]
  BY <1>2, <1>5
<1>7. \A i \in 1 .. k : (a \o b)[m + i] = b[i]
  BY <1>2, <1>4
<1> QED BY <1>3, <1>6, <1>7

\* The three facts of it, one by one.
LEMMA Joined ==
    ASSUME NEW S, NEW m \in Nat, NEW k \in Nat, NEW a \in [1 .. m -> S], NEW b \in [1 .. k -> S]
    PROVE  a \o b \in [1 .. m + k -> S]
BY Concatenated

\* The upper rows stay where they are.
LEMMA UpperRow ==
    ASSUME NEW S, NEW m \in Nat, NEW k \in Nat, NEW a \in [1 .. m -> S], NEW b \in [1 .. k -> S],
           NEW i \in 1 .. m
    PROVE  (a \o b)[i] = a[i]
OBVIOUS

\* The lower rows follow.
LEMMA LowerRow ==
    ASSUME NEW S, NEW m \in Nat, NEW k \in Nat, NEW a \in [1 .. m -> S], NEW b \in [1 .. k -> S],
           NEW i \in 1 .. k
    PROVE  (a \o b)[m + i] = b[i]
BY Concatenated

\* Later months below earlier ones make a causal frame.
LEMMA BelowFrame ==
    ASSUME NEW m \in Nat \ {0}, NEW k \in Nat \ {0}, NEW a, NEW b,
           IsFrame(a, m), IsFrame(b, k), a.ds[m] < b.ds[1]
    PROVE  LET fr == F!Below(a, b)
           IN /\ IsFrame(fr, m + k)
              /\ \A i \in 1 .. m : /\ fr.ds[i] = a.ds[i] /\ fr.y[i] = a.y[i]
                                   /\ fr.orders[i] = a.orders[i] /\ fr.stock[i] = a.stock[i]
              /\ \A i \in 1 .. k : /\ fr.ds[m + i] = b.ds[i] /\ fr.y[m + i] = b.y[i]
                                   /\ fr.orders[m + i] = b.orders[i]
                                   /\ fr.stock[m + i] = b.stock[i]
<1> DEFINE fr == F!Below(a, b)
           ds == a.ds \o b.ds
           dem == a.y \o b.y
           ord == a.orders \o b.orders
           st == a.stock \o b.stock
<1>1. fr = [ds |-> ds, y |-> dem, orders |-> ord, stock |-> st]
  BY DEF F!Below
<1>2. m \in Nat /\ k \in Nat /\ m + k \in Nat /\ 1 \in 1 .. k /\ m \in 1 .. m
  OBVIOUS
<1>3. /\ a.ds \in [1 .. m -> Int] /\ b.ds \in [1 .. k -> Int]
      /\ a.y \in [1 .. m -> Vals] /\ b.y \in [1 .. k -> Vals]
      /\ a.orders \in [1 .. m -> Vals] /\ b.orders \in [1 .. k -> Vals]
      /\ a.stock \in [1 .. m -> Vals] /\ b.stock \in [1 .. k -> Vals]
  BY DEF IsFrame, Increasing, CausalColumn, Frames, Cols
<1>4. /\ ds \in [1 .. m + k -> Int]
      /\ \A i \in 1 .. m : ds[i] = a.ds[i]
      /\ \A i \in 1 .. k : ds[m + i] = b.ds[i]
  <2> DEFINE u == a.ds
             v == b.ds
  <2>1. u \in [1 .. m -> Int] /\ v \in [1 .. k -> Int] /\ ds = u \o v
    BY <1>3
  <2> HIDE DEF u, v, ds
  <2>2. ds \in [1 .. m + k -> Int]
    BY <1>2, <2>1, Joined
  <2>3. ASSUME NEW i \in 1 .. m PROVE ds[i] = u[i]
    BY <1>2, <2>1, UpperRow
  <2>4. ASSUME NEW i \in 1 .. k PROVE ds[m + i] = v[i]
    BY <1>2, <2>1, LowerRow
  <2> QED BY <2>2, <2>3, <2>4 DEF u, v
<1>5. /\ dem \in [1 .. m + k -> Vals]
      /\ \A i \in 1 .. m : dem[i] = a.y[i]
      /\ \A i \in 1 .. k : dem[m + i] = b.y[i]
  <2> DEFINE u == a.y
             v == b.y
  <2>1. u \in [1 .. m -> Vals] /\ v \in [1 .. k -> Vals] /\ dem = u \o v
    BY <1>3
  <2> HIDE DEF u, v, dem
  <2>2. dem \in [1 .. m + k -> Vals]
    BY <1>2, <2>1, Joined
  <2>3. ASSUME NEW i \in 1 .. m PROVE dem[i] = u[i]
    BY <1>2, <2>1, UpperRow
  <2>4. ASSUME NEW i \in 1 .. k PROVE dem[m + i] = v[i]
    BY <1>2, <2>1, LowerRow
  <2> QED BY <2>2, <2>3, <2>4 DEF u, v
<1>6. /\ ord \in [1 .. m + k -> Vals]
      /\ \A i \in 1 .. m : ord[i] = a.orders[i]
      /\ \A i \in 1 .. k : ord[m + i] = b.orders[i]
  <2> DEFINE u == a.orders
             v == b.orders
  <2>1. u \in [1 .. m -> Vals] /\ v \in [1 .. k -> Vals] /\ ord = u \o v
    BY <1>3
  <2> HIDE DEF u, v, ord
  <2>2. ord \in [1 .. m + k -> Vals]
    BY <1>2, <2>1, Joined
  <2>3. ASSUME NEW i \in 1 .. m PROVE ord[i] = u[i]
    BY <1>2, <2>1, UpperRow
  <2>4. ASSUME NEW i \in 1 .. k PROVE ord[m + i] = v[i]
    BY <1>2, <2>1, LowerRow
  <2> QED BY <2>2, <2>3, <2>4 DEF u, v
<1>7. /\ st \in [1 .. m + k -> Vals]
      /\ \A i \in 1 .. m : st[i] = a.stock[i]
      /\ \A i \in 1 .. k : st[m + i] = b.stock[i]
  <2> DEFINE u == a.stock
             v == b.stock
  <2>1. u \in [1 .. m -> Vals] /\ v \in [1 .. k -> Vals] /\ st = u \o v
    BY <1>3
  <2> HIDE DEF u, v, st
  <2>2. st \in [1 .. m + k -> Vals]
    BY <1>2, <2>1, Joined
  <2>3. ASSUME NEW i \in 1 .. m PROVE st[i] = u[i]
    BY <1>2, <2>1, UpperRow
  <2>4. ASSUME NEW i \in 1 .. k PROVE st[m + i] = v[i]
    BY <1>2, <2>1, LowerRow
  <2> QED BY <2>2, <2>3, <2>4 DEF u, v
<1> HIDE DEF fr, ds, dem, ord, st
<1>8. /\ fr \in Frames(m + k)
      /\ fr.ds = ds /\ fr.y = dem /\ fr.orders = ord /\ fr.stock = st
  BY <1>1, <1>4, <1>5, <1>6, <1>7 DEF Frames, Cols
<1>9. \A i \in 1 .. m + k : i \in 1 .. m \/ (i > m /\ i - m \in 1 .. k /\ i = m + (i - m))
  BY <1>2
<1>10. Increasing(a.ds, m) /\ Increasing(b.ds, k)
  BY DEF IsFrame
<1>11. Increasing(ds, m + k)
  <2>1. ASSUME NEW i \in 1 .. m PROVE a.ds[i] <= a.ds[m]
    <3>1. a.ds[i] \in Int /\ a.ds[m] \in Int
      BY <1>2, <1>3
    <3>2. CASE i < m
      BY <1>2, <1>10, <3>1, <3>2 DEF Increasing
    <3>3. CASE i = m
      BY <3>1, <3>3
    <3> QED BY <1>2, <3>2, <3>3
  <2>2. ASSUME NEW i \in 1 .. k PROVE b.ds[1] <= b.ds[i]
    <3>1. b.ds[i] \in Int /\ b.ds[1] \in Int
      BY <1>2, <1>3
    <3>2. CASE 1 < i
      BY <1>2, <1>10, <3>1, <3>2 DEF Increasing
    <3>3. CASE i = 1
      BY <3>1, <3>3
    <3> QED BY <1>2, <3>2, <3>3
  <2>3. ASSUME NEW i \in 1 .. m + k, NEW j \in 1 .. m + k, i < j
        PROVE  ds[i] < ds[j]
    <3>1. CASE j \in 1 .. m
      <4>1. i \in 1 .. m
        BY <2>3, <3>1
      <4> QED BY <1>4, <1>10, <2>3, <3>1, <4>1 DEF Increasing
    <3>2. CASE i \in 1 .. m /\ j \notin 1 .. m
      <4>1. j - m \in 1 .. k /\ ds[j] = b.ds[j - m] /\ ds[i] = a.ds[i]
        BY <1>4, <1>9, <3>2
      <4>2. a.ds[i] \in Int /\ a.ds[m] \in Int /\ b.ds[1] \in Int /\ b.ds[j - m] \in Int
        BY <1>2, <1>3, <3>2, <4>1
      <4> QED BY <2>1, <2>2, <3>2, <4>1, <4>2
    <3>3. CASE i \notin 1 .. m
      <4>1. i - m \in 1 .. k /\ j - m \in 1 .. k /\ i - m < j - m
        BY <1>2, <2>3, <3>3
      <4>2. ds[i] = b.ds[i - m] /\ ds[j] = b.ds[j - m]
        BY <1>4, <1>9, <2>3, <3>3
      <4> QED BY <1>10, <4>1, <4>2 DEF Increasing
    <3> QED BY <3>1, <3>2, <3>3
  <2> QED BY <1>4, <2>3 DEF Increasing
<1>12. ASSUME NEW i \in 1 .. m + k
       PROVE  CausalAt(ord[i], ds[i]) /\ CausalAt(st[i], ds[i])
  <2>1. CASE i \in 1 .. m
    <3>1. CausalAt(a.orders[i], a.ds[i]) /\ CausalAt(a.stock[i], a.ds[i])
      BY <2>1 DEF IsFrame, CausalColumn
    <3> QED BY <1>4, <1>6, <1>7, <2>1, <3>1
  <2>2. CASE i - m \in 1 .. k /\ i = m + (i - m)
    <3>1. CausalAt(b.orders[i - m], b.ds[i - m]) /\ CausalAt(b.stock[i - m], b.ds[i - m])
      BY <2>2 DEF IsFrame, CausalColumn
    <3>2. ds[i] = b.ds[i - m] /\ ord[i] = b.orders[i - m] /\ st[i] = b.stock[i - m]
      BY <1>4, <1>6, <1>7, <2>2
    <3> QED BY <3>1, <3>2
  <2> QED BY <1>9, <2>1, <2>2
<1>13. CausalColumn(ord, ds, m + k) /\ CausalColumn(st, ds, m + k)
  BY <1>6, <1>7, <1>12 DEF CausalColumn
<1> QED BY <1>4, <1>5, <1>6, <1>7, <1>8, <1>11, <1>13 DEF IsFrame, fr
-----------------------------------------------------------------------------
(* The forecast under way.                                                 *)

Kinds == {"VAL", "PRE", "REFIT"}
Jobs(n) == [kind : Kinds, at : Nat, hist : Nat, full : Frames(n)]

\* The rows up to the one to be forecast hold a demand, the history's as
\* observed, the months after it as forecast; the forecast months follow one
\* another, and the history ends right before them, but for a REFIT forecast.
JobInv(j, n) ==
    /\ j \in Jobs(n)
    /\ IsFrame(j.full, n) /\ Started(j.full)
    /\ 1 <= j.hist /\ j.hist < n /\ 1 <= j.at /\ j.hist + j.at <= n + 1
    /\ \A i \in 1 .. n : i < j.hist + j.at =>
         j.full.y[i] = Known(IF i <= j.hist THEN "y" ELSE "yhat", j.full.ds[i])
    /\ \A i \in 1 .. n : i > j.hist + 1 => j.full.ds[i - 1] = j.full.ds[i] - 1
    /\ j.full.ds[j.hist] = IF j.kind = "REFIT" THEN ValStart - 1
                           ELSE j.full.ds[j.hist + 1] - 1

\* A forecast starts right when a history is put above its months.
LEMMA StartedJob ==
    ASSUME NEW m \in Nat \ {0}, NEW k \in Nat \ {0}, NEW a, NEW b, NEW first \in Nat,
           NEW kind \in Kinds,
           IsFrame(a, m), Started(a), ObservedDemand(a, m),
           IsFrame(b, k), Consecutive(b, first, k),
           a.ds[m] < first,
           a.ds[m] = IF kind = "REFIT" THEN ValStart - 1 ELSE first - 1
    PROVE  JobInv([kind |-> kind, at |-> 1, hist |-> m, full |-> F!Below(a, b)], m + k)
<1> DEFINE fr == F!Below(a, b)
           j == [kind |-> kind, at |-> 1, hist |-> m, full |-> fr]
           n == m + k
<1>1. n \in Nat /\ 1 \in 1 .. m /\ m \in 1 .. m /\ 1 \in 1 .. k /\ m < n
  OBVIOUS
<1>2. b.ds[1] = first
  BY <1>1 DEF Consecutive
<1>3. /\ IsFrame(fr, n)
      /\ \A i \in 1 .. m : /\ fr.ds[i] = a.ds[i] /\ fr.y[i] = a.y[i]
                           /\ fr.orders[i] = a.orders[i] /\ fr.stock[i] = a.stock[i]
      /\ \A i \in 1 .. k : fr.ds[m + i] = b.ds[i]
  BY <1>2, BelowFrame
<1> HIDE DEF fr, n
<1>4. fr \in Frames(n)
  BY <1>3 DEF IsFrame
<1>5. j \in Jobs(n) /\ j.kind = kind /\ j.at = 1 /\ j.hist = m /\ j.full = fr
  BY <1>4 DEF Jobs
<1> HIDE DEF j
<1>6. Started(fr)
  BY <1>1, <1>3 DEF Started
<1>7. ASSUME NEW i \in 1 .. n, i < m + 1 PROVE fr.y[i] = Known("y", fr.ds[i])
  <2>1. i \in 1 .. m
    BY <1>7
  <2> QED BY <1>3, <2>1 DEF ObservedDemand
<1>8. ASSUME NEW i \in 1 .. n, i > m + 1 PROVE fr.ds[i - 1] = fr.ds[i] - 1
  <2>1. /\ i - m \in 1 .. k /\ i - 1 - m \in 1 .. k
        /\ m + (i - m) = i /\ m + (i - 1 - m) = i - 1
    BY <1>1, <1>8 DEF n
  <2>2. fr.ds[i] = b.ds[i - m] /\ fr.ds[i - 1] = b.ds[i - 1 - m]
    BY <1>3, <2>1
  <2>3. b.ds[i - m] = first + (i - m) - 1 /\ b.ds[i - 1 - m] = first + (i - 1 - m) - 1
    BY <2>1 DEF Consecutive
  <2> QED BY <2>1, <2>2, <2>3
<1>9. fr.ds[m] = IF kind = "REFIT" THEN ValStart - 1 ELSE fr.ds[m + 1] - 1
  BY <1>1, <1>2, <1>3
<1>10. \A i \in 1 .. n : i < m + 1 => i <= m
  OBVIOUS
<1>11. JobInv(j, n)
  BY <1>1, <1>3, <1>5, <1>6, <1>7, <1>8, <1>9, <1>10 DEF JobInv
<1> QED BY <1>11 DEF j, n, fr

-----------------------------------------------------------------------------
(* How far back smoothing reaches.                                         *)

\* A column smoothed k times over a history of h rows, its last rows smoothed
\* over e rows before: no value is older than 2k + e rows, and what the rows
\* below the history are filled with is from its last ones.
Reaches(col, n, h, e, k) ==
    \A r \in 1 .. n : \A o \in col[r] : h - e <= o[2] \/ r - 2 * k - e <= o[2]

KnownRows(col, n) == \A r \in 1 .. n : col[r] # {}

\* A column that ends in missing values is filled from its last known row.
LEMMA FillReaches ==
    ASSUME NEW n \in Nat, NEW h \in 1 .. n, NEW e \in Nat,
           NEW col \in [1 .. n -> Vals], KnownRows(col, h), Reaches(col, n, h, e, 0)
    PROVE  Reaches(F!ffill(col), n, h, e, 0)
<1> SUFFICES ASSUME NEW r \in 1 .. n, NEW o \in F!ffill(col)[r]
             PROVE  h - e <= o[2] \/ r - 2 * 0 - e <= o[2]
  BY DEF Reaches
<1>1. h \in Nat /\ r \in Nat
  OBVIOUS
<1>2. CASE col[r] # {}
  <2>1. F!ffill(col)[r] = col[r]
    BY <1>2, FillForward
  <2> QED BY <2>1 DEF Reaches
<1>3. CASE col[r] = {}
  <2>1. h \in 1 .. r /\ col[h] # {}
    BY <1>1, <1>3 DEF KnownRows
  <2>2. PICK k \in h .. r : F!ffill(col)[r] = col[k]
    BY <2>1, FilledFromTheLast
  <2>3. k \in 1 .. n /\ k \in Nat /\ h <= k /\ o \in col[k]
    BY <1>1, <2>2
  <2>4. o[2] \in Int
    BY <2>3, ValuesAreTyped
  <2>5. h - e <= o[2] \/ k - 2 * 0 - e <= o[2]
    BY <2>3 DEF Reaches
  <2>6. h - e <= o[2]
    BY <1>1, <2>3, <2>4, <2>5
  <2> QED BY <2>6
<1> QED BY <1>2, <1>3

\* A mean over the rows up to this one reaches two rows further.
LEMMA TrailingReaches ==
    ASSUME NEW n \in Nat, NEW h \in 1 .. n, NEW e \in Nat, NEW k \in Nat,
           NEW col \in [1 .. n -> Vals], Reaches(col, n, h, e, k)
    PROVE  Reaches(F!Trailing(col), n, h, e, k + 1)
<1> SUFFICES ASSUME NEW r \in 1 .. n, NEW o \in F!Trailing(col)[r]
             PROVE  h - e <= o[2] \/ r - 2 * (k + 1) - e <= o[2]
  BY DEF Reaches
<1>1. F!Trailing(col)[r] = UNION {col[j] : j \in (r - 2 .. r) \cap 1 .. n}
  BY DEF F!Trailing, F!Mean
<1>2. PICK j \in (r - 2 .. r) \cap 1 .. n : o \in col[j]
  BY <1>1
<1>3. h - e <= o[2] \/ j - 2 * k - e <= o[2]
  BY <1>2 DEF Reaches
<1>4. o[2] \in Int
  BY <1>2, ValuesAreTyped
<1>5. h \in Int /\ r \in Int /\ j \in Int /\ r - 2 <= j
  BY <1>2
<1>6. r - 2 * (k + 1) - e <= j - 2 * k - e
  BY <1>5
<1> QED BY <1>3, <1>4, <1>5, <1>6

\* One smoothing of the columns of a forecast.
LEMMA ImputeReaches ==
    ASSUME NEW n \in Nat, NEW h \in 1 .. n, NEW e \in Nat, NEW k \in Nat,
           NEW ds, Increasing(ds, n), NEW col, CausalColumn(col, ds, n),
           KnownRows(col, IF k = 0 THEN h ELSE n), Reaches(col, n, h, e, k)
    PROVE  /\ KnownRows(F!rolling_impute(col, TRUE), n)
           /\ Reaches(F!rolling_impute(col, TRUE), n, h, e, k + 1)
<1> DEFINE up == F!ffill(col)
           mean == F!Trailing(up)
<1>1. col \in [1 .. n -> Vals] /\ 1 \in 1 .. h /\ 1 \in 1 .. n /\ col[1] # {}
  BY DEF CausalColumn, KnownRows
<1>2. up \in [1 .. n -> Vals]
  BY <1>1, FillForward
<1>3. Reaches(up, n, h, e, k)
  <2>1. CASE k = 0
    BY <1>1, <2>1, FillReaches
  <2>2. CASE k # 0
    <3>1. \A i \in 1 .. n : up[i] = col[i]
      BY <1>1, <2>2, FillForward DEF KnownRows
    <3> HIDE DEF up
    <3> QED BY <3>1 DEF Reaches
  <2> QED BY <2>1, <2>2
<1>4. F!rolling_impute(col, TRUE) = F!bfill(mean)
  BY DEF F!rolling_impute
<1>5. CausalColumn(up, ds, n) /\ \A i \in 1 .. n : up[i] # {}
  BY <1>1, FillIsCausal
<1> HIDE DEF up
<1>6. CausalColumn(mean, ds, n) /\ \A i \in 1 .. n : mean[i] # {}
  BY <1>5, TrailingIsCausal
<1>7. Reaches(mean, n, h, e, k + 1)
  BY <1>2, <1>3, TrailingReaches
<1>8. mean \in [1 .. n -> Vals]
  BY <1>6 DEF CausalColumn
<1> HIDE DEF mean
<1>9. F!bfill(mean) = mean
  BY <1>6, <1>8, KnownIsNotFilled
<1> QED BY <1>4, <1>6, <1>7, <1>9 DEF KnownRows

-----------------------------------------------------------------------------
(* Where the histories start.                                              *)

\* Rows of a column that are known and no older than e rows.
Since(col, n, first, e) ==
    \A r \in 1 .. n : col[r] # {} /\ \A o \in col[r] : first + r - 1 - e <= o[2]

\* A column without gaps is not filled forward either.
LEMMA KnownStays ==
    ASSUME NEW n \in Nat, NEW col \in [1 .. n -> Vals], \A i \in 1 .. n : col[i] # {}
    PROVE  F!ffill(col) = col
<1>1. F!ffill(col) \in [1 .. n -> Vals] /\ \A i \in 1 .. n : F!ffill(col)[i] = col[i]
  BY FillForward
<1> QED BY <1>1

\* A history is at most two months older than its rows, and train months are
\* as they were observed.
LEMMA HistorySince ==
    ASSUME NEW first \in Nat, NEW last \in Nat, first <= last, NEW causal \in BOOLEAN,
           NEW e \in Nat, e = IF causal THEN 2 ELSE 0
    PROVE  LET f == F!History(first, last, causal)
               n == last - first + 1
           IN Since(f.orders, n, first, e) /\ Since(f.stock, n, first, e)
<1> DEFINE n == last - first + 1
           fr == F!PanelFrame(first, last)
           f == F!History(first, last, causal)
<1>1. n \in Nat
  OBVIOUS
<1>2. fr \in Frames(n) /\ Increasing(fr.ds, n)
      /\ CausalColumn(fr.orders, fr.ds, n) /\ CausalColumn(fr.stock, fr.ds, n)
  BY PanelIsFrame DEF IsFrame
<1>3. \A i \in 1 .. n : /\ fr.orders[i] = Known("orders", first + i - 1)
                        /\ fr.stock[i] = Known("stock", first + i - 1)
  BY DEF F!PanelFrame, F!Observed, Known
<1>4. f.orders = F!rolling_impute(fr.orders, causal)
      /\ f.stock = F!rolling_impute(fr.stock, causal)
  BY <1>2 DEF F!History, Frames
<1> HIDE DEF n, fr, f
<1>5. ASSUME NEW c, NEW col, CausalColumn(col, fr.ds, n),
             \A i \in 1 .. n : col[i] = Known(c, first + i - 1)
      PROVE  Since(F!rolling_impute(col, causal), n, first, e)
  <2>1. col \in [1 .. n -> Vals] /\ \A i \in 1 .. n : col[i] # {}
    BY <1>5 DEF CausalColumn, Known
  <2>2. CASE causal = FALSE
    <3>1. F!rolling_impute(col, causal) = col
      BY <1>1, <2>1, <2>2, TrainColumnsStay
    <3>2. \A r \in 1 .. n : \A o \in col[r] : o[2] = first + r - 1
      BY <1>5 DEF Known
    <3>3. e = 0
      BY <2>2
    <3>4. \A r \in 1 .. n : first + r - 1 - 0 <= first + r - 1
      BY <1>1
    <3> QED BY <2>1, <3>1, <3>2, <3>3, <3>4 DEF Since
  <2>3. CASE causal = TRUE
    <3> DEFINE up == F!ffill(col)
               mean == F!Trailing(col)
    <3>1. F!rolling_impute(col, TRUE) = F!bfill(F!Trailing(up))
      BY DEF F!rolling_impute
    <3>2. up = col
      BY <1>1, <2>1, KnownStays
    <3>3. CausalColumn(mean, fr.ds, n) /\ \A i \in 1 .. n : mean[i] # {}
      BY <1>1, <1>2, <1>5, <2>1, TrailingIsCausal
    <3>4. mean \in [1 .. n -> Vals]
      BY <3>3 DEF CausalColumn
    <3>5. F!bfill(mean) = mean
      <4> HIDE DEF mean
      <4> QED BY <1>1, <3>3, <3>4, KnownIsNotFilled
    <3>6. ASSUME NEW r \in 1 .. n, NEW o \in mean[r]
          PROVE  first + r - 1 - 2 <= o[2]
      <4>1. mean[r] = UNION {col[j] : j \in (r - 2 .. r) \cap 1 .. n}
        BY <2>1 DEF F!Trailing, F!Mean
      <4>2. PICK j \in (r - 2 .. r) \cap 1 .. n : o \in col[j]
        BY <4>1
      <4>3. o[2] = first + j - 1
        BY <1>5, <4>2 DEF Known
      <4> QED BY <1>1, <4>2, <4>3
    <3>7. e = 2
      BY <2>3
    <3> HIDE DEF up, mean
    <3>8. F!rolling_impute(col, causal) = mean
      BY <2>3, <3>1, <3>2, <3>5 DEF mean
    <3> QED BY <3>3, <3>6, <3>7, <3>8 DEF Since
  <2> QED BY <2>2, <2>3
<1>6. Since(f.orders, n, first, e) /\ Since(f.stock, n, first, e)
  BY <1>2, <1>3, <1>4, <1>5
<1> QED BY <1>6 DEF n, f

\* Exogenous forecasts are of the month itself.
LEMMA FutureSince ==
    ASSUME NEW first \in Nat, NEW last \in Nat, first <= last,
           NEW exog \in SUBSET {"orders_hat", "stock_hat"}
    PROVE  LET f == F!Future(first, last, exog)
               n == last - first + 1
           IN \A r \in 1 .. n : \A o \in f.orders[r] \cup f.stock[r] : first <= o[2]
<1> SUFFICES ASSUME NEW r \in 1 .. last - first + 1,
                    NEW o \in F!Future(first, last, exog).orders[r]
                                \cup F!Future(first, last, exog).stock[r]
             PROVE  first <= o[2]
  OBVIOUS
<1>1. o \in F!Observed("orders_hat", first + r - 1) \cup F!Observed("stock_hat", first + r - 1)
  BY DEF F!Future, F!NaN
<1>2. o[2] = first + r - 1
  BY <1>1 DEF F!Observed
<1> QED BY <1>2

Extra(kind) == IF kind = "PRE" THEN 2 ELSE 0

\* The months of a history are numbered from one, and what is known of the
\* orders and the stock reaches back as far as the smoothing done so far.
JobReach(j, n) ==
    /\ \A i \in 1 .. j.hist : j.full.ds[i] = i
    /\ KnownRows(j.full.orders, IF j.at - 1 = 0 THEN j.hist ELSE n)
    /\ KnownRows(j.full.stock, IF j.at - 1 = 0 THEN j.hist ELSE n)
    /\ Reaches(j.full.orders, n, j.hist, Extra(j.kind), j.at - 1)
    /\ Reaches(j.full.stock, n, j.hist, Extra(j.kind), j.at - 1)

\* What a forecast starts with.
LEMMA StartedReach ==
    ASSUME NEW m \in Nat \ {0}, NEW k \in Nat \ {0}, NEW a, NEW b, NEW kind \in Kinds,
           IsFrame(a, m), IsFrame(b, k), a.ds[m] < b.ds[1],
           \A i \in 1 .. m : a.ds[i] = i,
           Since(a.orders, m, 1, Extra(kind)), Since(a.stock, m, 1, Extra(kind)),
           \A r \in 1 .. k : \A o \in b.orders[r] \cup b.stock[r] : m <= o[2]
    PROVE  JobReach([kind |-> kind, at |-> 1, hist |-> m, full |-> F!Below(a, b)], m + k)
<1> DEFINE fr == F!Below(a, b)
           n == m + k
           e == Extra(kind)
<1>1. /\ IsFrame(fr, n)
      /\ \A i \in 1 .. m : /\ fr.ds[i] = a.ds[i]
                           /\ fr.orders[i] = a.orders[i] /\ fr.stock[i] = a.stock[i]
      /\ \A i \in 1 .. k : /\ fr.orders[m + i] = b.orders[i]
                           /\ fr.stock[m + i] = b.stock[i]
  BY BelowFrame
<1>2. e \in Nat
  BY DEF Extra
<1>3. \A r \in 1 .. n : r \in 1 .. m \/ (r - m \in 1 .. k /\ m + (r - m) = r)
  OBVIOUS
<1>4. fr.orders \in [1 .. n -> Vals] /\ fr.stock \in [1 .. n -> Vals]
  BY <1>1 DEF IsFrame, CausalColumn
<1> HIDE DEF fr, n, e
<1>5. ASSUME NEW col \in [1 .. n -> Vals], NEW u, NEW v,
             \A i \in 1 .. m : col[i] = u[i], \A i \in 1 .. k : col[m + i] = v[i],
             Since(u, m, 1, e), \A r \in 1 .. k : \A o \in v[r] : m <= o[2]
      PROVE  KnownRows(col, m) /\ Reaches(col, n, m, e, 0)
  <2>1. KnownRows(col, m)
    BY <1>5 DEF KnownRows, Since
  <2>2. ASSUME NEW r \in 1 .. n, NEW o \in col[r]
        PROVE  m - e <= o[2] \/ r - 2 * 0 - e <= o[2]
    <3>1. o[2] \in Int
      BY ValuesAreTyped
    <3>2. CASE r \in 1 .. m
      <4>1. 1 + r - 1 - e <= o[2]
        BY <1>5, <3>2 DEF Since
      <4> QED BY <1>2, <3>1, <3>2, <4>1
    <3>3. CASE r - m \in 1 .. k /\ m + (r - m) = r
      <4>1. col[r] = v[r - m]
        BY <1>5, <3>3
      <4>2. m <= o[2]
        BY <1>5, <3>3, <4>1
      <4> QED BY <1>2, <3>1, <4>2
    <3> QED BY <1>3, <3>2, <3>3
  <2> QED BY <2>1, <2>2 DEF Reaches
<1>6. KnownRows(fr.orders, m) /\ Reaches(fr.orders, n, m, e, 0)
  <2> DEFINE col == fr.orders
             u == a.orders
             v == b.orders
  <2>1. /\ col \in [1 .. n -> Vals] /\ Since(u, m, 1, e)
        /\ \A i \in 1 .. m : col[i] = u[i]
        /\ \A i \in 1 .. k : col[m + i] = v[i]
        /\ \A r \in 1 .. k : \A o \in v[r] : m <= o[2]
    BY <1>1, <1>4 DEF e
  <2> HIDE DEF col, u, v
  <2>2. KnownRows(col, m) /\ Reaches(col, n, m, e, 0)
    BY <1>5, <2>1
  <2> QED BY <2>2 DEF col
<1>7. KnownRows(fr.stock, m) /\ Reaches(fr.stock, n, m, e, 0)
  <2> DEFINE col == fr.stock
             u == a.stock
             v == b.stock
  <2>1. /\ col \in [1 .. n -> Vals] /\ Since(u, m, 1, e)
        /\ \A i \in 1 .. m : col[i] = u[i]
        /\ \A i \in 1 .. k : col[m + i] = v[i]
        /\ \A r \in 1 .. k : \A o \in v[r] : m <= o[2]
    BY <1>1, <1>4 DEF e
  <2> HIDE DEF col, u, v
  <2>2. KnownRows(col, m) /\ Reaches(col, n, m, e, 0)
    BY <1>5, <2>1
  <2> QED BY <2>2 DEF col
<1> DEFINE j == [kind |-> kind, at |-> 1, hist |-> m, full |-> fr]
<1>8. j.kind = kind /\ j.at - 1 = 0 /\ j.hist = m /\ j.full = fr
  OBVIOUS
<1> HIDE DEF j
<1>9. JobReach(j, n)
  BY <1>1, <1>6, <1>7, <1>8 DEF JobReach, e
<1> QED BY <1>9 DEF j, n, fr

-----------------------------------------------------------------------------
(* What each kind of forecast starts with.                                 *)

\* The history of the train months.
LEMMA TrainFrame ==
    /\ ValStart - 1 \in Nat \ {0}
    /\ IsFrame(TrainHistory, ValStart - 1) /\ Started(TrainHistory)
    /\ ObservedDemand(TrainHistory, ValStart - 1)
    /\ TrainHistory.ds[ValStart - 1] = ValStart - 1
    /\ \A i \in 1 .. ValStart - 1 : TrainHistory.ds[i] = i
    /\ Since(TrainHistory.orders, ValStart - 1, 1, 0)
    /\ Since(TrainHistory.stock, ValStart - 1, 1, 0)
<1>1. /\ ValStart - 1 \in Nat \ {0} /\ 1 <= ValStart - 1 /\ 1 \in Nat
      /\ ValStart - 1 - 1 + 1 = ValStart - 1 /\ ValStart - 1 \in 1 .. ValStart - 1
  BY WindowAssumption
<1>2. /\ IsFrame(TrainHistory, ValStart - 1) /\ Started(TrainHistory)
      /\ Consecutive(TrainHistory, 1, ValStart - 1)
      /\ ObservedDemand(TrainHistory, ValStart - 1)
  BY <1>1, HistoryFrame DEF TrainHistory
<1>3. \A i \in 1 .. ValStart - 1 : TrainHistory.ds[i] = i
  BY <1>1, <1>2 DEF Consecutive
<1>4. /\ Since(TrainHistory.orders, ValStart - 1, 1, 0)
      /\ Since(TrainHistory.stock, ValStart - 1, 1, 0)
  BY <1>1, HistorySince DEF TrainHistory
<1> QED BY <1>1, <1>2, <1>3, <1>4

\* The history of the train and the VAL months.
LEMMA TrainValFrame ==
    /\ TestStart - 1 \in Nat \ {0}
    /\ IsFrame(TrainValHistory, TestStart - 1) /\ Started(TrainValHistory)
    /\ ObservedDemand(TrainValHistory, TestStart - 1)
    /\ TrainValHistory.ds[TestStart - 1] = TestStart - 1
    /\ \A i \in 1 .. TestStart - 1 : TrainValHistory.ds[i] = i
    /\ Since(TrainValHistory.orders, TestStart - 1, 1, 2)
    /\ Since(TrainValHistory.stock, TestStart - 1, 1, 2)
<1> DEFINE m == ValStart - 1
           k == TestStart - ValStart
           a == TrainHistory
           b == F!History(ValStart, TestStart - 1, TRUE)
           fr == TrainValHistory
<1>1. /\ m \in Nat \ {0} /\ k \in Nat \ {0} /\ m + k = TestStart - 1
      /\ ValStart \in Nat /\ TestStart - 1 \in Nat /\ ValStart <= TestStart - 1
      /\ TestStart - 1 - ValStart + 1 = k /\ 1 \in 1 .. k /\ k \in 1 .. k /\ 1 \in 1 .. m
      /\ m < ValStart /\ ValStart + k - 1 = TestStart - 1 /\ ValStart + 1 - 1 = ValStart
  BY WindowAssumption
<1>2. /\ IsFrame(a, m) /\ Started(a) /\ ObservedDemand(a, m) /\ a.ds[m] = m
      /\ \A i \in 1 .. m : a.ds[i] = i
      /\ Since(a.orders, m, 1, 0) /\ Since(a.stock, m, 1, 0)
  BY TrainFrame
<1>3. /\ IsFrame(b, k) /\ Consecutive(b, ValStart, k) /\ ObservedDemand(b, k)
      /\ Since(b.orders, k, ValStart, 2) /\ Since(b.stock, k, ValStart, 2)
  <2>1. IsFrame(b, k) /\ Consecutive(b, ValStart, k) /\ ObservedDemand(b, k)
    BY <1>1, HistoryFrame
  <2>2. Since(b.orders, k, ValStart, 2) /\ Since(b.stock, k, ValStart, 2)
    BY <1>1, HistorySince
  <2> QED BY <2>1, <2>2
<1>4. fr = F!Below(a, b)
  BY DEF TrainValHistory
<1> HIDE DEF a, b, fr, m, k
<1>5. b.ds[1] = ValStart /\ b.ds[k] = TestStart - 1
  BY <1>1, <1>3 DEF Consecutive
<1>6. a.ds[m] < b.ds[1]
  BY <1>1, <1>2, <1>5
<1>7. /\ IsFrame(fr, m + k)
      /\ \A i \in 1 .. m : /\ fr.ds[i] = a.ds[i] /\ fr.y[i] = a.y[i]
                           /\ fr.orders[i] = a.orders[i] /\ fr.stock[i] = a.stock[i]
      /\ \A i \in 1 .. k : /\ fr.ds[m + i] = b.ds[i] /\ fr.y[m + i] = b.y[i]
                           /\ fr.orders[m + i] = b.orders[i] /\ fr.stock[m + i] = b.stock[i]
  BY <1>1, <1>2, <1>3, <1>4, <1>6, BelowFrame
<1>8. Started(fr)
  BY <1>1, <1>2, <1>7 DEF Started
<1>9. ASSUME NEW i \in 1 .. m + k PROVE fr.y[i] = Known("y", fr.ds[i])
  <2>1. CASE i \in 1 .. m
    BY <1>2, <1>7, <2>1 DEF ObservedDemand
  <2>2. CASE i \notin 1 .. m
    <3>1. i - m \in 1 .. k /\ m + (i - m) = i
      BY <1>1, <2>2
    <3>2. fr.y[i] = b.y[i - m] /\ fr.ds[i] = b.ds[i - m]
      BY <1>7, <3>1
    <3> QED BY <1>3, <3>1, <3>2 DEF ObservedDemand
  <2> QED BY <2>1, <2>2
<1>10. ObservedDemand(fr, m + k)
  BY <1>9 DEF ObservedDemand
<1>11. fr.ds[m + k] = TestStart - 1
  BY <1>1, <1>5, <1>7
<1>12. \A i \in 1 .. m + k : i \in 1 .. m \/ (i - m \in 1 .. k /\ m + (i - m) = i)
  BY <1>1
<1>13. ASSUME NEW i \in 1 .. m + k PROVE fr.ds[i] = i
  <2>1. CASE i \in 1 .. m
    BY <1>2, <1>7, <2>1
  <2>2. CASE i - m \in 1 .. k /\ m + (i - m) = i
    <3>1. fr.ds[i] = b.ds[i - m] /\ b.ds[i - m] = ValStart + (i - m) - 1
      BY <1>3, <1>7, <2>2 DEF Consecutive
    <3>2. ValStart = m + 1
      BY <1>1 DEF m
    <3> QED BY <1>1, <2>2, <3>1, <3>2
  <2> QED BY <1>12, <2>1, <2>2
<1>14. ASSUME NEW col, NEW u, NEW v, Since(u, m, 1, 0), Since(v, k, ValStart, 2),
              \A i \in 1 .. m : col[i] = u[i] /\ u[i] \in Vals,
              \A i \in 1 .. k : col[m + i] = v[i]
       PROVE  Since(col, m + k, 1, 2)
  <2> SUFFICES ASSUME NEW r \in 1 .. m + k
               PROVE  col[r] # {} /\ \A o \in col[r] : 1 + r - 1 - 2 <= o[2]
    BY DEF Since
  <2>1. CASE r \in 1 .. m
    <3>1. col[r] # {}
      BY <1>14, <2>1 DEF Since
    <3>2. ASSUME NEW o \in col[r] PROVE 1 + r - 1 - 2 <= o[2]
      <4>1. 1 + r - 1 - 0 <= o[2] /\ u[r] \in Vals /\ o \in u[r]
        BY <1>14, <2>1, <3>2 DEF Since
      <4>2. o[2] \in Int
        BY <4>1, ValuesAreTyped
      <4> QED BY <4>1, <4>2
    <3> QED BY <3>1, <3>2
  <2>2. CASE r - m \in 1 .. k /\ m + (r - m) = r
    <3>1. col[r] = v[r - m]
      BY <1>14, <2>2
    <3>2. v[r - m] # {} /\ \A o \in v[r - m] : ValStart + (r - m) - 1 - 2 <= o[2]
      BY <1>14, <2>2 DEF Since
    <3>3. ValStart = m + 1 /\ m \in Int /\ r \in Int
      BY <1>1 DEF m
    <3>4. ValStart + (r - m) - 1 - 2 = 1 + r - 1 - 2
      BY <3>3
    <3> QED BY <3>1, <3>2, <3>4
  <2> QED BY <1>12, <2>1, <2>2
<1>15. a.orders \in [1 .. m -> Vals] /\ a.stock \in [1 .. m -> Vals]
  BY <1>2 DEF IsFrame, CausalColumn
<1>16. Since(fr.orders, m + k, 1, 2)
  <2> DEFINE col == fr.orders
             u == a.orders
             v == b.orders
  <2>1. /\ Since(u, m, 1, 0) /\ Since(v, k, ValStart, 2)
        /\ \A i \in 1 .. m : col[i] = u[i] /\ u[i] \in Vals
        /\ \A i \in 1 .. k : col[m + i] = v[i]
    BY <1>2, <1>3, <1>7, <1>15
  <2> HIDE DEF col, u, v
  <2>2. Since(col, m + k, 1, 2)
    BY <1>14, <2>1
  <2> QED BY <2>2 DEF col
<1>17. Since(fr.stock, m + k, 1, 2)
  <2> DEFINE col == fr.stock
             u == a.stock
             v == b.stock
  <2>1. /\ Since(u, m, 1, 0) /\ Since(v, k, ValStart, 2)
        /\ \A i \in 1 .. m : col[i] = u[i] /\ u[i] \in Vals
        /\ \A i \in 1 .. k : col[m + i] = v[i]
    BY <1>2, <1>3, <1>7, <1>15
  <2> HIDE DEF col, u, v
  <2>2. Since(col, m + k, 1, 2)
    BY <1>14, <2>1
  <2> QED BY <2>2 DEF col
<1> QED BY <1>1, <1>7, <1>8, <1>10, <1>11, <1>13, <1>16, <1>17 DEF fr

\* Every kind of forecast starts right.
LEMMA StartsJob ==
    ASSUME NEW kind \in Kinds, NEW exog \in SUBSET {"orders_hat", "stock_hat"}
    PROVE  \E n \in Nat : JobInv(Starts(kind, exog), n) /\ JobReach(Starts(kind, exog), n)
<1>1. /\ ValStart \in Nat /\ TestStart \in Nat /\ TestEnd \in Nat
      /\ TestStart - ValStart \in Nat \ {0} /\ TestEnd - TestStart + 1 \in Nat \ {0}
      /\ TestStart - 1 \in Nat /\ ValStart <= TestStart - 1 /\ TestStart <= TestEnd
      /\ TestStart - 1 - ValStart + 1 = TestStart - ValStart
      /\ ValStart - 1 < ValStart /\ TestStart - 1 < TestStart /\ ValStart - 1 < TestStart
  BY WindowAssumption
<1> DEFINE V == F!Future(ValStart, TestStart - 1, exog)
           W == F!Future(TestStart, TestEnd, exog)
           v == TestStart - ValStart
           w == TestEnd - TestStart + 1
<1>2. /\ IsFrame(V, v) /\ Consecutive(V, ValStart, v) /\ V.ds[1] = ValStart
      /\ \A r \in 1 .. v : \A o \in V.orders[r] \cup V.stock[r] : ValStart <= o[2]
  <2>1. IsFrame(V, v) /\ Consecutive(V, ValStart, v)
    BY <1>1, FutureFrame
  <2>2. \A r \in 1 .. v : \A o \in V.orders[r] \cup V.stock[r] : ValStart <= o[2]
    BY <1>1, FutureSince
  <2> HIDE DEF V
  <2>3. V.ds[1] = ValStart
    BY <1>1, <2>1 DEF Consecutive
  <2> QED BY <2>1, <2>2, <2>3
<1>3. /\ IsFrame(W, w) /\ Consecutive(W, TestStart, w) /\ W.ds[1] = TestStart
      /\ \A r \in 1 .. w : \A o \in W.orders[r] \cup W.stock[r] : TestStart <= o[2]
  <2>1. IsFrame(W, w) /\ Consecutive(W, TestStart, w)
    BY <1>1, FutureFrame
  <2>2. \A r \in 1 .. w : \A o \in W.orders[r] \cup W.stock[r] : TestStart <= o[2]
    BY <1>1, FutureSince
  <2> HIDE DEF W
  <2>3. W.ds[1] = TestStart
    BY <1>1, <2>1 DEF Consecutive
  <2> QED BY <2>1, <2>2, <2>3
<1>4. CASE kind = "VAL"
  <2>1. Starts(kind, exog) = [kind |-> kind, at |-> 1, hist |-> ValStart - 1,
                              full |-> F!Below(TrainHistory, V)]
    BY <1>4 DEF Starts
  <2> HIDE DEF V, v
  <2>2. v \in Nat \ {0}
    BY <1>1 DEF v
  <2>3. JobInv(Starts(kind, exog), ValStart - 1 + v)
    BY <1>1, <1>2, <1>4, <2>1, <2>2, TrainFrame, StartedJob
  <2>4. \A r \in 1 .. v : \A o \in V.orders[r] \cup V.stock[r] : ValStart - 1 <= o[2]
    <3> SUFFICES ASSUME NEW r \in 1 .. v, NEW o \in V.orders[r] \cup V.stock[r]
                 PROVE  ValStart - 1 <= o[2]
      OBVIOUS
    <3>1. ValStart <= o[2]
      BY <1>2
    <3>2. o[2] \in Int
      <4>1. V.orders \in [1 .. v -> Vals] /\ V.stock \in [1 .. v -> Vals]
        BY <1>2 DEF IsFrame, CausalColumn
      <4> QED BY <4>1, ValuesAreTyped
    <3> QED BY <1>1, <3>1, <3>2
  <2>5. JobReach(Starts(kind, exog), ValStart - 1 + v)
    BY <1>1, <1>2, <1>4, <2>1, <2>2, <2>4, TrainFrame, StartedReach DEF Extra
  <2> QED BY <2>2, <2>3, <2>5, TrainFrame
<1>5. CASE kind = "PRE"
  <2>1. Starts(kind, exog) = [kind |-> kind, at |-> 1, hist |-> TestStart - 1,
                              full |-> F!Below(TrainValHistory, W)]
    BY <1>5 DEF Starts
  <2> HIDE DEF W, w
  <2>2. w \in Nat \ {0}
    BY <1>1 DEF w
  <2>3. JobInv(Starts(kind, exog), TestStart - 1 + w)
    BY <1>1, <1>3, <1>5, <2>1, <2>2, TrainValFrame, StartedJob
  <2>4. \A r \in 1 .. w : \A o \in W.orders[r] \cup W.stock[r] : TestStart - 1 <= o[2]
    <3> SUFFICES ASSUME NEW r \in 1 .. w, NEW o \in W.orders[r] \cup W.stock[r]
                 PROVE  TestStart - 1 <= o[2]
      OBVIOUS
    <3>1. TestStart <= o[2]
      BY <1>3
    <3>2. o[2] \in Int
      <4>1. W.orders \in [1 .. w -> Vals] /\ W.stock \in [1 .. w -> Vals]
        BY <1>3 DEF IsFrame, CausalColumn
      <4> QED BY <4>1, ValuesAreTyped
    <3> QED BY <1>1, <3>1, <3>2
  <2>5. JobReach(Starts(kind, exog), TestStart - 1 + w)
    BY <1>1, <1>3, <1>5, <2>1, <2>2, <2>4, TrainValFrame, StartedReach DEF Extra
  <2> QED BY <2>2, <2>3, <2>5, TrainValFrame
<1>6. CASE kind = "REFIT"
  <2>1. Starts(kind, exog) = [kind |-> kind, at |-> 1, hist |-> ValStart - 1,
                              full |-> F!Below(TrainHistory, W)]
    BY <1>6 DEF Starts
  <2> HIDE DEF W, w
  <2>2. w \in Nat \ {0}
    BY <1>1 DEF w
  <2>3. JobInv(Starts(kind, exog), ValStart - 1 + w)
    BY <1>1, <1>3, <1>6, <2>1, <2>2, TrainFrame, StartedJob
  <2>4. \A r \in 1 .. w : \A o \in W.orders[r] \cup W.stock[r] : ValStart - 1 <= o[2]
    <3> SUFFICES ASSUME NEW r \in 1 .. w, NEW o \in W.orders[r] \cup W.stock[r]
                 PROVE  ValStart - 1 <= o[2]
      OBVIOUS
    <3>1. TestStart <= o[2]
      BY <1>3
    <3>2. o[2] \in Int
      <4>1. W.orders \in [1 .. w -> Vals] /\ W.stock \in [1 .. w -> Vals]
        BY <1>3 DEF IsFrame, CausalColumn
      <4> QED BY <4>1, ValuesAreTyped
    <3> QED BY <1>1, <3>1, <3>2
  <2>5. JobReach(Starts(kind, exog), ValStart - 1 + w)
    BY <1>1, <1>3, <1>6, <2>1, <2>2, <2>4, TrainFrame, StartedReach DEF Extra
  <2> QED BY <2>2, <2>3, <2>5, TrainFrame
<1> QED BY <1>4, <1>5, <1>6 DEF Kinds

Refreshed(fr, i, v, ord, st) == [fr EXCEPT !.y[i] = v, !.orders = ord, !.stock = st]
Stepped(j) == [j EXCEPT !.full = F!Predicted(@, j.hist + j.at), !.at = @ + 1]
Moved(j, fr) == [j EXCEPT !.full = fr, !.at = @ + 1]

\* A month filled in and two columns smoothed make a frame of a frame.
LEMMA RefreshedFrame ==
    ASSUME NEW n \in Nat, NEW fr \in Frames(n), NEW i \in 1 .. n, NEW v \in Vals,
           NEW ord \in Cols(n), NEW st \in Cols(n)
    PROVE  LET q == Refreshed(fr, i, v, ord, st)
           IN /\ q \in Frames(n) /\ q.ds = fr.ds /\ q.y = [fr.y EXCEPT ![i] = v]
              /\ q.orders = ord /\ q.stock = st
BY DEF Frames, Cols, Refreshed

\* A forecast that moves on keeps its kind and its history.
LEMMA MovedJob ==
    ASSUME NEW n \in Nat, NEW j \in Jobs(n), NEW fr \in Frames(n)
    PROVE  LET q == Moved(j, fr)
           IN /\ q \in Jobs(n) /\ q.kind = j.kind /\ q.hist = j.hist
              /\ q.at = j.at + 1 /\ q.full = fr
<1>1. j \in [kind : Kinds, at : Nat, hist : Nat, full : Frames(n)] /\ j.at + 1 \in Nat
  BY DEF Jobs
<1> QED BY <1>1 DEF Jobs, Moved

\* One month forecast keeps a forecast right.
LEMMA StepKeepsJob ==
    ASSUME NEW n \in Nat, NEW j, JobInv(j, n), j.hist + j.at <= n
    PROVE  JobInv(Stepped(j), n)
<1> DEFINE i == j.hist + j.at
           old == j.full
           v == Known("yhat", old.ds[i])
           ord == F!rolling_impute(old.orders, TRUE)
           st == F!rolling_impute(old.stock, TRUE)
           fr == Refreshed(old, i, v, ord, st)
           q == Moved(j, fr)
<1>1. /\ j \in Jobs(n) /\ j.kind \in Kinds /\ j.at \in Nat /\ j.hist \in Nat
      /\ old \in Frames(n) /\ i \in 1 .. n /\ 1 \in 1 .. n
  BY DEF JobInv, Jobs
<1>2. /\ Increasing(old.ds, n) /\ CausalColumn(old.orders, old.ds, n)
      /\ CausalColumn(old.stock, old.ds, n) /\ old.orders[1] # {} /\ old.stock[1] # {}
      /\ old.ds[i] \in Int
  BY <1>1 DEF JobInv, IsFrame, Started, Increasing
<1>3. "yhat" \in Columns
  BY DEF Columns
<1>4. F!Observed("yhat", old.ds[i]) = v /\ v \in Vals
  BY <1>2, <1>3, ObservedIsCausal
<1>5. F!Predicted(old, i) = fr
  BY <1>4 DEF F!Predicted, Refreshed
<1>6. Stepped(j) = q
  BY <1>5 DEF Stepped, Moved
<1>7. CausalColumn(ord, old.ds, n) /\ ord[1] # {}
  BY <1>1, <1>2, ImputeIsCausal
<1>8. CausalColumn(st, old.ds, n) /\ st[1] # {}
  BY <1>1, <1>2, ImputeIsCausal
<1> HIDE DEF i, old, v, ord, st, fr, q
<1>9. ord \in Cols(n) /\ st \in Cols(n)
  BY <1>7, <1>8 DEF CausalColumn, Cols
<1>10. /\ fr \in Frames(n) /\ fr.ds = old.ds /\ fr.y = [old.y EXCEPT ![i] = v]
       /\ fr.orders = ord /\ fr.stock = st
  BY <1>1, <1>4, <1>9, RefreshedFrame DEF fr
<1>11. /\ q \in Jobs(n) /\ q.kind = j.kind /\ q.hist = j.hist
       /\ q.at = j.at + 1 /\ q.full = fr
  BY <1>1, <1>10, MovedJob DEF q
<1>12. IsFrame(fr, n) /\ Started(fr)
  BY <1>2, <1>7, <1>8, <1>10 DEF IsFrame, Started
<1>13. old.y \in [1 .. n -> Vals]
  BY <1>1 DEF Frames, Cols
<1>14. ASSUME NEW r \in 1 .. n, r < j.hist + (j.at + 1)
       PROVE  fr.y[r] = Known(IF r <= j.hist THEN "y" ELSE "yhat", fr.ds[r])
  <2>1. CASE r = i
    <3>1. ~(r <= j.hist)
      BY <1>1, <2>1 DEF i, JobInv
    <3> QED BY <1>10, <1>13, <2>1, <3>1 DEF v
  <2>2. CASE r # i
    <3>1. r < j.hist + j.at
      BY <1>1, <1>14, <2>2 DEF i
    <3>2. old.y[r] = Known(IF r <= j.hist THEN "y" ELSE "yhat", old.ds[r])
      BY <3>1 DEF JobInv, old
    <3> QED BY <1>10, <1>13, <2>2, <3>2
  <2> QED BY <2>1, <2>2
<1>15. /\ 1 <= j.hist /\ j.hist < n /\ 1 <= j.at + 1 /\ j.hist + (j.at + 1) <= n + 1
  BY <1>1 DEF JobInv
<1>16. /\ \A r \in 1 .. n : r > j.hist + 1 => fr.ds[r - 1] = fr.ds[r] - 1
       /\ fr.ds[j.hist] = IF j.kind = "REFIT" THEN ValStart - 1 ELSE fr.ds[j.hist + 1] - 1
  BY <1>10 DEF JobInv, old
<1>17. JobInv(q, n)
  BY <1>11, <1>12, <1>14, <1>15, <1>16 DEF JobInv
<1> QED BY <1>6, <1>17 DEF i

\* A month forecast is a smoothing more.
LEMMA StepReach ==
    ASSUME NEW n \in Nat, NEW j, JobInv(j, n), JobReach(j, n), j.hist + j.at <= n
    PROVE  JobReach(Stepped(j), n)
<1> DEFINE i == j.hist + j.at
           old == j.full
           v == Known("yhat", old.ds[i])
           ord == F!rolling_impute(old.orders, TRUE)
           st == F!rolling_impute(old.stock, TRUE)
           fr == Refreshed(old, i, v, ord, st)
           q == Moved(j, fr)
           e == Extra(j.kind)
           k == j.at - 1
<1>1. /\ j \in Jobs(n) /\ j.kind \in Kinds /\ j.at \in Nat /\ j.hist \in Nat
      /\ old \in Frames(n) /\ i \in 1 .. n /\ 1 \in 1 .. n
      /\ j.hist \in 1 .. n /\ k \in Nat /\ e \in Nat /\ j.at + 1 - 1 = k + 1 /\ k + 1 # 0
  BY DEF JobInv, Jobs, Extra
<1>2. /\ Increasing(old.ds, n) /\ CausalColumn(old.orders, old.ds, n)
      /\ CausalColumn(old.stock, old.ds, n) /\ old.orders[1] # {} /\ old.stock[1] # {}
      /\ old.ds[i] \in Int
  BY <1>1 DEF JobInv, IsFrame, Started, Increasing
<1>3. "yhat" \in Columns
  BY DEF Columns
<1>4. F!Observed("yhat", old.ds[i]) = v /\ v \in Vals
  BY <1>2, <1>3, ObservedIsCausal
<1>5. F!Predicted(old, i) = fr
  BY <1>4 DEF F!Predicted, Refreshed
<1>6. Stepped(j) = q
  BY <1>5 DEF Stepped, Moved
<1>7. /\ KnownRows(old.orders, IF k = 0 THEN j.hist ELSE n)
      /\ KnownRows(old.stock, IF k = 0 THEN j.hist ELSE n)
      /\ Reaches(old.orders, n, j.hist, e, k) /\ Reaches(old.stock, n, j.hist, e, k)
      /\ \A r \in 1 .. j.hist : old.ds[r] = r
  BY DEF JobReach
<1> HIDE DEF k, e
<1>8. KnownRows(ord, n) /\ Reaches(ord, n, j.hist, e, k + 1)
  BY <1>1, <1>2, <1>7, ImputeReaches
<1>9. KnownRows(st, n) /\ Reaches(st, n, j.hist, e, k + 1)
  BY <1>1, <1>2, <1>7, ImputeReaches
<1>10. CausalColumn(ord, old.ds, n) /\ CausalColumn(st, old.ds, n)
  BY <1>1, <1>2, ImputeIsCausal
<1> HIDE DEF i, old, v, ord, st, fr, q
<1>11. ord \in Cols(n) /\ st \in Cols(n)
  BY <1>10 DEF CausalColumn, Cols
<1>12. /\ fr \in Frames(n) /\ fr.ds = old.ds /\ fr.y = [old.y EXCEPT ![i] = v]
       /\ fr.orders = ord /\ fr.stock = st
  BY <1>1, <1>4, <1>11, RefreshedFrame DEF fr
<1>13. q.kind = j.kind /\ q.hist = j.hist /\ q.at = j.at + 1 /\ q.full = fr
  BY <1>1, <1>12, MovedJob DEF q
<1>14. q.at - 1 = k + 1 /\ Extra(q.kind) = e
  BY <1>1, <1>13 DEF e
<1>15. JobReach(q, n)
  BY <1>1, <1>7, <1>8, <1>9, <1>12, <1>13, <1>14 DEF JobReach
<1> QED BY <1>6, <1>15

-----------------------------------------------------------------------------
(* The invariant.                                                          *)

SeriesInv ==
    /\ y \in Seq(Nat)
    /\ job # Nothing => \E n \in Nat : JobInv(job, n) /\ JobReach(job, n)

\* What is recorded is a series, and a forecast under way is a frame whose
\* rows are what they ought to be, whatever the windows and the months.
THEOREM SeriesInvHolds == Spec => []SeriesInv
<1>1. Init => SeriesInv
  BY DEF Init, SeriesInv
<1>2. SeriesInv /\ [Next]_vars => SeriesInv'
  <2> SUFFICES ASSUME SeriesInv, [Next]_vars PROVE SeriesInv'
    OBVIOUS
  <2>1. CASE RecordMonth
    <3>1. Len(y) \in Nat /\ Len(y) + 1 \in 1 .. TestStart - 1
      BY <2>1, WindowAssumption DEF RecordMonth, SeriesInv
    <3>2. PICK month \in Months[Len(y) + 1] : y' = Append(y, month.sold)
      BY <2>1 DEF RecordMonth
    <3>3. Months[Len(y) + 1] \subseteq [sold : Nat, stocked : BOOLEAN]
      BY <3>1, WindowAssumption
    <3>4. month.sold \in Nat
      BY <3>2, <3>3
    <3>5. y' \in Seq(Nat)
      BY <3>2, <3>4 DEF SeriesInv
    <3>6. job' = job
      BY <2>1 DEF RecordMonth
    <3> QED BY <3>5, <3>6 DEF SeriesInv
  <2>2. CASE StartForecast
    <3>1. PICK kind \in Kinds, exog \in SUBSET {"orders_hat", "stock_hat"} :
            job' = Starts(kind, exog)
      BY <2>2 DEF StartForecast, Kinds
    <3>2. \E n \in Nat : JobInv(job', n) /\ JobReach(job', n)
      BY <3>1, StartsJob
    <3>3. y' = y
      BY <2>2 DEF StartForecast
    <3> QED BY <3>2, <3>3 DEF SeriesInv
  <2>3. CASE PredictMonth
    <3>1. PICK n \in Nat : JobInv(job, n) /\ JobReach(job, n)
      BY <2>3 DEF PredictMonth, SeriesInv
    <3>2. Len(job.full.ds) = n
      BY <3>1 DEF JobInv, IsFrame, Increasing
    <3>3. job.hist + job.at <= n
      BY <2>3, <3>2 DEF PredictMonth, Row
    <3>4. job' = Stepped(job)
      BY <2>3 DEF PredictMonth, Row, Stepped
    <3>5. JobInv(job', n) /\ JobReach(job', n)
      BY <3>1, <3>3, <3>4, StepKeepsJob, StepReach
    <3>6. y' = y
      BY <2>3 DEF PredictMonth
    <3> QED BY <3>5, <3>6 DEF SeriesInv
  <2>4. CASE UNCHANGED vars
    BY <2>4 DEF SeriesInv, vars
  <2> QED BY <2>1, <2>2, <2>3, <2>4 DEF Next
<1> QED BY <1>1, <1>2, PTL DEF Spec

-----------------------------------------------------------------------------
(* What it says of the inputs.                                             *)

\* A forecast about to read has a history above the row it reads for.
LEMMA Reading ==
    ASSUME SeriesInv, Predicting
    PROVE  \E n \in Nat : JobInv(job, n) /\ Row \in 2 .. n
<1>1. PICK n \in Nat : JobInv(job, n)
  BY DEF Predicting, SeriesInv
<1>2. Len(job.full.ds) = n
  BY <1>1 DEF JobInv, IsFrame, Increasing
<1>3. job.hist \in Nat /\ job.at \in Nat /\ 1 <= job.hist /\ 1 <= job.at
  BY <1>1 DEF JobInv, Jobs
<1> QED BY <1>1, <1>2, <1>3 DEF Predicting, Row

\* The demand a row reads is that of the row before it.
LEMMA LagOfDemand ==
    ASSUME NEW n \in Nat, JobInv(job, n), Row \in 2 .. n
    PROVE  /\ Inputs.y_lag1[Row] = job.full.y[Row - 1]
           /\ job.full.y[Row - 1]
                = Known(IF Row - 1 <= job.hist THEN "y" ELSE "yhat", job.full.ds[Row - 1])
           /\ job.full.ds[Row - 1] < job.full.ds[Row]
           /\ job.full.ds[Row - 1] \in Int /\ job.full.ds[Row] \in Int
<1> DEFINE dem == job.full.y
           d == job.full.ds
<1>1. Row \in 1 .. n /\ Row - 1 \in 1 .. n /\ Row > 1
  OBVIOUS
<1>2. dem \in [1 .. n -> Vals] /\ Increasing(d, n)
  BY DEF JobInv, IsFrame, Frames, Cols
<1>3. d[Row - 1] < d[Row] /\ d[Row - 1] \in Int /\ d[Row] \in Int
  BY <1>1, <1>2 DEF Increasing
<1>4. dem[Row - 1] = Known(IF Row - 1 <= job.hist THEN "y" ELSE "yhat", d[Row - 1])
  <2>1. job.hist \in Nat /\ job.at \in Nat
    BY DEF JobInv, Jobs
  <2>2. Row - 1 < job.hist + job.at
    BY <2>1 DEF Row
  <2> QED BY <1>1, <2>2 DEF JobInv
<1>5. dem[Row - 1] # {}
  BY <1>4 DEF Known
<1>6. Inputs.y_lag1 = F!Filled(F!shift(dem, 1))
  BY DEF Inputs, F!prep_features_y
<1> HIDE DEF dem
<1>7. F!shift(dem, 1) \in [1 .. n -> Vals] /\ F!shift(dem, 1)[Row] = dem[Row - 1]
  BY <1>1, <1>2, ShiftedColumn
<1>8. F!Filled(F!shift(dem, 1))[Row] = dem[Row - 1]
  BY <1>1, <1>5, <1>7, FilledFrom
<1> QED BY <1>3, <1>4, <1>6, <1>8 DEF dem

\* The invariant fixes the demand of the month before, for each kind of forecast.
LEMMA RecursionFedByInv == SeriesInv => RecursionFeedsItself
<1> SUFFICES ASSUME SeriesInv, Predicting
             PROVE  Inputs.y_lag1[Row] =
                        IF job.at > 1 THEN F!Observed("yhat", job.full.ds[Row] - 1)
                        ELSE F!Observed("y", IF job.kind = "REFIT" THEN ValStart - 1
                                             ELSE job.full.ds[Row] - 1)
  BY DEF RecursionFeedsItself
<1>1. PICK n \in Nat : JobInv(job, n) /\ Row \in 2 .. n
  BY Reading
<1>2. Inputs.y_lag1[Row]
        = Known(IF Row - 1 <= job.hist THEN "y" ELSE "yhat", job.full.ds[Row - 1])
  BY <1>1, LagOfDemand
<1>3. job.hist \in Nat /\ job.at \in Nat /\ 1 <= job.hist /\ 1 <= job.at
  BY <1>1 DEF JobInv, Jobs
<1>4. \A c, d : F!Observed(c, d) = Known(c, d)
  BY DEF F!Observed, Known
<1>5. CASE job.at > 1
  <2>1. ~(Row - 1 <= job.hist) /\ Row > job.hist + 1
    BY <1>3, <1>5 DEF Row
  <2>2. job.full.ds[Row - 1] = job.full.ds[Row] - 1
    BY <1>1, <2>1 DEF JobInv
  <2> QED BY <1>2, <1>4, <1>5, <2>1, <2>2
<1>6. CASE job.at = 1
  <2>1. Row = job.hist + 1 /\ Row - 1 = job.hist
    BY <1>3, <1>6 DEF Row
  <2>2. job.full.ds[Row - 1] = IF job.kind = "REFIT" THEN ValStart - 1
                               ELSE job.full.ds[Row] - 1
    BY <1>1, <2>1 DEF JobInv
  <2>3. ~(job.at > 1) /\ Row - 1 <= job.hist
    BY <1>3, <1>6, <2>1
  <2> QED BY <1>2, <1>4, <2>2, <2>3
<1> QED BY <1>3, <1>5, <1>6

\* A value without demand and without later months is what Causal asks for.
LEMMA CausalAtIsCausal ==
    ASSUME NEW f, NEW v, NEW d, NEW b, CausalAt(v, d)
    PROVE  Causal(f, v, d, b)
BY DEF CausalAt, Causal

\* A ratio is filled from a later row only when no row up to this one has one.
LEMMA RatioIsCausal ==
    ASSUME NEW n \in Nat, NEW fr, IsFrame(fr, n), NEW i \in 1 .. n, ~NoRatioYet(fr, i)
    PROVE  CausalAt(F!Filled(F!Ratio(fr))[i], fr.ds[i])
<1> DEFINE ratio == F!Ratio(fr)
<1>1. /\ Increasing(fr.ds, n) /\ fr.ds \in [1 .. n -> Int]
      /\ fr.orders \in [1 .. n -> Vals] /\ fr.stock \in [1 .. n -> Vals]
      /\ \A k \in 1 .. n : CausalAt(fr.orders[k], fr.ds[k]) /\ CausalAt(fr.stock[k], fr.ds[k])
  BY DEF IsFrame, Increasing, CausalColumn
<1>2. ratio = [k \in 1 .. n |-> IF fr.orders[k] = {} \/ fr.stock[k] \subseteq empty THEN {}
                                ELSE fr.orders[k] \cup fr.stock[k]]
  BY <1>1 DEF F!Ratio, F!NaN
<1>3. ASSUME NEW k \in 1 .. n
      PROVE  ratio[k] = {} \/ ratio[k] = fr.orders[k] \cup fr.stock[k]
  BY <1>2
<1>4. ASSUME NEW k \in 1 .. n
      PROVE  ratio[k] \in Vals /\ CausalAt(ratio[k], fr.ds[k])
  <2>1. ratio[k] \in Vals
    BY <1>1, <1>3 DEF Vals
  <2>2. CausalAt(ratio[k], fr.ds[k])
    BY <1>1, <1>3 DEF CausalAt
  <2> QED BY <2>1, <2>2
<1>5. DOMAIN ratio = 1 .. n /\ ratio \in [1 .. n -> Vals]
  BY <1>2, <1>4
<1>6. PICK j \in 1 .. n : j <= i /\ ratio[j] # {}
  BY <1>5 DEF NoRatioYet, F!KnownUpTo, F!NaN
<1> HIDE DEF ratio
<1>7. CASE F!Filled(ratio)[i] = {}
  BY <1>7 DEF CausalAt, ratio
<1>8. CASE F!Filled(ratio)[i] # {}
  <2>1. PICK k \in 1 .. n : /\ F!Filled(ratio)[i] = ratio[k]
                            /\ k <= i \/ \A h \in 1 .. k - 1 : ratio[h] = {}
    BY <1>5, <1>8, FilledFrom
  <2>2. k \in 1 .. i
    BY <1>6, <2>1
  <2>3. CausalAt(ratio[k], fr.ds[i])
    BY <1>1, <1>4, <2>2, LaterIsCausal
  <2> QED BY <2>1, <2>3 DEF ratio
<1> QED BY <1>7, <1>8

\* The invariant makes every input of the row causal, feature by feature.
LEMMA RowsCausalByInv == SeriesInv => RowsAreCausal
<1> SUFFICES ASSUME SeriesInv, Predicting, NEW f \in DOMAIN Inputs
             PROVE  Causal(f, Inputs[f][Row], job.full.ds[Row], NoRatioYet(job.full, Row))
  BY DEF RowsAreCausal
<1>1. PICK n \in Nat : JobInv(job, n) /\ Row \in 2 .. n
  BY Reading
<1> DEFINE fr == job.full
           d == fr.ds[Row]
           none == NoRatioYet(fr, Row)
<1>2. Row \in 1 .. n /\ 1 \in 1 .. n
  BY <1>1
<1>3. /\ IsFrame(fr, n) /\ Increasing(fr.ds, n)
      /\ CausalColumn(fr.orders, fr.ds, n) /\ fr.orders[1] # {}
      /\ CausalColumn(fr.stock, fr.ds, n) /\ fr.stock[1] # {}
  BY <1>1 DEF JobInv, IsFrame, Started
<1>4. Inputs = [y_lag1       |-> F!Filled(F!shift(fr.y, 1)),
                orders_lag1  |-> F!Filled(F!shift(fr.orders, 1)),
                orders_lag3  |-> F!Filled(F!shift(fr.orders, 3)),
                stock_lag1   |-> F!Filled(F!shift(fr.stock, 1)),
                stock_lag3   |-> F!Filled(F!shift(fr.stock, 3)),
                orders_ratio |-> F!Filled(F!Ratio(fr)),
                orders       |-> F!rolling_impute(fr.orders, TRUE),
                stock        |-> F!rolling_impute(fr.stock, TRUE)]
  BY DEF Inputs, F!prep_features_y
<1>5. f \in {"y_lag1", "orders_lag1", "orders_lag3", "stock_lag1", "stock_lag3",
             "orders_ratio", "orders", "stock"}
  BY <1>4
<1>6. CASE f = "y_lag1"
  <2>1. /\ Inputs[f][Row] = fr.y[Row - 1]
        /\ \E c : fr.y[Row - 1] = Known(c, fr.ds[Row - 1])
        /\ fr.ds[Row - 1] < d /\ fr.ds[Row - 1] \in Int /\ d \in Int
    BY <1>1, <1>6, LagOfDemand
  <2>2. \A o \in Inputs[f][Row] : o[2] = fr.ds[Row - 1]
    BY <2>1 DEF Known
  <2>3. \A o \in Inputs[f][Row] : o[2] < d /\ o[2] <= d
    BY <2>1, <2>2
  <2> QED BY <2>3 DEF Causal
<1>7. CASE f \in {"orders_lag1", "orders_lag3", "stock_lag1", "stock_lag3"}
  <2>1. ASSUME NEW k \in {1, 3}
        PROVE  /\ CausalAt(F!Filled(F!shift(fr.orders, k))[Row], d)
               /\ CausalAt(F!Filled(F!shift(fr.stock, k))[Row], d)
    <3>1. k \in Nat \ {0}
      OBVIOUS
    <3>2. CausalAt(F!Filled(F!shift(fr.orders, k))[Row], d)
      BY <1>2, <1>3, <3>1, LagIsCausal
    <3>3. CausalAt(F!Filled(F!shift(fr.stock, k))[Row], d)
      BY <1>2, <1>3, <3>1, LagIsCausal
    <3> QED BY <3>2, <3>3
  <2>2. CausalAt(Inputs[f][Row], d)
    BY <1>4, <1>7, <2>1
  <2> QED BY <2>2, CausalAtIsCausal
<1>8. CASE f = "orders_ratio"
  <2>1. CASE none
    BY <1>8, <2>1 DEF Causal
  <2>2. CASE ~none
    <3>1. CausalAt(F!Filled(F!Ratio(fr))[Row], d)
      BY <1>2, <1>3, <2>2, RatioIsCausal
    <3>2. CausalAt(Inputs[f][Row], d)
      BY <1>4, <1>8, <3>1
    <3> QED BY <3>2, CausalAtIsCausal
  <2> QED BY <2>1, <2>2
<1>9. CASE f \in {"orders", "stock"}
  <2>1. CausalColumn(F!rolling_impute(fr.orders, TRUE), fr.ds, n)
    BY <1>2, <1>3, ImputeIsCausal
  <2>2. CausalColumn(F!rolling_impute(fr.stock, TRUE), fr.ds, n)
    BY <1>2, <1>3, ImputeIsCausal
  <2>3. /\ CausalAt(F!rolling_impute(fr.orders, TRUE)[Row], d)
        /\ CausalAt(F!rolling_impute(fr.stock, TRUE)[Row], d)
    BY <1>2, <2>1, <2>2 DEF CausalColumn
  <2> HIDE DEF fr, d
  <2>4. CASE f = "orders"
    <3>1. Inputs[f] = F!rolling_impute(fr.orders, TRUE)
      BY <1>4, <2>4
    <3>2. CausalAt(Inputs[f][Row], d)
      BY <2>3, <3>1
    <3> QED BY <3>2, CausalAtIsCausal DEF d, fr
  <2>5. CASE f = "stock"
    <3>1. Inputs[f] = F!rolling_impute(fr.stock, TRUE)
      BY <1>4, <2>5
    <3>2. CausalAt(Inputs[f][Row], d)
      BY <2>3, <3>1
    <3> QED BY <3>2, CausalAtIsCausal DEF d, fr
  <2> QED BY <1>9, <2>4, <2>5
<1> QED BY <1>5, <1>6, <1>7, <1>8, <1>9

\* The two columns of a forecast month are one smoothing further.
LEMMA ReachByInv ==
    ASSUME NEW n \in Nat, JobInv(job, n), JobReach(job, n), Predicting
    PROVE  SmoothingReach
<1> DEFINE old == job.full
           h == job.hist
           e == Extra(job.kind)
           k == job.at - 1
           reach == 2 * job.at + (IF job.kind = "PRE" THEN 2 ELSE 0)
<1>1. /\ job \in Jobs(n) /\ job.at \in Nat /\ h \in Nat /\ old \in Frames(n)
      /\ h \in 1 .. n /\ k \in Nat /\ e \in Nat /\ reach = 2 * (k + 1) + e
      /\ Row = h + k + 1 /\ k + 1 = job.at
  BY DEF JobInv, Jobs, Extra, Row
<1>2. /\ Increasing(old.ds, n) /\ CausalColumn(old.orders, old.ds, n)
      /\ CausalColumn(old.stock, old.ds, n)
  BY DEF JobInv, IsFrame
<1>3. Row \in 1 .. n
  <2>1. Len(job.full.ds) = n
    BY <1>2 DEF Increasing
  <2>2. Row <= n
    BY <2>1 DEF Predicting
  <2> QED BY <1>1, <2>2
<1>4. /\ KnownRows(old.orders, IF k = 0 THEN h ELSE n)
      /\ KnownRows(old.stock, IF k = 0 THEN h ELSE n)
      /\ Reaches(old.orders, n, h, e, k) /\ Reaches(old.stock, n, h, e, k)
      /\ \A r \in 1 .. h : old.ds[r] = r
  BY DEF JobReach
<1>5. /\ Inputs.orders = F!rolling_impute(old.orders, TRUE)
      /\ Inputs.stock = F!rolling_impute(old.stock, TRUE)
  BY DEF Inputs, F!prep_features_y
<1> HIDE DEF old, h, e, k, reach
<1>6. Reaches(Inputs.orders, n, h, e, k + 1) /\ Reaches(Inputs.stock, n, h, e, k + 1)
  BY <1>1, <1>2, <1>4, <1>5, ImputeReaches
<1>7. CausalColumn(Inputs.orders, old.ds, n) /\ CausalColumn(Inputs.stock, old.ds, n)
  <2>1. old.orders[1] # {} /\ old.stock[1] # {}
    BY DEF JobInv, Started, old
  <2> QED BY <1>1, <1>2, <1>5, <2>1, ImputeIsCausal
<1>8. ASSUME NEW f \in {"orders", "stock"}, NEW i \in 1 .. Row - reach - 1,
             NEW o \in Inputs[f][Row]
      PROVE  o[2] # old.ds[i]
  <2>1. h - e <= o[2] \/ Row - 2 * (k + 1) - e <= o[2]
    BY <1>3, <1>6 DEF Reaches
  <2>2. o[2] \in Int
    <3>1. Inputs[f][Row] \in Vals
      BY <1>3, <1>7 DEF CausalColumn
    <3> QED BY <3>1, ValuesAreTyped
  <2>3. i < h - e /\ i < Row - 2 * (k + 1) - e /\ i \in 1 .. h
    BY <1>1
  <2>4. old.ds[i] = i
    BY <1>4, <2>3
  <2> QED BY <1>1, <2>1, <2>2, <2>3, <2>4
<1> QED BY <1>8 DEF SmoothingReach, reach, old

\* Each forecast month reads the demand of the month right before it, its own
\* forecast of it after the first; only a REFIT forecast starts from a demand
\* as old as the VAL window (recursive_forward_predict_y).
THEOREM RecursionFeedsItselfHolds == Spec => []RecursionFeedsItself
BY SeriesInvHolds, RecursionFedByInv, PTL

\* No input of a forecast month is known later than that month, at any step of
\* the recursion and whatever the exogenous models could forecast.
THEOREM RowsAreCausalHolds == Spec => []RowsAreCausal
BY SeriesInvHolds, RowsCausalByInv, PTL

\* The orders and the stock of the h-th forecast month are a mean over its own
\* row and the 2h rows before it, and over two more for a PRE forecast, whatever
\* the exogenous models leave missing (rolling_impute at each step of
\* recursive_forward_predict_y).
THEOREM SmoothingReachHolds == Spec => []SmoothingReach
<1>1. SeriesInv => SmoothingReach
  <2> SUFFICES ASSUME SeriesInv, Predicting PROVE SmoothingReach
    BY DEF SmoothingReach
  <2>1. PICK n \in Nat : JobInv(job, n) /\ JobReach(job, n)
    BY DEF Predicting, SeriesInv
  <2> QED BY <2>1, ReachByInv
<1> QED BY <1>1, SeriesInvHolds, PTL

\* Whatever was sold, Croston, SBA and TSB forecast between nothing and the
\* largest month, and SBA never above Croston (models/intermittent.py).
THEOREM LevelsStayInRangeHolds == Spec => []LevelsStayInRange
<1>1. SeriesInv => LevelsStayInRange
  BY ForecastsStayInRange DEF SeriesInv, LevelsStayInRange
<1> QED BY <1>1, SeriesInvHolds, PTL

\* The dense override never sends an intermittent series to the dearer
\* methods, for any weights that NearZeroAssumption allows (should_dense_override).
THEOREM OverrideNeverRescuesHolds == Spec => []OverrideNeverRescues
<1>1. SeriesInv => OverrideNeverRescues
  BY OverrideIsOutOfReach DEF SeriesInv, OverrideNeverRescues, MayEscalate
<1> QED BY <1>1, SeriesInvHolds, PTL

\* From the fifth month of a series on its folds are sound and the newest
\* month is scored, for any number of splits from three on.
THEOREM SearchIsSoundHolds ==
    ASSUME NSplits >= 3
    PROVE  Spec => []SearchIsSound
<1>1. SeriesInv => SearchIsSound
  <2> SUFFICES ASSUME SeriesInv, Len(y) >= 5
               PROVE  /\ \A fold \in rolling_origin_splits(Len(y)) : Sound(fold, Len(y))
                      /\ \E fold \in rolling_origin_splits(Len(y)) : fold.end = Len(y)
    BY DEF SearchIsSound
  <2>1. Len(y) \in Nat
    BY DEF SeriesInv
  <2> QED BY <2>1, FoldsAreSound, NewestMonthIsScored
<1> QED BY <1>1, SeriesInvHolds, PTL
\* A part the model is fitted on: the demand lag of its head row apart, no row
\* knows of a later one.
LEMMA PartIsCausal ==
    ASSUME NEW first \in Nat, NEW last \in Nat, first <= last, NEW causal \in BOOLEAN,
           NEW f \in DOMAIN F!prep_features_y(F!PanelFrame(first, last), causal),
           NEW i \in DOMAIN F!PanelFrame(first, last).ds, f = "y_lag1" => i > 1
    PROVE  LET fr == F!PanelFrame(first, last)
               rows == F!prep_features_y(fr, causal)
           IN Causal(f, rows[f][i], fr.ds[i], NoRatioYet(fr, i))
<1> DEFINE fr == F!PanelFrame(first, last)
           n == last - first + 1
           rows == F!prep_features_y(fr, causal)
           d == fr.ds[i]
<1>1. n \in Nat \ {0}
  OBVIOUS
<1>2. /\ IsFrame(fr, n) /\ Consecutive(fr, first, n) /\ ObservedDemand(fr, n)
      /\ \A r \in 1 .. n : fr.orders[r] # {} /\ fr.stock[r] # {}
  BY PanelIsFrame
<1>3. rows = [y_lag1       |-> F!Filled(F!shift(fr.y, 1)),
              orders_lag1  |-> F!Filled(F!shift(fr.orders, 1)),
              orders_lag3  |-> F!Filled(F!shift(fr.orders, 3)),
              stock_lag1   |-> F!Filled(F!shift(fr.stock, 1)),
              stock_lag3   |-> F!Filled(F!shift(fr.stock, 3)),
              orders_ratio |-> F!Filled(F!Ratio(fr)),
              orders       |-> F!rolling_impute(fr.orders, causal),
              stock        |-> F!rolling_impute(fr.stock, causal)]
  BY DEF F!prep_features_y
<1>4. f \in DOMAIN rows /\ i \in DOMAIN fr.ds
  OBVIOUS
<1> HIDE DEF fr, n, rows
<1>5. /\ Increasing(fr.ds, n) /\ CausalColumn(fr.orders, fr.ds, n)
      /\ CausalColumn(fr.stock, fr.ds, n)
      /\ fr.ds \in [1 .. n -> Int] /\ fr.y \in [1 .. n -> Vals]
  BY <1>2 DEF IsFrame, Frames, Cols, Increasing
<1>6. /\ i \in 1 .. n /\ 1 \in 1 .. n /\ n \in Nat /\ Len(fr.ds) = n /\ d \in Int
      /\ f \in {"y_lag1", "orders_lag1", "orders_lag3", "stock_lag1", "stock_lag3",
                "orders_ratio", "orders", "stock"}
      /\ fr.orders[1] # {} /\ fr.stock[1] # {}
  BY <1>1, <1>2, <1>3, <1>4, <1>5
<1>7. /\ F!shift(fr.y, 1) \in [1 .. n -> Vals]
      /\ \A r \in 1 .. n : F!shift(fr.y, 1)[r] = IF r > 1 THEN fr.y[r - 1] ELSE {}
  <2>1. n \in Nat /\ 1 \in Nat \ {0} /\ fr.y \in [1 .. n -> Vals]
    BY <1>5, <1>6
  <2> QED BY ONLY <2>1, ShiftedColumn
<1>8. \A r \in 1 .. n : fr.y[r] = Known("y", fr.ds[r]) /\ fr.y[r] # {}
  BY <1>2 DEF ObservedDemand, Known
<1>9. CASE f = "y_lag1"
  <2>1. i > 1 /\ i - 1 \in 1 .. n /\ i - 1 < i
    BY <1>6, <1>9
  <2>2. F!Filled(F!shift(fr.y, 1))[i] = fr.y[i - 1]
    <3> DEFINE lag == F!shift(fr.y, 1)
    <3>1. lag \in [1 .. n -> Vals] /\ lag[i] = fr.y[i - 1] /\ lag[i] # {}
      BY <1>6, <1>7, <1>8, <2>1
    <3> HIDE DEF lag
    <3>2. F!Filled(lag)[i] = lag[i]
      BY <1>6, <3>1, FilledFrom
    <3> QED BY <3>1, <3>2 DEF lag
  <2>3. rows[f][i] = Known("y", fr.ds[i - 1])
    BY <1>3, <1>8, <1>9, <2>1, <2>2
  <2>4. fr.ds[i - 1] \in Int /\ fr.ds[i - 1] < d
    <3>1. fr.ds[i - 1] \in Int /\ fr.ds[i - 1] < fr.ds[i]
      BY <1>5, <1>6, <2>1 DEF Increasing
    <3> QED BY <3>1
  <2> HIDE DEF d
  <2>5. \A o \in rows[f][i] : o[2] = fr.ds[i - 1]
    BY <2>3 DEF Known
  <2>6. fr.ds[i - 1] < d /\ fr.ds[i - 1] <= d
    BY <1>6, <2>4
  <2>7. \A o \in rows[f][i] : o[2] < d /\ o[2] <= d
    BY <2>5, <2>6
  <2>8. Causal(f, rows[f][i], d, NoRatioYet(fr, i))
    BY <2>7 DEF Causal
  <2> QED BY <1>9, <2>8 DEF fr, rows, d
<1>10. CASE f \in {"orders_lag1", "orders_lag3", "stock_lag1", "stock_lag3"}
  <2>1. ASSUME NEW k \in {1, 3}
        PROVE  /\ CausalAt(F!Filled(F!shift(fr.orders, k))[i], d)
               /\ CausalAt(F!Filled(F!shift(fr.stock, k))[i], d)
    <3>1. k \in Nat \ {0}
      OBVIOUS
    <3>2. CausalAt(F!Filled(F!shift(fr.orders, k))[i], d)
      BY <1>5, <1>6, <3>1, LagIsCausal
    <3>3. CausalAt(F!Filled(F!shift(fr.stock, k))[i], d)
      BY <1>5, <1>6, <3>1, LagIsCausal
    <3> QED BY <3>2, <3>3
  <2>2. CausalAt(rows[f][i], d)
    BY <1>3, <1>10, <2>1
  <2>3. Causal(f, rows[f][i], d, NoRatioYet(fr, i))
    BY <2>2, CausalAtIsCausal
  <2> QED BY <1>10, <2>3 DEF fr, rows, d
<1>11. CASE f = "orders_ratio"
  <2>1. CASE NoRatioYet(fr, i)
    BY <1>11, <2>1 DEF Causal, fr, rows
  <2>2. CASE ~NoRatioYet(fr, i)
    <3>1. CausalAt(F!Filled(F!Ratio(fr))[i], d)
      BY <1>2, <1>6, <2>2, RatioIsCausal
    <3>2. CausalAt(rows[f][i], d)
      BY <1>3, <1>11, <3>1
    <3>3. Causal(f, rows[f][i], d, NoRatioYet(fr, i))
      BY <3>2, CausalAtIsCausal
    <3> QED BY <1>11, <3>3 DEF fr, rows, d
  <2> QED BY <2>1, <2>2
<1>12. CASE f \in {"orders", "stock"}
  <2>1. CausalColumn(F!rolling_impute(fr.orders, causal), fr.ds, n)
    BY <1>1, <1>2, <1>5, EitherImputeIsCausal
  <2>2. CausalColumn(F!rolling_impute(fr.stock, causal), fr.ds, n)
    BY <1>1, <1>2, <1>5, EitherImputeIsCausal
  <2>3. /\ CausalAt(F!rolling_impute(fr.orders, causal)[i], d)
        /\ CausalAt(F!rolling_impute(fr.stock, causal)[i], d)
    BY <1>6, <2>1, <2>2 DEF CausalColumn
  <2> HIDE DEF d
  <2>4. CASE f = "orders"
    <3>1. rows[f] = F!rolling_impute(fr.orders, causal)
      BY <1>3, <2>4
    <3>2. CausalAt(rows[f][i], d)
      BY <2>3, <3>1
    <3> QED BY <2>4, <3>2, CausalAtIsCausal DEF fr, rows, d
  <2>5. CASE f = "stock"
    <3>1. rows[f] = F!rolling_impute(fr.stock, causal)
      BY <1>3, <2>5
    <3>2. CausalAt(rows[f][i], d)
      BY <2>3, <3>1
    <3> QED BY <2>5, <3>2, CausalAtIsCausal DEF fr, rows, d
  <2> QED BY <1>12, <2>4, <2>5
<1> QED BY <1>6, <1>9, <1>10, <1>11, <1>12

\* Both parts are such parts.
LEMMA TrainRowsCausal == LaterRowsAreCausal
<1>1. /\ 1 \in Nat /\ ValStart - 1 \in Nat /\ 1 <= ValStart - 1
      /\ ValStart \in Nat /\ TestStart - 1 \in Nat /\ ValStart <= TestStart - 1
  BY WindowAssumption
<1> DEFINE Fits(frame, causal) ==
             LET rows == F!prep_features_y(frame, causal)
             IN \A f \in DOMAIN rows, i \in DOMAIN frame.ds :
                  (f = "y_lag1" => i > 1) =>
                      Causal(f, rows[f][i], frame.ds[i], NoRatioYet(frame, i))
<1>2. Fits(F!PanelFrame(1, ValStart - 1), FALSE)
  BY <1>1, PartIsCausal
<1>3. Fits(F!PanelFrame(ValStart, TestStart - 1), TRUE)
  BY <1>1, PartIsCausal
<1>4. (\A part \in {[frame |-> F!PanelFrame(1, ValStart - 1), causal |-> FALSE],
                    [frame |-> F!PanelFrame(ValStart, TestStart - 1), causal |-> TRUE]} :
          Fits(part.frame, part.causal)) => LaterRowsAreCausal
  BY DEF LaterRowsAreCausal
<1> HIDE DEF Fits
<1> QED BY <1>2, <1>3, <1>4

\* The demand lag of its head row apart, no row a model is fitted on holds the
\* demand of its own or a later month, or later orders or stock, for windows of
\* any length (prep_features_y on the train and the VAL part).
THEOREM LaterRowsAreCausalHolds == Spec => []LaterRowsAreCausal
BY SeriesInvHolds, TrainRowsCausal, PTL
=============================================================================
