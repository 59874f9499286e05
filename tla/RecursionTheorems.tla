-------------------------- MODULE RecursionTheorems --------------------------
(***************************************************************************)
(* Induction and recursion over data, stated about sets and functions: a   *)
(* property is the set of what has it, a recursive definition a function   *)
(* that satisfies its equations.                                           *)
(***************************************************************************)
EXTENDS FiniteSetTheorems, TLAPS

-----------------------------------------------------------------------------
(* Induction.                                                              *)

\* A set of naturals has a least element.
LEMMA LeastNat ==
    ASSUME NEW S, S \subseteq Nat, S # {}
    PROVE  \E x \in S : \A y \in S : x <= y
<1> DEFINE R == OpToRel(<, Nat)
<1>1. IsWellFoundedOn(R, Nat)
  BY NatLessThanWellFounded
<1>2. \A x, y \in Nat : x < y => <<x, y>> \in R
  BY DEF OpToRel
<1> HIDE DEF R
<1>3. PICK x \in S : \A y \in S : ~(<<y, x>> \in R)
  BY <1>1, WFMin
<1>4. \A y \in S : ~(y < x)
  BY <1>2, <1>3
<1> QED BY <1>4

\* What zero has, and each number if the one before it has it, all have.
LEMMA UpTo ==
    ASSUME NEW n \in Nat, NEW A, 0 \in A, \A i \in 1 .. n : i - 1 \in A => i \in A
    PROVE  \A i \in 0 .. n : i \in A
<1> DEFINE B == {i \in 0 .. n : i \notin A}
<1>1. SUFFICES ASSUME B # {} PROVE FALSE
  OBVIOUS
<1>2. PICK x \in B : \A y \in B : x <= y
  <2>1. B \subseteq Nat
    OBVIOUS
  <2> HIDE DEF B
  <2> QED BY <1>1, <2>1, LeastNat
<1>3. x \in 1 .. n /\ x - 1 \in 0 .. n
  BY <1>2
<1>4. x - 1 \in A
  BY <1>2, <1>3
<1> QED BY <1>2, <1>3, <1>4

LEMMA AllNat ==
    ASSUME NEW A, 0 \in A, \A i \in Nat : i \in A => i + 1 \in A
    PROVE  \A i \in Nat : i \in A
<1> SUFFICES ASSUME NEW n \in Nat PROVE n \in A
  OBVIOUS
<1>1. \A i \in 1 .. n : i - 1 \in A => i \in A
  <2> SUFFICES ASSUME NEW i \in 1 .. n, i - 1 \in A PROVE i \in A
    OBVIOUS
  <2>1. i - 1 \in Nat /\ (i - 1) + 1 = i
    OBVIOUS
  <2> QED BY <2>1
<1>2. \A i \in 0 .. n : i \in A
  BY <1>1, UpTo
<1> QED BY <1>2

-----------------------------------------------------------------------------
(* Recursion along 0 .. n.                                                 *)

\* f starts with a and takes a step to each value from the one before it.
Follows(f, n, a, step) == f[0] = a /\ \A i \in 1 .. n : f[i] = step[i][f[i - 1]]

\* A value for zero, and a way from each value to the next, make a function.
LEMMA RecursionUpTo ==
    ASSUME NEW n \in Nat, NEW S, NEW a \in S, NEW step,
           \A i \in 1 .. n, v \in S : step[i][v] \in S
    PROVE  \E f \in [0 .. n -> S] : Follows(f, n, a, step)
<1> DEFINE A == {m \in 0 .. n : \E f \in [0 .. m -> S] : Follows(f, m, a, step)}
<1>1. 0 \in A
  <2> DEFINE g == [i \in 0 .. 0 |-> a]
  <2>1. g \in [0 .. 0 -> S] /\ Follows(g, 0, a, step)
    BY DEF Follows
  <2>2. \E f \in [0 .. 0 -> S] : Follows(f, 0, a, step)
    BY <2>1
  <2> QED BY <2>2, 0 \in 0 .. n
<1>2. ASSUME NEW m \in 1 .. n, m - 1 \in A
      PROVE  m \in A
  <2>1. PICK f \in [0 .. m - 1 -> S] : Follows(f, m - 1, a, step)
    BY <1>2
  <2> DEFINE g == [i \in 0 .. m |-> IF i = m THEN step[m][f[m - 1]] ELSE f[i]]
  <2>2. step[m][f[m - 1]] \in S
    OBVIOUS
  <2>3. g \in [0 .. m -> S]
    BY <2>2
  <2>4. g[0] = a
    BY <2>1 DEF Follows
  <2>5. ASSUME NEW i \in 1 .. m PROVE g[i] = step[i][g[i - 1]]
    <3>1. i - 1 \in 0 .. m - 1 /\ g[i - 1] = f[i - 1]
      OBVIOUS
    <3>2. CASE i = m
      BY <3>1, <3>2
    <3>3. CASE i # m
      BY <2>1, <3>1, <3>3 DEF Follows
    <3> QED BY <3>2, <3>3
  <2> HIDE DEF g
  <2>6. Follows(g, m, a, step)
    BY <2>4, <2>5 DEF Follows
  <2>7. \E h \in [0 .. m -> S] : Follows(h, m, a, step)
    BY <2>3, <2>6
  <2> QED BY <2>7
<1> HIDE DEF A
<1>3. \A m \in 0 .. n : m \in A
  BY <1>1, <1>2, UpTo
<1>4. n \in A
  BY <1>3
<1> QED BY <1>4 DEF A

\* A function whose values stay in a set from each argument to the next.
LEMMA StaysIn ==
    ASSUME NEW n \in Nat, NEW f, NEW S, f[0] \in S,
           \A i \in 1 .. n : f[i - 1] \in S => f[i] \in S
    PROVE  \A i \in 0 .. n : f[i] \in S
<1> DEFINE A == {i \in 0 .. n : f[i] \in S}
<1>1. 0 \in A /\ \A i \in 1 .. n : i - 1 \in A => i \in A
  OBVIOUS
<1> HIDE DEF A
<1>2. \A i \in 0 .. n : i \in A
  BY <1>1, UpTo
<1> QED BY <1>2 DEF A

-----------------------------------------------------------------------------
(* Recursion over the subsets of a finite set, one element less at a time. *)

\* Which element goes first, and f computed from what is left without it.
PicksOne(pick, D) == \A s \in SUBSET D : s # {} => pick[s] \in s

FollowsPicks(f, D, a, pick, step) ==
    f[{}] = a /\ \A s \in SUBSET D : s # {} => f[s] = step[pick[s]][f[s \ {pick[s]}]]

LEMMA RecursionOverSubsets ==
    ASSUME NEW D, IsFiniteSet(D), NEW S, NEW a \in S, NEW pick, PicksOne(pick, D),
           NEW step \in [D -> [S -> S]]
    PROVE  \E f \in [SUBSET D -> S] : FollowsPicks(f, D, a, pick, step)
<1> DEFINE Small(m) == {s \in SUBSET D : Cardinality(s) <= m}
           Good(m, f) == /\ f[{}] = a
                         /\ \A s \in Small(m) :
                              s # {} => f[s] = step[pick[s]][f[s \ {pick[s]}]]
           A == {m \in Nat : \E f \in [Small(m) -> S] : Good(m, f)}
<1>1. \A s \in SUBSET D : IsFiniteSet(s) /\ Cardinality(s) \in Nat
  BY FS_Subset, FS_CardinalityType
<1>2. \A s \in SUBSET D : Cardinality(s) = 0 <=> s = {}
  BY <1>1, FS_EmptySet
<1>3. \A s \in SUBSET D : s # {} =>
         /\ s \ {pick[s]} \in SUBSET D
         /\ Cardinality(s \ {pick[s]}) = Cardinality(s) - 1
  BY <1>1, FS_RemoveElement DEF PicksOne
<1>4. 0 \in A
  <2>1. {} \in Small(0) /\ \A s \in Small(0) : s = {}
    BY <1>1, <1>2
  <2> DEFINE g == [s \in Small(0) |-> a]
  <2>2. g \in [Small(0) -> S] /\ Good(0, g)
    BY <2>1
  <2>3. \E f \in [Small(0) -> S] : Good(0, f)
    BY <2>2
  <2> QED BY <2>3
<1>5. ASSUME NEW m \in Nat, m \in A PROVE m + 1 \in A
  <2>1. PICK f \in [Small(m) -> S] : Good(m, f)
    BY <1>5
  <2> DEFINE g == [s \in Small(m + 1) |->
                      IF s \in Small(m) THEN f[s] ELSE step[pick[s]][f[s \ {pick[s]}]]]
  <2>2. {} \in Small(m) /\ Small(m) \subseteq Small(m + 1)
    BY <1>1, <1>2
  <2>3. \A s \in Small(m + 1) : s # {} =>
           pick[s] \in D /\ s \ {pick[s]} \in Small(m) /\ s \ {pick[s]} \in Small(m + 1)
    BY <1>1, <1>3 DEF PicksOne
  <2> HIDE DEF Small
  <2>4. g \in [Small(m + 1) -> S]
    <3>1. \A s \in Small(m + 1) : s \notin Small(m) => s # {}
      BY <2>2
    <3> QED BY <2>3, <3>1
  <2>5. g[{}] = a
    BY <2>1, <2>2
  <2>6. \A s \in Small(m + 1) : s # {} => g[s] = step[pick[s]][g[s \ {pick[s]}]]
    BY <2>1, <2>3
  <2> HIDE DEF g
  <2>7. Good(m + 1, g)
    BY <2>5, <2>6
  <2> HIDE DEF Good
  <2>8. \E h \in [Small(m + 1) -> S] : Good(m + 1, h)
    BY <2>4, <2>7
  <2> QED BY <2>8
<1> HIDE DEF A
<1>6. \A m \in Nat : m \in A
  BY <1>4, <1>5, AllNat
<1> DEFINE n == Cardinality(D)
<1>7. n \in Nat /\ Small(n) = SUBSET D
  BY <1>1, FS_Subset
<1> HIDE DEF n, Small
<1>8. PICK f \in [Small(n) -> S] : Good(n, f)
  BY <1>6, <1>7 DEF A
<1> QED BY <1>7, <1>8 DEF FollowsPicks

\* What the empty set has, and each set if it has it without one of its
\* elements, all subsets of a finite set have.
LEMMA AllSubsets ==
    ASSUME NEW D, IsFiniteSet(D), NEW A, {} \in A,
           \A s \in SUBSET D : s # {} => \E x \in s : s \ {x} \in A => s \in A
    PROVE  \A s \in SUBSET D : s \in A
<1> DEFINE B == {m \in Nat : \A s \in SUBSET D : Cardinality(s) = m => s \in A}
<1>1. \A s \in SUBSET D : IsFiniteSet(s) /\ Cardinality(s) \in Nat
  BY FS_Subset, FS_CardinalityType
<1>2. 0 \in B
  BY <1>1, FS_EmptySet
<1>3. ASSUME NEW m \in Nat, m \in B PROVE m + 1 \in B
  <2> SUFFICES ASSUME NEW s \in SUBSET D, Cardinality(s) = m + 1 PROVE s \in A
    OBVIOUS
  <2>1. s # {}
    BY <1>1, FS_EmptySet
  <2>2. PICK x \in s : s \ {x} \in A => s \in A
    BY <2>1
  <2>3. Cardinality(s \ {x}) = Cardinality(s) - 1
    BY <1>1, FS_RemoveElement
  <2>4. s \ {x} \in SUBSET D
    OBVIOUS
  <2> QED BY <1>3, <2>2, <2>3, <2>4
<1> HIDE DEF B
<1>4. \A m \in Nat : m \in B
  BY <1>2, <1>3, AllNat
<1> QED BY <1>1, <1>4 DEF B
=============================================================================
