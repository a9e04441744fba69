------------------------------ MODULE Extrema ------------------------------
(***************************************************************************)
(* Facts about the smallest and the largest of a set of numbers, which the *)
(* proofs about LmdbLocks and LmdbTxn need wherever mdb.c looks for the    *)
(* oldest reader or for the next record of the free list.                  *)
(***************************************************************************)
EXTENDS Integers, FiniteSetsExt, FiniteSetTheorems, TLAPS

(* The smaller of two numbers.                                             *)
LEMMA MinOfTwo ==
    ASSUME NEW a \in Int, NEW b \in Int
    PROVE  Min({a, b}) = IF a <= b THEN a ELSE b
BY DEF Min

(* The larger of two numbers.                                              *)
LEMMA MaxOfTwo ==
    ASSUME NEW a \in Int, NEW b \in Int
    PROVE  Max({a, b}) = IF a >= b THEN a ELSE b
BY DEF Max

(* Some member of a set of naturals is the smallest: of the intervals that *)
(* end in one of them, a minimal one.                                      *)
LEMMA MinOfSome ==
    ASSUME NEW n \in Nat, NEW S \in SUBSET (0 .. n), S # {}
    PROVE  Min(S) \in S /\ \A k \in S : Min(S) <= k
<1> DEFINE T == {0 .. m : m \in S}
           R == StrictSubsetOrdering(0 .. n)
<1>1. IsFiniteSet(0 .. n)
  BY FS_Interval
<1>2. T # {} /\ T \subseteq FiniteSubsetsOf(0 .. n)
  <2>1. \A m \in S : 0 .. m \subseteq 0 .. n /\ IsFiniteSet(0 .. m)
    BY FS_Interval
  <2> QED
    BY <2>1 DEF FiniteSubsetsOf
<1>3. IsWellFoundedOn(R, FiniteSubsetsOf(0 .. n))
  BY <1>1, FS_StrictSubsetOrderingWellFounded
<1>4. PICK I \in T : \A J \in T : ~(<<J, I>> \in R)
  BY <1>2, <1>3, WFMin
<1>5. PICK m \in S : I = 0 .. m
  OBVIOUS
<1>6. ASSUME NEW k \in S, k < m PROVE FALSE
  <2>1. 0 .. k \subseteq I /\ 0 .. k # I /\ 0 .. k \in T /\ I \subseteq 0 .. n
    <3>1. m \in I /\ m \notin 0 .. k
      BY <1>5, <1>6
    <3> QED
      BY <1>5, <1>6, <3>1
  <2>2. <<0 .. k, I>> \in R
    BY <2>1 DEF StrictSubsetOrdering
  <2> QED
    BY <1>4, <2>1, <2>2
<1>7. \A k \in S : m <= k
  BY <1>6
<1> QED
  BY <1>7 DEF Min

(* And some member of a bounded one is the largest, the smallest distance  *)
(* from the bound.                                                         *)
LEMMA MaxOfSome ==
    ASSUME NEW n \in Nat, NEW S \in SUBSET (0 .. n), S # {}
    PROVE  Max(S) \in S /\ \A k \in S : k <= Max(S)
<1> DEFINE T == {n - k : k \in S}
<1>1. \A k \in S : k \in Nat /\ n - k \in 0 .. n /\ n - (n - k) = k
  OBVIOUS
<1>2. T \in SUBSET (0 .. n) /\ T # {}
  BY <1>1
<1>3. PICK m \in T : \A k \in T : m <= k
  <2> HIDE DEF T
  <2> QED
    BY <1>2, MinOfSome
<1>4. PICK j \in S : m = n - j
  OBVIOUS
<1>5. \A k \in S : j >= k
  BY <1>1, <1>3, <1>4
<1> QED
  BY <1>1, <1>5 DEF Max
=============================================================================
