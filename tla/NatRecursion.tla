---------------------------- MODULE NatRecursion ----------------------------
(***************************************************************************)
(* Induction over the natural numbers and definition by recursion, stated  *)
(* with sets and functions in the place of predicates and operators, so    *)
(* that the proofs about the consoles (ConsoleWatchProofs,                 *)
(* ConsoleTabProofs) can use them.  Everything rests on one fact of the    *)
(* library, that the finite sets are well-founded under inclusion: among   *)
(* the intervals 1..k for k in a set of naturals there is a smallest one.  *)
(***************************************************************************)
EXTENDS Integers, FiniteSets, FiniteSetTheorems, WellFoundedInduction, TLAPS

(* A nonempty set of natural numbers has a least element.                  *)
LEMMA LeastNumber ==
  ASSUME NEW S \in SUBSET Nat, S # {}
  PROVE  \E m \in S : \A k \in S : m <= k
<1> DEFINE T == {1..k : k \in S}
<1>1. T \subseteq FiniteSubsetsOf(Nat)
  <2> SUFFICES ASSUME NEW k \in S PROVE 1..k \in FiniteSubsetsOf(Nat)
    OBVIOUS
  <2>1. k \in Int /\ 1..k \subseteq Nat
    OBVIOUS
  <2>2. IsFiniteSet(1..k)
    BY <2>1, FS_Interval
  <2> QED
    BY <2>1, <2>2 DEF FiniteSubsetsOf
<1>2. IsWellFoundedOn(StrictSubsetOrdering(Nat), FiniteSubsetsOf(Nat))
  BY FS_StrictSubsetOrderingWellFounded
<1>3. T # {}
  OBVIOUS
<1>4. \E x \in T : \A y \in T : ~(<<y, x>> \in StrictSubsetOrdering(Nat))
  BY <1>1, <1>2, <1>3, WFMin
<1>5. PICK m \in S : \A k \in S : ~(<<1..k, 1..m>> \in StrictSubsetOrdering(Nat))
  BY <1>4
<1>6. ASSUME NEW k \in S, k < m PROVE FALSE
  <2>1. 1..k \subseteq 1..m /\ m \in 1..m /\ m \notin 1..k
    BY <1>6
  <2>2. 1..k \in SUBSET Nat /\ 1..m \in SUBSET Nat
    OBVIOUS
  <2>3. <<1..k, 1..m>> \in StrictSubsetOrdering(Nat)
    BY <2>1, <2>2 DEF StrictSubsetOrdering
  <2> QED
    BY <2>3, <1>5
<1> QED
  BY <1>6

(* A set that holds 0, and n + 1 with every n, holds every number.         *)
LEMMA NumbersInduction ==
  ASSUME NEW S, 0 \in S, \A n \in Nat : n \in S => n + 1 \in S
  PROVE  Nat \subseteq S
<1> SUFFICES ASSUME Nat \ S # {} PROVE FALSE
  OBVIOUS
<1>1. PICK m \in Nat \ S : \A k \in Nat \ S : m <= k
  BY LeastNumber
<1>2. m - 1 \in Nat /\ m - 1 \in S
  BY <1>1
<1> QED
  BY <1>1, <1>2

(* The same up to a bound.                                                 *)
LEMMA IntervalInduction ==
  ASSUME NEW L \in Nat, NEW S, 0 \in S, \A n \in 1..L : n - 1 \in S => n \in S
  PROVE  0..L \subseteq S
<1> DEFINE U == {n \in Nat : n <= L => n \in S}
<1>1. 0 \in U
  OBVIOUS
<1>2. \A n \in Nat : n \in U => n + 1 \in U
  OBVIOUS
<1>3. Nat \subseteq U
  <2> HIDE DEF U
  <2> QED
    BY <1>1, <1>2, NumbersInduction
<1> QED
  BY <1>3

(* The values that F yields from s0 on, step by step up to L.              *)
IsRecursion(f, s0, F, L) ==
  /\ f[0] = s0
  /\ \A n \in 1..L : f[n] = F[<<f[n - 1], n>>]

(* Recursion up to a bound: the values that F yields from s0 on, step by   *)
(* step, are those of a function.                                          *)
LEMMA RecursionHasValues ==
  ASSUME NEW L \in Nat, NEW S, NEW s0 \in S, NEW F \in [S \X (1..L) -> S]
  PROVE  \E f \in [0..L -> S] : IsRecursion(f, s0, F, L)
<1> DEFINE Upto(k) == \E f \in [0..k -> S] : /\ f[0] = s0
                                             /\ \A n \in 1..k : f[n] = F[<<f[n - 1], n>>]
           U == {k \in 0..L : Upto(k)}
<1>1. 0 \in U
  <2> DEFINE g == [n \in 0..0 |-> s0]
  <2>1. g \in [0..0 -> S] /\ g[0] = s0
    OBVIOUS
  <2>2. \A n \in 1..0 : g[n] = F[<<g[n - 1], n>>]
    OBVIOUS
  <2> HIDE DEF g
  <2>3. Upto(0)
    BY <2>1, <2>2
  <2> QED
    BY <2>3
<1>2. ASSUME NEW k \in 1..L, k - 1 \in U PROVE k \in U
  <2>1. PICK f \in [0..(k - 1) -> S] : /\ f[0] = s0
                                       /\ \A n \in 1..(k - 1) : f[n] = F[<<f[n - 1], n>>]
    BY <1>2
  <2> DEFINE g == [n \in 0..k |-> IF n = k THEN F[<<f[k - 1], k>>] ELSE f[n]]
  <2>2. F[<<f[k - 1], k>>] \in S
    OBVIOUS
  <2>3. g \in [0..k -> S]
    BY <2>2
  <2>4. g[0] = s0
    BY <2>1
  <2>5. ASSUME NEW n \in 1..k PROVE g[n] = F[<<g[n - 1], n>>]
    <3>1. n - 1 \in 0..k /\ n - 1 # k /\ n \in 0..k
      OBVIOUS
    <3>2. g[n - 1] = f[n - 1]
      BY <3>1
    <3>3. CASE n = k
      BY <3>1, <3>2, <3>3
    <3>4. CASE n # k
      <4>1. n \in 1..(k - 1) /\ g[n] = f[n]
        BY <3>1, <3>4
      <4> QED
        BY <4>1, <3>2, <2>1
    <3> QED
      BY <3>3, <3>4
  <2> HIDE DEF g
  <2>6. Upto(k)
    BY <2>3, <2>4, <2>5
  <2> QED
    BY <2>6
<1>3. 0..L \subseteq U
  <2> HIDE DEF U
  <2> QED
    BY <1>1, <1>2, IntervalInduction
<1>4. L \in 0..L
  OBVIOUS
<1>5. Upto(L)
  BY <1>3, <1>4
<1> QED
  BY <1>5 DEF IsRecursion
=============================================================================
