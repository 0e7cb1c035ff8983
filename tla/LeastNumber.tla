---------------------------- MODULE LeastNumber -----------------------------
(***************************************************************************)
(* Smallest and largest elements of sets of numbers.  The library states   *)
(* induction for an operator, which no prover here can instantiate; that a *)
(* finite set has no injection into a proper part of itself says the same  *)
(* for sets, and a proof by induction becomes one about the smallest       *)
(* counterexample.                                                         *)
(***************************************************************************)
EXTENDS FiniteSetsExt, FiniteSetTheorems, TLAPS

\* A set of natural numbers that is not empty has a smallest element.
LEMMA LeastNat ==
    ASSUME NEW T \in SUBSET Nat, T # {}
    PROVE  \E x \in T : \A y \in T : x <= y
<1> SUFFICES ASSUME \A x \in T : \E y \in T : y < x PROVE FALSE
    OBVIOUS
<1> DEFINE Below == {x \in Nat : \A y \in T : x <= y}
           next  == [x \in Below |-> x + 1]
<1>1. IsFiniteSet(Below)
  <2>1. PICK t \in T : TRUE
    OBVIOUS
  <2>2. \A x \in Below : x <= t
    BY <2>1
  <2> QED
    BY <2>1, <2>2, FS_BoundedSetOfNaturals
<1>2. next \in Injection(Below, Below)
  <2>1. \A x \in Below : x + 1 \in Below
    OBVIOUS
  <2> QED
    BY <2>1 DEF Injection, IsInjective
<1>3. next \in Surjection(Below, Below)
    BY <1>1, <1>2, FS_Injection
<1>4. 0 \in Below
    OBVIOUS
<1>5. PICK x \in Below : next[x] = 0
    BY <1>3, <1>4 DEF Surjection
<1> QED
    BY <1>5

\* A bounded set of integers that is not empty has a largest element.
LEMMA LargestInt ==
    ASSUME NEW T \in SUBSET Int, T # {}, NEW n \in Int, \A x \in T : x <= n
    PROVE  \E x \in T : \A y \in T : y <= x
<1> DEFINE U == {n - x : x \in T}
<1>1. PICK u \in U : \A v \in U : u <= v
  <2>1. \A x \in T : n - x \in Nat
    OBVIOUS
  <2>2. U \in SUBSET Nat
    BY <2>1
  <2>3. U # {}
    <3>1. PICK x \in T : TRUE
      OBVIOUS
    <3> QED
      BY <3>1
  <2> QED
    BY <2>2, <2>3, LeastNat
<1>2. PICK x \in T : u = n - x
    OBVIOUS
<1>3. \A y \in T : y <= x
    BY <1>1, <1>2
<1> QED
    BY <1>3

\* What Max picks.
LEMMA MaxOfSet ==
    ASSUME NEW T \in SUBSET Int, T # {}, NEW n \in Int, \A x \in T : x <= n
    PROVE  Max(T) \in T /\ \A y \in T : y <= Max(T)
BY LargestInt DEF Max

\* What Min picks.
LEMMA MinOfSet ==
    ASSUME NEW T \in SUBSET Nat, T # {}
    PROVE  Min(T) \in T /\ \A y \in T : Min(T) <= y
BY LeastNat DEF Min

\* Induction, for the set of the numbers with a property.
LEMMA SetInduction ==
    ASSUME NEW S, 0 \in S, \A n \in Nat : n \in S => n + 1 \in S
    PROVE  Nat \subseteq S
<1> SUFFICES ASSUME Nat \ S # {} PROVE FALSE
    OBVIOUS
<1>1. PICK x \in Nat \ S : \A y \in Nat \ S : x <= y
    BY LeastNat
<1>2. x # 0 /\ x - 1 \in Nat /\ ~(x <= x - 1)
    BY <1>1
<1>3. x - 1 \in S
    BY <1>1, <1>2
<1>4. (x - 1) + 1 \in S
    BY <1>2, <1>3
<1> QED
    BY <1>1, <1>4

\* Every element of a finite set of numbers is the i-th for some i.
LEMMA IthOfSet ==
    ASSUME NEW T \in SUBSET Int, IsFiniteSet(T), NEW i \in 1..Cardinality(T)
    PROVE  \E r \in T : Cardinality({q \in T : q <= r}) = i
<1> DEFINE Upto(r) == {q \in T : q <= r}
           place == [r \in T |-> Cardinality(Upto(r))]
<1>1. ASSUME NEW r \in T
      PROVE  IsFiniteSet(Upto(r)) /\ Cardinality(Upto(r)) \in 1..Cardinality(T)
  <2>1. IsFiniteSet(Upto(r)) /\ Cardinality(Upto(r)) <= Cardinality(T)
    BY FS_Subset
  <2>2. Cardinality(Upto(r)) # 0 /\ Cardinality(Upto(r)) \in Nat
    BY <2>1, r \in Upto(r), FS_EmptySet, FS_CardinalityType
  <2> QED
    BY <2>1, <2>2, FS_CardinalityType
<1>2. ASSUME NEW r \in T, NEW s \in T, r < s
      PROVE  Cardinality(Upto(r)) < Cardinality(Upto(s))
  <2>1. Upto(r) \in SUBSET Upto(s) /\ s \in Upto(s) /\ s \notin Upto(r)
    <3>1. r \in Int /\ s \in Int /\ s <= s /\ ~(s <= r) /\ \A q \in T : q <= r => q <= s
      BY <1>2
    <3> QED
      BY <3>1
  <2> QED
    BY <1>1, <2>1, FS_Subset
<1>3. place \in Injection(T, 1..Cardinality(T))
  <2>1. place \in [T -> 1..Cardinality(T)]
    BY <1>1
  <2>2. ASSUME NEW r \in T, NEW s \in T, place[r] = place[s] PROVE r = s
    <3>1. ~(r < s) /\ ~(s < r)
      BY <1>1, <1>2, <2>2
    <3> QED
      BY <3>1
  <2> QED
    BY <2>1, <2>2 DEF Injection, IsInjective
<1>4. Cardinality(1..Cardinality(T)) = Cardinality(T) /\ IsFiniteSet(1..Cardinality(T))
  <2>1. Cardinality(T) \in Nat
    BY FS_CardinalityType
  <2> QED
    BY <2>1, FS_Interval
<1>5. place \in Surjection(T, 1..Cardinality(T))
    BY <1>3, <1>4, FS_Injection
<1>6. PICK r \in T : place[r] = i
    BY <1>5 DEF Surjection
<1> QED
    BY <1>6

=============================================================================
