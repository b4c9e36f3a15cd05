----------------------------- MODULE Recursion ------------------------------
(***************************************************************************)
(* Induction over numbers for sets, and what it takes to use a function    *)
(* defined by recursion on a number.                                       *)
(***************************************************************************)
EXTENDS Integers, WellFoundedInduction, TLAPS

\* A set of numbers has a least member.
LEMMA LeastNatural ==
    ASSUME NEW T \in SUBSET Nat, T # {}
    PROVE  \E x \in T : \A y \in T : x <= y
<1>1. IsWellFoundedOn(OpToRel(<, Nat), Nat)
  BY NatLessThanWellFounded
<1>2. PICK x \in T : \A y \in T : ~(<<y, x>> \in OpToRel(<, Nat))
  BY <1>1, WFMin
<1> DEFINE R == {ss \in Nat \X Nat : ss[1] < ss[2]}
<1>3. R = OpToRel(<, Nat)
  BY DEF OpToRel
<1>4. \A y \in T : <<y, x>> \notin R
  BY <1>2, <1>3
<1>5. ASSUME NEW y \in T PROVE x <= y
  <2>1. ~(<<y, x>>[1] < <<y, x>>[2])
    BY <1>4
  <2>2. <<y, x>>[1] = y /\ <<y, x>>[2] = x /\ x \in Nat /\ y \in Nat
    OBVIOUS
  <2> QED
    BY <2>1, <2>2
<1> QED
  BY <1>5

\* A set that has 0 and the successors of its members has every number.
LEMMA SetInduction ==
    ASSUME NEW T \in SUBSET Nat, 0 \in T, \A n \in T : n + 1 \in T
    PROVE  T = Nat
<1> SUFFICES ASSUME Nat \ T # {} PROVE FALSE
  OBVIOUS
<1>1. PICK x \in Nat \ T : \A y \in Nat \ T : x <= y
  BY LeastNatural
<1>2. x # 0 /\ x - 1 \in Nat /\ x - 1 \in T
  BY <1>1
<1> QED
  BY <1>1, <1>2

\* The same up to a bound.
LEMMA BoundedInduction ==
    ASSUME NEW N \in Nat, NEW T, 0 \in T, \A n \in T : n \in 0..(N - 1) => n + 1 \in T
    PROVE  0..N \subseteq T
<1> DEFINE S == {n \in Nat : n <= N => n \in T}
<1>1. 0 \in S
  OBVIOUS
<1>2. ASSUME NEW n \in S PROVE n + 1 \in S
  OBVIOUS
<1>3. S = Nat
  <2> HIDE DEF S
  <2>1. S \in SUBSET Nat
    BY DEF S
  <2> QED
    BY <1>1, <1>2, <2>1, SetInduction
<1> QED
  BY <1>3

\* A set of numbers below a bound has a greatest member.
LEMMA GreatestBelow ==
    ASSUME NEW N \in Nat, NEW T \in SUBSET (0..N), T # {}
    PROVE  \E x \in T : \A y \in T : y <= x
<1> DEFINE S == {n \in 0..N : N - n \in T}
<1>1. S \in SUBSET Nat
  OBVIOUS
<1>2. S # {}
  <2>1. PICK t \in T : TRUE
    OBVIOUS
  <2>2. t \in 0..N /\ N - t \in 0..N /\ N - (N - t) = t
    OBVIOUS
  <2>3. N - t \in S
    BY <2>1, <2>2
  <2> QED
    BY <2>3
<1> HIDE DEF S
<1>3. PICK m \in S : \A n \in S : m <= n
  BY <1>1, <1>2, LeastNatural
<1>4. m \in 0..N /\ N - m \in T
  BY DEF S
<1>5. ASSUME NEW y \in T PROVE y <= N - m
  <2>1. y \in 0..N /\ N - y \in 0..N /\ N - (N - y) = y
    OBVIOUS
  <2>2. N - y \in S
    BY <2>1 DEF S
  <2> QED
    BY <1>3, <1>4, <2>1, <2>2
<1> QED
  BY <1>4, <1>5

Iterates(f, N, V, z, step) ==
    f \in [0..N -> V] /\ f[0] = z /\ \A k \in 1..N : f[k] = step[k][f[k - 1]]

\* What is given for 0 and from each number for the next is given for all.
LEMMA Iteration ==
    ASSUME NEW N \in Nat, NEW V, NEW z \in V, NEW step, \A k \in 1..N, v \in V : step[k][v] \in V
    PROVE  \E f : Iterates(f, N, V, z, step)
<1> DEFINE Upto(n, f) == f[0] = z /\ \A k \in 1..n : f[k] = step[k][f[k - 1]]
           T == {n \in 0..N : \E f \in [0..n -> V] : Upto(n, f)}
<1>1. 0 \in T
  <2>1. [k \in 0..0 |-> z] \in [0..0 -> V] /\ Upto(0, [k \in 0..0 |-> z])
    OBVIOUS
  <2>2. 0 \in 0..N
    OBVIOUS
  <2> HIDE DEF Upto
  <2> QED
    BY <2>1, <2>2, Zenon
<1>2. ASSUME NEW n \in T, n \in 0..(N - 1) PROVE n + 1 \in T
  <2>1. PICK f \in [0..n -> V] : Upto(n, f)
    OBVIOUS
  <2> DEFINE g == [k \in 0..(n + 1) |-> IF k = n + 1 THEN step[n + 1][f[n]] ELSE f[k]]
  <2>2. n \in Nat /\ n + 1 \in 1..N /\ f[n] \in V /\ step[n + 1][f[n]] \in V
    BY <1>2
  <2>3. g \in [0..(n + 1) -> V]
    BY <2>2
  <2>4. g[0] = z
    BY <2>1, <2>2
  <2>5. ASSUME NEW k \in 1..(n + 1) PROVE g[k] = step[k][g[k - 1]]
    <3>1. CASE k = n + 1
      BY <2>2, <3>1
    <3>2. CASE k # n + 1
      <4>1. k \in 1..n /\ k - 1 \in 0..n /\ k - 1 # n + 1 /\ k \in 0..(n + 1) /\ k - 1 \in 0..(n + 1)
        BY <2>2, <3>2
      <4>2. g[k] = f[k] /\ g[k - 1] = f[k - 1]
        BY <3>2, <4>1
      <4> QED
        BY <2>1, <4>1, <4>2
    <3> QED
      BY <3>1, <3>2
  <2> HIDE DEF g
  <2>6. Upto(n + 1, g)
    BY <2>4, <2>5
  <2>7. \E h \in [0..(n + 1) -> V] : Upto(n + 1, h)
    BY <2>3, <2>6, Zenon
  <2>8. n + 1 \in 0..N
    BY <2>2
  <2> HIDE DEF Upto
  <2> QED
    BY <2>7, <2>8, Zenon
<1> HIDE DEF T
<1>3. 0..N \subseteq T
  BY <1>1, <1>2, BoundedInduction
<1>4. PICK f \in [0..N -> V] : Upto(N, f)
  BY <1>3 DEF T
<1> QED
  BY <1>4 DEF Iterates
=============================================================================
