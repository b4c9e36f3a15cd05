-------------------------- MODULE MrubyHashProofs ---------------------------
(***************************************************************************)
(* Proofs about mruby's Hash, for any keys, values and hash function, and  *)
(* any table size that is a power of two.                                  *)
(***************************************************************************)
EXTENDS MrubyHash, Recursion, FiniteSetTheorems, WellFoundedInduction, TLAPS

-----------------------------------------------------------------------------
(* The steps of a search. *)

\* Power is what its definition says.
LEMMA PowerTable ==
    /\ \A e \in 0..30 : Power[e] \in Nat /\ Power[e] >= 1
    /\ Power[0] = 1
    /\ \A e \in 0..29 : Power[e + 1] = 2 * Power[e]
<1> DEFINE step == [k \in 1..30 |-> [v \in Nat |-> 2 * v]]
           Doubles(g) == g = [e \in 0..30 |-> IF e = 0 THEN 1 ELSE 2 * g[e - 1]]
<1>1. \A k \in 1..30, v \in Nat : step[k][v] \in Nat /\ step[k][v] = 2 * v
  OBVIOUS
<1> HIDE DEF step
<1>2. PICK f : Iterates(f, 30, Nat, 1, step)
  <2>1. 30 \in Nat /\ 1 \in Nat
    OBVIOUS
  <2> QED
    BY <1>1, <2>1, Iteration, Zenon
<1>3. f \in [0..30 -> Nat] /\ f[0] = 1 /\ \A k \in 1..30 : f[k] = 2 * f[k - 1]
  <2>1. \A k \in 1..30 : f[k - 1] \in Nat
    BY <1>2 DEF Iterates
  <2> QED
    BY <1>1, <1>2, <2>1, Zenon DEF Iterates
<1>4. Doubles(f)
  BY <1>3
<1>5. Power = CHOOSE g : Doubles(g)
  BY Zenon DEF Power
<1> HIDE DEF Doubles
<1>6. Doubles(Power)
  BY <1>4, <1>5, Zenon
<1>7. Power[0] = 1 /\ \A e \in 0..29 : Power[e + 1] = 2 * Power[e]
  BY <1>6 DEF Doubles
<1> DEFINE T == {e \in 0..30 : Power[e] \in Nat /\ Power[e] >= 1}
<1>8. 0 \in T
  BY <1>7
<1>9. \A e \in T : e \in 0..(30 - 1) => e + 1 \in T
  BY <1>7
<1> HIDE DEF T
<1>10. 0..30 \subseteq T
  <2>1. 30 \in Nat
    OBVIOUS
  <2> QED
    BY <1>8, <1>9, <2>1, BoundedInduction, Zenon
<1> QED
  BY <1>7, <1>10 DEF T

\* From the third power on they are at least 4.
LEMMA PowersFromFour == \A e \in 2..30 : Power[e] >= 4
<1>1. Power[1] = 2
  <2>1. 0 \in 0..29 /\ 0 + 1 = 1
    OBVIOUS
  <2> QED
    BY <2>1, PowerTable
<1> QED
  <2> SUFFICES ASSUME NEW e \in 2..30 PROVE Power[e] >= 4
    OBVIOUS
  <2> DEFINE T == {t \in 0..28 : Power[t + 2] >= 4}
  <2>1. 0 \in T
    <3>1. 1 \in 0..29 /\ 1 + 1 = 2 /\ 0 + 2 = 2
      OBVIOUS
    <3>2. Power[2] = 2 * Power[1]
      BY <3>1, PowerTable
    <3> QED
      BY <1>1, <3>1, <3>2
  <2>2. ASSUME NEW t \in T, t \in 0..(28 - 1) PROVE t + 1 \in T
    <3>1. t + 2 \in 0..29 /\ t + 2 \in 0..30 /\ (t + 2) + 1 = (t + 1) + 2
      BY <2>2
    <3>2. Power[(t + 2) + 1] = 2 * Power[t + 2] /\ Power[t + 2] \in Nat
      BY <3>1, PowerTable, Zenon
    <3>3. Power[(t + 1) + 2] >= 4
      BY <3>1, <3>2, <2>2
    <3> QED
      BY <2>2, <3>3
  <2> HIDE DEF T
  <2>3. 0..28 \subseteq T
    <3>1. 28 \in Nat /\ \A t \in T : t \in 0..(28 - 1) => t + 1 \in T
      BY <2>2
    <3> QED
      BY <2>1, <3>1, BoundedInduction, Zenon
  <2>4. e - 2 \in 0..28 /\ (e - 2) + 2 = e
    OBVIOUS
  <2> QED
    BY <2>3, <2>4 DEF T

Divides(d, a) == \E q \in Int : a = d * q

\* An odd factor takes nothing from a power of two.
LEMMA OddFactor ==
    ASSUME NEW m \in 0..30
    PROVE  \A a, c \in Int : Divides(Power[m], a * (2 * c + 1)) => Divides(Power[m], a)
<1> DEFINE T == {t \in 0..30 : \A a, c \in Int : Divides(Power[t], a * (2 * c + 1)) => Divides(Power[t], a)}
<1>1. 0 \in T
  <2>1. ASSUME NEW a \in Int PROVE Divides(Power[0], a)
    BY PowerTable DEF Divides
  <2> QED
    BY <2>1
<1>2. ASSUME NEW t \in T, t \in 0..(30 - 1) PROVE t + 1 \in T
  <2>1. /\ t + 1 \in 0..30 /\ t \in 0..29 /\ t \in 0..30
        /\ \A a, c \in Int : Divides(Power[t], a * (2 * c + 1)) => Divides(Power[t], a)
    BY <1>2
  <2> HIDE DEF T
  <2> DEFINE p == Power[t]
  <2>2. p \in Int /\ Power[t + 1] = 2 * p
    BY <2>1, PowerTable
  <2> HIDE DEF p
  <2>3. ASSUME NEW a \in Int, NEW c \in Int, Divides(Power[t + 1], a * (2 * c + 1))
        PROVE  Divides(Power[t + 1], a)
    <3>1. PICK q \in Int : a * (2 * c + 1) = (2 * p) * q
      BY <2>2, <2>3 DEF Divides
    <3> DEFINE x == a * c
               y == p * q
    <3>2. x \in Int /\ y \in Int
      BY <2>2
    <3>3. a * (2 * c + 1) = 2 * x + a /\ (2 * p) * q = 2 * y
      BY <2>2
    <3> HIDE DEF x, y
    <3>4. a = 2 * (y - x) /\ y - x \in Int
      BY <3>1, <3>2, <3>3
    <3> DEFINE h == y - x
    <3>5. h \in Int /\ a = 2 * h
      BY <3>4
    <3> HIDE DEF h
    <3>6. h * (2 * c + 1) = p * q
      <4>1. a * (2 * c + 1) = 2 * (h * (2 * c + 1))
        BY <3>5
      <4>2. (2 * p) * q = 2 * (p * q)
        BY <2>2
      <4> DEFINE u == h * (2 * c + 1)
                 v == p * q
      <4>3. u \in Int /\ v \in Int
        BY <2>2, <3>5
      <4>4. 2 * u = 2 * v
        BY <3>1, <4>1, <4>2
      <4> HIDE DEF u, v
      <4>5. u = v
        BY <4>3, <4>4
      <4> QED
        BY <4>5 DEF u, v
    <3>7. Divides(p, h * (2 * c + 1))
      BY <3>6 DEF Divides
    <3>8. Divides(p, h)
      BY ZenonT(40), <2>1, <3>5, <3>7 DEF p
    <3>9. PICK r \in Int : h = p * r
      BY <3>8 DEF Divides
    <3>10. a = (2 * p) * r
      BY <2>2, <3>5, <3>9
    <3> QED
      BY <2>2, <3>10 DEF Divides
  <2> QED
    BY <2>1, <2>3 DEF T
<1> HIDE DEF T
<1>3. 0..30 \subseteq T
  <2>1. 30 \in Nat /\ \A t \in T : t \in 0..(30 - 1) => t + 1 \in T
    BY <1>2
  <2> QED
    BY <1>1, <2>1, BoundedInduction, Zenon
<1> QED
  BY ZenonT(40), <1>3 DEF T

\* No number from 1 to d - 1 is a multiple of d.
LEMMA NoSmallMultiple ==
    ASSUME NEW d \in Nat, NEW h \in 1..(d - 1)
    PROVE  ~Divides(d, h)
<1> SUFFICES ASSUME NEW q \in Int, h = d * q PROVE FALSE
  BY DEF Divides
<1>1. CASE q <= 0
  <2>1. d * q <= 0
    BY <1>1
  <2> QED
    BY <2>1
<1>2. CASE q >= 1
  <2>1. d * q >= d
    BY <1>2
  <2> QED
    BY <2>1
<1> QED
  BY <1>1, <1>2

\* Numbers with the same remainder differ by a multiple.
LEMMA SameRemainder ==
    ASSUME NEW a \in Nat, NEW b \in Nat, NEW n \in Nat, n >= 1, a % n = b % n
    PROVE  Divides(n, a - b)
<1> DEFINE p == a \div n
           q == b \div n
           r == a % n
           s == b % n
<1>1. p \in Int /\ r \in Int /\ a = n * p + r
  OBVIOUS
<1>2. q \in Int /\ s \in Int /\ b = n * q + s
  OBVIOUS
<1>r. r = s
  OBVIOUS
<1> HIDE DEF p, q, r, s
<1>3. n * p - n * q = n * (p - q)
  BY <1>1, <1>2
<1>4. a - b = n * (p - q) /\ p - q \in Int
  BY <1>1, <1>2, <1>3, <1>r
<1> QED
  BY <1>4, Zenon DEF Divides

\* A number is even or odd.
LEMMA Parity == \A x \in Int : \E h \in Int : x = 2 * h \/ x = 2 * h + 1
<1> SUFFICES ASSUME NEW x \in Int PROVE \E h \in Int : x = 2 * h \/ x = 2 * h + 1
  BY ZenonT(40)
<1>1. x \div 2 \in Int /\ (x = 2 * (x \div 2) \/ x = 2 * (x \div 2) + 1)
  OBVIOUS
<1> QED
  BY <1>1, Zenon

Triangle(x) == (x * (x + 1)) \div 2

\* The i-th step ends the i-th triangular number further.
LEMMA TriangleIs ==
    ASSUME NEW x \in Nat
    PROVE  Triangle(x) \in Nat /\ 2 * Triangle(x) = x * (x + 1)
<1>1. PICK h \in Int : x = 2 * h \/ x = 2 * h + 1
  BY Parity
<1> DEFINE w == IF x = 2 * h THEN h * (x + 1) ELSE x * (h + 1)
           z == x * (x + 1)
<1>2. w \in Int /\ z \in Nat
  OBVIOUS
<1>3. z = 2 * w
  <2>1. CASE x = 2 * h
    BY <2>1
  <2>2. CASE x # 2 * h
    <3>1. x = 2 * h + 1
      BY <1>1, <2>2
    <3>2. x + 1 = 2 * (h + 1)
      BY <3>1
    <3>3. x * (2 * (h + 1)) = 2 * (x * (h + 1))
      OBVIOUS
    <3> QED
      BY <2>2, <3>2, <3>3
  <2> QED
    BY <2>1, <2>2
<1>4. Triangle(x) = z \div 2
  BY DEF Triangle
<1> HIDE DEF w, z
<1>5. z \div 2 = w /\ w >= 0
  BY <1>2, <1>3
<1> QED
  BY <1>2, <1>3, <1>4, <1>5 DEF z

\* Two of the first Power[m] steps do not end in the same bucket.
LEMMA StepsDiffer ==
    ASSUME NEW m \in 0..30, NEW x \in Nat, NEW y \in Nat, y < x, x < Power[m]
    PROVE  ~Divides(Power[m], Triangle(x) - Triangle(y))
<1> DEFINE n == Power[m]
           d == x - y
           s == x + y + 1
<1>n. n \in Nat /\ x < n
  BY PowerTable
<1>1. SUFFICES ASSUME NEW q \in Int, Triangle(x) - Triangle(y) = n * q PROVE FALSE
  BY DEF Divides
<1>2. d \in Int /\ s \in Int /\ n * q \in Int /\ d >= 1 /\ d < n /\ s >= 2 /\ s < 2 * n /\ s = d + 2 * y + 1
  BY <1>n
<1>3. d * s = 2 * (n * q)
  <2>1. x * (x + 1) - y * (y + 1) = (x - y) * (x + y + 1)
    OBVIOUS
  <2>2. 2 * Triangle(x) - 2 * Triangle(y) = 2 * (n * q)
    BY <1>1, <1>2, TriangleIs
  <2> QED
    BY <2>1, <2>2, TriangleIs
<1>4. \A h, c \in Int : h * (2 * c + 1) = n * q => Divides(n, h)
  <2>1. ASSUME NEW h \in Int, NEW c \in Int, h * (2 * c + 1) = n * q PROVE Divides(n, h)
    <3>1. Divides(n, h * (2 * c + 1))
      BY <2>1, Zenon DEF Divides
    <3> QED
      BY ZenonT(40), <3>1, OddFactor
  <2> QED
    BY <2>1, Zenon
<1> HIDE DEF n, d, s
<1>5. PICK h \in Int : d = 2 * h \/ d = 2 * h + 1
  BY ZenonT(40), <1>2, Parity
<1>6. CASE d = 2 * h
  <2>1. s = 2 * (h + y) + 1 /\ h + y \in Int /\ h \in 1..(n - 1)
    BY <1>2, <1>6, <1>n
  <2>2. h * s = n * q
    <3>1. d * s = 2 * (h * s) /\ h * s \in Int
      BY <1>2, <1>6
    <3> DEFINE u == h * s
               v == n * q
    <3>2. u \in Int /\ v \in Int /\ 2 * u = 2 * v
      BY <1>2, <1>3, <3>1
    <3> HIDE DEF u, v
    <3>3. u = v
      BY <3>2
    <3> QED
      BY <3>3 DEF u, v
  <2>3. Divides(n, h)
    BY ZenonT(40), <1>4, <2>1, <2>2
  <2> QED
    BY <1>n, <2>1, <2>3, NoSmallMultiple
<1>7. CASE d = 2 * h + 1
  <2> DEFINE g == h + y + 1
  <2>1. s = 2 * g /\ g \in Int /\ g \in 1..(n - 1)
    BY <1>2, <1>7, <1>n
  <2> HIDE DEF g
  <2>2. g * (2 * h + 1) = n * q
    <3>1. d * s = 2 * (g * (2 * h + 1)) /\ g * (2 * h + 1) \in Int
      BY <1>2, <1>7, <2>1
    <3> DEFINE u == g * (2 * h + 1)
               v == n * q
    <3>2. u \in Int /\ v \in Int /\ 2 * u = 2 * v
      BY <1>2, <1>3, <3>1
    <3> HIDE DEF u, v
    <3>3. u = v
      BY <3>2
    <3> QED
      BY <3>3 DEF u, v
  <2>3. Divides(n, g)
    BY ZenonT(40), <1>4, <2>1, <2>2
  <2> QED
    BY <1>n, <2>1, <2>3, NoSmallMultiple
<1> QED
  BY <1>5, <1>6, <1>7

\* So they come by every bucket.
LEMMA StepsCover ==
    ASSUME NEW m \in 0..30, NEW a \in Nat
    PROVE  \A b \in 0..(Power[m] - 1) : \E x \in 0..(Power[m] - 1) : (a + Triangle(x)) % Power[m] = b
<1> DEFINE n == Power[m]
           S == 0..(n - 1)
           f == [x \in S |-> (a + Triangle(x)) % n]
<1>n. n \in Nat /\ n >= 1
  BY PowerTable
<1>1. \A x \in S : x \in Nat /\ x < n /\ Triangle(x) \in Nat /\ a + Triangle(x) \in Nat
  <2>1. \A x \in S : x \in Nat /\ x < n
    BY <1>n
  <2>2. \A x \in S : Triangle(x) \in Nat
    BY <2>1, TriangleIs, Zenon
  <2> QED
    BY <2>1, <2>2
<1>2. f \in [S -> S]
  <2>1. \A x \in Nat : x % n \in 0..(n - 1)
    BY <1>n
  <2> QED
    BY <1>1, <2>1
<1>3. ASSUME NEW x \in S, NEW y \in S, y < x PROVE f[x] # f[y]
  <2>1. SUFFICES ASSUME f[x] = f[y] PROVE FALSE
    OBVIOUS
  <2>2. (a + Triangle(x)) % n = (a + Triangle(y)) % n
    BY <2>1
  <2>3. Divides(n, (a + Triangle(x)) - (a + Triangle(y)))
    BY <1>1, <1>n, <2>2, SameRemainder
  <2>4. (a + Triangle(x)) - (a + Triangle(y)) = Triangle(x) - Triangle(y)
    BY <1>1
  <2>5. ~Divides(n, Triangle(x) - Triangle(y))
    BY ZenonT(40), <1>1, <1>3, StepsDiffer
  <2> QED
    BY <2>3, <2>4, <2>5, Zenon
<1>4. \A x, y \in S : x # y => f[x] # f[y]
  <2>1. \A x, y \in S : x # y => x < y \/ y < x
    BY <1>1
  <2> HIDE DEF f, S
  <2> QED
    BY <1>3, <2>1
<1>5. IsFiniteSet(S)
  BY <1>n, FS_Interval
<1> HIDE DEF f, S
<1>6. ASSUME NEW b \in S PROVE \E x \in S : f[x] = b
  <2>1. SUFFICES ASSUME \A x \in S : f[x] # b PROVE FALSE
    OBVIOUS
  <2>2. f \in [S -> S \ {b}]
    BY <1>2, <2>1
  <2>3. IsFiniteSet(S \ {b}) /\ Cardinality(S \ {b}) < Cardinality(S)
    <3>1. IsFiniteSet(S \ {b}) /\ Cardinality(S \ {b}) = Cardinality(S) - 1
      BY <1>5, <1>6, FS_RemoveElement
    <3>2. Cardinality(S) \in Nat
      BY <1>5, FS_CardinalityType
    <3> QED
      BY <3>1, <3>2
  <2>4. \E x, y \in S : x # y /\ f[x] = f[y]
    BY <1>5, <2>2, <2>3, FS_PigeonHole, Zenon
  <2> QED
    BY <1>4, <2>4, Zenon
<1> QED
  BY ZenonT(40), <1>6 DEF f, S

\* The search steps of kh_get and kh_put come by every bucket of a table,
\* whatever the hash of the key is: a search passes none over.
THEOREM ProbesCover ==
    \A n \in Sizes : \A k \in Key : \A b \in 0..(n - 1) : \E x \in 0..(n - 1) : Probe(n, k, x) = b
<1> SUFFICES ASSUME NEW n \in Sizes, NEW k \in Key
             PROVE  \A b \in 0..(n - 1) : \E x \in 0..(n - 1) : Probe(n, k, x) = b
  OBVIOUS
<1>1. PICK m \in 2..30 : n = Power[m]
  BY Zenon DEF Sizes
<1>2. m \in 0..30 /\ HashOf[k] \in Nat
  BY HashAssumption
<1>3. \A b \in 0..(n - 1) : \E x \in 0..(n - 1) : (HashOf[k] + Triangle(x)) % n = b
  BY <1>1, <1>2, StepsCover, Zenon
<1> QED
  BY <1>3, Zenon DEF Probe, Triangle

-----------------------------------------------------------------------------
(* One table. *)

\* First is the least member.
LEMMA FirstIsLeast ==
    ASSUME NEW S \in SUBSET Nat, S # {}
    PROVE  First(S) \in S /\ \A t \in S : First(S) <= t
<1> DEFINE Less == OpToRel(<, Nat)
<1>1. \A x, y \in Nat : <<x, y>> \in Less <=> x < y
  BY DEF OpToRel
<1>2. IsWellFoundedOn(Less, Nat)
  BY ZenonT(40), NatLessThanWellFounded
<1> HIDE DEF Less
<1>3. PICK s \in S : \A t \in S : ~(<<t, s>> \in Less)
  <2>1. S \subseteq Nat
    OBVIOUS
  <2> QED
    BY <1>2, <2>1, WFMin, Zenon
<1>4. \A t \in S : s <= t
  <2>1. \A t \in S : ~(t < s)
    BY <1>1, <1>3, Zenon
  <2> QED
    BY <2>1
<1> QED
  BY ZenonT(40), <1>4 DEF First

LEMMA SizeFacts ==
    ASSUME NEW n \in Sizes
    PROVE  /\ n \in Nat /\ n >= 4 /\ UpperBound(n) \in Nat /\ UpperBound(n) < n
           /\ Bucket(n) = 0..(n - 1) /\ IsFiniteSet(Bucket(n)) /\ Cardinality(Bucket(n)) = n
           /\ \A k \in Key, s \in Nat : Probe(n, k, s) \in Bucket(n)
<1>1. n \in Nat /\ n >= 4
  <2>1. PICK m \in 2..30 : n = Power[m]
    BY Zenon DEF Sizes
  <2>2. m \in 0..30
    OBVIOUS
  <2> QED
    BY <2>1, <2>2, PowerTable, PowersFromFour
<1>2. UpperBound(n) \in Nat /\ UpperBound(n) < n
  BY <1>1 DEF UpperBound
<1>3. IsFiniteSet(Bucket(n)) /\ Cardinality(Bucket(n)) = n
  BY <1>1, FS_Interval DEF Bucket
<1>4. ASSUME NEW k \in Key, NEW s \in Nat PROVE Probe(n, k, s) \in Bucket(n)
  <2>1. (s * (s + 1)) \div 2 \in Nat
    <3>1. s * (s + 1) \in Nat
      OBVIOUS
    <3> QED
      BY <3>1
  <2>2. HashOf[k] \in Nat
    BY HashAssumption
  <2>3. \A a \in Nat : a % n \in 0..(n - 1)
    BY <1>1
  <2> QED
    BY <2>1, <2>2, <2>3 DEF Probe, Bucket
<1> QED
  BY <1>1, <1>2, <1>3, <1>4 DEF Bucket

\* A table that is not over its bound has an empty bucket on the way of
\* every key.
LEMMA SearchEnds ==
    ASSUME NEW h, Good(h), NEW k \in Key
    PROVE  /\ Stops(h, k) \in SUBSET Nat /\ Stops(h, k) # {}
           /\ First(Stops(h, k)) \in Stops(h, k)
           /\ First(Stops(h, k)) \in Bucket(h.n_buckets)
           /\ \A s \in Nat : s < First(Stops(h, k)) => s \notin Stops(h, k)
           /\ Found(h, k) \in Bucket(h.n_buckets)
           /\ isempty(h, Found(h, k)) \/ Holds(h, Found(h, k), k)
<1> DEFINE n == h.n_buckets
<1>n. n \in Sizes /\ h.n_occupied = Cardinality(Occupied(h)) /\ h.n_occupied <= UpperBound(n)
      /\ h.n_occupied \in Nat
  BY DEF Good, TableOK
<1>s. /\ n \in Nat /\ UpperBound(n) < n /\ UpperBound(n) \in Nat
      /\ Bucket(n) = 0..(n - 1) /\ IsFiniteSet(Bucket(n)) /\ Cardinality(Bucket(n)) = n
      /\ \A s \in Nat : Probe(n, k, s) \in Bucket(n)
  BY ZenonT(40), <1>n, SizeFacts
<1>1. PICK b \in Bucket(n) : isempty(h, b)
  <2>1. SUFFICES ASSUME \A b \in Bucket(n) : ~isempty(h, b) PROVE FALSE
    OBVIOUS
  <2>2. Occupied(h) = Bucket(n)
    BY <2>1 DEF Occupied
  <2> QED
    BY <2>2, <1>n, <1>s
<1>2. PICK s \in 0..(n - 1) : Probe(n, k, s) = b
  <2>1. \A c \in 0..(n - 1) : \E t \in 0..(n - 1) : Probe(n, k, t) = c
    BY <1>n, ProbesCover, Zenon
  <2> QED
    BY <1>1, <1>s, <2>1
<1>3. s \in Stops(h, k)
  BY <1>1, <1>2, <1>s DEF Stops
<1>4. Stops(h, k) \in SUBSET Nat
  BY <1>s DEF Stops
<1>5. First(Stops(h, k)) \in Stops(h, k) /\ \A t \in Stops(h, k) : First(Stops(h, k)) <= t
  BY <1>3, <1>4, FirstIsLeast
<1>6. First(Stops(h, k)) \in Bucket(n) /\ First(Stops(h, k)) \in Nat
  BY <1>5, <1>s DEF Stops
<1>7. isempty(h, Found(h, k)) \/ Holds(h, Found(h, k), k)
  BY <1>5 DEF Stops, Found
<1>8. \A t \in Nat : t < First(Stops(h, k)) => t \notin Stops(h, k)
  BY <1>5, <1>6
<1> QED
  BY ZenonT(40), <1>3, <1>4, <1>5, <1>6, <1>7, <1>8, <1>s DEF Found

\* The search for a key that is there ends in its bucket.
LEMMA KeyIsFound ==
    ASSUME NEW h, Good(h), NEW b \in Entries(h)
    PROVE  h.at[b].key \in Key /\ Found(h, h.at[b].key) = b /\ kh_get(h, h.at[b].key) = b
<1> DEFINE n == h.n_buckets
           k == h.at[b].key
<1>k. k \in Key
  BY DEF Good, TableOK, EntryOK, Entries, exist, Free, Deleted
<1>1. PICK s \in Bucket(n) : Probe(n, k, s) = b /\ \A t \in 0..(s - 1) : ~isempty(h, Probe(n, k, t))
  BY DEF Good, OnItsWay
<1>n. n \in Sizes /\ n \in Nat /\ Bucket(n) = 0..(n - 1)
  BY SizeFacts DEF Good, TableOK
<1>2. s \in Stops(h, k)
  BY <1>1 DEF Stops, Holds, Entries
<1> DEFINE f == First(Stops(h, k))
<1>3. f \in Stops(h, k) /\ f \in 0..(n - 1) /\ f <= s
  <2>1. f \in Stops(h, k) /\ f \in Bucket(n) /\ \A t \in Nat : t < f => t \notin Stops(h, k)
    BY <1>k, SearchEnds
  <2> QED
    BY <1>2, <1>n, <2>1
<1> HIDE DEF f
<1>4. f = s \/ ~isempty(h, Probe(n, k, f))
  BY <1>1, <1>3, <1>n
<1>5. Holds(h, Probe(n, k, f), k)
  BY <1>1, <1>3, <1>4 DEF Stops, Holds, Entries, isempty, exist
<1>6. Probe(n, k, f) \in Entries(h)
  <2>1. f \in Nat
    BY <1>3, <1>n
  <2>2. Probe(n, k, f) \in Bucket(n)
    BY ZenonT(40), <2>1, <1>k, <1>n, SizeFacts
  <2> QED
    BY <2>2, <1>5 DEF Entries, Holds
<1>7. Probe(n, k, f) = b
  BY <1>5, <1>6 DEF Good, Holds
<1> QED
  BY <1>k, <1>7 DEF f, Found, kh_get, Entries

\* Only finitely many keys are in a table, and the empty set of keys is empty.
LEMMA FiniteTable ==
    ASSUME NEW h, TableOK(h)
    PROVE  IsFiniteSet(KeysIn(h)) /\ IsFiniteSet(Occupied(h)) /\ IsFiniteSet(Entries(h))
<1>1. IsFiniteSet(Bucket(h.n_buckets))
  BY SizeFacts DEF TableOK
<1>2. IsFiniteSet(Entries(h)) /\ IsFiniteSet(Occupied(h))
  BY <1>1, FS_Subset DEF Entries, Occupied
<1> DEFINE f == [b \in Entries(h) |-> h.at[b].key]
<1>3. f \in Surjection(Entries(h), KeysIn(h))
  BY DEF Surjection, KeysIn
<1> QED
  BY <1>2, <1>3, FS_Surjection

\* Where kh_put puts an entry: over the one with the same key, or on the way
\* of a key that is not there, in a bucket that is deleted or empty.
LEMMA PutPlace ==
    ASSUME NEW h, Good(h), NEW k \in Key, NEW v, NEW n
    PROVE  \E b \in Bucket(h.n_buckets) :
             \/ /\ b \in Entries(h) /\ h.at[b].key = k
                /\ kh_put(h, k, v, n) = Stored(h, b, Entry(k, v, IF n = -1 THEN h.at[b].n ELSE n), 0, 0)
             \/ /\ b \notin Entries(h) /\ k \notin KeysIn(h)
                /\ \E s \in Bucket(h.n_buckets) :
                      /\ Probe(h.n_buckets, k, s) = b
                      /\ \A t \in 0..(s - 1) : ~isempty(h, Probe(h.n_buckets, k, t))
                /\ kh_put(h, k, v, n) = Stored(h, b, Entry(k, v, IF n = -1 THEN h.size ELSE n), 1,
                                               IF isempty(h, b) THEN 1 ELSE 0)
<1> DEFINE N == h.n_buckets
           f == First(Stops(h, k))
<1>n. N \in Sizes /\ N \in Nat /\ Bucket(N) = 0..(N - 1)
      /\ \A s \in Nat : Probe(N, k, s) \in Bucket(N)
  BY ZenonT(40), SizeFacts DEF Good, TableOK
<1>f. /\ f \in Bucket(N) /\ f \in Nat /\ Found(h, k) = Probe(N, k, f) /\ Found(h, k) \in Bucket(N)
      /\ (isempty(h, Found(h, k)) \/ Holds(h, Found(h, k), k))
      /\ \A s \in Nat : s < f => s \notin Stops(h, k)
  <2>1. /\ f \in Bucket(N) /\ Found(h, k) \in Bucket(N)
        /\ (isempty(h, Found(h, k)) \/ Holds(h, Found(h, k), k))
        /\ \A s \in Nat : s < f => s \notin Stops(h, k)
    BY SearchEnds
  <2> QED
    BY <1>n, <2>1 DEF Found
<1> HIDE DEF f
<1>w. \A s \in Nat : s < f => ~isempty(h, Probe(N, k, s))
  BY SMTT(30), <1>f, <1>n DEF Stops
<1>1. CASE exist(h, Found(h, k))
  <2>1. Found(h, k) \in Entries(h) /\ h.at[Found(h, k)].key = k
    BY <1>1, <1>f DEF Entries, Holds, isempty, exist
  <2>2. kh_put(h, k, v, n) = Stored(h, Found(h, k),
                                    Entry(k, v, IF n = -1 THEN h.at[Found(h, k)].n ELSE n), 0, 0)
    BY <1>1 DEF kh_put
  <2> QED
    BY ZenonT(40), <2>1, <2>2, <1>f
<1>2. CASE ~exist(h, Found(h, k))
  <2>1. k \notin KeysIn(h)
    BY <1>2, KeyIsFound DEF KeysIn, Entries
  <2>2. isempty(h, Found(h, k))
    BY <1>2, <1>f DEF Holds
  <2>3. CASE Passed(h, k) = {}
    <3>1. kh_put(h, k, v, n) = Stored(h, Found(h, k), Entry(k, v, IF n = -1 THEN h.size ELSE n), 1, 1)
      BY <1>2, <2>3 DEF kh_put
    <3>2. \A t \in 0..(f - 1) : ~isempty(h, Probe(N, k, t))
      BY <1>f, <1>w
    <3>3. Found(h, k) \notin Entries(h)
      BY <1>2 DEF Entries
    <3> QED
      BY ZenonT(40), <1>f, <2>1, <2>2, <3>1, <3>2, <3>3
  <2>4. CASE Passed(h, k) # {}
    <3> DEFINE s == First(Passed(h, k))
               d == Probe(N, k, s)
    <3>1. Passed(h, k) \in SUBSET Nat
      BY <1>n DEF Passed
    <3>2. s \in Passed(h, k)
      BY <2>4, <3>1, FirstIsLeast
    <3>3. s \in Bucket(N) /\ s \in Nat /\ s < f /\ h.at[d].state = "del"
      BY SMTT(30), <3>2, <1>n DEF Passed, f
    <3>4. kh_put(h, k, v, n) = Stored(h, d, Entry(k, v, IF n = -1 THEN h.size ELSE n), 1, 0)
      BY <1>2, <2>4 DEF kh_put
    <3> HIDE DEF s
    <3>5. \A t \in 0..(s - 1) : ~isempty(h, Probe(N, k, t))
      BY <1>f, <1>w, <3>3
    <3>6. d \in Bucket(N) /\ d \notin Entries(h) /\ ~isempty(h, d)
      BY ZenonT(40), <3>3, <1>n DEF Entries, exist, isempty
    <3> QED
      BY ZenonT(40), <2>1, <3>3, <3>4, <3>5, <3>6
  <2> QED
    BY <2>3, <2>4
<1> QED
  BY <1>1, <1>2


\* g is h with one entry more, or with one entry of h replaced.
Adds(g, h, k, v, n) ==
    \E b \in Bucket(h.n_buckets), m \in Nat :
        /\ g.at[b] = Entry(k, v, m)
        /\ \A c \in Bucket(h.n_buckets) : c # b => g.at[c] = h.at[c]
        /\ \A c \in Entries(h) : c # b => h.at[c].key # k
        /\ \/ /\ b \in Entries(h) /\ h.at[b].key = k /\ g.size = h.size
              /\ m = IF n = -1 THEN h.at[b].n ELSE n
           \/ /\ b \notin Entries(h) /\ g.size = h.size + 1
              /\ m = IF n = -1 THEN h.size ELSE n

\* kh_put keeps a table good.
LEMMA PutIsGood ==
    ASSUME NEW h, Good(h), ~Full(h), NEW k \in Key, NEW v \in Val, NEW n \in Nat \cup {-1}
    PROVE  LET g == kh_put(h, k, v, n) IN
           /\ Good(g) /\ g.n_buckets = h.n_buckets
           /\ g.n_occupied <= h.n_occupied + 1
           /\ Adds(g, h, k, v, n)
<1> DEFINE N == h.n_buckets
           g == kh_put(h, k, v, n)
<1>t. TableOK(h)
  BY DEF Good
<1>n. N \in Sizes /\ N \in Nat /\ UpperBound(N) \in Nat /\ h.n_occupied \in Nat /\ h.size \in Nat
      /\ h.n_occupied < UpperBound(N)
  <2>1. N \in Sizes /\ h.n_occupied \in Nat /\ h.size \in Nat
    BY <1>t DEF TableOK
  <2>2. N \in Nat /\ UpperBound(N) \in Nat
    BY ZenonT(40), <2>1, SizeFacts
  <2> QED
    BY <2>1, <2>2 DEF Full
<1>p. PICK b \in Bucket(N) :
             \/ /\ b \in Entries(h) /\ h.at[b].key = k
                /\ g = Stored(h, b, Entry(k, v, IF n = -1 THEN h.at[b].n ELSE n), 0, 0)
             \/ /\ b \notin Entries(h) /\ k \notin KeysIn(h)
                /\ \E s \in Bucket(N) :
                      /\ Probe(N, k, s) = b
                      /\ \A t \in 0..(s - 1) : ~isempty(h, Probe(N, k, t))
                /\ g = Stored(h, b, Entry(k, v, IF n = -1 THEN h.size ELSE n), 1,
                              IF isempty(h, b) THEN 1 ELSE 0)
  BY PutPlace
<1> HIDE DEF g
<1>m. PICK m \in Nat, ds \in {0, 1}, do \in {0, 1} :
         /\ g = Stored(h, b, Entry(k, v, m), ds, do)
         /\ \/ /\ b \in Entries(h) /\ h.at[b].key = k /\ ds = 0 /\ do = 0
               /\ m = IF n = -1 THEN h.at[b].n ELSE n
            \/ /\ b \notin Entries(h) /\ k \notin KeysIn(h) /\ ds = 1
               /\ do = (IF isempty(h, b) THEN 1 ELSE 0)
               /\ m = IF n = -1 THEN h.size ELSE n
  <2>1. CASE b \in Entries(h)
    <3>1. h.at[b].n \in Nat
      BY <2>1, <1>t DEF TableOK, EntryOK, Entries, exist, Free, Deleted
    <3>2. (IF n = -1 THEN h.at[b].n ELSE n) \in Nat
      BY <3>1
    <3> QED
      BY <2>1, <3>2, <1>p
  <2>2. CASE b \notin Entries(h)
    <3>2. (IF n = -1 THEN h.size ELSE n) \in Nat
      BY <1>n
    <3> QED
      BY <2>2, <3>2, <1>p
  <2> QED
    BY <2>1, <2>2
<1>g. /\ g = Table(g.n_buckets, g.size, g.n_occupied, g.at)
      /\ g.n_buckets = N /\ g.size = h.size + ds /\ g.n_occupied = h.n_occupied + do
      /\ g.at = [c \in Bucket(g.n_buckets) |-> g.at[c]]
      /\ \A c \in Bucket(N) : g.at[c] = IF c = b THEN Entry(k, v, m) ELSE h.at[c]
  <2>1. h.at = [c \in Bucket(N) |-> h.at[c]]
    BY <1>t DEF TableOK
  <2>2. g = Table(N, h.size + ds, h.n_occupied + do, [h.at EXCEPT ![b] = Entry(k, v, m)])
    BY <1>m DEF Stored
  <2>3. /\ g = Table(g.n_buckets, g.size, g.n_occupied, g.at)
        /\ g.n_buckets = N /\ g.size = h.size + ds /\ g.n_occupied = h.n_occupied + do
        /\ g.at = [h.at EXCEPT ![b] = Entry(k, v, m)]
    BY <2>2 DEF Table
  <2> QED
    BY <2>1, <2>3
<1>e. /\ Entry(k, v, m).state = "used" /\ Entry(k, v, m).key = k
      /\ Entries(g) = Entries(h) \cup {b}
      /\ Occupied(g) = Occupied(h) \cup {b}
      /\ \A c \in Bucket(N) : isempty(g, c) => isempty(h, c)
  <2>1. Entry(k, v, m).state = "used" /\ Entry(k, v, m).key = k
    BY DEF Entry
  <2>2. g.n_buckets = N /\ \A c \in Bucket(N) : g.at[c] = IF c = b THEN Entry(k, v, m) ELSE h.at[c]
    BY ZenonT(40), <1>g
  <2> QED
    BY <2>1, <2>2 DEF Entries, Occupied, exist, isempty
<1>u. \A c \in Entries(h) : c # b => h.at[c].key # k
  BY <1>m DEF Good, KeysIn
<1>1. TableOK(g)
  <2>1. EntryOK(Entry(k, v, m))
    BY DEF EntryOK, Entry
  <2> QED
    <3>1. g.n_buckets \in Sizes /\ g.size \in Nat /\ g.n_occupied \in Nat
      <4>1. g.n_buckets = N /\ g.size = h.size + ds /\ g.n_occupied = h.n_occupied + do
        BY ZenonT(40), <1>g
      <4>2. h.size + ds \in Nat /\ h.n_occupied + do \in Nat
        BY <1>n
      <4> QED
        BY <4>1, <4>2, <1>n
    <3>2. \A c \in Bucket(N) : EntryOK(h.at[c])
      BY <1>t DEF TableOK
    <3>3. \A c \in Bucket(N) : EntryOK(g.at[c])
      <4>1. \A c \in Bucket(N) : g.at[c] = Entry(k, v, m) \/ g.at[c] = h.at[c]
        BY ZenonT(40), <1>g
      <4> QED
        BY <2>1, <3>2, <4>1, Zenon
    <3>4. g = Table(g.n_buckets, g.size, g.n_occupied, g.at)
          /\ g.at = [c \in Bucket(g.n_buckets) |-> g.at[c]] /\ g.n_buckets = N
      BY ZenonT(40), <1>g
    <3>5. \A c \in Bucket(g.n_buckets) : EntryOK(g.at[c])
      BY <3>3, <3>4
    <3> QED
      BY <3>1, <3>4, <3>5, Zenon DEF TableOK
<1>2. \A c \in Entries(g) : OnItsWay(g, c)
  <2> TAKE c \in Entries(g)
  <2>0. \A x \in Key, t \in Nat : Probe(N, x, t) \in Bucket(N)
    BY <1>n, SizeFacts
  <2>4. Bucket(N) \subseteq Nat /\ c \in Bucket(N)
    <3>1. g.n_buckets = N
      BY ZenonT(40), <1>g
    <3> QED
      BY <3>1, <1>n DEF Bucket, Entries
  <2>1. ASSUME c \in Entries(h), h.at[c].key = g.at[c].key PROVE OnItsWay(g, c)
    <3>1. h.at[c].key \in Key
      BY <2>1, KeyIsFound
    <3>2. PICK s \in Bucket(N) : /\ Probe(N, h.at[c].key, s) = c
                                 /\ \A t \in 0..(s - 1) : ~isempty(h, Probe(N, h.at[c].key, t))
      BY <2>1 DEF Good, OnItsWay
    <3>3. \A t \in 0..(s - 1) : ~isempty(g, Probe(N, h.at[c].key, t))
      BY <3>1, <3>2, <2>0, <2>4, <1>e
    <3> QED
      BY ZenonT(40), <2>1, <3>2, <3>3, <1>g DEF OnItsWay
  <2>2. CASE c # b
    BY ZenonT(40), <2>1, <2>2, <2>4, <1>g, <1>e
  <2>3. CASE c = b
    <3>1. g.at[c].key = k
      BY ZenonT(40), <2>3, <1>g, <1>e
    <3>2. CASE b \in Entries(h)
      BY <2>1, <2>3, <3>1, <3>2, <1>m
    <3>3. CASE b \notin Entries(h)
      <4>1. PICK s \in Bucket(N) : Probe(N, k, s) = b /\ \A t \in 0..(s - 1) : ~isempty(h, Probe(N, k, t))
        BY <3>3, <1>p
      <4>2. \A t \in 0..(s - 1) : ~isempty(g, Probe(N, k, t))
        BY <4>1, <2>0, <2>4, <1>e
      <4> QED
        BY ZenonT(40), <2>3, <3>1, <4>1, <4>2, <1>g DEF OnItsWay
    <3> QED
      BY <3>2, <3>3
  <2> QED
    BY <2>2, <2>3
<1>3. \A c, d \in Entries(g) : g.at[c].key = g.at[d].key => c = d
  <2>1. Entries(h) \subseteq Bucket(N)
    BY DEF Entries
  <2>2. \A c, d \in Entries(h) : h.at[c].key = h.at[d].key => c = d
    BY DEF Good
  <2> QED
    <3>1. \A c \in Entries(h) : c # b => g.at[c] = h.at[c]
      BY ZenonT(40), <2>1, <1>g
    <3>2. g.at[b].key = k
      BY ZenonT(40), <1>g, <1>e
    <3> QED
      BY <3>1, <3>2, <2>2, <1>e, <1>u
<1>4. g.size = Cardinality(KeysIn(g))
  <2>1. KeysIn(g) = KeysIn(h) \cup {k}
    <3>1. \A c \in Entries(h) : g.at[c].key = h.at[c].key
      BY <1>g, <1>e, <1>m DEF Entries
    <3>2. g.at[b].key = k
      BY ZenonT(40), <1>g, <1>e
    <3> QED
      BY <3>1, <3>2, <1>e DEF KeysIn
  <2>2. k \in KeysIn(h) <=> ds = 0
    BY <1>m DEF KeysIn
  <2>3. IsFiniteSet(KeysIn(h)) /\ h.size = Cardinality(KeysIn(h))
    BY <1>t, FiniteTable DEF Good
  <2> QED
    <3>1. g.size = h.size + ds
      BY ZenonT(40), <1>g
    <3>2. Cardinality(KeysIn(h) \cup {k}) = IF k \in KeysIn(h) THEN h.size ELSE h.size + 1
      BY ZenonT(40), <2>3, FS_AddElement
    <3> QED
      BY <2>1, <2>2, <3>1, <3>2, <1>n
<1>5. g.n_occupied = Cardinality(Occupied(g))
  <2>1. b \in Occupied(h) <=> do = 0
    BY <1>m DEF Occupied, Entries, isempty, exist
  <2>2. IsFiniteSet(Occupied(h)) /\ h.n_occupied = Cardinality(Occupied(h))
    BY <1>t, FiniteTable DEF Good
  <2> QED
    <3>1. g.n_occupied = h.n_occupied + do
      BY ZenonT(40), <1>g
    <3>2. Cardinality(Occupied(h) \cup {b}) =
             IF b \in Occupied(h) THEN h.n_occupied ELSE h.n_occupied + 1
      BY ZenonT(40), <2>2, FS_AddElement
    <3> QED
      BY <2>1, <3>1, <3>2, <1>e, <1>n
<1>6. Good(g) /\ g.n_occupied <= h.n_occupied + 1
  <2>1. g.n_buckets = N /\ g.n_occupied = h.n_occupied + do
    BY ZenonT(40), <1>g
  <2>2. g.n_occupied <= UpperBound(N) /\ g.n_occupied <= h.n_occupied + 1
    BY <2>1, <1>n
  <2> QED
    BY <1>1, <1>2, <1>3, <1>4, <1>5, <2>1, <2>2 DEF Good
<1>7. Adds(g, h, k, v, n)
  BY SMTT(30), <1>g, <1>m, <1>u, <1>n DEF Adds
<1> QED
  BY ZenonT(40), <1>6, <1>7, <1>g DEF g

\* A new table is empty.
LEMMA AllocIsGood ==
    ASSUME NEW n \in Sizes
    PROVE  LET g == kh_alloc(n) IN
           /\ Good(g) /\ g.n_buckets = n /\ g.n_occupied = 0 /\ g.size = 0 /\ Entries(g) = {}
<1> DEFINE g == kh_alloc(n)
<1>1. /\ g = Table(g.n_buckets, g.size, g.n_occupied, g.at)
      /\ g.n_buckets = n /\ g.size = 0 /\ g.n_occupied = 0
      /\ g.at = [b \in Bucket(n) |-> Free]
  BY DEF kh_alloc, Table
<1> HIDE DEF g
<1>2. \A b \in Bucket(n) : g.at[b] = Free
  BY <1>1
<1>3. Entries(g) = {} /\ Occupied(g) = {} /\ KeysIn(g) = {}
  BY <1>1, <1>2 DEF Entries, Occupied, KeysIn, exist, isempty, Free
<1>4. TableOK(g)
  BY <1>1, <1>2 DEF TableOK, EntryOK
<1>5. UpperBound(n) \in Nat
  BY SizeFacts
<1>6. g.n_occupied <= UpperBound(g.n_buckets)
  BY <1>1, <1>5
<1> QED
  BY <1>1, <1>3, <1>4, <1>6, FS_EmptySet DEF Good, g

\* mrb_hash_delete_key keeps a table good.
LEMMA RemoveIsGood ==
    ASSUME NEW h, Good(h), NEW b \in Entries(h)
    PROVE  LET g == RemoveAt(h, b) IN
           /\ Good(g) /\ g.n_buckets = h.n_buckets /\ g.size = h.size - 1
           /\ Entries(g) = Entries(h) \ {b}
           /\ \A c \in Entries(g) : g.at[c] = MovedUp(h.at[c], h.at[b].n)
<1> DEFINE N == h.n_buckets
           g == RemoveAt(h, b)
           n == h.at[b].n
           d == kh_del(h, b)
<1>t. TableOK(h) /\ N \in Sizes /\ h.size \in Nat /\ h.n_occupied \in Nat /\ b \in Bucket(N)
  BY DEF Good, TableOK, Entries
<1>n. n \in Nat
  BY DEF Good, TableOK, EntryOK, Entries, exist, Free, Deleted
<1>d. /\ d.n_buckets = N /\ d.size = h.size - 1 /\ d.n_occupied = h.n_occupied
      /\ \A c \in Bucket(N) : d.at[c] = IF c = b THEN Deleted ELSE h.at[c]
  <2>1. /\ d.n_buckets = N /\ d.size = h.size + (-1) /\ d.n_occupied = h.n_occupied + 0
        /\ \A c \in Bucket(N) : d.at[c] = IF c = b THEN Deleted ELSE h.at[c]
    <3>1. d = Table(N, h.size + (-1), h.n_occupied + 0, [h.at EXCEPT ![b] = Deleted])
      BY DEF kh_del, Stored
    <3>2. /\ d.n_buckets = N /\ d.size = h.size + (-1) /\ d.n_occupied = h.n_occupied + 0
          /\ d.at = [h.at EXCEPT ![b] = Deleted]
      BY <3>1 DEF Table
    <3>3. h.at = [c \in Bucket(N) |-> h.at[c]]
      BY <1>t DEF TableOK
    <3> QED
      BY <3>2, <3>3
  <2> QED
    BY <2>1, <1>t
<1> HIDE DEF d
<1>1. /\ g = Table(g.n_buckets, g.size, g.n_occupied, g.at)
      /\ g.n_buckets = d.n_buckets /\ g.size = d.size /\ g.n_occupied = d.n_occupied
      /\ g.at = [c \in Bucket(d.n_buckets) |-> MovedUp(d.at[c], n)]
  <2>1. g = Table(d.n_buckets, d.size, d.n_occupied, [c \in Bucket(d.n_buckets) |-> MovedUp(d.at[c], n)])
    BY Zenon DEF RemoveAt, d
  <2> HIDE DEF d, n
  <2> DEFINE f == [c \in Bucket(d.n_buckets) |-> MovedUp(d.at[c], n)]
  <2>2. g = Table(d.n_buckets, d.size, d.n_occupied, f)
    BY <2>1, Zenon
  <2> HIDE DEF f, g
  <2>3. g.n_buckets = d.n_buckets /\ g.size = d.size /\ g.n_occupied = d.n_occupied /\ g.at = f
    BY <2>2 DEF Table
  <2> QED
    BY <2>2, <2>3, Zenon DEF f
<1> HIDE DEF g
<1>2. /\ g.n_buckets = N /\ g.size = h.size - 1 /\ g.n_occupied = h.n_occupied
      /\ g.at = [c \in Bucket(N) |-> MovedUp(d.at[c], n)]
  BY <1>1, <1>d
<1> HIDE DEF n
<1>3. \A c \in Bucket(N) : g.at[c] = IF c = b THEN Deleted ELSE MovedUp(h.at[c], n)
  <2>1. MovedUp(Deleted, n) = Deleted
    BY DEF MovedUp, Deleted
  <2> QED
    BY <1>2, <1>d, <2>1
<1>4. \A c \in Bucket(N) : EntryOK(h.at[c])
  BY <1>t DEF TableOK
<1>5. ASSUME NEW e, EntryOK(e)
      PROVE  LET f == MovedUp(e, n) IN
             EntryOK(f) /\ f.state = e.state /\ (e.state = "used" => f.key = e.key)
  <2>1. CASE e.state = "used" /\ e.n > n
    <3>1. e.key \in Key /\ e.v \in Val /\ e.n \in Nat
      BY <1>5, <2>1 DEF EntryOK, Free, Deleted
    <3>2. e.n - 1 \in Nat
      BY <3>1, <2>1, <1>n
    <3>3. MovedUp(e, n) = Entry(e.key, e.v, e.n - 1)
      BY <2>1 DEF MovedUp
    <3> QED
      BY <2>1, <3>1, <3>2, <3>3 DEF EntryOK, Entry
  <2>2. CASE ~(e.state = "used" /\ e.n > n)
    BY <1>5, <2>2 DEF MovedUp
  <2> QED
    BY <2>1, <2>2
<1>6. \A c \in Bucket(N) :
         /\ EntryOK(g.at[c])
         /\ isempty(g, c) <=> isempty(h, c)
         /\ exist(g, c) <=> exist(h, c) /\ c # b
         /\ exist(g, c) => g.at[c].key = h.at[c].key
  <2> TAKE c \in Bucket(N)
  <2>1. CASE c = b
    <3>1. g.at[c] = Deleted /\ exist(h, c)
      BY <2>1, <1>3 DEF Entries
    <3> QED
      BY <2>1, <3>1 DEF Deleted, exist, isempty, EntryOK
  <2>2. CASE c # b
    <3>1. g.at[c] = MovedUp(h.at[c], n)
      BY <2>2, <1>3
    <3> QED
      BY <2>2, <3>1, <1>4, <1>5 DEF exist, isempty
  <2> QED
    BY <2>1, <2>2
<1>7. Entries(g) = Entries(h) \ {b} /\ Occupied(g) = Occupied(h)
  BY <1>2, <1>6 DEF Entries, Occupied
<1>8. KeysIn(g) = KeysIn(h) \ {h.at[b].key}
  <2>1. \A c \in Entries(g) : g.at[c].key = h.at[c].key
    BY <1>2, <1>6 DEF Entries
  <2>2. \A c \in Entries(h) : h.at[c].key = h.at[b].key => c = b
    BY DEF Good
  <2> QED
    BY <1>7, <2>1, <2>2 DEF KeysIn
<1>9. g.size = Cardinality(KeysIn(g)) /\ g.size \in Nat
  <2>1. IsFiniteSet(KeysIn(h)) /\ h.size = Cardinality(KeysIn(h)) /\ h.at[b].key \in KeysIn(h)
    BY <1>t, FiniteTable DEF Good, KeysIn
  <2>2. Cardinality(KeysIn(h) \ {h.at[b].key}) = h.size - 1
    BY ZenonT(40), <2>1, FS_RemoveElement
  <2>3. IsFiniteSet(KeysIn(h) \ {h.at[b].key})
    BY <2>1, FS_RemoveElement
  <2>4. Cardinality(KeysIn(h) \ {h.at[b].key}) \in Nat
    BY <2>3, FS_CardinalityType
  <2> QED
    BY <1>2, <1>8, <2>2, <2>4
<1>10. TableOK(g)
  <2>1. g.at = [c \in Bucket(N) |-> g.at[c]]
    BY <1>2
  <2> QED
    BY <1>1, <1>2, <1>6, <1>9, <1>t, <2>1, Zenon DEF TableOK
<1>11. \A c \in Entries(g) : OnItsWay(g, c)
  <2> TAKE c \in Entries(g)
  <2>1. c \in Entries(h) /\ g.at[c].key = h.at[c].key
    BY <1>2, <1>6, <1>7 DEF Entries
  <2>2. h.at[c].key \in Key
    BY <2>1, KeyIsFound
  <2>3. PICK s \in Bucket(N) : /\ Probe(N, h.at[c].key, s) = c
                               /\ \A t \in 0..(s - 1) : ~isempty(h, Probe(N, h.at[c].key, t))
    BY <2>1 DEF Good, OnItsWay
  <2>4. \A t \in Nat : Probe(N, h.at[c].key, t) \in Bucket(N)
    BY <2>2, <1>t, SizeFacts
  <2>5. s \in Nat
    BY <1>t, SizeFacts DEF Bucket
  <2>6. \A t \in 0..(s - 1) : ~isempty(g, Probe(N, h.at[c].key, t))
    <3> TAKE t \in 0..(s - 1)
    <3>1. t \in Nat
      BY <2>5
    <3>2. Probe(N, h.at[c].key, t) \in Bucket(N)
      BY <3>1, <2>4
    <3> QED
      BY <2>3, <3>2, <1>6
  <2> QED
    BY <2>1, <2>3, <2>6, <1>2 DEF OnItsWay
<1>12. \A c, e \in Entries(g) : g.at[c].key = g.at[e].key => c = e
  <2>1. \A c \in Entries(g) : c \in Entries(h) /\ g.at[c].key = h.at[c].key
    BY <1>2, <1>6, <1>7 DEF Entries
  <2> QED
    BY <2>1 DEF Good
<1>13. g.n_occupied = Cardinality(Occupied(g)) /\ g.n_occupied <= UpperBound(g.n_buckets)
  BY <1>2, <1>7 DEF Good
<1>14. \A c \in Entries(g) : g.at[c] = MovedUp(h.at[c], h.at[b].n)
  BY <1>2, <1>3, <1>7 DEF Entries, n
<1>15. Good(g)
  BY <1>9, <1>10, <1>11, <1>12, <1>13 DEF Good
<1> QED
  BY <1>2, <1>7, <1>14, <1>15 DEF g

-----------------------------------------------------------------------------
(* Order and copies. *)

Dense(h) ==
    /\ \A b \in Entries(h) : h.at[b].n \in 0..(h.size - 1)
    /\ \A n \in 0..(h.size - 1) : \E b \in Entries(h) : h.at[b].n = n
    /\ \A b, c \in Entries(h) : h.at[b].n = h.at[c].n => b = c

LEMMA NumberType ==
    ASSUME NEW h, TableOK(h)
    PROVE  /\ h.size \in Nat
           /\ \A b \in Entries(h) :
                 /\ h.at[b] = Entry(h.at[b].key, h.at[b].v, h.at[b].n)
                 /\ h.at[b].key \in Key /\ h.at[b].v \in Val /\ h.at[b].n \in Nat
BY DEF TableOK, EntryOK, Entries, exist, Free, Deleted

\* What Adds says of the entries.
LEMMA EntryFields ==
    ASSUME NEW k, NEW v, NEW n
    PROVE  Entry(k, v, n).key = k /\ Entry(k, v, n).v = v /\ Entry(k, v, n).n = n
  BY DEF Entry

LEMMA MovedUpFields ==
    ASSUME NEW e, NEW n, e.state = "used"
    PROVE  /\ MovedUp(e, n).key = e.key /\ MovedUp(e, n).v = e.v
           /\ MovedUp(e, n).n = IF e.n > n THEN e.n - 1 ELSE e.n
  BY EntryFields DEF MovedUp

LEMMA BucketHas == \A n \in Nat, b \in Nat : b < n => b \in Bucket(n)
  BY DEF Bucket

\* g has the entry of k, with value v and number m, in bucket b, and else what h has.
AddsAt(g, h, k, v, n, b, m) ==
    /\ Entries(g) = Entries(h) \cup {b} /\ g.at[b] = Entry(k, v, m)
    /\ \A c \in Entries(h) : c # b => g.at[c] = h.at[c] /\ h.at[c].key # k
    /\ \/ b \in Entries(h) /\ h.at[b].key = k /\ g.size = h.size /\ (n = -1 => m = h.at[b].n)
       \/ b \notin Entries(h) /\ g.size = h.size + 1 /\ (n = -1 => m = h.size)
    /\ n # -1 => m = n

\* What Adds says of the entries.
LEMMA AddsFacts ==
    ASSUME NEW g, NEW h, NEW k, NEW v, NEW n, g.n_buckets = h.n_buckets, Adds(g, h, k, v, n)
    PROVE  \E b \in Bucket(h.n_buckets), m \in Nat : AddsAt(g, h, k, v, n, b, m)
<1>1. PICK b \in Bucket(h.n_buckets), m \in Nat :
        /\ g.at[b] = Entry(k, v, m)
        /\ \A c \in Bucket(h.n_buckets) : c # b => g.at[c] = h.at[c]
        /\ \A c \in Entries(h) : c # b => h.at[c].key # k
        /\ \/ /\ b \in Entries(h) /\ h.at[b].key = k /\ g.size = h.size
              /\ m = IF n = -1 THEN h.at[b].n ELSE n
           \/ /\ b \notin Entries(h) /\ g.size = h.size + 1
              /\ m = IF n = -1 THEN h.size ELSE n
  BY DEF Adds
<1>2. Entry(k, v, m).state = "used"
  BY DEF Entry
<1>3. Entries(g) = Entries(h) \cup {b}
  BY <1>1, <1>2 DEF Entries, exist
<1>4. \A c \in Entries(h) : c \in Bucket(h.n_buckets)
  BY DEF Entries
<1>5. AddsAt(g, h, k, v, n, b, m)
  BY <1>1, <1>3, <1>4, Zenon DEF AddsAt
<1> QED
  BY <1>5, ZenonT(40)

\* A key that mrb_hash_set puts gets the next number, or keeps its own.
LEMMA AddsAnew ==
    ASSUME NEW g, NEW h, NEW k, NEW v, g.n_buckets = h.n_buckets, Adds(g, h, k, v, -1)
    PROVE  \E b \in Bucket(h.n_buckets), m \in Nat :
             /\ Entries(g) = Entries(h) \cup {b} /\ g.at[b] = Entry(k, v, m)
             /\ \A c \in Entries(h) : c # b => g.at[c] = h.at[c] /\ h.at[c].key # k
             /\ \/ b \in Entries(h) /\ h.at[b].key = k /\ g.size = h.size /\ m = h.at[b].n
                \/ b \notin Entries(h) /\ g.size = h.size + 1 /\ m = h.size
<1>1. PICK b \in Bucket(h.n_buckets), m \in Nat : AddsAt(g, h, k, v, -1, b, m)
  BY AddsFacts, Zenon
<1> QED
  BY <1>1, Zenon DEF AddsAt

\* mrb_hash_set keeps the numbers dense.
LEMMA AddIsDense ==
    ASSUME NEW g, NEW h, NEW k, NEW v, g.n_buckets = h.n_buckets, TableOK(h), Dense(h),
           Adds(g, h, k, v, -1)
    PROVE  Dense(g)
<1>1. PICK b \in Bucket(h.n_buckets), m \in Nat :
             /\ Entries(g) = Entries(h) \cup {b} /\ g.at[b] = Entry(k, v, m)
             /\ \A c \in Entries(h) : c # b => g.at[c] = h.at[c]
             /\ \/ /\ b \in Entries(h) /\ g.size = h.size /\ m = h.at[b].n
                \/ /\ b \notin Entries(h) /\ g.size = h.size + 1 /\ m = h.size
  <2>1. PICK b \in Bucket(h.n_buckets), m \in Nat : AddsAt(g, h, k, v, -1, b, m)
    BY AddsFacts, ZenonT(40)
  <2> QED
    BY <2>1, Zenon DEF AddsAt
<1>2. g.at[b].n = m
  BY <1>1 DEF Entry
<1>3. h.size \in Nat
  BY DEF TableOK
<1>4. CASE b \in Entries(h)
  <2>1. Entries(g) = Entries(h) /\ g.size = h.size
    BY <1>1, <1>4
  <2>2. \A c \in Entries(h) : g.at[c].n = h.at[c].n
    BY <1>1, <1>2, <1>4
  <2> QED
    BY SMTT(30), <2>1, <2>2 DEF Dense
<1>5. CASE b \notin Entries(h)
  <2>1. Entries(g) = Entries(h) \cup {b} /\ g.size = h.size + 1 /\ g.at[b].n = h.size
    BY <1>1, <1>2, <1>5
  <2>2. \A c \in Entries(h) : g.at[c].n = h.at[c].n
    BY <1>1, <1>5
  <2>3. \A c \in Entries(g) : g.at[c].n \in 0..(g.size - 1)
    BY <2>1, <2>2, <1>3 DEF Dense
  <2>4. \A n \in 0..(g.size - 1) : \E c \in Entries(g) : g.at[c].n = n
    <3> TAKE n \in 0..(g.size - 1)
    <3>1. n = h.size \/ n \in 0..(h.size - 1)
      BY <2>1, <1>3
    <3> QED
      BY <3>1, <2>1, <2>2 DEF Dense
  <2>5. \A c \in Entries(h) : g.at[c].n # h.size
    BY <2>2, <1>3 DEF Dense
  <2>6. \A c, d \in Entries(g) : g.at[c].n = g.at[d].n => c = d
    BY <2>1, <2>2, <2>5 DEF Dense
  <2> QED
    BY <2>3, <2>4, <2>6 DEF Dense
<1> QED
  BY <1>4, <1>5

\* mrb_hash_delete_key keeps the numbers dense.
LEMMA RemoveIsDense ==
    ASSUME NEW h, Good(h), Dense(h), NEW b \in Entries(h)
    PROVE  Dense(RemoveAt(h, b))
<1> DEFINE g == RemoveAt(h, b)
           n == h.at[b].n
<1>1. /\ g.size = h.size - 1 /\ Entries(g) = Entries(h) \ {b}
      /\ \A c \in Entries(g) : g.at[c] = MovedUp(h.at[c], n)
  BY RemoveIsGood
<1> HIDE DEF g
<1>t. TableOK(h) /\ h.size \in Nat /\ \A c \in Entries(h) : h.at[c].n \in Nat /\ h.at[c].state = "used"
  <2>1. TableOK(h)
    BY DEF Good
  <2> QED
    BY <2>1, NumberType DEF Entries, exist
<1>2. \A c \in Entries(g) : g.at[c].n = IF h.at[c].n > n THEN h.at[c].n - 1 ELSE h.at[c].n
  <2> TAKE c \in Entries(g)
  <2>1. g.at[c] = MovedUp(h.at[c], n) /\ h.at[c].state = "used"
    BY <1>1, <1>t
  <2> QED
    BY SMTT(30), <2>1 DEF MovedUp, Entry
<1>3. \A c \in Entries(g) : h.at[c].n # n /\ h.at[c].n \in 0..(h.size - 1) /\ c \in Entries(h)
  BY <1>1 DEF Dense
<1>4. n \in 0..(h.size - 1)
  BY DEF Dense
<1> HIDE DEF n
<1>5. \A c \in Entries(g) : g.at[c].n \in 0..(g.size - 1)
  BY <1>1, <1>2, <1>3, <1>4, <1>t
<1>6. \A m \in 0..(g.size - 1) : \E c \in Entries(g) : g.at[c].n = m
  <2> TAKE m \in 0..(g.size - 1)
  <2>0. m \in Nat /\ n \in Nat /\ m < h.size - 1
    BY <1>1, <1>4, <1>t
  <2>1. CASE m < n
    <3>1. m \in 0..(h.size - 1)
      BY <2>0, <1>t
    <3>2. PICK c \in Entries(h) : h.at[c].n = m
      BY <3>1 DEF Dense
    <3>3. c # b
      BY <2>0, <2>1, <3>2 DEF n
    <3>4. c \in Entries(g)
      BY <3>3, <1>1
    <3> QED
      BY <2>0, <2>1, <3>2, <3>4, <1>2
  <2>2. CASE ~(m < n)
    <3>1. m + 1 \in 0..(h.size - 1)
      BY <2>0, <1>t
    <3>2. PICK c \in Entries(h) : h.at[c].n = m + 1
      BY <3>1 DEF Dense
    <3>3. c # b
      BY <2>0, <2>2, <3>2 DEF n
    <3>4. c \in Entries(g)
      BY <3>3, <1>1
    <3> QED
      BY <2>0, <2>2, <3>2, <3>4, <1>2
  <2> QED
    BY <2>1, <2>2
<1>7. \A c, d \in Entries(g) : g.at[c].n = g.at[d].n => c = d
  <2> TAKE c, d \in Entries(g)
  <2> HAVE g.at[c].n = g.at[d].n
  <2>1. h.at[c].n = h.at[d].n
    <3>1. h.at[c].n \in Nat /\ h.at[d].n \in Nat /\ n \in Nat /\ h.at[c].n # n /\ h.at[d].n # n
      BY <1>3, <1>4, <1>t
    <3> QED
      BY <3>1, <1>2
  <2> QED
    BY <2>1, <1>3 DEF Dense
<1> QED
  BY <1>5, <1>6, <1>7 DEF Dense, g

LEMMA CopiedStart ==
    ASSUME NEW g, NEW h, TableOK(h), Entries(g) = {}
    PROVE  Copied(g, h, 0)
<1>1. h.n_buckets \in Nat
  BY SizeFacts DEF TableOK
<1>2. \A b \in Entries(h) : ~(b < 0)
  BY <1>1 DEF Entries, Bucket
<1> QED
  BY <1>2 DEF Copied

\* One step of the loops of kh_resize and mrb_hash_dup.
LEMMA CopiedNext ==
    ASSUME NEW g, Good(g), ~Full(g), NEW h, Good(h), NEW m \in Bucket(h.n_buckets), exist(h, m),
           Copied(g, h, m)
    PROVE  Copied(kh_put(g, h.at[m].key, h.at[m].v, h.at[m].n), h, m + 1)
<1> DEFINE e == h.at[m]
           f == kh_put(g, e.key, e.v, e.n)
<1>h. h.n_buckets \in Nat /\ TableOK(h)
  BY ZenonT(40), SizeFacts DEF Good, TableOK
<1>m. m \in Entries(h) /\ m \in Nat /\ \A b \in Entries(h) : b \in Nat
  BY <1>h DEF Entries, Bucket
<1>e. e = Entry(e.key, e.v, e.n) /\ e.key \in Key /\ e.v \in Val /\ e.n \in Nat
  BY <1>h, <1>m, NumberType
<1>1. f.n_buckets = g.n_buckets /\ Adds(f, g, e.key, e.v, e.n)
  BY Zenon, <1>e, PutIsGood
<1> HIDE DEF f
<1>2. PICK b \in Bucket(g.n_buckets), x \in Nat :
         /\ Entries(f) = Entries(g) \cup {b} /\ f.at[b] = Entry(e.key, e.v, x)
         /\ \A c \in Entries(g) : c # b => f.at[c] = g.at[c] /\ g.at[c].key # e.key
         /\ b \in Entries(g) => g.at[b].key = e.key
         /\ e.n # -1 => x = e.n
  <2>1. PICK b \in Bucket(g.n_buckets), x \in Nat : AddsAt(f, g, e.key, e.v, e.n, b, x)
    BY <1>1, AddsFacts, ZenonT(40)
  <2> QED
    BY <2>1, Zenon DEF AddsAt
<1>3. \A c \in Entries(g) : g.at[c].key # e.key
  <2> TAKE c \in Entries(g)
  <2>1. PICK d \in Entries(h) : d < m /\ g.at[c] = h.at[d]
    BY DEF Copied
  <2>2. d # m
    BY <2>1, <1>m
  <2> QED
    BY <2>1, <2>2, <1>m DEF Good
<1>4. b \notin Entries(g) /\ f.at[b] = e
  <2>1. e.n # -1
    BY <1>e
  <2>2. b \notin Entries(g) /\ x = e.n
    BY <1>2, <1>3, <2>1
  <2> QED
    BY <1>2, <1>e, <2>2
<1>5. \A c \in Entries(g) : f.at[c] = g.at[c]
  BY <1>2, <1>4
<1>6. \A d \in Entries(h) : d < m + 1 => d < m \/ d = m
  BY <1>m
<1>7. \A d \in Entries(h) : d < m => d < m + 1
  BY <1>m
<1>8. m < m + 1
  BY <1>m
<1> HIDE DEF e
<1>9. \A d \in Entries(h) : d < m + 1 => \E c \in Entries(f) : f.at[c] = h.at[d]
  <2> TAKE d \in Entries(h)
  <2> HAVE d < m + 1
  <2>1. CASE d < m
    BY SMTT(30), <2>1, <1>2, <1>5 DEF Copied
  <2>2. CASE d = m
    BY ZenonT(40), <2>2, <1>2, <1>4 DEF e
  <2> QED
    BY <2>1, <2>2, <1>6
<1>10. \A c \in Entries(f) : \E d \in Entries(h) : d < m + 1 /\ f.at[c] = h.at[d]
  <2> TAKE c \in Entries(f)
  <2>1. CASE c \in Entries(g)
    <3>1. PICK d \in Entries(h) : d < m /\ g.at[c] = h.at[d]
      BY <2>1 DEF Copied
    <3> QED
      BY <3>1, <2>1, <1>5, <1>7
  <2>2. CASE c = b
    BY <2>2, <1>4, <1>8, <1>m DEF e
  <2> QED
    BY <2>1, <2>2, <1>2
<1> QED
  BY ZenonT(40), <1>9, <1>10 DEF Copied, f, e

LEMMA CopiedSkip ==
    ASSUME NEW g, NEW h, TableOK(h), NEW m \in Bucket(h.n_buckets), ~exist(h, m), Copied(g, h, m)
    PROVE  Copied(g, h, m + 1)
<1>1. h.n_buckets \in Nat
  BY SizeFacts DEF TableOK
<1>2. \A d \in Entries(h) : d < m + 1 <=> d < m
  BY <1>1 DEF Entries, Bucket
<1> QED
  BY <1>2 DEF Copied

\* A complete copy of a copy is a copy.
LEMMA CopiedThrough ==
    ASSUME NEW f, NEW g, NEW h, NEW m, TableOK(g), Copied(f, g, g.n_buckets), Copied(g, h, m)
    PROVE  Copied(f, h, m)
<1>1. g.n_buckets \in Nat
  BY SizeFacts DEF TableOK
<1>2. \A c \in Entries(g) : c < g.n_buckets
  BY <1>1 DEF Entries, Bucket
<1> QED
  BY <1>2 DEF Copied

\* A complete copy has the keys, the size and the order of the original.
LEMMA CopiedAll ==
    ASSUME NEW g, Good(g), NEW h, Good(h), Copied(g, h, h.n_buckets)
    PROVE  g.size = h.size /\ (Dense(h) => Dense(g))
<1>1. h.n_buckets \in Nat
  BY SizeFacts DEF Good, TableOK
<1>2. \A c \in Entries(h) : c < h.n_buckets
  BY <1>1 DEF Entries, Bucket
<1>3. \A b \in Entries(h) : \E c \in Entries(g) : g.at[c] = h.at[b]
  BY <1>2 DEF Copied
<1>4. \A c \in Entries(g) : \E b \in Entries(h) : g.at[c] = h.at[b]
  BY DEF Copied
<1>5. KeysIn(g) = KeysIn(h)
  BY <1>3, <1>4 DEF KeysIn
<1>6. g.size = h.size
  BY <1>5 DEF Good
<1>7. ASSUME Dense(h) PROVE Dense(g)
  <2>1. \A c \in Entries(g) : g.at[c].n \in 0..(g.size - 1)
    BY <1>4, <1>6, <1>7 DEF Dense
  <2>2. \A n \in 0..(g.size - 1) : \E c \in Entries(g) : g.at[c].n = n
    BY <1>3, <1>6, <1>7 DEF Dense
  <2>3. \A c, d \in Entries(g) : g.at[c].n = g.at[d].n => c = d
    <3> TAKE c, d \in Entries(g)
    <3> HAVE g.at[c].n = g.at[d].n
    <3>1. PICK x \in Entries(h) : g.at[c] = h.at[x]
      BY <1>4
    <3>2. PICK y \in Entries(h) : g.at[d] = h.at[y]
      BY <1>4
    <3>3. x = y
      BY <3>1, <3>2, <1>7 DEF Dense
    <3>4. g.at[c].key = g.at[d].key
      BY <3>1, <3>2, <3>3
    <3> QED
      BY <3>4 DEF Good
  <2> QED
    BY <2>1, <2>2, <2>3 DEF Dense
<1> QED
  BY ZenonT(40), <1>6, <1>7

\* A complete copy lists the same pairs.
LEMMA CopiedPairs ==
    ASSUME NEW g, Good(g), NEW h, Good(h), Copied(g, h, h.n_buckets), Dense(h)
    PROVE  PairsOf(g) = PairsOf(h)
<1>1. g.size = h.size /\ Dense(g)
  BY ZenonT(40), CopiedAll
<1>2. h.size \in Nat
  BY DEF Good, TableOK
<1>3. ASSUME NEW n \in 1..h.size PROVE g.at[At(g, n - 1)] = h.at[At(h, n - 1)]
  <2>1. n - 1 \in 0..(h.size - 1)
    BY <1>2
  <2>2. At(h, n - 1) \in Entries(h) /\ h.at[At(h, n - 1)].n = n - 1
    BY <2>1 DEF At, Dense
  <2>3. At(g, n - 1) \in Entries(g) /\ g.at[At(g, n - 1)].n = n - 1
    BY <2>1, <1>1 DEF At, Dense
  <2>4. PICK b \in Entries(h) : g.at[At(g, n - 1)] = h.at[b]
    BY <2>3 DEF Copied
  <2>5. b = At(h, n - 1)
    BY Zenon, <2>2, <2>3, <2>4 DEF Dense
  <2> QED
    BY <2>4, <2>5
<1> QED
  BY <1>1, <1>3 DEF PairsOf

-----------------------------------------------------------------------------
(* The invariant, action by action. *)

\* The conjuncts of the invariant about the control state.
PutOK(p) ==
    p # NoPut =>
        /\ p = Put(p.to, p.key, p.v, p.n) /\ p.to \in Tab
        /\ p.key \in Key /\ p.v \in Val /\ p.n \in Nat \cup {-1}

LEMMA InvFacts ==
    IInv <=>
        /\ tab = [t \in Tab |-> tab[t]]
        /\ i \in Nat \cup {-1} /\ j \in Nat \cup {-1} /\ PutOK(put)
        /\ Dense(tab["hash"]) /\ Rebuilding /\ Copying
        /\ Good(tab["hash"]) /\ Good(tab["dup"]) /\ Good(hh)
BY ZenonT(40) DEF IInv, TypeOK, PutOK, OrderIsDense, Dense, Good

LEMMA InvFactsPrimed ==
    IInv' <=>
        /\ tab' = [t \in Tab |-> tab'[t]]
        /\ i' \in Nat \cup {-1} /\ j' \in Nat \cup {-1} /\ PutOK(put')
        /\ Dense(tab'["hash"]) /\ Rebuilding' /\ Copying'
        /\ Good(tab'["hash"]) /\ Good(tab'["dup"]) /\ Good(hh')
BY DEF IInv, TypeOK, PutOK, OrderIsDense, Dense, Good

LEMMA BlankIsGood ==
    /\ Good(Blank) /\ Entries(Blank) = {} /\ Blank.n_occupied = 0
BY HashAssumption, AllocIsGood DEF Blank

LEMMA EmptyIsDense ==
    ASSUME NEW h, Entries(h) = {}, h.size = 0
    PROVE  Dense(h)
BY DEF Dense

LEMMA InitHolds ==
    ASSUME Init
    PROVE  IInv
<1>1. PICK n \in Capacities \cup {DefaultSize} :
         tab = [t \in Tab |-> IF t = "hash" THEN kh_alloc(n) ELSE Blank]
  BY DEF Init
<1>2. n \in Sizes
  BY HashAssumption
<1>3. tab = [t \in Tab |-> tab[t]] /\ tab["hash"] = kh_alloc(n) /\ tab["dup"] = Blank
  BY <1>1 DEF Tab
<1>4. Good(kh_alloc(n)) /\ kh_alloc(n).size = 0 /\ Entries(kh_alloc(n)) = {}
  BY <1>2, AllocIsGood
<1>5. Dense(kh_alloc(n))
  BY <1>4, EmptyIsDense
<1>6. hh = Blank /\ i = -1 /\ put = NoPut /\ j = -1
  BY DEF Init
<1> QED
  BY <1>3, <1>4, <1>5, <1>6, BlankIsGood, InvFacts DEF PutOK, Rebuilding, Copying

LEMMA SetHolds ==
    ASSUME IInv, NEW k \in Key, NEW v \in Val, mrb_hash_set(k, v)
    PROVE  IInv'
<1>1. PutOK(put') /\ put'.to = "hash" /\ put'.n = -1
  BY DEF mrb_hash_set, PutOK, Put, Tab
<1>2. i = -1
  BY DEF mrb_hash_set, Idle, IInv, Rebuilding
<1> QED
  BY <1>1, <1>2, InvFacts, InvFactsPrimed DEF mrb_hash_set, Idle, Rebuilding, Copying

\* The table a kh_put is about.
LEMMA PutTable ==
    ASSUME IInv, put # NoPut
    PROVE  /\ Good(tab[put.to]) /\ TableOK(tab[put.to]) /\ put.to \in Tab
           /\ tab[put.to].n_buckets \in Sizes /\ tab[put.to].n_buckets \in Nat
           /\ put.key \in Key /\ put.v \in Val /\ put.n \in Nat \cup {-1}
<1>1. put.to \in Tab /\ put.key \in Key /\ put.v \in Val /\ put.n \in Nat \cup {-1}
  BY InvFacts DEF PutOK
<1>2. Good(tab[put.to])
  BY <1>1, InvFacts DEF Tab
<1> QED
  BY ZenonT(40), <1>1, <1>2, SizeFacts DEF Good, TableOK

LEMMA GrowHolds ==
    ASSUME IInv, Grow
    PROVE  IInv'
<1> DEFINE h == tab[put.to]
           n == 2 * h.n_buckets
<1>1. put # NoPut /\ n \in Sizes /\ hh' = kh_alloc(n) /\ i' = 0 /\ UNCHANGED <<tab, put, j>>
  BY DEF Grow
<1>2. TableOK(h) /\ h.n_buckets \in Nat
  BY <1>1, PutTable
<1> HIDE DEF n
<1>3. Good(hh') /\ hh'.n_buckets = n /\ hh'.n_occupied = 0 /\ Entries(hh') = {}
  BY <1>1, AllocIsGood
<1>4. Copied(hh', h, 0)
  BY <1>2, <1>3, CopiedStart
<1> HIDE DEF h
<1>5. i' <= h.n_buckets /\ hh'.n_occupied <= i'
  BY <1>1, <1>2, <1>3
<1>6. Rebuilding'
  BY <1>1, <1>3, <1>4, <1>5 DEF Rebuilding, h, n
<1>7. Copying'
  BY <1>1, InvFacts DEF Copying
<1> QED
  BY <1>1, <1>3, <1>6, <1>7, InvFacts, InvFactsPrimed

\* The table under construction has room.
LEMMA Room ==
    ASSUME IInv, i # -1
    PROVE  ~Full(hh)
<1>1. /\ put # NoPut /\ hh.n_buckets = 2 * tab[put.to].n_buckets
      /\ i <= tab[put.to].n_buckets /\ hh.n_occupied <= i /\ i \in Nat
  BY Zenon, InvFacts DEF Rebuilding
<1>2. tab[put.to].n_buckets \in Nat /\ tab[put.to].n_buckets >= 4
  BY ZenonT(40), <1>1, PutTable, SizeFacts
<1>3. hh.n_occupied \in Nat
  BY InvFacts DEF Good, TableOK
<1>4. \A n \in Nat : n >= 4 => UpperBound(2 * n) > n /\ UpperBound(2 * n) \in Nat
  BY DEF UpperBound
<1>5. UpperBound(hh.n_buckets) > tab[put.to].n_buckets /\ UpperBound(hh.n_buckets) \in Nat
  BY ZenonT(40), <1>1, <1>2, <1>4
<1> QED
  BY <1>1, <1>2, <1>3, <1>5 DEF Full

LEMMA RelocateHolds ==
    ASSUME IInv, Relocate
    PROVE  IInv'
<1> DEFINE h == tab[put.to]
           e == h.at[i]
<1>1. /\ i # -1 /\ i < h.n_buckets /\ i' = i + 1 /\ UNCHANGED <<tab, put, j>>
      /\ hh' = IF exist(h, i) THEN kh_put(hh, e.key, e.v, e.n) ELSE hh
  BY DEF Relocate
<1>2. /\ put # NoPut /\ hh.n_buckets = 2 * h.n_buckets /\ hh.n_occupied <= i
      /\ Copied(hh, h, i) /\ i \in Nat /\ Good(hh)
  BY ZenonT(40), <1>1, InvFacts DEF Rebuilding
<1>3. Good(h) /\ TableOK(h) /\ h.n_buckets \in Nat
  BY <1>2, PutTable
<1>4. ~Full(hh)
  BY <1>1, Room
<1> HIDE DEF h
<1>5. i \in Bucket(h.n_buckets)
  BY <1>1, <1>2, <1>3 DEF Bucket
<1>6. hh.n_occupied \in Nat
  BY <1>2 DEF Good, TableOK
<1>7. /\ Good(hh') /\ hh'.n_buckets = hh.n_buckets /\ hh'.n_occupied <= hh.n_occupied + 1
      /\ hh'.n_occupied \in Nat /\ Copied(hh', h, i + 1)
  <2>1. CASE exist(h, i)
    <3>1. i \in Entries(h)
      BY <2>1, <1>5 DEF Entries
    <3>2. e.key \in Key /\ e.v \in Val /\ e.n \in Nat
      BY <3>1, <1>3, NumberType
    <3>3. hh' = kh_put(hh, e.key, e.v, e.n)
      BY <2>1, <1>1
    <3>4. Copied(hh', h, i + 1)
      BY <2>1, <3>3, <1>2, <1>3, <1>4, <1>5, CopiedNext
    <3> HIDE DEF e
    <3>5. Good(hh') /\ hh'.n_buckets = hh.n_buckets /\ hh'.n_occupied <= hh.n_occupied + 1
      BY <3>2, <3>3, <1>2, <1>4, PutIsGood
    <3> QED
      BY <3>4, <3>5 DEF Good, TableOK
  <2>2. CASE ~exist(h, i)
    <3>1. hh' = hh
      BY <2>2, <1>1
    <3>2. Copied(hh, h, i + 1)
      BY ZenonT(40), <2>2, <1>2, <1>3, <1>5, CopiedSkip
    <3> QED
      BY <3>1, <3>2, <1>2, <1>6
  <2> QED
    BY ZenonT(40), <2>1, <2>2
<1>8. i' # -1 /\ i' \in Nat /\ i' <= h.n_buckets /\ hh'.n_occupied <= i'
  BY SMTT(30), <1>1, <1>2, <1>3, <1>6, <1>7
<1>9. Rebuilding'
  BY ZenonT(40), <1>1, <1>2, <1>7, <1>8 DEF Rebuilding, h
<1>10. Copying'
  BY <1>1, InvFacts DEF Copying
<1> QED
  BY <1>1, <1>7, <1>8, <1>9, <1>10, InvFacts, InvFactsPrimed

LEMMA GrownHolds ==
    ASSUME IInv, Grown
    PROVE  IInv'
<1> DEFINE h == tab[put.to]
<1>1. /\ i # -1 /\ i = h.n_buckets /\ tab' = [tab EXCEPT ![put.to] = hh]
      /\ hh' = Blank /\ i' = -1 /\ UNCHANGED <<put, j>>
  BY DEF Grown
<1>2. put # NoPut /\ Copied(hh, h, h.n_buckets) /\ Good(hh)
  BY <1>1, InvFacts DEF Rebuilding
<1>3. Good(h) /\ TableOK(h) /\ put.to \in Tab
  BY <1>2, PutTable
<1>4. tab' = [t \in Tab |-> tab'[t]] /\ \A t \in Tab : tab'[t] = IF t = put.to THEN hh ELSE tab[t]
  <2>1. tab = [t \in Tab |-> tab[t]]
    BY ZenonT(40), InvFacts
  <2> QED
    BY <2>1, <1>1, <1>3
<1>5. Dense(h) => Dense(hh)
  BY <1>2, <1>3, CopiedAll
<1>6. Good(tab'["hash"]) /\ Good(tab'["dup"]) /\ Dense(tab'["hash"])
  BY <1>2, <1>4, <1>5, InvFacts DEF Tab
<1>7. Copying'
  <2>1. CASE put.to = "hash"
    BY <2>1, <1>1, <1>2, InvFacts DEF Copying
  <2>2. CASE put.to = "dup"
    <3>1. tab'["hash"] = tab["hash"] /\ tab'["dup"] = hh
      BY <2>2, <1>4 DEF Tab
    <3>2. \A m : Copied(h, tab["hash"], m) => Copied(hh, tab["hash"], m)
      BY <1>2, <1>3, CopiedThrough
    <3>3. \A m : Copied(tab["dup"], tab["hash"], m) => Copied(tab'["dup"], tab'["hash"], m)
      BY <3>1, <3>2, <2>2
    <3> QED
      BY <3>1, <3>3, <2>2, <1>1, <1>2, InvFacts DEF Copying
  <2> QED
    BY <2>1, <2>2, <1>3 DEF Tab
<1>8. Rebuilding'
  BY <1>1 DEF Rebuilding
<1> QED
  BY <1>1, <1>4, <1>6, <1>7, <1>8, BlankIsGood, InvFacts, InvFactsPrimed

LEMMA PutDoneHolds ==
    ASSUME IInv, PutDone
    PROVE  IInv'
<1> DEFINE h == tab[put.to]
           g == kh_put(h, put.key, put.v, put.n)
<1>1. /\ put # NoPut /\ i = -1 /\ ~Full(h) /\ tab' = [tab EXCEPT ![put.to] = g]
      /\ put' = NoPut /\ UNCHANGED <<hh, i, j>>
  BY DEF PutDone
<1>2. /\ Good(h) /\ TableOK(h) /\ put.to \in Tab
      /\ put.key \in Key /\ put.v \in Val /\ put.n \in Nat \cup {-1}
  BY <1>1, PutTable
<1>3. Good(g) /\ g.n_buckets = h.n_buckets /\ Adds(g, h, put.key, put.v, put.n)
  BY <1>1, <1>2, PutIsGood
<1>4. tab' = [t \in Tab |-> tab'[t]] /\ \A t \in Tab : tab'[t] = IF t = put.to THEN g ELSE tab[t]
  <2>1. tab = [t \in Tab |-> tab[t]]
    BY InvFacts
  <2> HIDE DEF g
  <2> QED
    BY <2>1, <1>1, <1>2
<1>5. (put.to = "hash" <=> j = -1) /\ (put.n = -1 <=> j = -1)
  BY <1>1, InvFacts DEF Copying
<1>6. CASE put.to = "hash"
  <2>1. Adds(g, h, put.key, put.v, -1) /\ Dense(h) /\ j = -1
    BY <1>3, <1>5, <1>6, InvFacts
  <2> HIDE DEF g
  <2>2. Dense(g)
    BY <2>1, <1>2, <1>3, AddIsDense
  <2>3. tab'["hash"] = g /\ tab'["dup"] = tab["dup"]
    <3>1. "hash" \in Tab /\ "dup" \in Tab /\ "dup" # "hash"
      BY DEF Tab
    <3> QED
      BY <1>4, <1>6, <3>1, Zenon
  <2>4. Copying' /\ Rebuilding' /\ PutOK(put')
    BY <1>1, <2>1 DEF Copying, Rebuilding, PutOK
  <2> QED
    BY <1>1, <1>3, <1>4, <2>2, <2>3, <2>4, InvFacts, InvFactsPrimed
<1>7. CASE put.to = "dup"
  <2> DEFINE o == tab["hash"]
  <2>1. tab'["hash"] = o /\ tab'["dup"] = g
    <3>1. "hash" \in Tab /\ "dup" \in Tab /\ "dup" # "hash"
      BY DEF Tab
    <3> QED
      BY <1>4, <1>7, <3>1, Zenon
  <2>2. /\ j \in Nat /\ j # -1 /\ j <= o.n_buckets /\ j > 0 /\ exist(o, j - 1)
        /\ o.at[j - 1] = Entry(put.key, put.v, put.n) /\ Copied(h, o, j - 1)
        /\ Good(o) /\ Dense(o)
    BY <1>1, <1>5, <1>7, InvFacts DEF Copying
  <2>3. o.n_buckets \in Nat
    BY ZenonT(40), <2>2, SizeFacts DEF Good, TableOK
  <2>4. j - 1 \in Bucket(o.n_buckets) /\ (j - 1) + 1 = j
    BY <2>2, <2>3 DEF Bucket
  <2>5. g = kh_put(h, o.at[j - 1].key, o.at[j - 1].v, o.at[j - 1].n)
    BY SMTT(30), <2>2, EntryFields
  <2> HIDE DEF g, o, h
  <2>6. Copied(kh_put(h, o.at[j - 1].key, o.at[j - 1].v, o.at[j - 1].n), o, (j - 1) + 1)
    BY ZenonT(40), <1>1, <1>2, <2>2, <2>4, CopiedNext
  <2>7. Copied(g, o, j)
    BY <2>4, <2>5, <2>6
  <2>8. Copying' /\ Rebuilding' /\ PutOK(put')
    BY ZenonT(40), <1>1, <2>1, <2>2, <2>7 DEF Copying, Rebuilding, PutOK, o
  <2> QED
    BY <1>1, <1>3, <1>4, <2>1, <2>2, <2>8, InvFacts, InvFactsPrimed DEF o
<1> QED
  BY <1>2, <1>6, <1>7 DEF Tab

\* A step of an idle hash that only changes its table.
LEMMA IdleStep ==
    ASSUME IInv, Idle, NEW g, Good(g), Dense(g), tab' = [tab EXCEPT !["hash"] = g],
           UNCHANGED <<hh, i, put, j>>
    PROVE  IInv'
<1>1. tab = [t \in Tab |-> tab[t]]
  BY InvFacts
<1>2. tab' = [t \in Tab |-> tab'[t]] /\ tab'["hash"] = g /\ tab'["dup"] = tab["dup"]
  BY ZenonT(40), <1>1 DEF Tab
<1>3. put = NoPut /\ j = -1 /\ i = -1
  BY InvFacts DEF Idle, Rebuilding
<1>4. Copying' /\ Rebuilding'
  BY <1>3 DEF Copying, Rebuilding
<1> QED
  BY <1>2, <1>4, InvFacts, InvFactsPrimed

\* kh_get answers with a bucket of the table or with kh_end.
LEMMA GetIsEntry ==
    ASSUME NEW h, Good(h), NEW k \in Key, kh_get(h, k) # h.n_buckets
    PROVE  kh_get(h, k) \in Entries(h) /\ h.at[kh_get(h, k)].key = k
<1>1. Found(h, k) \in Bucket(h.n_buckets) /\ (isempty(h, Found(h, k)) \/ Holds(h, Found(h, k), k))
  BY SearchEnds
<1>2. exist(h, Found(h, k)) /\ kh_get(h, k) = Found(h, k)
  BY DEF kh_get
<1> QED
  BY <1>1, <1>2 DEF Entries, Holds, isempty, exist

LEMMA DeleteHolds ==
    ASSUME IInv, NEW k \in Key, mrb_hash_delete_key(k)
    PROVE  IInv'
<1> DEFINE h == tab["hash"]
           b == kh_get(h, k)
<1>1. /\ Idle /\ b # h.n_buckets /\ tab' = [tab EXCEPT !["hash"] = RemoveAt(h, b)]
      /\ UNCHANGED <<hh, i, put, j>>
  BY DEF mrb_hash_delete_key
<1>2. Good(h) /\ Dense(h)
  BY InvFacts
<1>3. b \in Entries(h)
  BY <1>1, <1>2, GetIsEntry
<1> HIDE DEF b, h
<1>4. Good(RemoveAt(h, b)) /\ Dense(RemoveAt(h, b))
  BY <1>2, <1>3, RemoveIsGood, RemoveIsDense
<1> QED
  BY ZenonT(40), <1>1, <1>4, IdleStep

\* The bucket mrb_hash_shift takes.
LEMMA ShiftTakes ==
    ASSUME NEW h, Good(h), Entries(h) # {}
    PROVE  /\ First(Entries(h)) \in Entries(h)
           /\ kh_get(h, h.at[First(Entries(h))].key) = First(Entries(h))
<1>1. h.n_buckets \in Nat
  BY SizeFacts DEF Good, TableOK
<1>2. Entries(h) \in SUBSET Nat
  BY <1>1 DEF Entries, Bucket
<1>3. First(Entries(h)) \in Entries(h)
  BY <1>2, FirstIsLeast
<1> QED
  BY ZenonT(40), <1>3, KeyIsFound

LEMMA ShiftHolds ==
    ASSUME IInv, mrb_hash_shift
    PROVE  IInv'
<1> DEFINE h == tab["hash"]
           b == First(Entries(h))
<1>1. /\ Idle /\ Entries(h) # {}
      /\ tab' = [tab EXCEPT !["hash"] = RemoveAt(h, kh_get(h, h.at[b].key))]
      /\ UNCHANGED <<hh, i, put, j>>
  BY DEF mrb_hash_shift
<1>2. Good(h) /\ Dense(h)
  BY InvFacts
<1>3. b \in Entries(h) /\ kh_get(h, h.at[b].key) = b
  BY <1>1, <1>2, ShiftTakes
<1> HIDE DEF b, h
<1>4. Good(RemoveAt(h, b)) /\ Dense(RemoveAt(h, b))
  BY <1>2, <1>3, RemoveIsGood, RemoveIsDense
<1> QED
  BY ZenonT(40), <1>1, <1>3, <1>4, IdleStep

LEMMA ClearHolds ==
    ASSUME IInv, mrb_hash_clear
    PROVE  IInv'
<1> DEFINE n == tab["hash"].n_buckets
<1>1. Idle /\ tab' = [tab EXCEPT !["hash"] = kh_alloc(n)] /\ UNCHANGED <<hh, i, put, j>>
  BY ZenonT(40) DEF mrb_hash_clear
<1>2. n \in Sizes
  BY InvFacts DEF Good, TableOK
<1> HIDE DEF n
<1>3. Good(kh_alloc(n)) /\ kh_alloc(n).size = 0 /\ Entries(kh_alloc(n)) = {}
  BY <1>2, AllocIsGood
<1>4. Dense(kh_alloc(n))
  BY <1>3, EmptyIsDense
<1> QED
  BY ZenonT(40), <1>1, <1>3, <1>4, IdleStep

\* The tables of a dup that begins or ends.
LEMMA DupTables ==
    ASSUME IInv, tab' = [tab EXCEPT !["dup"] = Blank]
    PROVE  tab' = [t \in Tab |-> tab'[t]] /\ tab'["hash"] = tab["hash"] /\ tab'["dup"] = Blank
<1>1. tab = [t \in Tab |-> tab[t]]
  BY InvFacts
<1> QED
  BY ZenonT(40), <1>1 DEF Tab

LEMMA DupStartHolds ==
    ASSUME IInv, DupStart
    PROVE  IInv'
<1>1. put = NoPut /\ j = -1 /\ j' = 0 /\ tab' = [tab EXCEPT !["dup"] = Blank] /\ UNCHANGED <<hh, i, put>>
  BY DEF DupStart, Idle
<1>2. tab' = [t \in Tab |-> tab'[t]] /\ tab'["hash"] = tab["hash"] /\ tab'["dup"] = Blank
  BY <1>1, DupTables
<1>3. TableOK(tab["hash"]) /\ tab["hash"].n_buckets \in Nat /\ i = -1
  BY ZenonT(40), <1>1, InvFacts, SizeFacts DEF Good, TableOK, Rebuilding
<1>4. Copied(Blank, tab["hash"], 0)
  BY <1>3, BlankIsGood, CopiedStart
<1>5. Copying' /\ Rebuilding'
  BY <1>1, <1>2, <1>3, <1>4 DEF Copying, Rebuilding
<1> QED
  BY <1>1, <1>2, <1>5, BlankIsGood, InvFacts, InvFactsPrimed

LEMMA DupEndHolds ==
    ASSUME IInv, DupEnd
    PROVE  IInv'
<1>1. put = NoPut /\ j' = -1 /\ tab' = [tab EXCEPT !["dup"] = Blank] /\ UNCHANGED <<hh, i, put>>
  BY DEF DupEnd
<1>2. tab' = [t \in Tab |-> tab'[t]] /\ tab'["hash"] = tab["hash"] /\ tab'["dup"] = Blank
  BY <1>1, DupTables
<1>3. i = -1
  BY <1>1, InvFacts DEF Rebuilding
<1>4. Copying' /\ Rebuilding'
  BY <1>1, <1>3 DEF Copying, Rebuilding
<1> QED
  BY <1>1, <1>2, <1>4, BlankIsGood, InvFacts, InvFactsPrimed

LEMMA DupNextHolds ==
    ASSUME IInv, DupNext
    PROVE  IInv'
<1> DEFINE h == tab["hash"]
           e == h.at[j]
<1>1. /\ put = NoPut /\ j # -1 /\ j < h.n_buckets /\ j' = j + 1 /\ UNCHANGED <<tab, hh, i>>
      /\ put' = IF exist(h, j) THEN Put("dup", e.key, e.v, e.n) ELSE NoPut
  BY DEF DupNext
<1>2. Good(h) /\ TableOK(h) /\ h.n_buckets \in Nat /\ j \in Nat /\ Copied(tab["dup"], h, j) /\ i = -1
  BY ZenonT(40), <1>1, InvFacts, SizeFacts DEF Good, TableOK, Copying, Rebuilding
<1>3. j \in Bucket(h.n_buckets)
  BY ZenonT(40), <1>1, <1>2, BucketHas
<1>4. j' \in Nat /\ j' # -1 /\ j' <= h.n_buckets /\ j' > 0 /\ j' - 1 = j
  BY <1>1, <1>2
<1>5. CASE exist(h, j)
  <2>1. e = Entry(e.key, e.v, e.n) /\ e.key \in Key /\ e.v \in Val /\ e.n \in Nat
    BY <1>2, <1>3, <1>5, NumberType DEF Entries
  <2>2. put' = Put("dup", e.key, e.v, e.n)
    BY <1>1, <1>5
  <2> HIDE DEF e
  <2>3. put' # NoPut /\ put'.to = "dup" /\ put'.key = e.key /\ put'.v = e.v /\ put'.n = e.n /\ put'.n # -1
    BY <2>1, <2>2 DEF Put, NoPut
  <2>4. PutOK(put')
    BY <2>1, <2>2, <2>3 DEF PutOK, Tab
  <2>5. h.at[j] = Entry(put'.key, put'.v, put'.n)
    BY ZenonT(40), <2>1, <2>3 DEF e
  <2>6. Copying'
    BY <2>3, <2>5, <1>1, <1>2, <1>4, <1>5 DEF Copying
  <2>7. Rebuilding'
    BY ZenonT(40), <1>1, <1>2 DEF Rebuilding
  <2> QED
    BY ZenonT(40), <1>1, <1>4, <2>4, <2>6, <2>7, InvFacts, InvFactsPrimed
<1>6. CASE ~exist(h, j)
  <2>1. put' = NoPut
    BY <1>1, <1>6
  <2>2. Copied(tab["dup"], h, j + 1)
    BY <1>2, <1>3, <1>6, CopiedSkip
  <2>3. Copying' /\ Rebuilding' /\ PutOK(put')
    BY ZenonT(40), <2>1, <2>2, <1>1, <1>2, <1>4 DEF Copying, Rebuilding, PutOK
  <2> QED
    BY ZenonT(40), <1>1, <1>4, <2>3, InvFacts, InvFactsPrimed
<1> QED
  BY <1>5, <1>6

LEMMA StepHolds ==
    ASSUME IInv, [Next]_vars
    PROVE  IInv'
<1>1. CASE UNCHANGED vars
  BY <1>1, InvFacts, InvFactsPrimed DEF vars, Rebuilding, Copying
<1>2. CASE Next
  BY <1>2, SetHolds, GrowHolds, RelocateHolds, GrownHolds, PutDoneHolds, DeleteHolds, ShiftHolds,
     ClearHolds, DupStartHolds, DupNextHolds, DupEndHolds DEF Next
<1> QED
  BY ZenonT(40), <1>1, <1>2

LEMMA Invariance == Spec => []IInv
<1>1. Init => IInv
  BY InitHolds
<1>2. IInv /\ [Next]_vars => IInv'
  BY StepHolds
<1> QED
  BY <1>1, <1>2, PTL DEF Spec

-----------------------------------------------------------------------------
(* Theorems. *)

\* The state always has the shape hash.c and khash.h give it.
THEOREM TypeCorrect == Spec => []TypeOK
<1>1. IInv => TypeOK
  BY DEF IInv
<1> QED
  BY <1>1, Invariance, PTL

\* kh_get finds every key that is in a table, in the bucket that has it.
THEOREM KeysAreFound == Spec => []EveryKeyIsFound
<1>1. IInv => EveryKeyIsFound
  BY ZenonT(40), KeyIsFound DEF IInv, EveryKeyIsFound, Tables
<1> QED
  BY <1>1, Invariance, PTL

\* The loops of kh_get and kh_put end for every key in every table.
THEOREM SearchesEnd == Spec => []EverySearchEnds
<1>1. IInv => EverySearchEnds
  BY SearchEnds DEF IInv, EverySearchEnds, Tables
<1> QED
  BY <1>1, Invariance, PTL

\* The numbers mrb_hash_keys uses as places are exactly 0, ..., size - 1.
THEOREM KeysAreNumbered == Spec => []OrderIsDense
<1>1. IInv => OrderIsDense
  BY DEF IInv
<1> QED
  BY <1>1, Invariance, PTL

\* The recursive kh_put in the loop of kh_resize never resizes again.
THEOREM RebuildingFits == Spec => []RebuildFits
<1>1. IInv => RebuildFits
  BY Room DEF RebuildFits
<1> QED
  BY <1>1, Invariance, PTL

\* mrb_hash_dup copies keys, values and order.
THEOREM CopiesAreFaithful == Spec => []DupIsFaithful
<1>1. ASSUME IInv PROVE DupIsFaithful
  <2> SUFFICES ASSUME put = NoPut, j = tab["hash"].n_buckets
               PROVE  /\ tab["dup"].size = tab["hash"].size
                      /\ PairsOf(tab["dup"]) = PairsOf(tab["hash"])
    BY DEF DupIsFaithful
  <2>1. Good(tab["hash"]) /\ Good(tab["dup"]) /\ Dense(tab["hash"])
    BY <1>1, InvFacts
  <2>2. j # -1
    <3>1. tab["hash"].n_buckets \in Nat
      BY ZenonT(40), <2>1, SizeFacts DEF Good, TableOK
    <3> QED
      BY <3>1
  <2>3. Copied(tab["dup"], tab["hash"], tab["hash"].n_buckets)
    BY Zenon, <1>1, <2>2, InvFacts DEF Copying
  <2> QED
    BY <2>1, <2>3, CopiedAll, CopiedPairs
<1> QED
  BY <1>1, Invariance, PTL

-----------------------------------------------------------------------------
(* Refinement. *)

\* The pair at the place an entry's number names.
LEMMA PairAt ==
    ASSUME NEW h, Good(h), Dense(h), NEW b \in Entries(h)
    PROVE  /\ h.at[b].n + 1 \in 1..h.size
           /\ PairsOf(h)[h.at[b].n + 1] = <<h.at[b].key, h.at[b].v>>
<1>1. h.size \in Nat /\ h.at[b].n \in 0..(h.size - 1)
  BY DEF Good, TableOK, Dense
<1>2. At(h, h.at[b].n) = b
  BY DEF At, Dense
<1>3. h.at[b].n + 1 \in 1..h.size /\ (h.at[b].n + 1) - 1 = h.at[b].n
  BY <1>1
<1> QED
  BY ZenonT(40), <1>2, <1>3 DEF PairsOf

\* Every place has an entry.
LEMMA PlaceHasEntry ==
    ASSUME NEW h, Good(h), Dense(h), NEW m \in 1..h.size
    PROVE  \E b \in Entries(h) : h.at[b].n + 1 = m /\ PairsOf(h)[m] = <<h.at[b].key, h.at[b].v>>
<1>1. h.size \in Nat
  BY DEF Good, TableOK
<1>2. m - 1 \in 0..(h.size - 1) /\ (m - 1) + 1 = m
  BY <1>1
<1>3. PICK b \in Entries(h) : h.at[b].n = m - 1
  BY <1>2 DEF Dense
<1> QED
  BY ZenonT(40), <1>2, <1>3, PairAt

LEMMA PairsAreSeq ==
    ASSUME NEW h, Good(h), Dense(h)
    PROVE  /\ PairsOf(h) \in Seq(Key \X Val) /\ Len(PairsOf(h)) = h.size /\ h.size \in Nat
           /\ DOMAIN PairsOf(h) = 1..h.size
           /\ PairsOf(h) = [m \in 1..h.size |-> PairsOf(h)[m]]
<1>1. h.size \in Nat /\ TableOK(h)
  BY DEF Good, TableOK
<1>2. PairsOf(h) = [m \in 1..h.size |-> PairsOf(h)[m]] /\ DOMAIN PairsOf(h) = 1..h.size
  BY DEF PairsOf
<1>3. \A m \in 1..h.size : PairsOf(h)[m] \in Key \X Val
  <2> TAKE m \in 1..h.size
  <2>1. PICK b \in Entries(h) : PairsOf(h)[m] = <<h.at[b].key, h.at[b].v>>
    BY PlaceHasEntry
  <2>2. h.at[b].key \in Key /\ h.at[b].v \in Val
    BY <1>1, NumberType
  <2> QED
    BY <2>1, <2>2
<1> DEFINE f == PairsOf(h)
           KV == Key \X Val
<1>4. f = [m \in 1..h.size |-> f[m]] /\ \A m \in 1..h.size : f[m] \in KV
  BY <1>2, <1>3
<1> HIDE DEF f, KV
<1>5. f \in [1..h.size -> KV]
  BY <1>4
<1>6. f \in Seq(KV) /\ Len(f) = h.size
  BY <1>1, <1>5
<1> QED
  BY ZenonT(40), <1>1, <1>2, <1>6 DEF f, KV

\* An entry overwritten in its place.
LEMMA OverwrittenPairs ==
    ASSUME NEW g, Good(g), Dense(g), NEW h, Good(h), Dense(h), NEW b \in Entries(h),
           Entries(g) = Entries(h), g.size = h.size, NEW v,
           g.at[b] = Entry(h.at[b].key, v, h.at[b].n),
           \A c \in Entries(h) : c # b => g.at[c] = h.at[c]
    PROVE  PairsOf(g) = [m \in 1..h.size |-> IF PairsOf(h)[m][1] = h.at[b].key
                                            THEN <<h.at[b].key, v>> ELSE PairsOf(h)[m]]
<1>1. ASSUME NEW m \in 1..h.size
      PROVE  PairsOf(g)[m] = IF PairsOf(h)[m][1] = h.at[b].key THEN <<h.at[b].key, v>> ELSE PairsOf(h)[m]
  <2>1. PICK c \in Entries(h) : h.at[c].n + 1 = m /\ PairsOf(h)[m] = <<h.at[c].key, h.at[c].v>>
    BY ZenonT(40), PlaceHasEntry
  <2>2. PairsOf(h)[m][1] = h.at[c].key
    BY SMTT(30), <2>1
  <2>3. PairsOf(g)[g.at[c].n + 1] = <<g.at[c].key, g.at[c].v>>
    BY PairAt
  <2>4. CASE c = b
    <3>1. g.at[c].key = h.at[b].key /\ g.at[c].v = v /\ g.at[c].n = h.at[c].n
      BY SMTT(30), <2>4, EntryFields
    <3> QED
      BY ZenonT(40), <2>1, <2>2, <2>3, <2>4, <3>1
  <2>5. CASE c # b
    <3>1. h.at[c].key # h.at[b].key
      BY <2>5 DEF Good
    <3> QED
      BY ZenonT(40), <2>1, <2>2, <2>3, <2>5, <3>1
  <2> QED
    BY Zenon, <2>4, <2>5
<1> QED
  BY Zenon, <1>1, PairsAreSeq

LEMMA AppendTypes ==
    ASSUME NEW S, NEW s \in Seq(S), NEW x \in S
    PROVE  /\ Append(s, x) \in Seq(S) /\ Len(Append(s, x)) = Len(s) + 1
           /\ \A m \in 1..Len(s) : Append(s, x)[m] = s[m]
           /\ Append(s, x)[Len(s) + 1] = x
  OBVIOUS

LEMMA SameSequence ==
    ASSUME NEW S, NEW s \in Seq(S), NEW t \in Seq(S), Len(s) = Len(t),
           \A m \in 1..Len(s) : s[m] = t[m]
    PROVE  s = t
  OBVIOUS

\* An entry added behind all others.
LEMMA AddedPairs ==
    ASSUME NEW g, Good(g), Dense(g), NEW h, Good(h), Dense(h), NEW b, NEW k \in Key, NEW v \in Val,
           Entries(g) = Entries(h) \cup {b}, g.size = h.size + 1,
           g.at[b] = Entry(k, v, h.size),
           \A c \in Entries(h) : g.at[c] = h.at[c]
    PROVE  PairsOf(g) = Append(PairsOf(h), <<k, v>>)
<1> DEFINE p == PairsOf(h)
           q == PairsOf(g)
<1>1. /\ p \in Seq(Key \X Val) /\ Len(p) = h.size /\ h.size \in Nat
  BY PairsAreSeq
<1>6. q \in Seq(Key \X Val) /\ Len(q) = h.size + 1
  BY PairsAreSeq
<1>2. q[h.size + 1] = <<k, v>>
  <2>1. g.at[b].key = k /\ g.at[b].v = v /\ g.at[b].n = h.size
    BY SMTT(30), EntryFields
  <2>2. q[g.at[b].n + 1] = <<g.at[b].key, g.at[b].v>>
    BY Zenon, PairAt
  <2> QED
    BY ZenonT(40), <2>1, <2>2
<1>3. ASSUME NEW m \in 1..h.size PROVE q[m] = p[m]
  <2>1. PICK c \in Entries(h) : h.at[c].n + 1 = m /\ p[m] = <<h.at[c].key, h.at[c].v>>
    BY ZenonT(40), PlaceHasEntry
  <2>2. q[g.at[c].n + 1] = <<g.at[c].key, g.at[c].v>>
    BY PairAt
  <2> QED
    BY ZenonT(40), <2>1, <2>2
<1> DEFINE x == <<k, v>>
           KV == Key \X Val
<1>4. x \in KV
  BY ZenonT(40)
<1> HIDE DEF p, q, x, KV
<1>5. q = Append(p, x)
  <2>1. p \in Seq(KV) /\ q \in Seq(KV) /\ Len(q) = h.size + 1
    BY ZenonT(40), <1>1, <1>6 DEF KV
  <2>2. /\ Append(p, x) \in Seq(KV) /\ Len(Append(p, x)) = h.size + 1
        /\ \A m \in 1..h.size : Append(p, x)[m] = p[m]
        /\ Append(p, x)[h.size + 1] = x
    BY <2>1, <1>1, <1>4, AppendTypes
  <2>3. \A m \in 1..(h.size + 1) : q[m] = Append(p, x)[m]
    <3> TAKE m \in 1..(h.size + 1)
    <3>1. m = h.size + 1 \/ m \in 1..h.size
      BY <1>1
    <3> QED
      BY <3>1, <2>2, <1>2, <1>3 DEF x
  <2> QED
    BY <2>1, <2>2, <2>3, SameSequence
<1> QED
  BY <1>5 DEF p, q, x

\* An entry taken out, and the ones after it moved up.
LEMMA RemovedPairs ==
    ASSUME NEW h, Good(h), Dense(h), NEW b \in Entries(h)
    PROVE  PairsOf(RemoveAt(h, b)) =
             [m \in 1..(h.size - 1) |-> PairsOf(h)[IF m < h.at[b].n + 1 THEN m ELSE m + 1]]
<1> DEFINE g == RemoveAt(h, b)
           n == h.at[b].n
<1>1. /\ Good(g) /\ Dense(g) /\ g.size = h.size - 1 /\ Entries(g) = Entries(h) \ {b}
      /\ \A c \in Entries(g) : g.at[c] = MovedUp(h.at[c], n)
  BY RemoveIsGood, RemoveIsDense
<1> HIDE DEF g
<1>2. h.size \in Nat /\ n \in Nat /\ TableOK(h)
  BY Zenon, NumberType DEF Good
<1>3. ASSUME NEW m \in 1..(h.size - 1)
      PROVE  PairsOf(g)[m] = PairsOf(h)[IF m < n + 1 THEN m ELSE m + 1]
  <2>1. PICK c \in Entries(g) : g.at[c].n + 1 = m /\ PairsOf(g)[m] = <<g.at[c].key, g.at[c].v>>
    <3>1. m \in 1..g.size
      BY Zenon, <1>1
    <3> QED
      BY <3>1, <1>1, PlaceHasEntry
  <2>2. c \in Entries(h) /\ g.at[c] = MovedUp(h.at[c], n) /\ h.at[c].state = "used"
    BY Zenon, <2>1, <1>1 DEF Entries, exist
  <2>3. PairsOf(h)[h.at[c].n + 1] = <<h.at[c].key, h.at[c].v>>
    BY Zenon, <2>2, PairAt
  <2>4. h.at[c].n \in Nat /\ h.at[c].n # n
    <3>1. c # b
      BY <2>1, <1>1
    <3>2. h.at[c].n # n
      BY Zenon, <3>1, <2>2 DEF Dense
    <3> QED
      BY ZenonT(40), <3>2, <2>2, <1>2, NumberType
  <2>5. /\ g.at[c].key = h.at[c].key /\ g.at[c].v = h.at[c].v
        /\ g.at[c].n = IF h.at[c].n > n THEN h.at[c].n - 1 ELSE h.at[c].n
    <3> DEFINE e == h.at[c]
    <3> HIDE DEF e
    <3>1. e.state = "used" /\ g.at[c] = MovedUp(e, n)
      BY <2>2, ZenonT(40) DEF e
    <3> HIDE DEF n
    <3>2. /\ g.at[c].key = e.key /\ g.at[c].v = e.v
          /\ g.at[c].n = IF e.n > n THEN e.n - 1 ELSE e.n
      BY <3>1, MovedUpFields
    <3> QED
      BY <3>2, Zenon DEF e
  <2> HIDE DEF n
  <2>6. h.at[c].n + 1 = IF m < n + 1 THEN m ELSE m + 1
    BY SMTT(30), <2>1, <2>4, <2>5, <1>2
  <2> QED
    BY ZenonT(40), <2>1, <2>3, <2>5, <2>6
<1>4. PairsOf(g) = [m \in 1..(h.size - 1) |-> PairsOf(g)[m]]
  BY <1>1, PairsAreSeq
<1> QED
  BY <1>3, <1>4 DEF g

\* The places of a key in the pairs.
LEMMA PlaceOfKey ==
    ASSUME NEW h, Good(h), Dense(h), NEW k
    PROVE  /\ \A b \in Entries(h) : h.at[b].key = k =>
                 {m \in 1..h.size : PairsOf(h)[m][1] = k} = {h.at[b].n + 1}
           /\ k \notin KeysIn(h) => {m \in 1..h.size : PairsOf(h)[m][1] = k} = {}
<1>1. ASSUME NEW m \in 1..h.size
      PROVE  \E b \in Entries(h) : h.at[b].n + 1 = m /\ PairsOf(h)[m][1] = h.at[b].key
  <2>1. PICK b \in Entries(h) : h.at[b].n + 1 = m /\ PairsOf(h)[m] = <<h.at[b].key, h.at[b].v>>
    BY Zenon, PlaceHasEntry
  <2> QED
    BY <2>1
<1>2. ASSUME NEW b \in Entries(h), h.at[b].key = k
      PROVE  {m \in 1..h.size : PairsOf(h)[m][1] = k} = {h.at[b].n + 1}
  <2>1. h.at[b].n + 1 \in 1..h.size /\ PairsOf(h)[h.at[b].n + 1] = <<h.at[b].key, h.at[b].v>>
    BY PairAt
  <2>2. PairsOf(h)[h.at[b].n + 1][1] = k
    BY SMTT(30), <2>1, <1>2
  <2>3. ASSUME NEW m \in 1..h.size, PairsOf(h)[m][1] = k PROVE m = h.at[b].n + 1
    <3>1. PICK c \in Entries(h) : h.at[c].n + 1 = m /\ PairsOf(h)[m][1] = h.at[c].key
      BY Zenon, <1>1
    <3>2. c = b
      BY ZenonT(40), <3>1, <2>3, <1>2 DEF Good
    <3> QED
      BY <3>1, <3>2
  <2> QED
    BY ZenonT(40), <2>1, <2>2, <2>3
<1>3. ASSUME k \notin KeysIn(h) PROVE {m \in 1..h.size : PairsOf(h)[m][1] = k} = {}
  BY <1>1, <1>3 DEF KeysIn
<1> QED
  BY <1>2, <1>3

\* The end of a kh_put for mrb_hash_set stores a pair.
LEMMA PutStores ==
    ASSUME IInv, PutDone, put.to = "hash"
    PROVE  Map!Store(put.key, put.v)
<1> DEFINE h == tab["hash"]
           k == put.key
           v == put.v
           g == kh_put(h, k, v, -1)
           p == PairsOf(h)
<1>i. IInv'
  BY PutDoneHolds
<1>1. put # NoPut /\ ~Full(h) /\ tab' = [tab EXCEPT !["hash"] = kh_put(h, k, v, put.n)] /\ put.n = -1
  BY InvFacts DEF PutDone, Copying
<1>2. k \in Key /\ v \in Val /\ Good(h) /\ Dense(h)
  BY <1>1, PutTable, InvFacts
<1>3. Good(g) /\ g.n_buckets = h.n_buckets /\ Adds(g, h, k, v, -1)
  BY <1>1, <1>2, PutIsGood
<1> HIDE DEF g
<1>4. tab'["hash"] = g
  <2>1. tab = [t \in Tab |-> tab[t]]
    BY InvFacts
  <2> QED
    BY <2>1, <1>1 DEF g, Tab
<1>5. Dense(g)
  <2>1. Dense(tab'["hash"])
    BY <1>i, InvFactsPrimed, ZenonT(40)
  <2> QED
    BY <1>4, <2>1, Zenon
<1>6. PICK b \in Bucket(h.n_buckets), m \in Nat :
             /\ Entries(g) = Entries(h) \cup {b} /\ g.at[b] = Entry(k, v, m)
             /\ \A c \in Entries(h) : c # b => g.at[c] = h.at[c] /\ h.at[c].key # k
             /\ \/ b \in Entries(h) /\ h.at[b].key = k /\ g.size = h.size /\ m = h.at[b].n
                \/ b \notin Entries(h) /\ g.size = h.size + 1 /\ m = h.size
  BY SMTT(30), <1>3, AddsAnew
<1>7. Len(p) = h.size
  BY ZenonT(40), <1>2, PairsAreSeq
<1>8. CASE b \in Entries(h)
  <2>1. {n \in 1..h.size : p[n][1] = k} = {h.at[b].n + 1}
    BY ZenonT(40), <1>2, <1>6, <1>8, PlaceOfKey
  <2>2. h.at[b].key = k /\ g.at[b] = Entry(h.at[b].key, v, h.at[b].n) /\ Entries(g) = Entries(h)
        /\ g.size = h.size /\ \A c \in Entries(h) : c # b => g.at[c] = h.at[c]
    BY ZenonT(40), <1>6, <1>8
  <2>3. PairsOf(g) = [n \in 1..h.size |-> IF p[n][1] = k THEN <<k, v>> ELSE p[n]]
    <3> HIDE DEF h, k, v
    <3>1. PairsOf(g) = [n \in 1..h.size |-> IF PairsOf(h)[n][1] = h.at[b].key
                                            THEN <<h.at[b].key, v>> ELSE PairsOf(h)[n]]
      BY SMTT(30), <1>2, <1>3, <1>5, <1>8, <2>2, OverwrittenPairs
    <3> QED
      BY Zenon, <2>2, <3>1
  <2>4. Map!Has(k) /\ Map!Place(k) = {n \in 1..h.size : p[n][1] = k}
    BY ZenonT(40), <1>7, <2>1 DEF Map!Has, Map!Place
  <2>5. PairsOf(g) = [n \in 1..Len(p) |-> IF n \in Map!Place(k) THEN <<k, v>> ELSE p[n]]
    BY <1>7, <2>3, <2>4
  <2> QED
    BY <1>4, <2>4, <2>5 DEF Map!Store
<1>9. CASE b \notin Entries(h)
  <2>1. k \notin KeysIn(h)
    BY ZenonT(40), <1>6, <1>9 DEF KeysIn
  <2>2. {n \in 1..h.size : p[n][1] = k} = {}
    BY <1>2, <2>1, PlaceOfKey
  <2>3. ~Map!Has(k)
    BY ZenonT(40), <1>7, <2>2 DEF Map!Has, Map!Place
  <2>4. Entries(g) = Entries(h) \cup {b} /\ g.size = h.size + 1 /\ g.at[b] = Entry(k, v, h.size)
        /\ \A c \in Entries(h) : g.at[c] = h.at[c]
    BY <1>6, <1>9
  <2>5. PairsOf(g) = Append(p, <<k, v>>)
    <3> HIDE DEF h, k, v
    <3> QED
      BY SMTT(30), <1>2, <1>3, <1>5, <2>4, AddedPairs
  <2> QED
    BY Zenon, <1>4, <2>3, <2>5 DEF Map!Store
<1> QED
  BY <1>8, <1>9

\* Taking an entry out deletes its pair.
LEMMA RemoveDeletes ==
    ASSUME IInv, NEW b \in Entries(tab["hash"]),
           tab' = [tab EXCEPT !["hash"] = RemoveAt(tab["hash"], b)]
    PROVE  \E k \in Key : Map!Delete(k)
<1> DEFINE h == tab["hash"]
           k == h.at[b].key
           p == PairsOf(h)
           m == h.at[b].n + 1
<1>1. Good(h) /\ Dense(h) /\ k \in Key
  BY InvFacts, KeyIsFound
<1>2. tab'["hash"] = RemoveAt(h, b)
  <2>1. tab = [t \in Tab |-> tab[t]]
    BY InvFacts
  <2> QED
    BY <2>1 DEF Tab
<1>3. Len(p) = h.size
  BY Zenon, <1>1, PairsAreSeq
<1>4. {n \in 1..h.size : p[n][1] = k} = {m}
  BY ZenonT(40), <1>1, PlaceOfKey
<1>5. PairsOf(RemoveAt(h, b)) = [n \in 1..(h.size - 1) |-> p[IF n < m THEN n ELSE n + 1]]
  BY ZenonT(40), <1>1, RemovedPairs
<1> HIDE DEF m
<1>6. m \in Map!Place(k)
  BY <1>3, <1>4 DEF Map!Place
<1>7. PairsOf(tab["hash"])' = Map!Without(m)
  BY <1>2, <1>3, <1>5 DEF Map!Without
<1> QED
  BY <1>1, <1>6, <1>7 DEF Map!Delete

LEMMA EmptyPairs ==
    ASSUME NEW n \in Sizes
    PROVE  PairsOf(kh_alloc(n)) = <<>>
<1>1. kh_alloc(n).size = 0
  BY AllocIsGood
<1> QED
  BY <1>1 DEF PairsOf

\* The table of the program's hash, when the step is not about it.
LEMMA OtherTable ==
    ASSUME IInv, NEW t \in Tab, t # "hash", NEW g, tab' = [tab EXCEPT ![t] = g]
    PROVE  tab'["hash"] = tab["hash"]
<1>1. tab = [x \in Tab |-> tab[x]]
  BY InvFacts
<1> QED
  BY <1>1 DEF Tab

\* The open-addressing table implements an ordered map: each operation does to
\* the pairs what the map's operation does, rebuilding and dup do nothing.
THEOREM HashRefines == Spec => MapSpec
<1> DEFINE A == Map!Clear \/ \E k \in Key : Map!Delete(k) \/ \E v \in Val : Map!Store(k, v)
<1>1. Init => Map!MapInit
  <2> SUFFICES ASSUME Init PROVE PairsOf(tab["hash"]) = <<>>
    BY DEF Map!MapInit
  <2>1. PICK n \in Capacities \cup {DefaultSize} :
           tab = [t \in Tab |-> IF t = "hash" THEN kh_alloc(n) ELSE Blank]
    BY DEF Init
  <2>2. n \in Sizes /\ tab["hash"] = kh_alloc(n)
    BY <2>1, HashAssumption DEF Tab
  <2> QED
    BY <2>2, EmptyPairs
<1>2. IInv /\ [Next]_vars => [A]_(PairsOf(tab["hash"]))
  <2> SUFFICES ASSUME IInv, [Next]_vars PROVE A \/ PairsOf(tab["hash"])' = PairsOf(tab["hash"])
    OBVIOUS
  <2>1. CASE PutDone
    <3>1. put.to \in Tab /\ put.key \in Key /\ put.v \in Val
      BY <2>1, PutTable DEF PutDone
    <3>2. CASE put.to = "hash"
      BY <2>1, <3>1, <3>2, PutStores
    <3>3. CASE put.to # "hash"
      BY <2>1, <3>1, <3>3, OtherTable DEF PutDone
    <3> QED
      BY <3>2, <3>3
  <2>2. CASE Grown
    <3>1. i # -1 /\ i = tab[put.to].n_buckets /\ tab' = [tab EXCEPT ![put.to] = hh]
      BY <2>2 DEF Grown
    <3>2. put # NoPut /\ Copied(hh, tab[put.to], tab[put.to].n_buckets) /\ Good(hh)
      BY <3>1, InvFacts DEF Rebuilding
    <3>3. put.to \in Tab /\ Good(tab[put.to])
      BY ZenonT(40), <3>2, PutTable
    <3>4. CASE put.to = "hash"
      <4>1. PairsOf(hh) = PairsOf(tab["hash"])
        BY <3>2, <3>3, <3>4, InvFacts, CopiedPairs
      <4>2. tab = [t \in Tab |-> tab[t]]
        BY InvFacts
      <4>3. tab'["hash"] = hh
        BY <3>1, <3>4, <4>2 DEF Tab
      <4> QED
        BY <4>1, <4>3
    <3>5. CASE put.to # "hash"
      BY <3>1, <3>3, <3>5, OtherTable
    <3> QED
      BY <3>4, <3>5
  <2>3. ASSUME NEW k \in Key, mrb_hash_delete_key(k) PROVE A
    <3>1. /\ kh_get(tab["hash"], k) # tab["hash"].n_buckets
          /\ tab' = [tab EXCEPT !["hash"] = RemoveAt(tab["hash"], kh_get(tab["hash"], k))]
      BY <2>3 DEF mrb_hash_delete_key
    <3>2. kh_get(tab["hash"], k) \in Entries(tab["hash"])
      BY <3>1, InvFacts, GetIsEntry
    <3> QED
      BY ZenonT(40), <3>1, <3>2, RemoveDeletes
  <2>4. CASE mrb_hash_shift
    <3> DEFINE h == tab["hash"]
               b == First(Entries(h))
    <3>1. Entries(h) # {} /\ tab' = [tab EXCEPT !["hash"] = RemoveAt(h, kh_get(h, h.at[b].key))]
      BY <2>4 DEF mrb_hash_shift
    <3>2. b \in Entries(h) /\ kh_get(h, h.at[b].key) = b
      BY <3>1, InvFacts, ShiftTakes
    <3> HIDE DEF b
    <3>3. tab' = [tab EXCEPT !["hash"] = RemoveAt(h, b)]
      BY Zenon, <3>1, <3>2
    <3> QED
      BY ZenonT(40), <3>2, <3>3, RemoveDeletes
  <2>5. CASE mrb_hash_clear
    <3>1. tab' = [tab EXCEPT !["hash"] = kh_alloc(tab["hash"].n_buckets)] /\ tab["hash"].n_buckets \in Sizes
      BY ZenonT(40), <2>5, InvFacts DEF mrb_hash_clear, Good, TableOK
    <3>2. tab = [t \in Tab |-> tab[t]]
      BY InvFacts
    <3>3. tab'["hash"] = kh_alloc(tab["hash"].n_buckets)
      BY <3>1, <3>2 DEF Tab
    <3>4. PairsOf(tab'["hash"]) = <<>>
      BY <3>1, <3>3, EmptyPairs
    <3> QED
      BY <3>4 DEF Map!Clear
  <2>6. CASE DupStart \/ DupEnd
    BY <2>6, OtherTable DEF DupStart, DupEnd, Tab
  <2>7. CASE UNCHANGED tab
    BY <2>7
  <2>8. Next \/ UNCHANGED vars =>
           \/ PutDone \/ Grown \/ mrb_hash_shift \/ mrb_hash_clear \/ DupStart \/ DupEnd \/ UNCHANGED tab
           \/ \E k \in Key : mrb_hash_delete_key(k)
    BY ZenonT(40) DEF Next, vars, Grow, Relocate, DupNext, mrb_hash_set
  <2> HIDE DEF A
  <2> QED
    BY <2>1, <2>2, <2>3, <2>4, <2>5, <2>6, <2>7, <2>8
<1> QED
  BY <1>1, <1>2, Invariance, PTL DEF Spec, MapSpec, Map!MapSpec

=============================================================================
