------------------------- MODULE GateOptionsProofs -------------------------
(***************************************************************************)
(* Proofs about the command line of gatedb, for lines of any length.       *)
(***************************************************************************)
EXTENDS GateOptions, Recursion, SequenceTheorems

-----------------------------------------------------------------------------
(* gcd, and the exchange of two blocks. *)

\* Tables of the greatest common divisors of numbers with 1 to b.
LEMMA Divisors ==
    ASSUME NEW b \in Nat, b # 0
    PROVE  \E g : g = [d \in 1..b |-> [n \in Nat |-> IF n % d = 0 THEN d ELSE g[n % d][d]]]
<1> DEFINE V == [1..b -> [Nat -> Nat]]
           Row(t, k) == [n \in Nat |-> IF n % k = 0 THEN k ELSE t[n % k][k]]
           step == [k \in 1..b |-> [t \in V |-> [t EXCEPT ![k] = Row(t, k)]]]
           z == [d \in 1..b |-> [n \in Nat |-> 0]]
<1>1. z \in V
  OBVIOUS
<1>2. \A k \in 1..b, n \in Nat : n % k \in Nat /\ n % k < k
  OBVIOUS
<1>3. \A k \in 1..b, n \in Nat : n % k # 0 => n % k \in 1..b /\ n % k < k
  BY <1>2
<1>4. ASSUME NEW k \in 1..b, NEW t \in V PROVE step[k][t] = [t EXCEPT ![k] = Row(t, k)]
                                               /\ step[k][t] \in V
  <2>1. step[k][t] = [t EXCEPT ![k] = Row(t, k)]
    BY Zenon
  <2>2. k \in Nat
    OBVIOUS
  <2>3. \A n \in Nat : n % k # 0 => t[n % k][k] \in Nat
    BY <1>3, <2>2
  <2>4. Row(t, k) \in [Nat -> Nat]
    BY <2>2, <2>3
  <2> HIDE DEF Row
  <2> QED
    BY ZenonT(40), <2>1, <2>4
<1> HIDE DEF step, z
<1>5. \A k \in 1..b, t \in V : step[k][t] \in V
  BY ZenonT(40), <1>4
<1>6. \E f : Iterates(f, b, V, z, step)
  <2> HIDE DEF V
  <2> QED
    BY <1>1, <1>5, Iteration, Zenon
<1>7. PICK f \in [0..b -> V] : \A k \in 1..b : f[k] = step[k][f[k - 1]]
  <2> HIDE DEF V
  <2> QED
    BY <1>6, Zenon DEF Iterates
<1>8. \A k \in 0..b : f[k] \in V
  <2> HIDE DEF V
  <2> QED
    BY <1>7
<1>9. \A k \in 1..b : f[k] = [f[k - 1] EXCEPT ![k] = Row(f[k - 1], k)] /\ k - 1 \in 0..b /\ k \in 0..b
  <2> TAKE k \in 1..b
  <2>1. k - 1 \in 0..b /\ k \in 0..b
    OBVIOUS
  <2> HIDE DEF V, Row
  <2> QED
    BY ZenonT(40), <1>4, <1>7, <1>8, <2>1
\* A row stays as it was made.
<1> DEFINE Made(k) == \A d \in 1..k : f[k][d] = Row(f[k], d)
           T == {k \in 0..b : Made(k)}
<1>10. 0 \in T
  OBVIOUS
<1>11. ASSUME NEW k \in T, k \in 0..(b - 1) PROVE k + 1 \in T
  <2> DEFINE j == k + 1
  <2>1. j \in 1..b /\ j - 1 = k /\ k \in 0..b /\ j \in 0..b /\ k \in Nat
    BY <1>11
  <2>2. /\ f[j] = [f[k] EXCEPT ![j] = Row(f[k], j)] /\ f[k] \in V /\ f[j] \in V
    BY ZenonT(40), <1>8, <1>9, <2>1
  <2>3. \A d \in 1..b : d # j => f[j][d] = f[k][d]
    <3> HIDE DEF Row, j
    <3> QED
      BY <2>1, <2>2
  <2>4. f[j][j] = Row(f[k], j)
    <3> HIDE DEF Row, j
    <3> QED
      BY <2>1, <2>2
  <2>5. ASSUME NEW d \in 1..j PROVE Row(f[k], d) = Row(f[j], d)
    <3>1. d \in 1..b /\ d <= j
      BY <2>1, <2>5
    <3>2. ASSUME NEW n \in Nat, n % d # 0 PROVE f[k][n % d] = f[j][n % d]
      <4>1. n % d \in 1..b /\ n % d < d
        BY <1>3, <3>1, <3>2
      <4>2. n % d # j
        BY <2>1, <3>1, <4>1
      <4> QED
        BY ZenonT(40), <2>3, <4>1, <4>2
    <3> HIDE DEF j
    <3> QED
      BY ZenonT(40), <3>2
  <2>6. ASSUME NEW d \in 1..j PROVE f[j][d] = Row(f[j], d)
    <3>1. CASE d = j
      BY ZenonT(40), <2>4, <2>5, <3>1
    <3>2. CASE d # j
      <4>1. d \in 1..k /\ d \in 1..b
        BY <2>1, <2>6, <3>2
      <4>2. f[k][d] = Row(f[k], d)
        BY ZenonT(40), <4>1
      <4> QED
        BY ZenonT(40), <2>3, <2>5, <3>2, <4>1, <4>2
    <3> QED
      BY <3>1, <3>2
  <2> HIDE DEF Row
  <2>7. Made(j)
    BY <2>6
  <2> QED
    BY <2>1, <2>7
<1>12. 0..b \subseteq T
  <2> HIDE DEF T
  <2> QED
    BY ZenonT(40), <1>10, <1>11, BoundedInduction
<1>13. Made(b)
  <2>1. b \in 0..b
    OBVIOUS
  <2> HIDE DEF Made
  <2> QED
    BY <1>12, <2>1, Zenon
<1>14. f[b] = [d \in 1..b |-> Row(f[b], d)]
  <2>1. \A d \in 1..b : f[b][d] = Row(f[b], d)
    <3> HIDE DEF Row
    <3> QED
      BY <1>13, Zenon
  <2>2. f[b] \in V
    <3>1. b \in 0..b
      OBVIOUS
    <3> HIDE DEF V
    <3> QED
      BY <1>8, <3>1, Zenon
  <2> HIDE DEF Row
  <2> QED
    BY <2>1, <2>2
<1> QED
  BY ZenonT(40), <1>14
\* x divides n and d, and is a sum of multiples of them.
Combines(x, n, d) ==
    /\ x \in 1..d
    /\ \E u, v \in Int : x = u * n + v * d
    /\ \E e, f \in Nat : n = x * e /\ d = x * f

\* What Euclid's step does to the combination.
LEMMA EuclidStep ==
    ASSUME NEW n \in Nat, NEW d \in Nat, d # 0, NEW x, 
           n % d # 0 => Combines(x, d, n % d), n % d = 0 => x = d
    PROVE  Combines(x, n, d)
<1> DEFINE q == n \div d
           r == n % d
<1>1. q \in Nat /\ r \in Nat /\ r < d /\ n = d * q + r
  OBVIOUS
<1>2. CASE r = 0
  <2>1. x = d
    BY <1>2
  <2> HIDE DEF q, r
  <2>2. x \in 1..d
    BY <2>1
  <2>3. x = 0 * n + 1 * d
    BY <2>1
  <2>4. n = x * q /\ d = x * 1
    BY <1>1, <1>2, <2>1
  <2>5. 0 \in Int /\ 1 \in Int /\ 1 \in Nat
    OBVIOUS
  <2> QED
    BY <1>1, <2>2, <2>3, <2>4, <2>5, Zenon DEF Combines
<1>3. CASE r # 0
  <2>1. Combines(x, d, r)
    BY <1>3
  <2> HIDE DEF q, r
  <2>2. PICK u \in Int, v \in Int : x = u * d + v * r
    BY <2>1, Zenon DEF Combines
  <2>3. PICK e \in Nat, f \in Nat : d = x * e /\ r = x * f
    BY <2>1, Zenon DEF Combines
  <2>4. x \in 1..d /\ x \in Int
    BY <1>1, <2>1 DEF Combines
  <2> DEFINE w == u - v * q
  <2>5. w \in Int /\ q * e + f \in Nat
    BY <1>1
  <2>6. x = v * n + w * d
    <3>1. v * n = v * (d * q) + v * r
      BY <1>1
    <3>2. w * d = u * d - (v * q) * d
      BY <1>1
    <3>3. v * (d * q) = (v * q) * d
      BY <1>1
    <3> QED
      BY <1>1, <2>2, <3>1, <3>2, <3>3
  <2>7. n = x * (q * e + f)
    <3>1. x * (q * e + f) = (x * e) * q + x * f
      BY <1>1, <2>4
    <3> QED
      BY <1>1, <2>3, <3>1
  <2> HIDE DEF w
  <2> QED
    BY <2>3, <2>4, <2>5, <2>6, <2>7, Zenon DEF Combines
<1> QED
  BY <1>2, <1>3

\* gcd divides both its arguments and is a sum of multiples of them: it is their
\* greatest common divisor.
LEMMA GcdCombines ==
    ASSUME NEW a \in Nat, NEW b \in Nat, b # 0
    PROVE  Combines(gcd(a, b), a, b)
<1> DEFINE g == CHOOSE g : g = [d \in 1..b |-> [n \in Nat |-> IF n % d = 0 THEN d ELSE g[n % d][d]]]
<1>1. gcd(a, b) = g[b][a]
  BY DEF gcd
<1>2. g = [d \in 1..b |-> [n \in Nat |-> IF n % d = 0 THEN d ELSE g[n % d][d]]]
  BY Divisors, Zenon
<1> HIDE DEF g
<1>3. \A d \in 1..b, n \in Nat : g[d][n] = IF n % d = 0 THEN d ELSE g[n % d][d]
  <2> DEFINE Row(d) == [n \in Nat |-> IF n % d = 0 THEN d ELSE g[n % d][d]]
  <2>1. g = [d \in 1..b |-> Row(d)]
    BY <1>2, Zenon
  <2>2. \A d \in 1..b, n \in Nat : Row(d)[n] = IF n % d = 0 THEN d ELSE g[n % d][d]
    BY Zenon
  <2> HIDE DEF Row
  <2>3. \A d \in 1..b : g[d] = Row(d)
    BY <2>1, Zenon
  <2> QED
    BY <2>2, <2>3, Zenon
<1> DEFINE Whole(d) == \A n \in Nat : Combines(g[d][n], n, d)
           T == {k \in 0..b : \A d \in 1..k : Whole(d)}
<1>4. 0 \in T
  OBVIOUS
<1>5. ASSUME NEW k \in T, k \in 0..(b - 1) PROVE k + 1 \in T
  <2> DEFINE j == k + 1
  <2>1. k \in Nat /\ j \in Nat /\ j # 0 /\ j \in 1..b /\ j \in 0..b
    BY <1>5
  <2>2. \A d \in 1..k : Whole(d)
    BY <1>5, Zenon
  <2>3. ASSUME NEW n \in Nat PROVE Combines(g[j][n], n, j)
    <3> DEFINE r == n % j
    <3>1. r \in Nat /\ r # 0 => r \in 1..k
      BY <2>1
    <3>2. r \in Nat
      BY <2>1
    <3>3. g[j][n] = IF r = 0 THEN j ELSE g[r][j]
      BY ZenonT(40), <1>3, <2>1
    <3> HIDE DEF j
    <3>4. r # 0 => Combines(g[j][n], j, r)
      <4> HIDE DEF r
      <4> QED
        BY <2>1, <2>2, <3>1, <3>2, <3>3, Zenon
    <3> QED
      BY <2>1, <3>3, <3>4, EuclidStep
  <2>4. Whole(j)
    BY <2>3, Zenon
  <2>5. \A d \in 1..j : d \in 1..k \/ d = j
    BY <2>1
  <2> HIDE DEF Whole, j
  <2>6. \A d \in 1..j : Whole(d)
    BY <2>2, <2>4, <2>5, Zenon
  <2> QED
    BY <2>1, <2>6, Zenon DEF j
<1>6. 0..b \subseteq T
  <2> HIDE DEF T
  <2> QED
    BY <1>4, <1>5, BoundedInduction
<1>7. Whole(b)
  <2>1. b \in 0..b /\ b \in 1..b
    OBVIOUS
  <2> HIDE DEF Whole
  <2> QED
    BY <1>6, <2>1, Zenon
<1> QED
  BY <1>1, <1>7, Zenon

\* gcd lies in 1..b.
LEMMA GcdRange ==
    ASSUME NEW a \in Nat, NEW b \in Nat, b # 0
    PROVE  gcd(a, b) \in 1..b
BY GcdCombines, Zenon DEF Combines

\* The numbers of the exchange: every swap is of two places in the blocks.
LEMMA CycleRange ==
    ASSUME NEW start \in Nat, NEW mid \in Nat, NEW end \in Nat, start < mid, mid < end
    PROVE  LET ncycle == Cycles(mid - start, end - mid)
               cyclelen == (end - start) \div ncycle
           IN  /\ ncycle \in 1..(end - mid) /\ cyclelen \in Nat /\ cyclelen # 0
               /\ ncycle * cyclelen \in Nat
               /\ \A k \in 1..(ncycle * cyclelen) : mid + (k - 1) \div cyclelen \in mid..(end - 1)
<1> DEFINE c == Cycles(mid - start, end - mid)
           l == (end - start) \div c
<1>1. c \in 1..(end - mid)
  <2>1. mid - start \in Nat /\ end - mid \in Nat /\ end - mid # 0
    OBVIOUS
  <2> QED
    BY <2>1, GcdRange DEF Cycles
<1> HIDE DEF c
<1>2. l \in Nat /\ l # 0
  <2>1. end - start \in Nat /\ c \in Nat /\ c > 0 /\ c <= end - start
    BY <1>1
  <2> DEFINE n == end - start
  <2> HIDE DEF n
  <2>2. n \in Nat /\ c <= n
    BY <2>1 DEF n
  <2>3. n \div c \in Nat /\ n \div c >= 1
    BY <2>1, <2>2
  <2> QED
    BY <2>3 DEF n
<1> HIDE DEF l
<1>3. c * l \in Nat
  BY <1>1, <1>2
<1>4. ASSUME NEW k \in 1..(c * l) PROVE mid + (k - 1) \div l \in mid..(end - 1)
  <2>1. k - 1 \in Nat /\ k - 1 < c * l
    BY <1>3
  <2> DEFINE q == (k - 1) \div l
  <2>2. q \in Nat /\ q < c
    BY <1>1, <1>2, <2>1
  <2> HIDE DEF q
  <2>3. mid + q \in mid..(end - 1)
    BY <1>1, <2>2
  <2> QED
    BY <2>3 DEF q
<1> QED
  BY <1>1, <1>2, <1>3, <1>4 DEF c, l

\* The numbers of the rotation of a places in n: along one cycle no
\* place comes twice within l steps, the l-th step is back at the first, and
\* every place of the cycle's class comes.
Rotation(a, n, g, l) ==
    /\ l \in Nat /\ l # 0 /\ g * l = n
    /\ \E e \in Nat : a = g * e
    /\ \A d, m \in Int : d * a = m * n => \E z \in Int : d = z * l
    /\ \E m \in Int : l * a = m * n
    /\ \A s \in Int : \E j \in 0..(l - 1), m \in Int : j * a + m * n = g * s

\* Of blocks of lengths a and n - a, with greatest common divisor g, every cycle
\* has l = n / g places, and its places are those equal modulo g.
LEMMA RotationNumbers ==
    ASSUME NEW a \in Nat, NEW b \in Nat, a # 0, b # 0
    PROVE  Rotation(a, a + b, gcd(a, b), (a + b) \div gcd(a, b))
<1> DEFINE g == gcd(a, b)
           l == (a + b) \div g
           n == a + b
<1>1. Combines(g, a, b)
  BY GcdCombines
<1> HIDE DEF g
<1>2. g \in Nat /\ g # 0
  BY <1>1 DEF Combines
<1>3. PICK u \in Int, v \in Int : g = u * a + v * b
  BY <1>1, Zenon DEF Combines
<1>4. PICK e \in Nat, f \in Nat : a = g * e /\ b = g * f
  BY <1>1, Zenon DEF Combines
<1>5. n = g * (e + f) /\ e + f \in Nat /\ e + f # 0
  <2>1. e # 0
    BY <1>2, <1>4
  <2> QED
    BY <1>2, <1>4, <2>1
<1>6. l = e + f
  <2> DEFINE h == e + f
  <2>1. h \in Nat /\ n = g * h
    BY <1>5
  <2> HIDE DEF h
  <2>2. (g * h) \div g = h
    BY <1>2, <2>1
  <2> HIDE DEF n
  <2> QED
    BY <2>1, <2>2 DEF h, n
<1> HIDE DEF l
<1>7. l \in Nat /\ l # 0 /\ g * l = n
  BY <1>5, <1>6
\* w e + v l = 1
<1> DEFINE w == u - v
<1>8. w \in Int /\ w * e + v * l = 1
  <2>1. w \in Int
    OBVIOUS
  <2> DEFINE y == u * e + v * f
  <2>2. y \in Int /\ g = g * y
    <3>1. u * a = g * (u * e) /\ v * b = g * (v * f)
      BY <1>2, <1>4
    <3>2. g * y = g * (u * e) + g * (v * f)
      BY <1>2
    <3> QED
      BY <1>3, <3>1, <3>2
  <2>3. y = 1
    <3> HIDE DEF y
    <3> QED
      BY <1>2, <2>2
  <2>4. w * e + v * l = y
    <3>1. w * e = u * e - v * e
      OBVIOUS
    <3>2. v * l = v * e + v * f
      BY <1>6
    <3> QED
      BY <3>1, <3>2
  <2> QED
    BY <2>1, <2>3, <2>4
<1> HIDE DEF w
<1>9. ASSUME NEW d \in Int, NEW m \in Int, d * a = m * n PROVE \E z \in Int : d = z * l
  <2>1. d * e = m * l
    <3> DEFINE x == d * e
               y == m * l
    <3>1. d * a = g * x
      BY <1>2, <1>4
    <3>2. m * n = g * y
      <4>1. m * (g * l) = g * (m * l)
        BY <1>2, <1>7
      <4> QED
        BY <1>7, <4>1
    <3>3. x \in Int /\ y \in Int /\ g * x = g * y
      BY <1>7, <1>9, <3>1, <3>2
    <3> HIDE DEF x, y
    <3>4. x = y
      BY <1>2, <3>3
    <3> QED
      BY <3>4 DEF x, y
  <2>2. d = d * (w * e) + d * (v * l)
    <3>1. d * (w * e + v * l) = d * (w * e) + d * (v * l)
      BY <1>7, <1>8
    <3> QED
      BY <1>8, <3>1
  <2>3. d * (w * e) = (w * m) * l
    <3>1. d * (w * e) = w * (d * e)
      BY <1>8
    <3>2. w * (m * l) = (w * m) * l
      BY <1>7, <1>8
    <3> QED
      BY <2>1, <3>1, <3>2
  <2>4. d * (v * l) = (d * v) * l
    BY <1>7
  <2> DEFINE z == w * m + d * v
  <2>5. z \in Int /\ d = z * l
    <3>1. z * l = (w * m) * l + (d * v) * l
      BY <1>7, <1>8
    <3> QED
      BY <1>8, <2>2, <2>3, <2>4, <3>1
  <2> QED
    BY <2>5, Zenon
<1>10. e \in Int /\ l * a = e * n
  <2>1. l * (g * e) = e * (g * l)
    BY <1>2, <1>7
  <2> QED
    BY <1>4, <1>7, <2>1
<1>11. ASSUME NEW s \in Int PROVE \E j \in 0..(l - 1), m \in Int : j * a + m * n = g * s
  <2> DEFINE p == s * w
             j == p % l
             q == p \div l
  <2>1. p \in Int
    BY <1>8
  <2>2. j \in 0..(l - 1) /\ q \in Int /\ p = l * q + j
    <3> HIDE DEF p
    <3> QED
      BY <1>7, <2>1
  <2> HIDE DEF j, q
  <2> DEFINE m == s * v + q * e
  <2>3. m \in Int
    BY <2>2
  <2>4. j * a + m * n = g * s
    <3>1. m * n = g * ((s * v) * l) + g * ((q * e) * l)
      <4>1. m * (g * l) = g * ((s * v) * l) + g * ((q * e) * l)
        BY <1>2, <1>7, <2>2
      <4> QED
        BY <1>7, <4>1
    <3>2. j * a = g * (j * e)
      BY <1>2, <1>4, <2>2
    <3>3. j * e = (s * w) * e - (q * e) * l
      <4>1. j = s * w - l * q
        BY <1>7, <1>8, <2>2
      <4>2. (s * w - l * q) * e = (s * w) * e - (q * e) * l
        BY <1>7, <1>8, <2>2
      <4> QED
        BY <4>1, <4>2
    <3>4. (s * w) * e + (s * v) * l = s
      <4>1. (s * w) * e + (s * v) * l = s * (w * e + v * l)
        BY <1>7, <1>8
      <4> QED
        BY <1>8, <4>1
    <3> DEFINE A == (s * w) * e
               B == (q * e) * l
               C == (s * v) * l
    <3>5. A \in Int /\ B \in Int /\ C \in Int
      BY <1>7, <1>8, <2>2
    <3>6. j * a = g * (A - B) /\ m * n = g * C + g * B /\ A + C = s
      BY <3>1, <3>2, <3>3, <3>4
    <3> HIDE DEF A, B, C, m, n
    <3>7. g * (A - B) + (g * C + g * B) = g * (A + C)
      BY <1>2, <3>5
    <3> QED
      BY <3>6, <3>7
  <2> QED
    BY <2>2, <2>3, <2>4, Zenon
<1>12. \E m \in Int : l * a = m * n
  BY <1>10, Zenon
<1>13. \E x \in Nat : a = g * x
  BY <1>4, Zenon
<1> HIDE DEF n
<1>14. Rotation(a, n, g, l)
  BY <1>7, <1>9, <1>11, <1>12, <1>13, Zenon DEF Rotation
<1> QED
  BY <1>14, Zenon DEF g, l, n

\* The place an argument at q goes to when the blocks change places.
Moved(start, mid, end, q) == IF q >= mid THEN q - (mid - start) ELSE q + (end - mid)

\* orb goes through the places of the blocks that are i more than a multiple of
\* g behind mid, each once in l steps, and comes back.
Visits(orb, start, mid, end, g, l, i) ==
    /\ orb[l] = orb[0]
    /\ \A t, u \in 0..(l - 1) : orb[t] = orb[u] => t = u
    /\ \A t \in 0..l : \E s \in Int : orb[t] = mid + i + g * s
    /\ \A q \in start..(end - 1), s \in Int :
          q = mid + i + g * s => \E t \in 0..(l - 1) : orb[t] = q

\* Cycle i of permute_args comes back after l moves and not before, and visits
\* the places of the blocks that are mid + i modulo g.
LEMMA CycleVisits ==
    ASSUME NEW start \in Nat, NEW mid \in Nat, NEW end \in Nat, start < mid, mid < end,
           NEW g \in Nat, g # 0, NEW l, Rotation(mid - start, end - start, g, l),
           NEW i \in 0..(g - 1), NEW orb, orb[0] = mid + i,
           \A t \in 0..l : orb[t] \in start..(end - 1),
           \A t \in 0..(l - 1) : orb[t + 1] = Moved(start, mid, end, orb[t])
    PROVE  Visits(orb, start, mid, end, g, l, i)
<1> DEFINE a == mid - start
           n == end - start
<1>1. a \in Nat /\ n \in Nat /\ n # 0 /\ a # 0 /\ i \in Int
  OBVIOUS
<1>2. /\ l \in Nat /\ l # 0 /\ g * l = n
      /\ \E e \in Nat : a = g * e
      /\ \A d, m \in Int : d * a = m * n => \E z \in Int : d = z * l
      /\ \E m \in Int : l * a = m * n
      /\ \A s \in Int : \E j \in 0..(l - 1), m \in Int : j * a + m * n = g * s
  BY Zenon DEF Rotation
<1>3. PICK e \in Nat : a = g * e
  BY <1>2
<1> DEFINE At(t, m) == orb[t] = (mid + i) - t * a + m * n
           T == {t \in 0..l : \E m \in Int : At(t, m)}
<1>4. 0 \in T
  <2>1. 0 \in 0..l /\ 0 \in Int
    BY <1>2
  <2>2. At(0, 0)
    OBVIOUS
  <2> HIDE DEF At
  <2> QED
    BY <2>1, <2>2, Zenon
<1>5. ASSUME NEW t \in T, t \in 0..(l - 1) PROVE t + 1 \in T
  <2>1. PICK m \in Int : At(t, m)
    BY <1>5, Zenon
  <2>2. t \in Nat /\ t + 1 \in 0..l /\ t \in 0..l /\ orb[t + 1] = Moved(start, mid, end, orb[t])
    BY <1>2, <1>5
  <2>3. orb[t + 1] = orb[t] - a \/ orb[t + 1] = (orb[t] - a) + n
    <3>1. orb[t] \in Int
      BY <2>2
    <3>2. orb[t + 1] = IF orb[t] >= mid THEN orb[t] - (mid - start) ELSE orb[t] + (end - mid)
      BY <2>2, Zenon DEF Moved
    <3> QED
      BY <3>1, <3>2
  <2>4. (t + 1) * a = t * a + a /\ (m + 1) * n = m * n + n
    BY <1>1, <2>2
  <2>5. At(t + 1, m) \/ At(t + 1, m + 1)
    <3>1. t * a \in Int /\ m * n \in Int
      BY <1>1, <2>2
    <3> QED
      BY <2>1, <2>3, <2>4, <3>1
  <2>6. m + 1 \in Int
    OBVIOUS
  <2> HIDE DEF At
  <2> QED
    BY <2>1, <2>2, <2>5, <2>6, Zenon
<1>6. 0..l \subseteq T
  <2> HIDE DEF T
  <2> QED
    BY <1>2, <1>4, <1>5, BoundedInduction
<1>7. \A t \in 0..l : \E m \in Int : At(t, m)
  BY <1>6, Zenon
\* Two places of the blocks that differ by a multiple of n are one.
<1>8. ASSUME NEW x \in start..(end - 1), NEW y \in start..(end - 1), NEW m \in Int, x - y = m * n
      PROVE  x = y
  <2>1. m * n < n /\ m * n > -n
    BY <1>8
  <2> HIDE DEF n
  <2>2. m = 0
    <3>1. CASE m >= 1
      <4>1. m * n >= n
        BY <1>1, <3>1
      <4> QED
        BY <1>1, <2>1, <4>1
    <3>2. CASE m <= -1
      <4>1. m * n <= -n
        BY <1>1, <3>2
      <4> QED
        BY <1>1, <2>1, <4>1
    <3> QED
      BY <3>1, <3>2
  <2> QED
    BY <1>1, <1>8, <2>2
<1> HIDE DEF T
<1>9. orb[l] = orb[0]
  <2>1. 0 \in 0..l /\ l \in 0..l
    BY <1>2
  <2>2. PICK m \in Int : At(l, m)
    BY <1>7, <2>1, Zenon
  <2>3. PICK k \in Int : l * a = k * n
    BY <1>2, Zenon
  <2>4. (m - k) * n = m * n - k * n
    BY <1>1
  <2>5. orb[l] - orb[0] = (m - k) * n
    <3>1. m * n \in Int /\ k * n \in Int
      BY <1>1
    <3> QED
      BY <2>2, <2>3, <2>4, <3>1
  <2>6. m - k \in Int
    OBVIOUS
  <2> HIDE DEF n
  <2> QED
    BY <1>8, <2>1, <2>5, <2>6
<1>10. ASSUME NEW t \in 0..(l - 1), NEW u \in 0..(l - 1), orb[t] = orb[u] PROVE t = u
  <2>1. t \in 0..l /\ u \in 0..l /\ t \in Int /\ u \in Int
    BY <1>2
  <2>2. PICK m \in Int : At(t, m)
    BY <1>7, <2>1, Zenon
  <2>3. PICK k \in Int : At(u, k)
    BY <1>7, <2>1, Zenon
  <2>4. (t - u) * a = t * a - u * a /\ (m - k) * n = m * n - k * n
    BY <1>1, <2>1
  <2>5. (t - u) * a = (m - k) * n
    <3> DEFINE ta == t * a
               ua == u * a
               mn == m * n
               kn == k * n
               x == (t - u) * a
               y == (m - k) * n
    <3>1. ta \in Int /\ ua \in Int /\ mn \in Int /\ kn \in Int /\ x = ta - ua /\ y = mn - kn
      BY <1>1, <2>1, <2>4
    <3>2. orb[t] = (mid + i) - ta + mn /\ orb[u] = (mid + i) - ua + kn
      BY <2>2, <2>3, Zenon
    <3> HIDE DEF ta, ua, mn, kn, x, y
    <3> DEFINE c == mid + i
    <3>3. (c - ta) + mn = (c - ua) + kn
      BY <1>10, <3>2, Zenon
    <3>4. c \in Int
      BY <1>1
    <3> HIDE DEF c
    <3>5. x = y
      BY <3>1, <3>3, <3>4
    <3> QED
      BY <3>5 DEF x, y
  <2>6. t - u \in Int /\ m - k \in Int
    BY <2>1
  <2>7. PICK z \in Int : t - u = z * l
    <3> DEFINE d == t - u
               h == m - k
    <3>1. d \in Int /\ h \in Int /\ d * a = h * n
      BY <2>5, <2>6
    <3> HIDE DEF a, n, d, h
    <3>2. \E z \in Int : d = z * l
      BY <1>2, <3>1, Zenon
    <3> QED
      BY <3>2 DEF d
  <2>8. z = 0
    <3>1. CASE z >= 1
      <4>1. z * l >= l
        BY <1>2, <3>1
      <4> QED
        BY <1>2, <2>1, <2>7, <4>1
    <3>2. CASE z <= -1
      <4>1. z * l <= -l
        BY <1>2, <3>2
      <4> QED
        BY <1>2, <2>1, <2>7, <4>1
    <3> QED
      BY <3>1, <3>2
  <2> QED
    BY <1>2, <2>1, <2>7, <2>8
<1>11. ASSUME NEW t \in 0..l PROVE \E s \in Int : orb[t] = mid + i + g * s
  <2>1. PICK m \in Int : At(t, m)
    BY <1>7, Zenon
  <2> DEFINE s == m * l - t * e
  <2>2. s \in Int /\ t \in Int
    BY <1>2
  <2>3. g * s = m * n - t * a
    <3>1. g * s = m * (g * l) - t * (g * e)
      BY <1>2, <2>2
    <3> QED
      BY <1>2, <1>3, <3>1
  <2>4. orb[t] = mid + i + g * s
    <3>1. m * n \in Int /\ t * a \in Int
      BY <1>1, <2>2
    <3> HIDE DEF s
    <3> QED
      BY <2>1, <2>3, <3>1
  <2> QED
    BY <2>2, <2>4, Zenon
<1>12. ASSUME NEW q \in start..(end - 1), NEW s \in Int, q = mid + i + g * s
       PROVE  \E t \in 0..(l - 1) : orb[t] = q
  <2>1. -s \in Int
    OBVIOUS
  <2>2. PICK j \in 0..(l - 1), k \in Int : j * a + k * n = g * (-s)
    BY <1>2, <2>1, Zenon
  <2>3. j \in 0..l /\ j \in Int
    BY <1>2
  <2>4. PICK m \in Int : At(j, m)
    BY <1>7, <2>3, Zenon
  <2>5. g * (-s) = -(g * s)
    OBVIOUS
  <2>6. (m + k) * n = m * n + k * n
    BY <1>1
  <2>7. orb[j] - q = (m + k) * n
    <3>1. j * a \in Int /\ k * n \in Int /\ m * n \in Int /\ g * s \in Int
      BY <1>1, <2>3
    <3> QED
      BY <1>12, <2>2, <2>4, <2>5, <2>6, <3>1
  <2>8. m + k \in Int
    OBVIOUS
  <2> HIDE DEF n
  <2>9. orb[j] = q
    BY <1>8, <2>3, <2>7, <2>8
  <2> QED
    BY <2>9, Zenon
<1> QED
  BY <1>9, <1>10, <1>11, <1>12, Zenon DEF Visits

\* The cycles orb[0], ..., orb[g - 1] of mv make up B; cls tells a place's cycle.
Cycled(B, mv, cls, orb, g, l) ==
    /\ g \in Nat /\ l \in Nat /\ l # 0
    /\ mv \in [B -> B] /\ cls \in [B -> 0..(g - 1)]
    /\ orb \in [0..(g - 1) -> [0..l -> B]]
    /\ \A i \in 0..(g - 1), t \in 0..(l - 1) : orb[i][t + 1] = mv[orb[i][t]]
    /\ \A i \in 0..(g - 1) : orb[i][l] = orb[i][0]
    /\ \A i \in 0..(g - 1) : \A t, u \in 0..(l - 1) : orb[i][t] = orb[i][u] => t = u
    /\ \A i \in 0..(g - 1), t \in 0..l : cls[orb[i][t]] = i
    /\ \A q \in B : \E t \in 0..(l - 1) : orb[cls[q]][t] = q

Exchanged(x, y, q) == IF q = x THEN y ELSE IF q = y THEN x ELSE q

\* tab[i][t] tells what is where after t swaps of the first place of cycle i with
\* the next places of it.
Swapped(tab, B, orb, g, l) ==
    /\ \A q \in B : tab[0][0][q] = q
    /\ \A i \in 0..(g - 2) : tab[i + 1][0] = tab[i][l]
    /\ \A i \in 0..(g - 1), t \in 0..(l - 1), q \in B :
          tab[i][t + 1][q] = tab[i][t][Exchanged(orb[i][t + 1], orb[i][0], q)]

\* Swaps along one cycle after another move everything by mv.
LEMMA CyclesRotate ==
    ASSUME NEW B, NEW mv, NEW cls, NEW orb, NEW g, NEW l, NEW tab, g # 0,
           Cycled(B, mv, cls, orb, g, l), Swapped(tab, B, orb, g, l)
    PROVE  \A q \in B : tab[g - 1][l][mv[q]] = q
<1>1. /\ g \in Nat /\ l \in Nat /\ l # 0 /\ g - 1 \in Nat /\ l - 1 \in Nat
      /\ 0 \in 0..(g - 1) /\ 0 \in 0..(l - 1) /\ 0 \in 0..l /\ l \in 0..l
      /\ \A t \in 0..(l - 1) : t \in 0..l /\ t + 1 \in 0..l
  BY DEF Cycled
<1>2. /\ mv \in [B -> B] /\ cls \in [B -> 0..(g - 1)]
      /\ \A i \in 0..(g - 1), t \in 0..l : orb[i][t] \in B /\ cls[orb[i][t]] = i
  <2>1. /\ mv \in [B -> B] /\ cls \in [B -> 0..(g - 1)] /\ orb \in [0..(g - 1) -> [0..l -> B]]
        /\ \A i \in 0..(g - 1), t \in 0..l : cls[orb[i][t]] = i
    BY Zenon DEF Cycled
  <2>2. \A i \in 0..(g - 1), t \in 0..l : orb[i][t] \in B
    BY <2>1, ZenonT(40)
  <2> QED
    BY <2>1, <2>2, Zenon
<1>3. \A q \in B : mv[q] \in B /\ cls[mv[q]] = cls[q] /\ cls[q] \in 0..(g - 1)
  <2> TAKE q \in B
  <2>1. cls[q] \in 0..(g - 1)
    BY <1>2
  <2>2. PICK t \in 0..(l - 1) : orb[cls[q]][t] = q
    BY Zenon DEF Cycled
  <2>3. orb[cls[q]][t + 1] = mv[q]
    <3>1. \A i \in 0..(g - 1), u \in 0..(l - 1) : orb[i][u + 1] = mv[orb[i][u]]
      BY Zenon DEF Cycled
    <3>2. orb[cls[q]][t + 1] = mv[orb[cls[q]][t]]
      BY <2>1, <3>1, Zenon
    <3> QED
      BY <2>2, <3>2, Zenon
  <2>4. t + 1 \in 0..l
    BY <1>1
  <2> QED
    BY <1>2, <2>1, <2>3, <2>4, Zenon
\* The state within cycle i after t swaps, with w telling what is where.
<1> DEFINE Others(i, w) == \A q \in B : /\ cls[q] < i => w[mv[q]] = q
                                        /\ cls[q] > i => w[q] = q
           Inner(i, t, w) == /\ \A j \in 0..(t - 1) : w[orb[i][j + 1]] = orb[i][j]
                             /\ w[orb[i][0]] = orb[i][t]
                             /\ \A j \in (t + 1)..(l - 1) : w[orb[i][j]] = orb[i][j]
           After(i, w) == \A q \in B : /\ cls[q] <= i => w[mv[q]] = q
                                       /\ cls[q] > i => w[q] = q
<1>4. ASSUME NEW i \in 0..(g - 1), NEW t \in 0..(l - 1), t < l - 1,
             Others(i, tab[i][t]), Inner(i, t, tab[i][t])
      PROVE  Others(i, tab[i][t + 1]) /\ Inner(i, t + 1, tab[i][t + 1])
  <2> DEFINE w == tab[i][t]
             x == tab[i][t + 1]
             o == orb[i]
  <2>1. \A q \in B : x[q] = w[Exchanged(o[t + 1], o[0], q)]
    BY Zenon DEF Swapped
  <2>2. i \in Int /\ t \in Int /\ t + 1 \in 0..(l - 1) /\ t + 1 \in 0..l /\ t + 1 # 0
    BY <1>1, <1>4
  <2>3. /\ o[0] \in B /\ o[t + 1] \in B /\ cls[o[0]] = i /\ cls[o[t + 1]] = i
    BY <1>1, <1>2, <2>2, Zenon
  <2>4. o[0] # o[t + 1]
    BY <1>1, <2>2, Zenon DEF Cycled
  <2>5. \A q \in B : q # o[0] /\ q # o[t + 1] => x[q] = w[q]
    BY <2>1, Zenon DEF Exchanged
  <2>6. x[o[t + 1]] = w[o[0]] /\ x[o[0]] = w[o[t + 1]]
    BY <2>1, <2>3, <2>4, Zenon DEF Exchanged
  <2>7. /\ \A q \in B : cls[q] < i => w[mv[q]] = q
        /\ \A q \in B : cls[q] > i => w[q] = q
    BY <1>4, Zenon
  <2>8. /\ \A j \in 0..(t - 1) : w[o[j + 1]] = o[j]
        /\ w[o[0]] = o[t]
        /\ \A j \in (t + 1)..(l - 1) : w[o[j]] = o[j]
    BY <1>4, Zenon
  <2> HIDE DEF w, x
  <2>9. ASSUME NEW q \in B PROVE (cls[q] < i => x[mv[q]] = q) /\ (cls[q] > i => x[q] = q)
    <3>1. cls[q] \in Int /\ mv[q] \in B /\ cls[mv[q]] = cls[q]
      <4>1. cls[q] \in 0..(g - 1)
        BY <1>3
      <4> QED
        BY <1>1, <1>3, <4>1
    <3>2. cls[q] # i => mv[q] # o[0] /\ mv[q] # o[t + 1] /\ q # o[0] /\ q # o[t + 1]
      BY <2>3, <3>1, Zenon
    <3>3. (cls[q] < i => cls[q] # i) /\ (cls[q] > i => cls[q] # i)
      BY <2>2, <3>1
    <3> QED
      BY <2>5, <2>7, <3>1, <3>2, <3>3, Zenon
  <2>10. ASSUME NEW j \in 0..t PROVE x[o[j + 1]] = o[j]
    <3>1. CASE j = t
      BY <2>6, <2>8, <3>1, Zenon
    <3>2. CASE j # t
      <4>1. /\ j \in 0..(t - 1) /\ j + 1 \in 0..(l - 1) /\ j + 1 # 0 /\ j + 1 # t + 1 /\ j + 1 \in 0..l
        BY <1>1, <1>4, <2>2, <3>2
      <4>2. o[j + 1] \in B /\ o[j + 1] # o[0] /\ o[j + 1] # o[t + 1]
        <5>1. \A u, v \in 0..(l - 1) : o[u] = o[v] => u = v
          BY Zenon DEF Cycled
        <5> QED
          BY <1>1, <1>2, <2>2, <4>1, <5>1, Zenon
      <4> QED
        BY <2>5, <2>8, <4>1, <4>2, Zenon
    <3> QED
      BY <3>1, <3>2
  <2>11. x[o[0]] = o[t + 1]
    <3>1. t + 1 \in (t + 1)..(l - 1)
      BY <1>1, <2>2
    <3> QED
      BY <2>6, <2>8, <3>1, Zenon
  <2>12. ASSUME NEW j \in (t + 2)..(l - 1) PROVE x[o[j]] = o[j]
    <3>1. j \in (t + 1)..(l - 1) /\ j \in 0..(l - 1) /\ j # 0 /\ j # t + 1 /\ j \in 0..l
      BY <1>1, <2>2
    <3>2. o[j] \in B /\ o[j] # o[0] /\ o[j] # o[t + 1]
      <4>1. \A u, v \in 0..(l - 1) : o[u] = o[v] => u = v
        BY Zenon DEF Cycled
      <4> QED
        BY <1>1, <1>2, <2>2, <3>1, <4>1, Zenon
    <3> QED
      BY <2>5, <2>8, <3>1, <3>2, Zenon
  <2>13. (t + 1) - 1 = t /\ (t + 1) + 1 = t + 2
    BY <2>2
  <2> QED
    BY <2>9, <2>10, <2>11, <2>12, <2>13, Zenon DEF x
<1>5. ASSUME NEW i \in 0..(g - 1), Others(i, tab[i][l - 1]), Inner(i, l - 1, tab[i][l - 1])
      PROVE  After(i, tab[i][l])
  <2> DEFINE w == tab[i][l - 1]
             x == tab[i][l]
             o == orb[i]
  <2>1. i \in Int /\ l - 1 \in 0..(l - 1) /\ (l - 1) + 1 = l
    BY <1>1
  <2>2. \A q \in B : x[q] = w[q]
    <3>1. \A q \in B : x[q] = w[Exchanged(o[l], o[0], q)]
      <4>1. \A q \in B : tab[i][(l - 1) + 1][q] = tab[i][l - 1][Exchanged(orb[i][(l - 1) + 1], orb[i][0], q)]
        BY <2>1, Zenon DEF Swapped
      <4> QED
        BY <2>1, <4>1, Zenon
    <3>2. o[l] = o[0]
      BY Zenon DEF Cycled
    <3> QED
      BY <3>1, <3>2, Zenon DEF Exchanged
  <2>3. /\ \A q \in B : cls[q] < i => w[mv[q]] = q
        /\ \A q \in B : cls[q] > i => w[q] = q
    BY <1>5, Zenon
  <2>4. /\ \A j \in 0..((l - 1) - 1) : w[o[j + 1]] = o[j]
        /\ w[o[0]] = o[l - 1]
    BY <1>5, Zenon
  <2> HIDE DEF w, x
  <2>5. ASSUME NEW q \in B PROVE (cls[q] <= i => x[mv[q]] = q) /\ (cls[q] > i => x[q] = q)
    <3>1. cls[q] \in 0..(g - 1) /\ mv[q] \in B
      BY <1>3
    <3>2. cls[q] \in Int /\ (cls[q] <= i => cls[q] < i \/ cls[q] = i)
      BY <1>1, <2>1, <3>1
    <3>3. CASE cls[q] = i
      <4>1. PICK t \in 0..(l - 1) : o[t] = q
        BY <3>3, Zenon DEF Cycled
      <4>2. o[t + 1] = mv[q]
        BY <4>1, Zenon DEF Cycled
      <4>3. w[mv[q]] = q
        <5>1. CASE t = l - 1
          <6>1. o[t + 1] = o[0]
            <7>1. t + 1 = l
              BY <1>1, <5>1
            <7> QED
              BY <7>1, Zenon DEF Cycled
          <6> QED
            BY <2>4, <4>1, <4>2, <5>1, <6>1, Zenon
        <5>2. CASE t # l - 1
          <6>1. t \in 0..((l - 1) - 1)
            BY <1>1, <5>2
          <6> QED
            BY <2>4, <4>1, <4>2, <6>1, Zenon
        <5> QED
          BY <5>1, <5>2
      <4>4. ~(cls[q] > i)
        BY <2>1, <3>2, <3>3
      <4> QED
        BY <2>2, <3>1, <4>3, <4>4, Zenon
    <3>4. CASE cls[q] # i
      BY <2>2, <2>3, <3>1, <3>2, <3>4, Zenon
    <3> QED
      BY <3>3, <3>4
  <2> QED
    BY <2>5, Zenon DEF x
\* Along one cycle.
<1>6. ASSUME NEW i \in 0..(g - 1), Others(i, tab[i][0]), Inner(i, 0, tab[i][0])
      PROVE  After(i, tab[i][l])
  <2> DEFINE T == {t \in 0..(l - 1) : Others(i, tab[i][t]) /\ Inner(i, t, tab[i][t])}
  <2> HIDE DEF Others, Inner
  <2>1. 0 \in T
    BY <1>1, <1>6, Zenon
  <2>2. ASSUME NEW t \in T, t \in 0..((l - 1) - 1) PROVE t + 1 \in T
    <3>1. t \in 0..(l - 1) /\ t < l - 1 /\ t + 1 \in 0..(l - 1)
      BY <1>1, <2>2
    <3> QED
      BY <1>4, <2>2, <3>1, Zenon
  <2>3. 0..(l - 1) \subseteq T
    <3> DEFINE m == l - 1
    <3> HIDE DEF T
    <3> SUFFICES 0..m \subseteq T
      BY DEF m
    <3>1. m \in Nat /\ \A t \in T : t \in 0..(m - 1) => t + 1 \in T
      BY <1>1, <2>2
    <3> HIDE DEF m
    <3> QED
      BY <2>1, <3>1, BoundedInduction
  <2>4. l - 1 \in 0..(l - 1)
    BY <1>1
  <2> HIDE DEF After
  <2> QED
    BY <1>5, <2>3, <2>4, Zenon
\* From one cycle to the next.
<1>7. ASSUME NEW i \in 0..(g - 1), NEW w, \A q \in B : (cls[q] < i => w[mv[q]] = q) /\ (cls[q] >= i => w[q] = q)
      PROVE  Others(i, w) /\ Inner(i, 0, w)
  <2>1. i \in Int /\ \A q \in B : cls[q] \in Int
    BY <1>1, <1>2
  <2>2. Others(i, w)
    <3>1. \A q \in B : cls[q] > i => cls[q] >= i
      BY <2>1
    <3> QED
      BY <1>7, <3>1, Zenon
  <2>3. \A j \in 0..(l - 1) : w[orb[i][j]] = orb[i][j]
    <3> TAKE j \in 0..(l - 1)
    <3>1. orb[i][j] \in B /\ cls[orb[i][j]] = i
      BY <1>1, <1>2, Zenon
    <3>2. i >= i
      BY <2>1
    <3> QED
      BY <1>7, <3>1, <3>2, Zenon
  <2>4. (\A j \in (0 + 1)..(l - 1) : j \in 0..(l - 1)) /\ (\A j \in 0..(0 - 1) : FALSE)
    BY <1>1
  <2> QED
    BY <1>1, <2>2, <2>3, <2>4, Zenon
<1> DEFINE T == {i \in 0..(g - 1) : After(i, tab[i][l])}
<1>8. 0 \in T
  <2>1. \A q \in B : tab[0][0][q] = q /\ cls[q] >= 0 /\ ~(cls[q] < 0)
    <3>1. \A q \in B : tab[0][0][q] = q
      BY Zenon DEF Swapped
    <3>2. \A q \in B : cls[q] \in 0..(g - 1)
      BY <1>3
    <3>3. \A x \in 0..(g - 1) : x >= 0 /\ ~(x < 0)
      BY <1>1
    <3> QED
      BY <3>1, <3>2, <3>3, Zenon
  <2>2. Others(0, tab[0][0]) /\ Inner(0, 0, tab[0][0])
    <3> HIDE DEF Others, Inner
    <3> QED
      BY <1>1, <1>7, <2>1, Zenon
  <2> HIDE DEF Others, Inner, After
  <2> QED
    BY <1>1, <1>6, <2>2, Zenon
<1>9. ASSUME NEW i \in T, i \in 0..((g - 1) - 1) PROVE i + 1 \in T
  <2> DEFINE w == tab[i][l]
  <2>1. i \in 0..(g - 2) /\ i + 1 \in 0..(g - 1) /\ i \in Int
    BY <1>1, <1>9
  <2>2. tab[i + 1][0] = w
    BY <2>1, Zenon DEF Swapped
  <2>3. After(i, w)
    BY Zenon
  <2> HIDE DEF w
  <2>4. \A q \in B : (cls[q] < i + 1 => w[mv[q]] = q) /\ (cls[q] >= i + 1 => w[q] = q)
    <3> TAKE q \in B
    <3>1. cls[q] \in 0..(g - 1)
      BY <1>3
    <3>2. (cls[q] < i + 1 => cls[q] <= i) /\ (cls[q] >= i + 1 => cls[q] > i)
      BY <1>1, <2>1, <3>1
    <3> QED
      BY <2>3, <3>2, Zenon
  <2> HIDE DEF Others, Inner, After
  <2>5. Others(i + 1, tab[i + 1][0]) /\ Inner(i + 1, 0, tab[i + 1][0])
    BY <1>7, <2>1, <2>2, <2>4, Zenon
  <2> QED
    BY <1>6, <2>1, <2>5, Zenon
<1>10. 0..(g - 1) \subseteq T
  <2> DEFINE m == g - 1
  <2> HIDE DEF T
  <2> SUFFICES 0..m \subseteq T
    BY DEF m
  <2>1. m \in Nat /\ \A t \in T : t \in 0..(m - 1) => t + 1 \in T
    BY <1>1, <1>9
  <2> HIDE DEF m
  <2> QED
    BY ZenonT(40), <1>8, <2>1, BoundedInduction
<1>11. After(g - 1, tab[g - 1][l])
  <2>1. g - 1 \in 0..(g - 1)
    BY <1>1
  <2> HIDE DEF After
  <2> QED
    BY <1>10, <2>1, Zenon
<1>12. \A q \in B : cls[q] <= g - 1
  <2>1. \A x \in 0..(g - 1) : x <= g - 1
    BY <1>1
  <2> QED
    BY <1>3, <2>1, Zenon
<1> QED
  BY <1>11, <1>12, Zenon

\* The tables pos and source of permute_args: its k-th swap is of the places
\* pos[k] and mid + (k - 1) \div l.
Tables(start, mid, end, D, g, l, pos, source) ==
    /\ \A k \in 1..(g * l) :
          /\ pos[k] \in start..(end - 1)
          /\ pos[k] = Moved(start, mid, end, IF (k - 1) % l = 0 THEN mid + (k - 1) \div l ELSE pos[k - 1])
          /\ mid + (k - 1) \div l \in start..(end - 1)
    /\ \A p \in D : source[0][p] = p
    /\ \A k \in 1..(g * l), p \in D :
          source[k][p] = source[k - 1][Exchanged(pos[k], mid + (k - 1) \div l, p)]

TablesGive(start, mid, end, nargv, g, l) ==
    \E pos, source :
        /\ Tables(start, mid, end, DOMAIN nargv, g, l, pos, source)
        /\ permute_args(start, mid, end, nargv) =
               [p \in DOMAIN nargv |-> nargv[source[g * l][p]]]

\* The tables inside permute_args are the ones its recursions describe.
LEMMA PermuteTables ==
    ASSUME NEW start \in Nat, NEW mid \in Nat, NEW end \in Nat, start < mid, mid < end,
           NEW nargv, NEW N \in Nat, DOMAIN nargv = 1..N, start > 0, end <= N + 1
    PROVE  TablesGive(start, mid, end, nargv, Cycles(mid - start, end - mid),
                      (end - start) \div Cycles(mid - start, end - mid))
<1> DEFINE nnonopts == mid - start
           nopts == end - mid
           ncycle == Cycles(nnonopts, nopts)
           cyclelen == (end - start) \div ncycle
           cstart(k) == mid + (k - 1) \div cyclelen
           move == [q \in start .. end - 1 |-> IF q >= mid THEN q - nnonopts ELSE q + nopts]
           K == ncycle * cyclelen
           pos == CHOOSE f : f = [k \in 1..K |->
                     move[IF (k - 1) % cyclelen = 0 THEN cstart(k) ELSE f[k - 1]]]
           Swap(k, p) == IF p = pos[k] THEN cstart(k) ELSE IF p = cstart(k) THEN pos[k] ELSE p
           D == DOMAIN nargv
           source == CHOOSE f : f = [k \in 0..K |->
                        [p \in D |-> IF k = 0 THEN p ELSE f[k - 1][Swap(k, p)]]]
           Block == start..(end - 1)
<1>1. permute_args(start, mid, end, nargv) = [p \in D |-> nargv[source[K][p]]]
  BY DEF permute_args
<1>2. /\ cyclelen \in Nat /\ cyclelen # 0 /\ K \in Nat
      /\ \A k \in 1..K : cstart(k) \in mid..(end - 1)
  BY ZenonT(40), CycleRange
<1>3. \A k \in 1..K : cstart(k) \in Block
  <2>1. \A q \in mid..(end - 1) : q \in Block
    OBVIOUS
  <2> HIDE DEF Block
  <2> QED
    BY <1>2, <2>1, Zenon
<1>4. \A q \in Block : move[q] \in Block
  OBVIOUS
<1>5. start \in Block /\ \A q \in Block : q \in D /\ q < end
  OBVIOUS
<1> HIDE DEF cstart, move, K, ncycle, cyclelen, Block
<1>6. pos = [k \in 1..K |-> move[IF (k - 1) % cyclelen = 0 THEN cstart(k) ELSE pos[k - 1]]]
  <2> DEFINE step == [k \in 1..K |-> [v \in Block |-> move[IF (k - 1) % cyclelen = 0 THEN cstart(k) ELSE v]]]
  <2>1. \A k \in 1..K, v \in Block : step[k][v] \in Block
    BY <1>3, <1>4
  <2>2. \E f : Iterates(f, K, Block, start, step)
    <3> HIDE DEF step
    <3> QED
      BY <1>2, <1>5, <2>1, Iteration, Zenon
  <2>3. PICK f \in [0..K -> Block] : \A k \in 1..K : f[k] = step[k][f[k - 1]]
    <3> HIDE DEF step
    <3> QED
      BY <2>2, Zenon DEF Iterates
  <2> DEFINE h == [k \in 1..K |-> f[k]]
  <2>4. ASSUME NEW k \in 1..K
        PROVE  h[k] = move[IF (k - 1) % cyclelen = 0 THEN cstart(k) ELSE h[k - 1]]
    <3>1. k \in Nat /\ k - 1 \in 0..K /\ f[k - 1] \in Block
      BY <1>2, <2>3
    <3>2. f[k] = move[IF (k - 1) % cyclelen = 0 THEN cstart(k) ELSE f[k - 1]]
      BY ZenonT(40), <2>3, <3>1
    <3>3. CASE (k - 1) % cyclelen = 0
      BY <3>2, <3>3
    <3>4. CASE (k - 1) % cyclelen # 0
      <4>1. k # 1
        <5>1. 0 % cyclelen = 0
          BY <1>2
        <5> QED
          BY <3>4, <5>1
      <4>2. k - 1 \in 1..K
        BY <1>2, <3>1, <4>1
      <4> QED
        BY <3>2, <3>4, <4>2
    <3> QED
      BY ZenonT(40), <3>3, <3>4
  <2> HIDE DEF h
  <2>5. h = [k \in 1..K |-> move[IF (k - 1) % cyclelen = 0 THEN cstart(k) ELSE h[k - 1]]]
    <3>1. h = [k \in 1..K |-> h[k]]
      BY DEF h
    <3> QED
      BY ZenonT(40), <2>4, <3>1
  <2> QED
    BY <2>5, Zenon
<1> HIDE DEF pos
<1>7. \A k \in 1..K : pos[k] \in Block
  <2>1. \A k \in 1..K : pos[k] = move[IF (k - 1) % cyclelen = 0 THEN cstart(k) ELSE pos[k - 1]]
    BY <1>6, Zenon
  <2> DEFINE T == {k \in 0..K : \A j \in 1..k : pos[j] \in Block}
  <2>2. 0 \in T
    BY <1>2
  <2>3. ASSUME NEW k \in T, k \in 0..(K - 1) PROVE k + 1 \in T
    <3>1. k \in Nat /\ k + 1 \in 1..K /\ k + 1 \in 0..K /\ (k + 1) - 1 = k
      BY <1>2, <2>3
    <3>2. pos[k + 1] = move[IF k % cyclelen = 0 THEN cstart(k + 1) ELSE pos[k]]
      BY <2>1, <3>1
    <3>3. k % cyclelen # 0 => k \in 1..k
      <4>1. 0 % cyclelen = 0
        BY <1>2
      <4> QED
        BY <3>1, <4>1
    <3>4. pos[k + 1] \in Block
      BY <1>3, <1>4, <3>1, <3>2, <3>3
    <3>5. \A j \in 1..(k + 1) : j \in 1..k \/ j = k + 1
      BY <3>1
    <3> QED
      BY <3>1, <3>4, <3>5
  <2>4. 0..K \subseteq T
    <3> HIDE DEF T
    <3> QED
      BY <1>2, <2>2, <2>3, BoundedInduction
  <2>5. \A k \in 1..K : k \in 0..K /\ k \in 1..k
    BY <1>2
  <2> QED
    BY <2>4, <2>5, Zenon
<1>8. \A k \in 1..K, p \in D : Swap(k, p) \in D
  BY <1>3, <1>5, <1>7, Zenon
<1> HIDE DEF Swap
<1>9. source = [k \in 0..K |-> [p \in D |-> IF k = 0 THEN p ELSE source[k - 1][Swap(k, p)]]]
  <2> DEFINE V == [D -> D]
             z == [p \in D |-> p]
             step == [k \in 1..K |-> [v \in V |-> [p \in D |-> v[Swap(k, p)]]]]
  <2>1. \A k \in 1..K, v \in V : step[k][v] = [p \in D |-> v[Swap(k, p)]] /\ step[k][v] \in V
    BY ZenonT(40), <1>8
  <2>2. z \in V
    BY Zenon
  <2>3. \E f : Iterates(f, K, V, z, step)
    <3> HIDE DEF step, z, V
    <3> QED
      BY <1>2, <2>1, <2>2, Iteration, Zenon
  <2>4. PICK f \in [0..K -> V] : f[0] = z /\ \A k \in 1..K : f[k] = step[k][f[k - 1]]
    <3> HIDE DEF step, z, V
    <3> QED
      BY <2>3, Zenon DEF Iterates
  <2>5. ASSUME NEW k \in 0..K
        PROVE  f[k] = [p \in D |-> IF k = 0 THEN p ELSE f[k - 1][Swap(k, p)]]
    <3>1. CASE k = 0
      BY <2>4, <3>1
    <3>2. CASE k # 0
      <4>1. k \in 1..K /\ k - 1 \in 0..K
        BY <1>2, <3>2
      <4>2. f[k - 1] \in V
        <5> HIDE DEF V
        <5> QED
          BY <2>4, <4>1
      <4>3. f[k] = [p \in D |-> f[k - 1][Swap(k, p)]]
        <5> HIDE DEF step, V
        <5> QED
          BY ZenonT(40), <2>1, <2>4, <4>1, <4>2
      <4> QED
        BY <3>2, <4>3
    <3> QED
      BY <3>1, <3>2
  <2>6. f = [k \in 0..K |-> [p \in D |-> IF k = 0 THEN p ELSE f[k - 1][Swap(k, p)]]]
    <3>1. f = [k \in 0..K |-> f[k]]
      <4> HIDE DEF V
      <4> QED
        BY <2>4
    <3> QED
      BY Zenon, <2>5, <3>1
  <2> QED
    BY <2>6, Zenon
<1> HIDE DEF source
<1>10. ASSUME NEW k \in 1..K
       PROVE  /\ pos[k] \in start..(end - 1)
              /\ pos[k] = Moved(start, mid, end, IF (k - 1) % cyclelen = 0 THEN mid + (k - 1) \div cyclelen ELSE pos[k - 1])
              /\ mid + (k - 1) \div cyclelen \in start..(end - 1)
  <2>1. pos[k] \in start..(end - 1)
    BY <1>7, Zenon DEF Block
  <2>2. cstart(k) \in start..(end - 1)
    BY <1>3, Zenon DEF Block
  <2>3. pos[k] = move[IF (k - 1) % cyclelen = 0 THEN cstart(k) ELSE pos[k - 1]]
    BY <1>6, Zenon
  <2> DEFINE q == IF (k - 1) % cyclelen = 0 THEN cstart(k) ELSE pos[k - 1]
  <2>4. q \in start..(end - 1)
    <3>1. (k - 1) % cyclelen # 0 => k - 1 \in 1..K
      <4>1. 0 % cyclelen = 0
        BY <1>2
      <4>2. k # 1 => k - 1 \in 1..K
        BY <1>2
      <4>3. 1 - 1 = 0
        OBVIOUS
      <4> QED
        BY <4>1, <4>2, <4>3, Zenon
    <3> QED
      BY <1>7, <2>2, <3>1, Zenon DEF Block
  <2>5. move[q] = Moved(start, mid, end, q)
    <3> HIDE DEF q
    <3> QED
      BY <2>4, Zenon DEF move, Moved
  <2> QED
    BY <2>1, <2>2, <2>3, <2>5, Zenon DEF cstart
<1>11. ASSUME NEW k \in 0..K, NEW p \in D
       PROVE  source[k][p] = IF k = 0 THEN p ELSE source[k - 1][Swap(k, p)]
  <2>1. source[k] = [q \in D |-> IF k = 0 THEN q ELSE source[k - 1][Swap(k, q)]]
    BY <1>9, Zenon
  <2> QED
    BY <2>1, Zenon
<1>12. 0 \in 0..K /\ \A k \in 1..K : k \in 0..K /\ k # 0
  BY <1>2
<1>13. \A k \in 1..K, p \in D : source[k][p] = source[k - 1][Exchanged(pos[k], mid + (k - 1) \div cyclelen, p)]
  BY <1>11, <1>12, Zenon DEF Exchanged, Swap, cstart
<1>14. \A p \in D : source[0][p] = p
  BY <1>11, <1>12, Zenon
<1>15. Tables(start, mid, end, D, ncycle, cyclelen, pos, source)
  BY <1>10, <1>13, <1>14, Zenon DEF Tables, K
<1> QED
  BY <1>1, <1>15, Zenon DEF ncycle, cyclelen, K, TablesGive

\* Quotient and remainder of the number of swap t + 1 in cycle i.
LEMMA SwapNumber ==
    ASSUME NEW g \in Nat, NEW l \in Nat, l # 0, NEW i \in 0..(g - 1), NEW t \in 0..(l - 1)
    PROVE  /\ i * l + t \in Nat /\ (i * l + t) + 1 \in 1..(g * l)
           /\ (i * l + t) % l = t /\ (i * l + t) \div l = i
<1> DEFINE x == i * l
<1>1. i \in Nat /\ t \in Nat /\ t < l /\ i < g /\ x \in Nat
  OBVIOUS
<1>2. x + l <= g * l
  <2>1. (i + 1) * l <= g * l
    BY <1>1
  <2>2. (i + 1) * l = x + l
    BY <1>1
  <2> QED
    BY <2>1, <2>2
<1>3. (x + t) % l = t /\ (x + t) \div l = i
  BY <1>1
<1> DEFINE m == g * l
<1>4. m \in Nat
  OBVIOUS
<1>5. x + t \in Nat /\ (x + t) + 1 \in 1..m
  <2> HIDE DEF x, m
  <2> QED
    BY <1>1, <1>2, <1>4 DEF m
<1> QED
  BY <1>3, <1>5

\* The blocks have changed places and the rest stayed where it was.
Rotated(r, start, mid, end, old, N) ==
    /\ DOMAIN r = 1..N /\ Len(r) = N
    /\ \A p \in 1..N : p < start \/ p >= end => r[p] = old[p]
    /\ \A q \in start..(end - 1) : r[Moved(start, mid, end, q)] = old[q]

\* permute_args exchanges two neighbouring blocks of any lengths: each argument of
\* the first moves back by the length of the second, each of the second forward by
\* that of the first, both keep their order, and nothing else moves.
THEOREM PermuteRotates ==
    ASSUME NEW start \in Nat, NEW mid \in Nat, NEW end \in Nat, start < mid, mid < end,
           NEW nargv, NEW N \in Nat, DOMAIN nargv = 1..N, start > 0, end <= N + 1
    PROVE  Rotated(permute_args(start, mid, end, nargv), start, mid, end, nargv, N)
<1> DEFINE g == Cycles(mid - start, end - mid)
           l == (end - start) \div g
           r == permute_args(start, mid, end, nargv)
           B == start..(end - 1)
           D == DOMAIN nargv
<1>d. D = 1..N
  OBVIOUS
<1>1. PICK pos, source : /\ Tables(start, mid, end, D, g, l, pos, source)
                         /\ r = [p \in D |-> nargv[source[g * l][p]]]
  <2>1. TablesGive(start, mid, end, nargv, g, l)
    BY PermuteTables
  <2> QED
    BY <2>1, Zenon DEF TablesGive
<1>2. g \in 1..(end - mid) /\ l \in Nat /\ l # 0
  BY CycleRange, ZenonT(40)
<1>3. Rotation(mid - start, end - start, g, l)
  <2>1. (mid - start) + (end - mid) = end - start /\ mid - start # 0 /\ end - mid # 0
        /\ mid - start \in Nat /\ end - mid \in Nat
    OBVIOUS
  <2> DEFINE a == mid - start
             b == end - mid
  <2>2. a \in Nat /\ b \in Nat /\ a # 0 /\ b # 0 /\ a + b = end - start /\ g = gcd(a, b)
    BY <2>1 DEF Cycles
  <2> HIDE DEF a, b, g
  <2>3. Rotation(a, a + b, gcd(a, b), (a + b) \div gcd(a, b))
    BY <2>2, RotationNumbers
  <2>4. Rotation(a, end - start, g, (end - start) \div g)
    BY <2>2, <2>3, Zenon
  <2> QED
    BY <2>4 DEF a
<1>g. g \in Nat /\ g # 0
  BY <1>2
<1> HIDE DEF g, l, r
<1> DEFINE K == g * l
<1>4. K \in Nat /\ K # 0
  BY <1>2, <1>g
<1>5. /\ \A k \in 1..K :
            /\ pos[k] \in B
            /\ pos[k] = Moved(start, mid, end, IF (k - 1) % l = 0 THEN mid + (k - 1) \div l ELSE pos[k - 1])
            /\ mid + (k - 1) \div l \in B
      /\ \A p \in D : source[0][p] = p
      /\ \A k \in 1..K, p \in D :
            source[k][p] = source[k - 1][Exchanged(pos[k], mid + (k - 1) \div l, p)]
  BY <1>1, Zenon DEF Tables
<1>6. B \subseteq D
  BY <1>d
\* The tables by cycle.
<1> DEFINE cls == [q \in B |-> (q - start) % g]
           mv == [q \in B |-> Moved(start, mid, end, q)]
           orb == [i \in 0..(g - 1) |-> [t \in 0..l |-> IF t = 0 THEN mid + i ELSE pos[i * l + t]]]
           tab == [i \in 0..(g - 1) |-> [t \in 0..l |-> source[i * l + t]]]
<1>7. ASSUME NEW i \in 0..(g - 1), NEW t \in 0..(l - 1)
      PROVE  /\ orb[i][0] = mid + i /\ mid + i \in B
             /\ orb[i][t + 1] \in B /\ orb[i][t + 1] = Moved(start, mid, end, orb[i][t])
             /\ tab[i][t] = source[i * l + t] /\ tab[i][t + 1] = source[(i * l + t) + 1]
             /\ \A p \in D : source[(i * l + t) + 1][p] =
                                source[i * l + t][Exchanged(orb[i][t + 1], mid + i, p)]
  <2> DEFINE k == (i * l + t) + 1
  <2>1. k \in 1..K /\ (k - 1) % l = t /\ (k - 1) \div l = i /\ k - 1 = i * l + t
    <3>1. /\ i * l + t \in Nat /\ (i * l + t) + 1 \in 1..(g * l)
          /\ (i * l + t) % l = t /\ (i * l + t) \div l = i
      BY <1>2, <1>g, SwapNumber
    <3> DEFINE x == i * l + t
    <3>2. x \in Nat /\ x + 1 \in 1..K /\ x % l = t /\ x \div l = i
      BY <3>1
    <3> HIDE DEF x, K
    <3>3. (x + 1) - 1 = x
      BY <3>2
    <3> QED
      BY <3>2, <3>3 DEF x
  <2>2. t \in 0..l /\ t + 1 \in 0..l /\ t + 1 # 0 /\ 0 \in 0..l /\ i * l + (t + 1) = k
    BY <1>2, <1>g
  <2>3. orb[i][0] = mid + i /\ orb[i][t + 1] = pos[k] /\ (t # 0 => orb[i][t] = pos[i * l + t])
    BY <2>2, Zenon
  <2>4. tab[i][t] = source[i * l + t] /\ tab[i][t + 1] = source[k]
    BY <2>2, Zenon
  <2> HIDE DEF orb, tab, k
  <2>5. pos[k] \in B /\ mid + i \in B
    BY <1>5, <2>1, Zenon
  <2>6. pos[k] = Moved(start, mid, end, orb[i][t])
    <3>1. pos[k] = Moved(start, mid, end, IF (k - 1) % l = 0 THEN mid + (k - 1) \div l ELSE pos[k - 1])
      BY <1>5, <2>1, Zenon
    <3>2. pos[k] = Moved(start, mid, end, IF t = 0 THEN mid + i ELSE pos[i * l + t])
      BY <2>1, <3>1, Zenon
    <3> QED
      BY <2>3, <3>2, Zenon
  <2>7. \A p \in D : source[k][p] = source[k - 1][Exchanged(pos[k], mid + i, p)]
    BY <1>5, <2>1, Zenon
  <2> QED
    BY <2>1, <2>2, <2>3, <2>4, <2>5, <2>6, <2>7, Zenon DEF k
<1>a. \A i \in 0..(g - 1), t \in 0..(l - 1) : orb[i][0] = mid + i /\ mid + i \in B /\ orb[i][t + 1] \in B
  <2> HIDE DEF orb, tab, B, D
  <2> QED
    BY <1>7, Zenon
<1>b. \A i \in 0..(g - 1), t \in 0..(l - 1) : orb[i][t + 1] = Moved(start, mid, end, orb[i][t])
  <2> HIDE DEF orb, tab, B, D
  <2> QED
    BY <1>7, Zenon
<1>c. \A i \in 0..(g - 1), t \in 0..(l - 1) :
          tab[i][t] = source[i * l + t] /\ tab[i][t + 1] = source[(i * l + t) + 1]
  <2> HIDE DEF orb, tab, B, D
  <2> QED
    BY <1>7, Zenon
<1>e. \A i \in 0..(g - 1), t \in 0..(l - 1), p \in D :
          tab[i][t + 1][p] = tab[i][t][Exchanged(orb[i][t + 1], orb[i][0], p)]
  <2> HIDE DEF orb, tab, B, D
  <2>1. \A i \in 0..(g - 1), t \in 0..(l - 1), p \in D : source[(i * l + t) + 1][p] =
           source[i * l + t][Exchanged(orb[i][t + 1], mid + i, p)]
    BY <1>7, Zenon
  <2> TAKE i \in 0..(g - 1), t \in 0..(l - 1), p \in D
  <2>2. /\ tab[i][t] = source[i * l + t] /\ tab[i][t + 1] = source[(i * l + t) + 1]
        /\ orb[i][0] = mid + i
    BY <1>a, <1>c, Zenon
  <2>3. source[(i * l + t) + 1][p] = source[i * l + t][Exchanged(orb[i][t + 1], mid + i, p)]
    BY <2>1, Zenon
  <2> QED
    BY <2>2, <2>3, Zenon
<1>8. /\ 0 \in 0..(l - 1) /\ 0 \in 0..(g - 1) /\ l - 1 \in 0..(l - 1) /\ (l - 1) + 1 = l
      /\ \A t \in 0..(l - 1) : t \in 0..l
      /\ \A t \in 0..l : t = 0 \/ (t - 1 \in 0..(l - 1) /\ (t - 1) + 1 = t)
  BY <1>2, <1>g
<1>9. orb \in [0..(g - 1) -> [0..l -> B]]
  <2>1. ASSUME NEW i \in 0..(g - 1), NEW t \in 0..l PROVE orb[i][t] \in B
    <3>1. CASE t = 0
      BY <1>8, <1>a, <3>1, Zenon
    <3>2. CASE t # 0
      BY <1>8, <1>a, <3>2, Zenon
    <3> QED
      BY <3>1, <3>2
  <2> DEFINE R(i) == [t \in 0..l |-> IF t = 0 THEN mid + i ELSE pos[i * l + t]]
  <2>2. ASSUME NEW i \in 0..(g - 1) PROVE R(i) \in [0..l -> B]
    <3>1. orb[i] = R(i)
      BY Zenon
    <3>2. \A t \in 0..l : R(i)[t] \in B
      BY <2>1, <3>1, Zenon
    <3> HIDE DEF B
    <3> QED
      BY <3>2, Zenon
  <2>3. orb = [i \in 0..(g - 1) |-> R(i)]
    BY Zenon
  <2> HIDE DEF R, orb
  <2> QED
    BY <2>2, <2>3, Zenon
<1> HIDE DEF orb, tab, K
<1>10. \A q \in B : mv[q] \in B /\ mv[q] = Moved(start, mid, end, q)
  BY DEF Moved
<1>11. \A q \in B : cls[q] \in 0..(g - 1)
  <2> TAKE q \in B
  <2> DEFINE x == q - start
  <2>1. x \in Nat
    OBVIOUS
  <2> HIDE DEF x
  <2>2. x % g \in 0..(g - 1)
    BY <1>g, <2>1
  <2> QED
    BY <2>2, Zenon DEF x
<1>12. ASSUME NEW i \in 0..(g - 1) PROVE Visits(orb[i], start, mid, end, g, l, i)
  <2> DEFINE o == orb[i]
  <2>1. /\ o[0] = mid + i
        /\ \A t \in 0..l : o[t] \in start..(end - 1)
        /\ \A t \in 0..(l - 1) : o[t + 1] = Moved(start, mid, end, o[t])
    BY <1>8, <1>9, <1>a, <1>b, Zenon
  <2> HIDE DEF o
  <2>2. Visits(o, start, mid, end, g, l, i)
    BY ZenonT(40), <1>3, <1>g, <2>1, CycleVisits
  <2> QED
    BY <2>2 DEF o
\* The class of a place is its distance from mid, up to multiples of g.
<1>13. PICK e \in Nat : mid - start = g * e
  BY <1>3, Zenon DEF Rotation
<1>14. ASSUME NEW i \in 0..(g - 1), NEW q \in B, NEW s \in Int, q = mid + i + g * s
       PROVE  cls[q] = i
  <2> DEFINE x == q - start
             h == e + s
  <2>1. x \in Nat /\ h \in Int /\ cls[q] = x % g
    OBVIOUS
  <2>2. x = g * h + i
    <3>1. g * h = g * e + g * s
      BY <1>g
    <3> DEFINE y == g * s
               z == g * e
               v == g * h
    <3>2. y \in Int /\ z = mid - start /\ v = z + y /\ q = mid + i + y
      BY <1>13, <1>14, <1>g, <3>1
    <3> HIDE DEF y, z, v, h
    <3>3. x = v + i
      BY <1>g, <3>2
    <3> QED
      BY <3>3 DEF v
  <2> HIDE DEF x, h
  <2>3. x % g = i
    <3>1. h >= 0
      <4>1. CASE h <= -1
        <5>1. g * h <= -g
          BY <1>g, <2>1, <4>1
        <5> QED
          BY <1>g, <2>1, <2>2, <5>1
      <4> QED
        BY <2>1, <4>1
    <3>2. h \in Nat
      BY <2>1, <3>1
    <3>3. (h * g + i) % g = i
      BY <1>g, <3>2
    <3>4. h * g = g * h
      BY <1>g, <3>2
    <3> QED
      BY <2>2, <3>3, <3>4
  <2> QED
    BY <2>1, <2>3
<1>15. ASSUME NEW q \in B PROVE \E s \in Int : q = mid + cls[q] + g * s
  <2> DEFINE x == q - start
             c == x % g
             h == x \div g
             s == h - e
  <2>1. x \in Nat
    OBVIOUS
  <2>2. h \in Nat /\ c \in Nat /\ x = g * h + c
    <3> HIDE DEF x
    <3> QED
      BY <1>g, <2>1
  <2>3. cls[q] = c
    BY Zenon
  <2> HIDE DEF c, h
  <2>5. s \in Int
    BY <2>2
  <2>4. q = mid + c + g * s
    <3>1. g * s = g * h - g * e
      BY <1>g, <2>2
    <3> DEFINE y == g * s
               z == g * e
               v == g * h
    <3>2. z = mid - start /\ y = v - z /\ v \in Int /\ q - start = v + c
      BY <1>13, <1>g, <2>2, <3>1
    <3> HIDE DEF y, z, v, s
    <3>3. q = mid + c + y
      BY <2>2, <3>2
    <3> QED
      BY <3>3 DEF y
  <2> HIDE DEF s, cls
  <2> QED
    BY <2>3, <2>4, <2>5, Zenon
<1> HIDE DEF cls
<1>16. Cycled(B, mv, cls, orb, g, l)
  <2>1. cls \in [B -> 0..(g - 1)]
    <3>1. cls = [q \in B |-> cls[q]]
      BY Zenon DEF cls
    <3> QED
      BY <1>11, <3>1, Zenon
  <2>2. mv \in [B -> B]
    BY <1>10, Zenon
  <2>3. \A i \in 0..(g - 1), t \in 0..(l - 1) : orb[i][t + 1] = mv[orb[i][t]]
    <3> TAKE i \in 0..(g - 1), t \in 0..(l - 1)
    <3>1. orb[i][t] \in B /\ orb[i][t + 1] = Moved(start, mid, end, orb[i][t])
      BY <1>8, <1>9, <1>b, Zenon
    <3> HIDE DEF mv
    <3> QED
      BY <1>10, <3>1, Zenon
  <2>4. \A i \in 0..(g - 1) : orb[i][l] = orb[i][0]
    BY <1>12, Zenon DEF Visits
  <2>5. \A i \in 0..(g - 1) : \A t, u \in 0..(l - 1) : orb[i][t] = orb[i][u] => t = u
    BY <1>12, Zenon DEF Visits
  <2>6. \A i \in 0..(g - 1), t \in 0..l : cls[orb[i][t]] = i
    <3> TAKE i \in 0..(g - 1), t \in 0..l
    <3>1. \E s \in Int : orb[i][t] = mid + i + g * s
      BY <1>12, Zenon DEF Visits
    <3>2. orb[i][t] \in B
      BY <1>9, Zenon
    <3> QED
      BY <1>14, <3>1, <3>2, Zenon
  <2>7. \A q \in B : \E t \in 0..(l - 1) : orb[cls[q]][t] = q
    <3> TAKE q \in B
    <3> DEFINE i == cls[q]
    <3>1. i \in 0..(g - 1) /\ \E s \in Int : q = mid + i + g * s
      BY <1>11, <1>15, Zenon
    <3> HIDE DEF i
    <3>2. \E t \in 0..(l - 1) : orb[i][t] = q
      BY <1>12, <3>1, Zenon DEF Visits
    <3> QED
      BY <3>2 DEF i
  <2> HIDE DEF mv
  <2> QED
    BY <1>2, <1>9, <1>g, <2>1, <2>2, <2>3, <2>4, <2>5, <2>6, <2>7, Zenon DEF Cycled
<1>17. Swapped(tab, B, orb, g, l)
  <2>1. \A q \in B : tab[0][0][q] = q
    <3>1. tab[0][0] = source[0 * l + 0]
      BY <1>8, <1>c, Zenon
    <3>2. 0 * l + 0 = 0
      BY <1>2
    <3>3. \A q \in B : q \in D
      BY <1>6, Zenon
    <3> QED
      BY <1>5, <3>1, <3>2, <3>3, Zenon
  <2>2. \A i \in 0..(g - 2) : tab[i + 1][0] = tab[i][l]
    <3> TAKE i \in 0..(g - 2)
    <3>1. i \in 0..(g - 1) /\ i + 1 \in 0..(g - 1) /\ i \in Nat
      BY <1>g
    <3>2. tab[i + 1][0] = source[(i + 1) * l + 0]
      BY <1>8, <1>c, <3>1, Zenon
    <3>3. tab[i][l] = source[(i * l + (l - 1)) + 1]
      <4>1. tab[i][(l - 1) + 1] = source[(i * l + (l - 1)) + 1]
        BY <1>8, <1>c, <3>1, Zenon
      <4> QED
        BY <1>8, <4>1, Zenon
    <3>4. (i + 1) * l + 0 = (i * l + (l - 1)) + 1
      BY <1>2, <3>1
    <3> QED
      BY <3>2, <3>3, <3>4, Zenon
  <2>3. \A i \in 0..(g - 1), t \in 0..(l - 1), q \in B :
            tab[i][t + 1][q] = tab[i][t][Exchanged(orb[i][t + 1], orb[i][0], q)]
    <3> TAKE i \in 0..(g - 1), t \in 0..(l - 1), q \in B
    <3>1. q \in D
      BY <1>6, Zenon
    <3> QED
      BY <1>e, <3>1, Zenon
  <2> QED
    BY <2>1, <2>2, <2>3, Zenon DEF Swapped
<1>18. \A q \in B : source[K][mv[q]] = q
  <2>1. \A q \in B : tab[g - 1][l][mv[q]] = q
    <3> HIDE DEF mv, B
    <3> QED
      BY <1>16, <1>17, <1>g, CyclesRotate
  <2>2. tab[g - 1][l] = source[((g - 1) * l + (l - 1)) + 1]
    <3>1. g - 1 \in 0..(g - 1)
      BY <1>g
    <3>2. tab[g - 1][(l - 1) + 1] = source[((g - 1) * l + (l - 1)) + 1]
      BY <1>8, <1>c, <3>1, Zenon
    <3> QED
      BY <1>8, <3>2, Zenon
  <2>3. ((g - 1) * l + (l - 1)) + 1 = K
    BY <1>2, <1>g DEF K
  <2> HIDE DEF mv
  <2> QED
    BY <2>1, <2>2, <2>3, Zenon
\* Nothing outside the blocks moves.
<1>19. ASSUME NEW p \in D, p \notin B PROVE source[K][p] = p
  <2> DEFINE T == {k \in 0..K : source[k][p] = p}
  <2>1. 0 \in T
    <3>1. 0 \in 0..K
      BY <1>4
    <3> QED
      BY <1>5, <3>1, Zenon
  <2>2. ASSUME NEW k \in T, k \in 0..(K - 1) PROVE k + 1 \in T
    <3>1. k + 1 \in 1..K /\ k + 1 \in 0..K /\ (k + 1) - 1 = k
      BY <1>4, <2>2
    <3>2. source[k + 1][p] = source[(k + 1) - 1][Exchanged(pos[k + 1], mid + ((k + 1) - 1) \div l, p)]
      BY <1>5, <3>1, Zenon
    <3>3. Exchanged(pos[k + 1], mid + ((k + 1) - 1) \div l, p) = p
      <4> DEFINE y == mid + ((k + 1) - 1) \div l
      <4>1. pos[k + 1] \in B /\ y \in B
        BY <1>5, <3>1, Zenon
      <4> HIDE DEF y
      <4>2. Exchanged(pos[k + 1], y, p) = p
        BY <1>19, <4>1, Zenon DEF Exchanged
      <4> QED
        BY <4>2 DEF y
    <3> QED
      BY <3>1, <3>2, <3>3, Zenon
  <2>3. 0..K \subseteq T
    <3> HIDE DEF T
    <3> QED
      BY <1>4, <2>1, <2>2, BoundedInduction
  <2>4. K \in 0..K
    BY <1>4
  <2> QED
    BY <2>3, <2>4, Zenon
<1>20. \A p \in D : r[p] = nargv[source[K][p]]
  BY <1>1, Zenon DEF K
<1>21. \A p \in D : p < start \/ p >= end => p \notin B
  BY <1>d
<1>22. \A q \in B : r[Moved(start, mid, end, q)] = nargv[q]
  <2> TAKE q \in B
  <2>1. mv[q] \in D /\ mv[q] = Moved(start, mid, end, q)
    <3> HIDE DEF mv
    <3> QED
      BY <1>6, <1>10, Zenon
  <2> HIDE DEF mv
  <2> QED
    BY <1>18, <1>20, <2>1, Zenon
<1>23. DOMAIN r = D /\ Len(r) = N
  <2> DEFINE S == {r[p] : p \in D}
  <2>1. r = [p \in D |-> r[p]]
    BY <1>1, Zenon
  <2>2. r \in [D -> S]
    BY <2>1
  <2> HIDE DEF S
  <2>3. r \in Seq(S) /\ Len(r) = N
    BY <1>d, <2>2
  <2> QED
    BY <2>1, <2>3
<1> HIDE DEF D
<1>24. Rotated(r, start, mid, end, nargv, N)
  BY <1>19, <1>20, <1>21, <1>22, <1>23, <1>d, Zenon DEF Rotated
<1> QED
  BY <1>24 DEF r

\* What lies behind the blocks stays, and nothing is lost or added.
LEMMA PermuteKeeps ==
    ASSUME NEW start \in Nat, NEW mid \in Nat, NEW end \in Nat, start < mid, mid < end,
           NEW nargv, NEW N \in Nat, DOMAIN nargv = 1..N, start > 0, end <= N + 1
    PROVE  /\ DOMAIN permute_args(start, mid, end, nargv) = 1..N
           /\ Len(permute_args(start, mid, end, nargv)) = N
           /\ \A p \in end..N : permute_args(start, mid, end, nargv)[p] = nargv[p]
<1> DEFINE r == permute_args(start, mid, end, nargv)
<1>1. Rotated(r, start, mid, end, nargv, N)
  BY PermuteRotates
<1>2. \A p \in end..N : p \in 1..N /\ p >= end
  OBVIOUS
<1> HIDE DEF r
<1>3. DOMAIN r = 1..N /\ Len(r) = N /\ \A p \in end..N : r[p] = nargv[p]
  BY <1>1, <1>2, Zenon DEF Rotated
<1> QED
  BY <1>3 DEF r

-----------------------------------------------------------------------------
(* The inductive invariant *)

\* What the parser has not read yet stands where it stood on the line, and the
\* cluster it is in is still before the end of argv.
Unread ==
    /\ place # <<>> => optind < argc
    /\ outcome = "none" => \A i \in optind..Len(line) : args[i] = line[i]

IInv ==
    /\ line \in Lines
    /\ Len(args) = Len(line) /\ DOMAIN args = 1..Len(line)
    /\ nonopt_end \in {-1} \cup Nat
    /\ IndicesOK
    /\ Unread
    /\ PathFollowsCommand
    /\ ArgumentIsThere

\* An argument of the line is not NULL.
LEMMA NotNull ==
    ASSUME line \in Lines, NEW i \in 1..Len(line)
    PROVE  line[i] # NULL
<1>1. line[i].kind \in {"word", "end", "short", "long"}
  BY LinesAssumption
<1> QED
  BY <1>1 DEF NULL

\* getopt_long returns an option: the parser moves on by at most its argument.
LEMMA FoundKeeps ==
    ASSUME IInv, outcome = "none", NEW ch, NEW optarg, NEW next \in Nat, NEW letters,
           Found(ch, optarg, next, letters),
           next \in optind..argc, next = optind => letters # <<>>,
           letters # <<>> => next < argc,
           place = <<>> \/ letters # <<>> \/ next > optind,
           ch = "v" => optarg # NULL
    PROVE  IInv'
<1> DEFINE N == Len(line)
<1>1. /\ N \in Nat /\ line \in Lines /\ Len(args) = N /\ DOMAIN args = 1..N /\ argc = N + 1
      /\ nonopt_end \in {-1} \cup Nat /\ optind \in 1..(N + 1)
      /\ nonopt_start \in {-1} \cup 1..(optind - 1)
      /\ nonopt_end # -1 => /\ nonopt_start # -1 /\ nonopt_start < nonopt_end
                            /\ nonopt_end < optind \/ (nonopt_end = optind /\ place # <<>>)
      /\ \A i \in optind..N : args[i] = line[i]
  BY LinesAssumption DEF IInv, IndicesOK, argc, Unread
<1>2. /\ line' = line /\ args' = args /\ optind' = next /\ place' = letters
      /\ nonopt_start' = nonopt_start /\ nonopt_end' = BlockEnd /\ argc' = argc
  BY Zenon DEF Found, argc
<1>3. IndicesOK' /\ nonopt_end' \in {-1} \cup Nat
  BY <1>1, <1>2 DEF IndicesOK, BlockEnd
<1>4. Unread'
  BY <1>1, <1>2 DEF Unread
<1>5. PathFollowsCommand'
  <2>1. SUFFICES ASSUME outcome' \in {"c", "i", "l"}
                 PROVE  path' = IF next <= N THEN line[next] ELSE NULL
    BY <1>2, Zenon DEF PathFollowsCommand
  <2>2. path' = PathAt(next)
    BY <1>2, <2>1, Zenon DEF Found, Dispatch
  <2>3. next <= N <=> next < argc
    BY <1>1
  <2>4. next <= N => args[next] = line[next]
    BY <1>1
  <2> QED
    BY <2>2, <2>3, <2>4, Zenon DEF PathAt
<1>6. ArgumentIsThere'
  <2>1. (verbosity' = optarg /\ ch = "v") \/ verbosity' = verbosity
    BY Zenon DEF Found, Dispatch
  <2> QED
    BY <2>1, Zenon DEF ArgumentIsThere, IInv
<1> QED
  BY <1>1, <1>2, <1>3, <1>4, <1>5, <1>6, Zenon DEF IInv

\* Option o takes the argument at next, or there is none.
LEMMA TakeNextKeeps ==
    ASSUME IInv, outcome = "none", NEW o, TakeNext(o, optind + 1), optind < argc
    PROVE  IInv'
<1>1. /\ Len(line) \in Nat /\ line \in Lines /\ argc = Len(line) + 1 /\ optind \in 1..argc
      /\ \A i \in optind..Len(line) : args[i] = line[i]
  BY LinesAssumption DEF IInv, IndicesOK, argc, Unread
<1>2. CASE optind + 1 < argc /\ Found(o, args[optind + 1], optind + 2, <<>>)
  <2>1. args[optind + 1] # NULL
    <3>1. optind + 1 \in 1..Len(line) /\ args[optind + 1] = line[optind + 1]
      BY <1>1, <1>2
    <3> QED
      BY <1>1, <3>1, NotNull
  <2>2. optind + 2 \in Nat /\ optind + 2 \in optind..argc /\ optind + 2 # optind /\ optind + 2 > optind
    BY <1>1, <1>2
  <2> DEFINE next == optind + 2
             given == args[optind + 1]
  <2>3. next \in Nat /\ next \in optind..argc /\ next # optind /\ next > optind /\ given # NULL
    BY <2>1, <2>2
  <2>4. Found(o, given, next, <<>>)
    BY <1>2
  <2> HIDE DEF next, given
  <2> QED
    BY <2>3, <2>4, FoundKeeps
<1>3. CASE optind + 1 >= argc /\ Found("?", NULL, optind + 1, <<>>)
  <2> DEFINE next == optind + 1
  <2>1. next \in Nat /\ next \in optind..argc /\ next # optind /\ next > optind
    BY <1>1, <1>3
  <2>2. Found("?", NULL, next, <<>>)
    BY <1>3
  <2> HIDE DEF next
  <2> QED
    BY <2>1, <2>2, FoundKeeps
<1>4. (optind + 1) + 1 = optind + 2
  BY <1>1
<1> QED
  BY <1>2, <1>3, <1>4 DEF TakeNext

\* The actions that read an option, and those that do not.
LEMMA ReadsOption ==
    ASSUME IInv, parse_long_options \/ ShortOption
    PROVE  IInv'
<1>1. /\ Len(line) \in Nat /\ argc = Len(line) + 1 /\ optind \in 1..argc
  BY LinesAssumption DEF IInv, IndicesOK, argc
<1>2. outcome = "none" /\ optind < argc
  BY Zenon DEF parse_long_options, ShortOption, AtArgument, IInv, Unread
<1> DEFINE next == optind + 1
<1>3. /\ next \in Nat /\ next \in optind..argc /\ next # optind /\ next > optind
      /\ optind \in Nat /\ optind \in optind..argc
  BY <1>1, <1>2
<1> HIDE DEF next
<1>4. ASSUME NEW ch, NEW optarg, Found(ch, optarg, next, <<>>), ch = "v" => optarg # NULL
      PROVE  IInv'
  BY <1>2, <1>3, <1>4, FoundKeeps
<1>5. ASSUME NEW ch, NEW rest, ch # "v", Found(ch, NULL, AfterLetter(rest), rest)
      PROVE  IInv'
  <2>1. CASE rest = <<>>
    BY <1>4, <1>5, <2>1 DEF AfterLetter, next
  <2>2. CASE rest # <<>>
    <3>1. Found(ch, NULL, optind, rest)
      BY <1>5, <2>2, Zenon DEF AfterLetter
    <3> QED
      BY <1>2, <1>3, <1>5, <2>2, <3>1, FoundKeeps
  <2> QED
    BY <2>1, <2>2
<1>6. ASSUME NEW o, TakeNext(o, next) PROVE IInv'
  BY <1>2, <1>6, TakeNextKeeps DEF next
<1>7. ASSUME NEW k, NEW r PROVE [kind |-> "value"] # NULL /\ [kind |-> "rest", letters |-> r] # NULL
  BY DEF NULL
<1>8. CASE parse_long_options
  <2> DEFINE a == args[optind]
  <2>1. CASE Found("?", NULL, next, <<>>)
    BY <1>4, <2>1
  <2>2. ASSUME NEW o \in Options, ~TakesArgument(o),
               Found(IF a.eq THEN "?" ELSE o, NULL, next, <<>>)
        PROVE  IInv'
    <3>1. (IF a.eq THEN "?" ELSE o) # "v"
      BY <2>2 DEF TakesArgument
    <3> HIDE DEF a
    <3> QED
      BY <1>4, <2>2, <3>1, Zenon
  <2>3. CASE \E o \in Options : Found(o, [kind |-> "value"], next, <<>>)
    BY <1>4, <1>7, <2>3, Zenon
  <2>4. CASE \E o \in Options : TakeNext(o, next)
    BY <1>6, <2>4, Zenon
  <2> QED
    BY <1>8, <2>1, <2>2, <2>3, <2>4, Zenon DEF parse_long_options, next
<1>9. CASE ShortOption
  <2> DEFINE letters == IF place # <<>> THEN place ELSE args[optind].letters
             ch == Head(letters)
             rest == Tail(letters)
  <2>1. \/ ch \notin Options /\ Found("?", NULL, AfterLetter(rest), rest)
        \/ ch \in Options /\ ~TakesArgument(ch) /\ Found(ch, NULL, AfterLetter(rest), rest)
        \/ ch \in Options /\ TakesArgument(ch) /\ Found(ch, [kind |-> "rest", letters |-> rest], next, <<>>)
        \/ ch \in Options /\ TakesArgument(ch) /\ TakeNext(ch, next)
    BY <1>9, Zenon DEF ShortOption, next
  <2> HIDE DEF ch, rest
  <2>2. CASE Found("?", NULL, AfterLetter(rest), rest)
    BY <1>5, <2>2
  <2>3. CASE ~TakesArgument(ch) /\ Found(ch, NULL, AfterLetter(rest), rest)
    BY <1>5, <2>3, Zenon DEF TakesArgument
  <2>4. CASE Found(ch, [kind |-> "rest", letters |-> rest], next, <<>>)
    BY <1>4, <1>7, <2>4, Zenon
  <2>5. CASE TakeNext(ch, next)
    BY <1>6, <2>5, Zenon
  <2> QED
    BY <2>1, <2>2, <2>3, <2>4, <2>5, Zenon
<1> QED
  BY <1>8, <1>9, Zenon

\* getopt_long returns -1: the blocks it exchanges are not empty.
LEMMA FinishKeeps ==
    ASSUME IInv, outcome = "none", KeepLine, NEW last \in Nat, NEW nonopts_end \in {-1} \cup Nat,
           Finish(last, nonopts_end),
           last >= 1, last <= argc,
           nonopt_start # -1 => nonopt_start < last,
           nonopts_end # -1 => nonopt_start # -1 /\ nonopt_start < nonopts_end /\ nonopts_end < last
    PROVE  IInv'
<1> DEFINE N == Len(line)
<1>1. /\ N \in Nat /\ line \in Lines /\ Len(args) = N /\ DOMAIN args = 1..N /\ argc = N + 1
      /\ nonopt_start \in {-1} \cup 1..(optind - 1) /\ optind \in 1..(N + 1)
  BY LinesAssumption DEF IInv, IndicesOK, argc
<1>2. /\ line' = line /\ nonopt_start' = -1 /\ nonopt_end' = -1 /\ place' = <<>>
      /\ outcome' = "end" /\ verbosity' = verbosity
  BY Zenon DEF Finish, KeepLine, LeavesLoop
<1>3. Len(args') = N /\ DOMAIN args' = 1..N
  <2>1. CASE nonopts_end = -1
    BY <1>1, <2>1, Zenon DEF Finish
  <2>2. CASE nonopts_end # -1
    <3>1. args' = permute_args(nonopt_start, nonopts_end, last, args)
      BY <2>2, Zenon DEF Finish
    <3>2. /\ nonopt_start \in Nat /\ nonopts_end \in Nat /\ nonopt_start > 0 /\ last <= N + 1
          /\ nonopt_start < nonopts_end /\ nonopts_end < last
      BY <1>1, <2>2
    <3>3. N \in Nat /\ DOMAIN args = 1..N
      BY <1>1
    <3> DEFINE r == permute_args(nonopt_start, nonopts_end, last, args)
    <3>4. Len(r) = N /\ DOMAIN r = 1..N
      <4> HIDE DEF N
      <4> QED
        BY <3>2, <3>3, PermuteKeeps
    <3> QED
      BY <3>1, <3>4
  <2> QED
    BY <2>1, <2>2
<1>4. optind' \in 1..(N + 1)
  <2>1. \/ nonopts_end # -1 /\ optind' = last - (nonopts_end - nonopt_start)
        \/ nonopts_end = -1 /\ optind' = IF nonopt_start # -1 THEN nonopt_start ELSE last
    BY Zenon DEF Finish
  <2> QED
    BY <1>1, <2>1
<1>5. IndicesOK' /\ nonopt_end' \in {-1} \cup Nat
  BY <1>1, <1>2, <1>3, <1>4 DEF IndicesOK, argc
<1>6. Unread' /\ PathFollowsCommand'
  BY <1>2 DEF Unread, PathFollowsCommand
<1>7. ArgumentIsThere'
  BY <1>2, Zenon DEF ArgumentIsThere, IInv
<1> QED
  BY <1>1, <1>2, <1>3, <1>5, <1>6, <1>7, Zenon DEF IInv

\* The steps that read no option keep the invariant.
LEMMA ReadsNoOption ==
    ASSUME IInv, EndOfArguments \/ StopAtWord \/ SkipWord \/ DashDash
    PROVE  IInv'
<1> DEFINE N == Len(line)
<1>1. /\ N \in Nat /\ line \in Lines /\ Len(args) = N /\ DOMAIN args = 1..N /\ argc = N + 1
      /\ nonopt_end \in {-1} \cup Nat /\ optind \in 1..(N + 1) /\ optind \in Nat
      /\ nonopt_start \in {-1} \cup 1..(optind - 1)
      /\ nonopt_end # -1 => /\ nonopt_start # -1 /\ nonopt_start < nonopt_end
                            /\ nonopt_end < optind \/ (nonopt_end = optind /\ place # <<>>)
  BY LinesAssumption DEF IInv, IndicesOK, argc
<1>2. outcome = "none" /\ place = <<>> /\ \A i \in optind..N : args[i] = line[i]
  BY Zenon DEF EndOfArguments, StopAtWord, SkipWord, DashDash, AtArgument, IInv, Unread
<1>3. CASE EndOfArguments
  <2>1. Finish(optind, nonopt_end) /\ KeepLine
    BY <1>3, Zenon DEF EndOfArguments
  <2>2. /\ optind >= 1 /\ optind <= argc /\ (nonopt_start # -1 => nonopt_start < optind)
        /\ nonopt_end # -1 => nonopt_start # -1 /\ nonopt_start < nonopt_end /\ nonopt_end < optind
    BY <1>1, <1>2
  <2> QED
    BY <1>1, <1>2, <2>1, <2>2, FinishKeeps
<1>4. CASE DashDash
  <2> DEFINE last == optind + 1
  <2>1. Finish(last, BlockEnd) /\ KeepLine /\ optind < argc
    BY <1>4, Zenon DEF DashDash, AtArgument
  <2>2. /\ BlockEnd \in {-1} \cup Nat
        /\ BlockEnd # -1 => nonopt_start # -1 /\ nonopt_start < BlockEnd /\ BlockEnd < last
    BY <1>1, <1>2 DEF BlockEnd
  <2>3. last \in Nat /\ last >= 1 /\ last <= argc /\ (nonopt_start # -1 => nonopt_start < last)
    BY <1>1, <2>1
  <2> HIDE DEF last
  <2> QED
    BY <1>2, <2>1, <2>2, <2>3, FinishKeeps
<1>5. CASE StopAtWord
  <2>1. /\ line' = line /\ args' = args /\ optind' = optind /\ place' = place
        /\ nonopt_start' = nonopt_start /\ nonopt_end' = nonopt_end
        /\ verbosity' = verbosity /\ outcome' = "end"
    BY <1>5, Zenon DEF StopAtWord, LeavesLoop
  <2>2. IndicesOK' /\ Unread' /\ PathFollowsCommand' /\ ArgumentIsThere'
    BY <1>2, <2>1 DEF IInv, IndicesOK, argc, Unread, PathFollowsCommand, ArgumentIsThere
  <2> QED
    BY <1>1, <2>1, <2>2, Zenon DEF IInv
<1>6. CASE SkipWord
  <2>1. /\ line' = line /\ optind' = optind + 1 /\ place' = place /\ verbosity' = verbosity
        /\ outcome' = outcome /\ path' = path /\ optind < argc
    BY <1>6, Zenon DEF SkipWord, AtArgument, KeepLine
  <2>2. /\ Len(args') = N /\ DOMAIN args' = 1..N
        /\ \A i \in (optind + 1)..N : args'[i] = line[i]
        /\ nonopt_start' \in {-1} \cup 1..optind /\ nonopt_end' = -1
    <3>1. CASE nonopt_start # -1 /\ nonopt_end # -1
      <4>1. /\ args' = permute_args(nonopt_start, nonopt_end, optind, args)
            /\ nonopt_start' = optind - (nonopt_end - nonopt_start) /\ nonopt_end' = -1
        BY <1>6, <3>1, Zenon DEF SkipWord
      <4> DEFINE r == permute_args(nonopt_start, nonopt_end, optind, args)
      <4>2. Len(r) = N /\ DOMAIN r = 1..N /\ \A p \in optind..N : r[p] = args[p]
        <5>1. /\ nonopt_start \in Nat /\ nonopt_end \in Nat /\ nonopt_start > 0
              /\ nonopt_start < nonopt_end /\ nonopt_end < optind /\ optind <= N + 1
          BY <1>1, <1>2, <3>1
        <5>2. N \in Nat /\ DOMAIN args = 1..N /\ optind \in Nat
          BY <1>1
        <5> HIDE DEF N
        <5> QED
          BY <5>1, <5>2, PermuteKeeps
      <4> HIDE DEF r
      <4>3. \A i \in (optind + 1)..N : r[i] = line[i]
        BY <1>1, <1>2, <4>2
      <4>4. nonopt_start' \in 1..optind
        BY <1>1, <1>2, <3>1, <4>1
      <4> QED
        BY <4>1, <4>2, <4>3, <4>4 DEF r
    <3>2. CASE ~(nonopt_start # -1 /\ nonopt_end # -1)
      <4>1. /\ nonopt_start' = IF nonopt_start = -1 THEN optind ELSE nonopt_start
            /\ args' = args /\ nonopt_end' = nonopt_end
        BY <1>6, <3>2, Zenon DEF SkipWord
      <4> QED
        BY <1>1, <1>2, <3>2, <4>1
    <3> QED
      BY <3>1, <3>2
  <2>3. IndicesOK' /\ nonopt_end' \in {-1} \cup Nat
    BY <1>1, <2>1, <2>2 DEF IndicesOK, argc
  <2>4. Unread'
    BY <1>1, <1>2, <2>1, <2>2 DEF Unread
  <2>5. PathFollowsCommand' /\ ArgumentIsThere'
    BY <1>2, <2>1, Zenon DEF IInv, PathFollowsCommand, ArgumentIsThere
  <2> QED
    BY <1>1, <2>1, <2>2, <2>3, <2>4, <2>5, Zenon DEF IInv
<1> QED
  BY <1>3, <1>4, <1>5, <1>6, Zenon

\* The invariant holds before anything is read.
LEMMA Starts == Init => IInv
<1> SUFFICES ASSUME Init PROVE IInv
  OBVIOUS
<1>1. /\ line \in Lines /\ args = line /\ Len(line) \in Nat /\ DOMAIN line = 1..Len(line)
      /\ optind = 1 /\ place = <<>> /\ nonopt_start = -1 /\ nonopt_end = -1 /\ outcome = "none"
  BY LinesAssumption, Zenon DEF Init
<1>2. IndicesOK /\ Unread /\ PathFollowsCommand
  BY <1>1 DEF IndicesOK, Unread, PathFollowsCommand, argc
<1>3. ArgumentIsThere
  BY DEF Init, ArgumentIsThere, NULL
<1> QED
  BY <1>1, <1>2, <1>3 DEF IInv

\* Every step of the parser keeps the invariant.
LEMMA StepKeeps == IInv /\ [Next]_vars => IInv'
<1> SUFFICES ASSUME IInv, [Next]_vars PROVE IInv'
  OBVIOUS
<1>1. CASE UNCHANGED vars
  BY <1>1, Zenon DEF vars, IInv, IndicesOK, Unread, PathFollowsCommand, ArgumentIsThere, argc
<1> QED
  BY <1>1, ReadsOption, ReadsNoOption, Zenon DEF Next

-----------------------------------------------------------------------------
\* Where the first n arguments of line a stand in A, when w words among them are
\* in a block that begins at s: options that came after the block was formed
\* stand behind it.
StandsAt(role, ahead, s, w, i) ==
    IF IsAhead(role[i]) THEN IF ahead[i] < s THEN ahead[i] ELSE ahead[i] + w
    ELSE (s - 1) + (i - ahead[i])

Standing(A, a, role, ahead, s, w, n) ==
    \A i \in 1..n : A[StandsAt(role, ahead, s, w, i)] = a[i]

\* What was read is an option, the argument of one, or a word, and what comes
\* next is no option's argument.
ReadSoFar(a, role, n) ==
    /\ \A i \in 1..n : role[i] \in {"option", "argument", "word"}
    /\ n < Len(a) => ~(role[n] = "option" /\ TakesNext(a[n]))

\* The cluster the parser is in: k letters of it have been read, none is "v".
InCluster(a, rest) ==
    /\ a.kind = "short"
    /\ \E k \in 1..(Len(a.letters) - 1) :
          /\ Len(rest) = Len(a.letters) - k
          /\ \A j \in 1..Len(rest) : rest[j] = a.letters[k + j]
          /\ \A j \in 1..k : a.letters[j] # "v"

\* The words among the first n arguments are in the block that begins at s, if
\* there are any, and the block ends at e, or with the n-th if e is -1.
BlocksAt(A, a, role, ahead, s, e, n) ==
    LET w == n - ahead[n]
    IN  /\ Standing(A, a, role, ahead, s, w, n)
        /\ s = -1 <=> w = 0
        /\ s # -1 => IF e = -1 THEN s = ahead[n] + 1 ELSE e = s + w

\* While the line is read: the arguments before optind stand as the blocks say,
\* and the cluster being read is what is left of the argument at optind.
Reading ==
    outcome = "none" =>
        LET role == Roles(line, posix)
            ahead == Ahead(role, Len(line))
        IN  /\ ReadSoFar(line, role, optind - 1)
            /\ posix => nonopt_start = -1
            /\ place # <<>> => place \in Seq(STRING) /\ InCluster(line[optind], place)
            /\ BlocksAt(args, line, role, ahead, nonopt_start, nonopt_end, optind - 1)

-----------------------------------------------------------------------------
\* The role of argument i after one of role r, and the table of all roles.
NextRole(a, stopsAtWord, i, r) ==
    IF r \in {"end", "rest"} THEN "rest"
    ELSE IF r = "option" /\ TakesNext(a[i - 1]) THEN "argument"
    ELSE IF a[i].kind = "end" THEN "end"
    ELSE IF a[i].kind # "word" THEN "option"
    ELSE IF stopsAtWord THEN "rest" ELSE "word"

RoleNames == {"none", "rest", "argument", "end", "option", "word"}

\* Roles is the table that NextRole describes.
LEMMA RolesTable ==
    ASSUME NEW a, NEW px, Len(a) \in Nat
    PROVE  /\ Roles(a, px)[0] = "none"
           /\ \A i \in 1..Len(a) : Roles(a, px)[i] = NextRole(a, px, i, Roles(a, px)[i - 1])
           /\ \A i \in 0..Len(a) : Roles(a, px)[i] \in RoleNames
<1> DEFINE n == Len(a)
           F(f) == [i \in 0..n |-> IF i = 0 THEN "none" ELSE NextRole(a, px, i, f[i - 1])]
           role == CHOOSE f : f = F(f)
<1>1. Roles(a, px) = role
  BY Zenon DEF Roles, NextRole
<1>2. n \in Nat
  OBVIOUS
<1> DEFINE step == [i \in 1..n |-> [r \in RoleNames |-> NextRole(a, px, i, r)]]
<1>3. \A i \in 1..n, r \in RoleNames : step[i][r] = NextRole(a, px, i, r) /\ step[i][r] \in RoleNames
  BY Zenon DEF NextRole, RoleNames
<1>4. "none" \in RoleNames
  BY DEF RoleNames
<1> HIDE DEF step, n
<1>5. \E f : Iterates(f, n, RoleNames, "none", step)
  BY <1>2, <1>3, <1>4, Iteration, Zenon
<1>6. PICK f \in [0..n -> RoleNames] : f[0] = "none" /\ \A i \in 1..n : f[i] = step[i][f[i - 1]]
  BY <1>5, Zenon DEF Iterates
<1>7. \A i \in 1..n : f[i] = NextRole(a, px, i, f[i - 1])
  <2> TAKE i \in 1..n
  <2>1. i - 1 \in 0..n
    BY <1>2
  <2>2. f[i - 1] \in RoleNames
    BY <1>6, <2>1, Zenon
  <2> QED
    BY <1>3, <1>6, <2>2, Zenon
<1>8. f = F(f)
  <2>1. f = [i \in 0..n |-> f[i]]
    BY <1>6, Zenon
  <2>2. ASSUME NEW i \in 0..n PROVE f[i] = IF i = 0 THEN "none" ELSE NextRole(a, px, i, f[i - 1])
    <3>1. i # 0 => i \in 1..n
      BY <1>2
    <3> QED
      BY <1>6, <1>7, <3>1, Zenon
  <2> QED
    BY <2>1, <2>2, Zenon
<1>9. role = F(role)
  BY <1>8, Zenon
<1> HIDE DEF role
<1>10. \A i \in 0..n : role[i] = IF i = 0 THEN "none" ELSE NextRole(a, px, i, role[i - 1])
  BY <1>9, Zenon
<1>11. 0 \in 0..n /\ \A i \in 1..n : i \in 0..n /\ i # 0
  BY <1>2
<1>12. role[0] = "none" /\ \A i \in 1..n : role[i] = NextRole(a, px, i, role[i - 1])
  BY <1>10, <1>11, Zenon
<1>13. \A i \in 0..n : role[i] \in RoleNames
  BY <1>10, <1>4, Zenon DEF NextRole, RoleNames
<1> QED
  BY <1>1, <1>12, <1>13, Zenon DEF n

\* The table of Ahead.
Counts(ahead, role, n) ==
    /\ ahead[0] = 0
    /\ \A i \in 1..n : ahead[i] = IF IsAhead(role[i]) THEN ahead[i - 1] + 1 ELSE ahead[i - 1]
    /\ \A i \in 0..n : ahead[i] \in 0..i

\* Ahead counts the arguments that go before the words.
LEMMA AheadTable ==
    ASSUME NEW role, NEW n \in Nat
    PROVE  Counts(Ahead(role, n), role, n)
<1> DEFINE G(i, v) == IF IsAhead(role[i]) THEN v + 1 ELSE v
           F(f) == [i \in 0..n |-> IF i = 0 THEN 0
                                   ELSE IF IsAhead(role[i]) THEN f[i - 1] + 1 ELSE f[i - 1]]
           ahead == CHOOSE f : f = F(f)
           step == [i \in 1..n |-> [v \in Nat |-> G(i, v)]]
<1>1. Ahead(role, n) = ahead
  BY Zenon DEF Ahead
<1>2. \A i \in 1..n, v \in Nat : step[i][v] = G(i, v)
  BY Zenon
<1>3. \A i \in 1..n, v \in Nat : step[i][v] \in Nat
  <2>1. \A i \in 1..n, v \in Nat : G(i, v) \in Nat
    OBVIOUS
  <2> HIDE DEF G, step
  <2> QED
    BY <1>2, <2>1, Zenon
<1> HIDE DEF step
<1>5. \E f : Iterates(f, n, Nat, 0, step)
  BY ZenonT(40), <1>3, Iteration
<1>6. PICK f \in [0..n -> Nat] : f[0] = 0 /\ \A i \in 1..n : f[i] = step[i][f[i - 1]]
  BY <1>5, Zenon DEF Iterates
<1>7. \A i \in 1..n : f[i] = IF IsAhead(role[i]) THEN f[i - 1] + 1 ELSE f[i - 1]
  <2> TAKE i \in 1..n
  <2>1. i - 1 \in 0..n
    OBVIOUS
  <2>2. f[i - 1] \in Nat
    BY <1>6, <2>1, Zenon
  <2> QED
    BY <1>2, <1>6, <2>2, Zenon
<1>8. f = F(f)
  <2>1. f = [i \in 0..n |-> f[i]]
    BY <1>6, Zenon
  <2>2. ASSUME NEW i \in 0..n
        PROVE  f[i] = IF i = 0 THEN 0 ELSE IF IsAhead(role[i]) THEN f[i - 1] + 1 ELSE f[i - 1]
    <3>1. i # 0 => i \in 1..n
      OBVIOUS
    <3> QED
      BY <1>6, <1>7, <3>1, Zenon
  <2> QED
    BY <2>1, <2>2, Zenon
<1>9. ahead = F(ahead)
  BY <1>8, Zenon
<1> HIDE DEF ahead
<1>10. \A i \in 0..n : ahead[i] = IF i = 0 THEN 0 ELSE IF IsAhead(role[i]) THEN ahead[i - 1] + 1 ELSE ahead[i - 1]
  BY <1>9, Zenon
<1>11. 0 \in 0..n /\ \A i \in 1..n : i \in 0..n /\ i # 0
  OBVIOUS
<1>12. ahead[0] = 0 /\ \A i \in 1..n : ahead[i] = IF IsAhead(role[i]) THEN ahead[i - 1] + 1 ELSE ahead[i - 1]
  BY <1>10, <1>11, Zenon
<1> DEFINE T == {i \in 0..n : ahead[i] \in 0..i}
<1>13. 0 \in T
  BY <1>11, <1>12
<1>14. ASSUME NEW i \in T, i \in 0..(n - 1) PROVE i + 1 \in T
  <2>1. i + 1 \in 1..n /\ i + 1 \in 0..n /\ (i + 1) - 1 = i /\ i \in Nat
    BY <1>14
  <2>2. ahead[i + 1] = IF IsAhead(role[i + 1]) THEN ahead[i] + 1 ELSE ahead[i]
    BY <1>12, <2>1
  <2> QED
    BY <2>1, <2>2
<1>15. 0..n \subseteq T
  <2> HIDE DEF T
  <2> QED
    BY ZenonT(40), <1>13, <1>14, BoundedInduction
<1>16. \A i \in 0..n : ahead[i] \in 0..i
  BY <1>15, Zenon
<1> QED
  BY <1>1, <1>12, <1>16, Zenon DEF Counts

\* Both groups are counted in order.
LEMMA CountsGrow ==
    ASSUME NEW role, NEW ahead, NEW n \in Nat, Counts(ahead, role, n), NEW i \in 0..n, NEW j \in i..n
    PROVE  ahead[i] <= ahead[j] /\ ahead[j] - ahead[i] <= j - i
<1> DEFINE Good(k) == ahead[i] <= ahead[i + k] /\ ahead[i + k] - ahead[i] <= k
           m == n - i
           T == {k \in 0..m : Good(k)}
<1>1. m \in Nat /\ i \in Nat
  OBVIOUS
<1>2. 0 \in T
  <2>1. ahead[i] \in Int /\ i + 0 = i /\ 0 \in 0..m
    BY DEF Counts
  <2> QED
    BY <2>1
<1>3. ASSUME NEW k \in T, k \in 0..(m - 1) PROVE k + 1 \in T
  <2> DEFINE p == i + k
  <2>1. p \in 0..n /\ p + 1 \in 1..n /\ p + 1 \in 0..n /\ (p + 1) - 1 = p /\ i + (k + 1) = p + 1 /\ k + 1 \in 0..m
        /\ k \in Nat
    BY <1>1, <1>3
  <2>2. ahead[p] \in Int /\ ahead[i] \in Int
    <3>1. ahead[p] \in 0..p /\ ahead[i] \in 0..i
      BY <2>1, Zenon DEF Counts
    <3> QED
      BY <2>1, <3>1
  <2>3. ahead[p + 1] = IF IsAhead(role[p + 1]) THEN ahead[p] + 1 ELSE ahead[p]
    <3> HIDE DEF p
    <3>1. ahead[p + 1] = IF IsAhead(role[p + 1]) THEN ahead[(p + 1) - 1] + 1 ELSE ahead[(p + 1) - 1]
      BY <2>1, Zenon DEF Counts
    <3> QED
      BY <2>1, <3>1, Zenon
  <2>4. Good(k)
    BY <1>3, Zenon
  <2>5. Good(k + 1)
    <3> HIDE DEF p
    <3>1. ahead[i] <= ahead[p] /\ ahead[p] - ahead[i] <= k
      BY <2>4 DEF p
    <3>2. ahead[i] <= ahead[p + 1] /\ ahead[p + 1] - ahead[i] <= k + 1
      BY <2>1, <2>2, <2>3, <3>1
    <3> QED
      BY <2>1, <3>2
  <2> HIDE DEF Good
  <2> QED
    BY <2>1, <2>5, Zenon
<1>4. 0..m \subseteq T
  <2> HIDE DEF T, m
  <2> QED
    BY <1>1, <1>2, <1>3, BoundedInduction
<1> DEFINE k == j - i
<1>5. k \in 0..m /\ i + k = j
  OBVIOUS
<1>6. Good(k)
  <2> HIDE DEF k, Good
  <2> QED
    BY <1>4, <1>5, Zenon
<1> QED
  BY <1>5, <1>6

\* The numbers of argument i among the first n.
LEMMA Numbers ==
    ASSUME NEW N \in Nat, NEW role, NEW ahead, Counts(ahead, role, N), NEW n \in 0..N, NEW i \in 1..n
    PROVE  /\ ahead[i] \in Nat /\ ahead[n] \in Nat /\ ahead[n] <= n
           /\ ahead[i] <= ahead[n] /\ ahead[n] - ahead[i] <= n - i
           /\ IsAhead(role[i]) => ahead[i] >= 1
           /\ ~IsAhead(role[i]) => i - ahead[i] >= 1
<1>1. i \in 0..N /\ n \in i..N /\ i \in 1..N /\ i - 1 \in 0..N /\ i \in Nat /\ n \in 0..N /\ n \in Nat
  OBVIOUS
<1>2. ahead[i] \in 0..i /\ ahead[n] \in 0..n /\ ahead[i - 1] \in 0..(i - 1)
      /\ ahead[i] = IF IsAhead(role[i]) THEN ahead[i - 1] + 1 ELSE ahead[i - 1]
  BY <1>1, Zenon DEF Counts
<1>3. ahead[i] <= ahead[n] /\ ahead[n] - ahead[i] <= n - i
  BY <1>1, CountsGrow
<1> QED
  BY <1>1, <1>2, <1>3

\* After an exchange of the blocks, all options stand before all words.
LEMMA BlockTurned ==
    ASSUME NEW N \in Nat, NEW A, NEW a, NEW role, NEW ahead, Counts(ahead, role, N),
           NEW n \in 1..N, NEW w \in Nat, w = n - ahead[n], NEW s \in Nat, s >= 1, w >= 1,
           s + w <= n, Standing(A, a, role, ahead, s, w, n),
           NEW r, Rotated(r, s, s + w, n + 1, A, N)
    PROVE  Standing(r, a, role, ahead, ahead[n] + 1, w, n)
<1> DEFINE t == ahead[n] + 1
<1> SUFFICES ASSUME NEW i \in 1..n
             PROVE  r[StandsAt(role, ahead, t, w, i)] = a[i]
  BY Zenon DEF Standing
<1>1. A[StandsAt(role, ahead, s, w, i)] = a[i]
  BY Zenon DEF Standing
<1> DEFINE c == ahead[i]
           m == ahead[n]
<1>2. /\ c \in Nat /\ m \in Nat /\ m <= n /\ c <= m /\ m - c <= n - i /\ n \in 0..N
      /\ IsAhead(role[i]) => c >= 1
      /\ ~IsAhead(role[i]) => i - c >= 1
  <2>1. n \in 0..N
    OBVIOUS
  <2> QED
    BY <2>1, Numbers
<1>3. /\ \A p \in 1..N : p < s \/ p >= n + 1 => r[p] = A[p]
      /\ \A q \in s..((n + 1) - 1) : r[Moved(s, s + w, n + 1, q)] = A[q]
  BY Zenon DEF Rotated
<1>4. n + w >= 0 /\ w = n - m /\ i \in Nat /\ n \in Nat /\ i <= n /\ n <= N
  BY <1>2
<1>5. CASE IsAhead(role[i]) /\ c < s
  <2>1. StandsAt(role, ahead, t, w, i) = c /\ StandsAt(role, ahead, s, w, i) = c
    <3>1. c < t
      BY <1>2
    <3> QED
      BY <1>5, <3>1, Zenon DEF StandsAt
  <2> HIDE DEF c, m, t
  <2>2. c \in 1..N /\ c < s
    BY <1>2, <1>4, <1>5
  <2> QED
    BY <1>1, <1>3, <2>1, <2>2, Zenon
<1>6. CASE IsAhead(role[i]) /\ ~(c < s)
  <2>1. StandsAt(role, ahead, t, w, i) = c /\ StandsAt(role, ahead, s, w, i) = c + w
    <3>1. c < t
      BY <1>2
    <3> QED
      BY <1>6, <3>1, Zenon DEF StandsAt
  <2> HIDE DEF c, m, t
  <2> DEFINE q == c + w
  <2>2. q \in s..((n + 1) - 1) /\ q >= s + w /\ q - ((s + w) - s) = c
    BY <1>2, <1>4, <1>6
  <2> HIDE DEF q
  <2>3. Moved(s, s + w, n + 1, q) = c
    BY <2>2, Zenon DEF Moved
  <2> QED
    BY <1>1, <1>3, <2>1, <2>2, <2>3, Zenon DEF q
<1>7. CASE ~IsAhead(role[i])
  <2>1. StandsAt(role, ahead, t, w, i) = (t - 1) + (i - c) /\ StandsAt(role, ahead, s, w, i) = (s - 1) + (i - c)
    BY <1>7, Zenon DEF StandsAt
  <2>0. t - 1 = m
    BY <1>2
  <2> HIDE DEF c, m, t
  <2> DEFINE q == (s - 1) + (i - c)
  <2>2. q \in s..((n + 1) - 1) /\ ~(q >= s + w) /\ q + ((n + 1) - (s + w)) = m + (i - c)
    BY <1>2, <1>4, <1>7
  <2> HIDE DEF q
  <2>3. Moved(s, s + w, n + 1, q) = m + (i - c)
    BY <2>2, Zenon DEF Moved
  <2>4. r[m + (i - c)] = A[q]
    BY <1>3, <2>2, <2>3, Zenon
  <2> QED
    BY <1>1, <2>0, <2>1, <2>4, Zenon DEF q
<1> QED
  BY <1>5, <1>6, <1>7, Zenon

\* One more argument, which stands where it stood on the line.
LEMMA StandsMore ==
    ASSUME NEW N \in Nat, NEW A, NEW a, NEW role, NEW ahead, Counts(ahead, role, N),
           NEW n \in 0..(N - 1), NEW s \in Int, A[n + 1] = a[n + 1],
           IF IsAhead(role[n + 1]) THEN s <= ahead[n] + 1 ELSE s = ahead[n] + 1,
           Standing(A, a, role, ahead, s, n - ahead[n], n)
    PROVE  Standing(A, a, role, ahead, s, (n + 1) - ahead[n + 1], n + 1)
<1> DEFINE w == n - ahead[n]
           v == (n + 1) - ahead[n + 1]
<1>1. n \in 0..N /\ n + 1 \in 1..N /\ (n + 1) - 1 = n /\ n \in Nat
  OBVIOUS
<1>2. ahead[n] \in 0..n /\ ahead[n + 1] = IF IsAhead(role[n + 1]) THEN ahead[n] + 1 ELSE ahead[n]
  <2>1. ahead[n + 1] = IF IsAhead(role[n + 1]) THEN ahead[(n + 1) - 1] + 1 ELSE ahead[(n + 1) - 1]
    BY <1>1, Zenon DEF Counts
  <2>2. ahead[n] \in 0..n
    BY <1>1, Zenon DEF Counts
  <2> QED
    BY <1>1, <2>1, <2>2, Zenon
<1>3. \A i \in 1..(n + 1) : i \in 1..n \/ i = n + 1
  BY <1>1
<1>4. StandsAt(role, ahead, s, v, n + 1) = n + 1
  <2> DEFINE c == ahead[n + 1]
             m == ahead[n]
  <2>1. m \in Nat /\ m <= n
    BY <1>1, <1>2
  <2>2. CASE IsAhead(role[n + 1])
    <3>1. c = m + 1
      BY <1>2, <2>2, Zenon
    <3>2. s <= m + 1
      BY <2>2, Zenon
    <3> HIDE DEF c, m
    <3>3. ~(c < s) /\ c + ((n + 1) - c) = n + 1
      BY <1>1, <2>1, <3>1, <3>2
    <3> QED
      BY <2>2, <3>3, Zenon DEF StandsAt, c
  <2>3. CASE ~IsAhead(role[n + 1])
    <3>1. c = m
      BY <1>2, <2>3, Zenon
    <3>2. s = m + 1
      BY <2>3, Zenon
    <3> HIDE DEF c, m
    <3>3. (s - 1) + ((n + 1) - c) = n + 1
      BY <1>1, <2>1, <3>1, <3>2
    <3> QED
      BY <2>3, <3>3, Zenon DEF StandsAt, c
  <2> QED
    BY <2>2, <2>3
<1>5. ASSUME NEW i \in 1..n PROVE StandsAt(role, ahead, s, v, i) = StandsAt(role, ahead, s, w, i)
  <2>1. CASE IsAhead(role[n + 1])
    <3>1. v = w
      BY <1>1, <1>2, <2>1
    <3> HIDE DEF v, w
    <3> QED
      BY <3>1
  <2>2. CASE ~IsAhead(role[n + 1])
    <3>1. ahead[i] \in Nat /\ ahead[i] <= ahead[n]
      BY <1>1, Numbers
    <3>2. ahead[i] < s
      BY <1>2, <2>2, <3>1
    <3> HIDE DEF v, w
    <3> QED
      BY <3>2, Zenon DEF StandsAt
  <2> QED
    BY Zenon, <2>1, <2>2
<1> HIDE DEF v, w
<1>6. Standing(A, a, role, ahead, s, v, n + 1)
  <2>1. \A i \in 1..n : A[StandsAt(role, ahead, s, w, i)] = a[i]
    BY Zenon DEF Standing, w
  <2> QED
    BY <1>3, <1>4, <1>5, <2>1, Zenon DEF Standing
<1> QED
  BY <1>6, Zenon DEF v

\* As long as there is no word, it does not matter where a block begins.
LEMMA StandsAnywhere ==
    ASSUME NEW N \in Nat, NEW A, NEW a, NEW role, NEW ahead, Counts(ahead, role, N),
           NEW n \in 0..N, n - ahead[n] = 0, NEW s, NEW t,
           Standing(A, a, role, ahead, s, 0, n)
    PROVE  Standing(A, a, role, ahead, t, 0, n)
<1> SUFFICES ASSUME NEW i \in 1..n PROVE A[StandsAt(role, ahead, t, 0, i)] = a[i]
  BY Zenon DEF Standing
<1>1. A[StandsAt(role, ahead, s, 0, i)] = a[i]
  BY Zenon DEF Standing
<1>2. /\ ahead[i] \in Nat /\ ahead[n] \in Nat /\ ahead[n] - ahead[i] <= n - i
      /\ ~IsAhead(role[i]) => i - ahead[i] >= 1
  BY Numbers
<1>3. IsAhead(role[i]) /\ ahead[i] + 0 = ahead[i]
  BY <1>2
<1> QED
  BY <1>1, <1>3, Zenon DEF StandsAt

\* Where the block of words ends when the parser comes to an option at n + 1.
EndOfBlock(s, e, n) == IF s # -1 /\ e = -1 THEN n + 1 ELSE e

\* Fixing the end of the block of words where the reading is changes nothing.
LEMMA BlockEnds ==
    ASSUME NEW N \in Nat, NEW A, NEW a, NEW role, NEW ahead, Counts(ahead, role, N),
           NEW n \in 0..N, NEW s, NEW e, BlocksAt(A, a, role, ahead, s, e, n)
    PROVE  BlocksAt(A, a, role, ahead, s, EndOfBlock(s, e, n), n)
<1>1. CASE s # -1 /\ e = -1
  <2> DEFINE m == ahead[n]
  <2>1. m \in 0..n /\ n \in Nat
    BY DEF Counts
  <2>2. s = m + 1
    BY <1>1, Zenon DEF BlocksAt
  <2> HIDE DEF m
  <2>3. n + 1 # -1 /\ n + 1 = s + (n - m)
    BY <2>1, <2>2
  <2>4. EndOfBlock(s, e, n) = n + 1
    BY <1>1, Zenon DEF EndOfBlock
  <2> QED
    BY <1>1, <2>3, <2>4, Zenon DEF BlocksAt, m
<1>2. CASE ~(s # -1 /\ e = -1)
  <2>1. EndOfBlock(s, e, n) = e
    BY <1>2, Zenon DEF EndOfBlock
  <2> QED
    BY <2>1
<1> QED
  BY <1>1, <1>2

\* An option, or the argument of one, is read.
LEMMA OneAhead ==
    ASSUME NEW N \in Nat, NEW A, NEW a, NEW role, NEW ahead, Counts(ahead, role, N),
           NEW n \in 0..(N - 1), NEW s \in Int, NEW e \in Int, s # -1 => e # -1 /\ e <= n + 1,
           IsAhead(role[n + 1]), A[n + 1] = a[n + 1], BlocksAt(A, a, role, ahead, s, e, n)
    PROVE  BlocksAt(A, a, role, ahead, s, e, n + 1)
<1> DEFINE m == ahead[n]
           w == n - m
           v == (n + 1) - ahead[n + 1]
<1>1. n \in 0..N /\ n + 1 \in 1..N /\ (n + 1) - 1 = n /\ n \in Nat
  OBVIOUS
<1>2. m \in 0..n /\ ahead[n + 1] = m + 1
  <2>1. ahead[n + 1] = IF IsAhead(role[n + 1]) THEN ahead[(n + 1) - 1] + 1 ELSE ahead[(n + 1) - 1]
    BY <1>1, Zenon DEF Counts
  <2>2. ahead[n] \in 0..n
    BY <1>1, Zenon DEF Counts
  <2> QED
    BY <1>1, <2>1, <2>2, Zenon
<1>3. /\ Standing(A, a, role, ahead, s, w, n)
      /\ s = -1 <=> w = 0
      /\ s # -1 => e = s + w
  BY Zenon DEF BlocksAt
<1>4. v = w
  <2> HIDE DEF m
  <2> QED
    BY <1>1, <1>2
<1>5. s <= m + 1
  <2> HIDE DEF m
  <2> QED
    BY <1>1, <1>2, <1>3
<1>6. Standing(A, a, role, ahead, s, v, n + 1)
  <2>1. IF IsAhead(role[n + 1]) THEN s <= ahead[n] + 1 ELSE s = ahead[n] + 1
    BY <1>5, Zenon
  <2> QED
    BY <1>3, <2>1, StandsMore
<1>7. s # -1 => e # -1
  OBVIOUS
<1> HIDE DEF w
<1> QED
  BY <1>3, <1>4, <1>6, <1>7, Zenon DEF BlocksAt

\* r is A, of length N, with the words among its first n arguments behind the
\* options among them: there were as many as the block s..e has places.
WordsMoved(r, A, a, role, ahead, s, e, n, N) ==
    /\ Standing(r, a, role, ahead, ahead[n] + 1, n - ahead[n], n)
    /\ e - s = n - ahead[n]
    /\ \A p \in (n + 1)..N : r[p] = A[p]

\* permute_args puts all words behind all options.
LEMMA Sorts ==
    ASSUME NEW N \in Nat, NEW A, DOMAIN A = 1..N, NEW a, NEW role, NEW ahead,
           Counts(ahead, role, N), NEW n \in 1..N, NEW s \in Int, NEW e \in Int,
           s >= 1, s < e, e <= n, BlocksAt(A, a, role, ahead, s, e, n)
    PROVE  WordsMoved(permute_args(s, e, n + 1, A), A, a, role, ahead, s, e, n, N)
<1> DEFINE m == ahead[n]
           w == n - m
           k == n + 1
           r == permute_args(s, e, k, A)
<1>1. m \in 0..n /\ n \in Nat /\ n \in 0..N
  BY DEF Counts
<1>2. /\ Standing(A, a, role, ahead, s, w, n) /\ e = s + w
  <2>1. s # -1 /\ e # -1
    OBVIOUS
  <2> QED
    BY <2>1, Zenon DEF BlocksAt
<1>3. w \in Nat /\ w >= 1 /\ s \in Nat /\ e \in Nat /\ s > 0 /\ k \in Nat /\ e < k /\ k <= N + 1 /\ e - s = w
  <2> HIDE DEF m
  <2>1. w \in Int
    BY <1>1
  <2> HIDE DEF w
  <2> QED
    BY <1>1, <1>2, <2>1
<1> HIDE DEF k
<1>4. Rotated(r, s, e, k, A, N)
  BY <1>3, PermuteRotates
<1> HIDE DEF r, w
<1>5. Rotated(r, s, s + w, n + 1, A, N)
  BY <1>2, <1>4, Zenon DEF k
<1>6. Standing(r, a, role, ahead, ahead[n] + 1, w, n)
  BY <1>1, <1>2, <1>3, <1>5, BlockTurned DEF w
<1>7. \A p \in k..N : r[p] = A[p]
  <2>1. \A p \in k..N : p \in 1..N /\ p >= k
    BY <1>3
  <2> QED
    BY <1>4, <2>1, Zenon DEF Rotated
<1> QED
  BY <1>3, <1>6, <1>7, Zenon DEF WordsMoved, r, w, k, m

\* Nothing is an option any more behind "--" or where the parser stops at a word.
LEMMA RestStays ==
    ASSUME NEW a, NEW px, Len(a) \in Nat, NEW k \in 0..Len(a), Roles(a, px)[k] \in {"end", "rest"},
           NEW i \in (k + 1)..Len(a)
    PROVE  Roles(a, px)[i] = "rest"
<1> DEFINE N == Len(a)
           role == Roles(a, px)
           T == {j \in 0..(N - k) : \A p \in (k + 1)..(k + j) : role[p] = "rest"}
           m == N - k
<1>1. m \in Nat /\ k \in Nat /\ N \in Nat
  OBVIOUS
<1>2. \A p \in 1..N : role[p] = NextRole(a, px, p, role[p - 1])
  BY RolesTable, Zenon
<1> HIDE DEF N, role
<1>3. 0 \in T
  <2>1. \A p \in (k + 1)..(k + 0) : FALSE
    BY <1>1
  <2> QED
    BY <1>1, <2>1
<1>4. ASSUME NEW j \in T, j \in 0..(m - 1) PROVE j + 1 \in T
  <2> DEFINE p == k + (j + 1)
  <2>1. p \in 1..N /\ p - 1 = k + j /\ j + 1 \in 0..(N - k) /\ j \in Nat /\ k + j \in Nat
    BY <1>1, <1>4
  <2>2. role[k + j] \in {"end", "rest"}
    <3>1. CASE j = 0
      <4>1. k + j = k
        BY <1>1, <3>1
      <4> QED
        BY <4>1, Zenon DEF role
    <3>2. CASE j # 0
      <4>1. k + j \in (k + 1)..(k + j)
        BY <1>1, <2>1, <3>2
      <4> QED
        BY <1>4, <4>1
    <3> QED
      BY <3>1, <3>2
  <2>3. role[p] = "rest"
    <3> HIDE DEF p
    <3> QED
      BY <1>2, <2>1, <2>2, Zenon DEF NextRole
  <2>4. \A q \in (k + 1)..p : q \in (k + 1)..(k + j) \/ q = p
    BY <1>1, <2>1
  <2>5. \A q \in (k + 1)..(k + j) : role[q] = "rest"
    BY <1>4, Zenon
  <2>6. \A q \in (k + 1)..p : role[q] = "rest"
    <3> HIDE DEF p
    <3> QED
      BY <2>3, <2>4, <2>5, Zenon
  <2> QED
    BY <2>1, <2>6, Zenon
<1>5. 0..m \subseteq T
  <2> HIDE DEF T, m
  <2> QED
    BY <1>1, <1>3, <1>4, BoundedInduction
<1>6. m \in 0..m /\ k + m = N /\ i \in (k + 1)..N
  BY <1>1 DEF N
<1>7. \A p \in (k + 1)..(k + m) : role[p] = "rest"
  BY <1>5, <1>6, Zenon
<1> QED
  BY <1>6, <1>7, Zenon DEF role

\* All N arguments are where they belong, and only the first n are sorted.
AllPlaced(A, a, role, ahead, n, N) ==
    /\ ahead[N] = ahead[n]
    /\ \A i \in 1..N : A[SortedPlace(role, ahead, N, i)] = a[i]

\* Options before words and the rest behind them: the line is sorted.
LEMMA SortedWhenRead ==
    ASSUME NEW N \in Nat, NEW A, NEW a, NEW role, NEW ahead, Counts(ahead, role, N),
           NEW n \in 0..N, \A i \in (n + 1)..N : role[i] = "rest" /\ A[i] = a[i],
           Standing(A, a, role, ahead, ahead[n] + 1, n - ahead[n], n)
    PROVE  AllPlaced(A, a, role, ahead, n, N)
<1> DEFINE T == {j \in 0..(N - n) : ahead[n + j] = ahead[n]}
           m == N - n
<1>1. m \in Nat /\ n \in Nat
  OBVIOUS
<1>2. 0 \in T
  OBVIOUS
<1>3. ASSUME NEW j \in T, j \in 0..(m - 1) PROVE j + 1 \in T
  <2> DEFINE p == n + (j + 1)
  <2>1. p \in 1..N /\ p \in (n + 1)..N /\ p - 1 = n + j /\ j + 1 \in 0..(N - n)
    BY <1>1, <1>3
  <2>2. ~IsAhead(role[p])
    <3>1. role[p] = "rest"
      BY <2>1, Zenon
    <3> QED
      BY <3>1 DEF IsAhead
  <2>3. ahead[p] = ahead[p - 1]
    BY <2>1, <2>2, Zenon DEF Counts
  <2>4. ahead[n + j] = ahead[n]
    BY <1>3, Zenon
  <2> QED
    BY <2>1, <2>3, <2>4, Zenon
<1>4. 0..m \subseteq T
  <2> HIDE DEF T, m
  <2> QED
    BY <1>1, <1>2, <1>3, BoundedInduction
<1>5. \A i \in n..N : ahead[i] = ahead[n]
  <2> TAKE i \in n..N
  <2> DEFINE j == i - n
  <2>1. j \in 0..m /\ n + j = i
    BY <1>1
  <2> HIDE DEF j, m
  <2>2. ahead[n + j] = ahead[n]
    BY <1>4, <2>1, Zenon
  <2> QED
    BY <2>1, <2>2, Zenon
<1>6. N \in n..N /\ ahead[n] \in 0..n /\ ahead[n] \in Nat
  BY DEF Counts
<1>7. ahead[N] = ahead[n]
  BY <1>5, <1>6, ZenonT(40)
<1>8. ASSUME NEW i \in 1..N PROVE A[SortedPlace(role, ahead, N, i)] = a[i]
  <2>1. CASE i \in 1..n
    <3>1. A[StandsAt(role, ahead, ahead[n] + 1, n - ahead[n], i)] = a[i]
      BY <2>1, ZenonT(40) DEF Standing
    <3>2. ahead[i] \in Nat /\ ahead[i] <= ahead[n]
      BY <2>1, Numbers
    <3>3. ahead[i] < ahead[n] + 1 /\ (ahead[n] + 1) - 1 = ahead[n]
      BY <1>6, <3>2
    <3> QED
      BY <1>7, <3>1, <3>3, Zenon DEF StandsAt, SortedPlace
  <2>2. CASE i \notin 1..n
    <3>1. i \in (n + 1)..N /\ i \in n..N /\ i \in Nat
      BY <2>2
    <3>2. role[i] = "rest" /\ A[i] = a[i] /\ ahead[i] = ahead[n]
      BY <1>5, <3>1, Zenon
    <3>3. ~IsAhead(role[i])
      BY ZenonT(40), <3>2 DEF IsAhead
    <3>4. ahead[n] + (i - ahead[n]) = i
      BY <1>6, <3>1
    <3> QED
      BY <1>7, <3>2, <3>3, <3>4, Zenon DEF SortedPlace
  <2> QED
    BY <2>1, <2>2
<1> QED
  BY <1>7, <1>8, Zenon DEF AllPlaced

\* The argument the parser comes to is what it looks like.
LEMMA RoleHere ==
    ASSUME NEW a, NEW px, Len(a) \in Nat, NEW o \in 1..Len(a), ReadSoFar(a, Roles(a, px), o - 1)
    PROVE  Roles(a, px)[o] = IF a[o].kind = "end" THEN "end"
                             ELSE IF a[o].kind # "word" THEN "option"
                             ELSE IF px THEN "rest" ELSE "word"
<1> DEFINE role == Roles(a, px)
<1>1. role[o] = NextRole(a, px, o, role[o - 1]) /\ role[0] = "none"
  BY RolesTable, Zenon
<1> HIDE DEF role
<1>2. ReadSoFar(a, role, o - 1)
  BY DEF role
<1>3. o - 1 < Len(a) /\ (o - 1 = 0 \/ o - 1 \in 1..(o - 1))
  OBVIOUS
<1>4. role[o - 1] \in {"none", "option", "argument", "word"}
  <2>1. CASE o - 1 = 0
    BY <1>1, <2>1, Zenon
  <2>2. CASE o - 1 \in 1..(o - 1)
    BY <1>2, <2>2, Zenon DEF ReadSoFar
  <2> QED
    BY <1>3, <2>1, <2>2
<1>5. ~(role[o - 1] = "option" /\ TakesNext(a[o - 1]))
  BY <1>2, <1>3, Zenon DEF ReadSoFar
<1>6. role[o - 1] \notin {"end", "rest"}
  BY <1>4
<1>7. role[o] = IF a[o].kind = "end" THEN "end" ELSE IF a[o].kind # "word" THEN "option"
                ELSE IF px THEN "rest" ELSE "word"
  BY <1>1, <1>5, <1>6, ZenonT(40) DEF NextRole
<1> QED
  BY <1>7 DEF role

\* Where the argument after the option at o, and its own if it takes one, is.
AfterOption(a, o) == IF TakesNext(a[o]) /\ o < Len(a) THEN o + 2 ELSE o + 1

OptionIsRead(a, role, o, next) ==
    /\ ReadSoFar(a, role, next - 1)
    /\ role[o] = "option"
    /\ next = o + 2 => role[o + 1] = "argument" /\ o < Len(a)

\* An option at o, with the argument at o + 1 if it takes one, is read.
LEMMA OptionRead ==
    ASSUME NEW a, NEW px, Len(a) \in Nat, NEW o \in 1..Len(a), ReadSoFar(a, Roles(a, px), o - 1),
           a[o].kind \notin {"word", "end"}, NEW next, next = AfterOption(a, o)
    PROVE  OptionIsRead(a, Roles(a, px), o, next)
<1> DEFINE role == Roles(a, px)
           N == Len(a)
<1>1. role[o] = "option"
  BY RoleHere
<1>2. o + 1 \in 1..N => role[o + 1] = NextRole(a, px, o + 1, role[(o + 1) - 1])
  BY RolesTable, Zenon
<1>3. (o + 1) - 1 = o /\ (o + 2) - 1 = o + 1 /\ o \in Nat /\ N \in Nat /\ o + 1 # o + 2
      /\ (o < N => o + 1 \in 1..N)
  OBVIOUS
<1>4. o < N => role[o + 1] = NextRole(a, px, o + 1, "option")
  BY <1>1, <1>2, <1>3, Zenon
<1>5. o < N /\ TakesNext(a[o]) => role[o + 1] = "argument"
  <2>1. "option" \notin {"end", "rest"}
    OBVIOUS
  <2> QED
    BY <1>3, <1>4, <2>1, Zenon DEF NextRole
<1> HIDE DEF role
<1>6. \A i \in 1..(o - 1) : role[i] \in {"option", "argument", "word"}
  BY Zenon DEF ReadSoFar, role
<1> HIDE DEF N
<1>7. CASE TakesNext(a[o]) /\ o < N
  <2>1. next = o + 2 /\ role[o + 1] = "argument"
    BY <1>5, <1>7, Zenon DEF N, AfterOption
  <2>2. \A i \in 1..(o + 1) : i \in 1..(o - 1) \/ i = o \/ i = o + 1
    BY <1>3
  <2>3. \A i \in 1..(o + 1) : role[i] \in {"option", "argument", "word"}
    BY <1>1, <1>6, <2>1, <2>2, Zenon DEF role
  <2>4. role[o + 1] # "option"
    BY <2>1
  <2>5. ReadSoFar(a, role, o + 1)
    BY <2>3, <2>4, Zenon DEF ReadSoFar
  <2> QED
    BY <1>1, <1>3, <1>7, <2>1, <2>5, Zenon DEF role, N, OptionIsRead
<1>8. CASE ~(TakesNext(a[o]) /\ o < N)
  <2>1. next = o + 1
    BY <1>8, Zenon DEF N, AfterOption
  <2>2. \A i \in 1..o : i \in 1..(o - 1) \/ i = o
    BY <1>3
  <2>3. \A i \in 1..o : role[i] \in {"option", "argument", "word"}
    BY <1>1, <1>6, <2>2, Zenon DEF role
  <2>4. ReadSoFar(a, role, o)
    BY <1>8, <2>3, Zenon DEF ReadSoFar, N
  <2> QED
    BY <1>1, <1>3, <2>1, <2>4, Zenon DEF role, N, OptionIsRead
<1> QED
  BY <1>7, <1>8

\* What the invariants say while getopt_long is called.
Facts(N, role, ahead) ==
    /\ N \in Nat /\ N = Len(line) /\ Len(args) = N /\ DOMAIN args = 1..N /\ argc = N + 1
    /\ optind \in 1..(N + 1) /\ optind - 1 \in 0..N
    /\ nonopt_start \in Int /\ nonopt_start \in {-1} \cup 1..(optind - 1)
    /\ nonopt_end \in Int /\ nonopt_end \in {-1} \cup Nat
    /\ nonopt_end # -1 => /\ nonopt_start # -1 /\ nonopt_start < nonopt_end
                          /\ nonopt_end < optind \/ (nonopt_end = optind /\ place # <<>>)
    /\ \A i \in optind..N : args[i] = line[i]
    /\ Counts(ahead, role, N)
    /\ ReadSoFar(line, role, optind - 1)
    /\ posix => nonopt_start = -1
    /\ place # <<>> => place \in Seq(STRING) /\ InCluster(line[optind], place)
    /\ BlocksAt(args, line, role, ahead, nonopt_start, nonopt_end, optind - 1)

\* What the two invariants say while the line is read.
LEMMA FactsHold ==
    ASSUME IInv, Reading, outcome = "none"
    PROVE  Facts(Len(line), Roles(line, posix), Ahead(Roles(line, posix), Len(line)))
<1> DEFINE N == Len(line)
           role == Roles(line, posix)
           ahead == Ahead(role, N)
<1>1. /\ N \in Nat /\ N = Len(line) /\ Len(args) = N /\ DOMAIN args = 1..N /\ argc = N + 1
      /\ optind \in 1..(N + 1) /\ optind - 1 \in 0..N
      /\ nonopt_start \in Int /\ nonopt_start \in {-1} \cup 1..(optind - 1)
      /\ nonopt_end \in Int /\ nonopt_end \in {-1} \cup Nat
      /\ nonopt_end # -1 => /\ nonopt_start # -1 /\ nonopt_start < nonopt_end
                            /\ nonopt_end < optind \/ (nonopt_end = optind /\ place # <<>>)
  BY LinesAssumption DEF IInv, IndicesOK, argc
<1>2. \A i \in optind..N : args[i] = line[i]
  BY Zenon DEF IInv, Unread
<1> HIDE DEF role
<1>3. Counts(ahead, role, N)
  <2> HIDE DEF N
  <2> QED
    BY <1>1, AheadTable
<1> HIDE DEF ahead, N
<1>4. /\ ReadSoFar(line, role, optind - 1)
      /\ posix => nonopt_start = -1
      /\ place # <<>> => place \in Seq(STRING) /\ InCluster(line[optind], place)
      /\ BlocksAt(args, line, role, ahead, nonopt_start, nonopt_end, optind - 1)
  BY Zenon DEF Reading, role, ahead, N
<1>5. Facts(N, role, ahead)
  BY <1>1, <1>2, <1>3, <1>4, Zenon DEF Facts
<1> QED
  BY <1>5 DEF role, ahead, N

\* The parser finds an option, or a letter of a cluster.
LEMMA FoundReads ==
    ASSUME IInv, Reading, outcome = "none", NEW ch, NEW optarg, NEW next, NEW letters,
           Found(ch, optarg, next, letters), optind <= Len(line),
           line[optind].kind \notin {"word", "end"},
           letters # <<>> => /\ next = optind /\ letters \in Seq(STRING)
                             /\ InCluster(line[optind], letters),
           letters = <<>> => next = AfterOption(line, optind)
    PROVE  Reading' /\ WordsLast'
<1> DEFINE N == Len(line)
           role == Roles(line, posix)
           ahead == Ahead(role, N)
           s == nonopt_start
           n == optind - 1
           e == EndOfBlock(s, nonopt_end, n)
<1>1. Facts(N, role, ahead)
  BY FactsHold
<1>2. /\ line' = line /\ posix' = posix /\ args' = args /\ optind' = next /\ place' = letters
      /\ nonopt_start' = nonopt_start /\ nonopt_end' = BlockEnd
  BY Zenon DEF Found
<1>3. outcome' # "end"
  <2>1. outcome' = CASE ch \in {"c", "i", "l"} -> ch [] ch = "h" -> "help" [] OTHER -> "none"
    BY Zenon DEF Found, Dispatch
  <2> QED
    BY <2>1
<1>4. WordsLast'
  BY <1>3, ZenonT(40) DEF WordsLast
<1>5. /\ N \in Nat /\ optind \in 1..N /\ n \in 0..(N - 1) /\ n \in 0..N /\ n + 1 = optind /\ n \in Nat
  BY <1>1 DEF Facts
<1>6. Roles(line, posix)' = role /\ (Ahead(Roles(line, posix), Len(line)))' = ahead
  BY <1>2
<1> HIDE DEF N, role, ahead
<1>7. nonopt_end' = e
  BY <1>2, <1>5, Zenon DEF BlockEnd, EndOfBlock
<1>8. BlocksAt(args, line, role, ahead, s, e, n)
  <2>1. Counts(ahead, role, N) /\ BlocksAt(args, line, role, ahead, s, nonopt_end, n)
    BY <1>1, ZenonT(40) DEF Facts
  <2> HIDE DEF n
  <2> QED
    BY <1>5, <2>1, BlockEnds, Zenon
<1>9. s \in Int /\ e \in Int /\ (s # -1 => e # -1 /\ e <= n + 1)
  BY <1>1, <1>5 DEF Facts, EndOfBlock
<1> HIDE DEF e
<1>10. posix => s = -1
  BY <1>1, Zenon DEF Facts
<1>11. ReadSoFar(line, role, n) /\ Counts(ahead, role, N)
  BY <1>1, Zenon DEF Facts
<1>12. \A i \in optind..N : args[i] = line[i]
  BY <1>1, Zenon DEF Facts
<1>13. CASE letters # <<>>
  <2>1. next = optind /\ letters \in Seq(STRING) /\ InCluster(line[optind], letters)
    BY <1>13
  <2>2. /\ ReadSoFar(line, role, optind' - 1)
        /\ posix => s = -1
        /\ place' # <<>> => place' \in Seq(STRING) /\ InCluster(line[optind'], place')
        /\ BlocksAt(args, line, role, ahead, s, e, optind' - 1)
    BY <1>2, <1>8, <1>10, <1>11, <2>1, Zenon
  <2> QED
    BY <1>2, <1>4, <1>6, <1>7, <2>2, Zenon DEF Reading
<1>14. CASE letters = <<>>
  <2>1. next = IF TakesNext(line[optind]) /\ optind < N THEN optind + 2 ELSE optind + 1
    BY <1>14, Zenon DEF N, AfterOption
  <2>2. /\ ReadSoFar(line, role, next - 1)
        /\ role[optind] = "option"
        /\ next = optind + 2 => role[optind + 1] = "argument" /\ optind < N
    <3>1. ReadSoFar(line, Roles(line, posix), optind - 1)
      BY <1>11 DEF role
    <3>2. Len(line) \in Nat /\ optind \in 1..Len(line)
      BY <1>5 DEF N
    <3>3. next = AfterOption(line, optind)
      BY ZenonT(40), <1>14
    <3>4. OptionIsRead(line, Roles(line, posix), optind, next)
      BY <3>1, <3>2, <3>3, OptionRead
    <3> QED
      BY <3>4, ZenonT(40) DEF role, N, OptionIsRead
  <2>3. IsAhead(role[n + 1]) /\ args[n + 1] = line[n + 1]
    <3>1. IsAhead(role[optind])
      BY <2>2 DEF IsAhead
    <3>2. optind \in optind..N
      BY <1>5
    <3> QED
      BY <1>5, <1>12, <3>1, <3>2, ZenonT(40)
  <2>4. BlocksAt(args, line, role, ahead, s, e, n + 1)
    <3> HIDE DEF n, s
    <3> QED
      BY ZenonT(40), <1>5, <1>8, <1>9, <1>11, <2>3, OneAhead
  <2>5. BlocksAt(args, line, role, ahead, s, e, next - 1)
    <3>1. CASE next = optind + 1
      <4>1. next - 1 = n + 1
        BY <1>5, <3>1
      <4> QED
        BY <2>4, <4>1, Zenon
    <3>2. CASE next = optind + 2
      <4> DEFINE p == n + 1
      <4>1. p \in 0..(N - 1) /\ (s # -1 => e # -1 /\ e <= p + 1) /\ next - 1 = p + 1 /\ p = optind
        BY <1>5, <1>9, <2>2, <3>2
      <4>2. IsAhead(role[p + 1])
        <5>1. role[p + 1] = "argument"
          BY <2>2, <3>2, <4>1, Zenon
        <5> QED
          BY <5>1 DEF IsAhead
      <4>3. args[p + 1] = line[p + 1]
        <5>1. p + 1 \in optind..N
          BY <1>5, <4>1
        <5> QED
          BY <1>12, <5>1, Zenon
      <4>4. BlocksAt(args, line, role, ahead, s, e, p)
        BY <2>4
      <4>5. N \in Nat /\ s \in Int /\ e \in Int
        BY ZenonT(40), <1>5, <1>9
      <4> HIDE DEF n, s, p
      <4>6. BlocksAt(args, line, role, ahead, s, e, p + 1)
        BY <1>11, <4>1, <4>2, <4>3, <4>4, <4>5, OneAhead
      <4> QED
        BY <4>1, <4>6, ZenonT(40)
    <3> QED
      BY <2>1, <3>1, <3>2, Zenon
  <2>6. /\ ReadSoFar(line, role, optind' - 1)
        /\ posix => s = -1
        /\ place' # <<>> => place' \in Seq(STRING) /\ InCluster(line[optind'], place')
        /\ BlocksAt(args, line, role, ahead, s, e, optind' - 1)
    BY <1>2, <1>10, <1>14, <2>2, <2>5, Zenon
  <2> QED
    BY <1>2, <1>4, <1>6, <1>7, <2>6, Zenon DEF Reading
<1> QED
  BY <1>13, <1>14

\* letters are what is left of cluster a after k of its letters, none of them "v".
LeftOf(a, letters, k) ==
    /\ Len(letters) = Len(a.letters) - k
    /\ \A j \in 1..Len(letters) : letters[j] = a.letters[k + j]
    /\ \A j \in 1..k : a.letters[j] # "v"

\* The next letter of a cluster: -v takes what follows it, in the cluster or behind.
LEMMA Letters ==
    ASSUME NEW a, a.kind = "short", a.letters \in Seq(STRING),
           NEW letters \in Seq(STRING), letters # <<>>, NEW k \in Nat, LeftOf(a, letters, k)
    PROVE  /\ Tail(letters) \in Seq(STRING)
           /\ Tail(letters) # <<>> /\ Head(letters) # "v" => InCluster(a, Tail(letters))
           /\ Tail(letters) # <<>> /\ Head(letters) = "v" => ~TakesNext(a)
           /\ Tail(letters) = <<>> => (TakesNext(a) <=> Head(letters) = "v")
<1> DEFINE L == a.letters
           S == STRING
           rest == Tail(letters)
           n == Len(L)
           m == Len(letters)
<1>0. L \in Seq(S) /\ letters \in Seq(S)
  OBVIOUS
<1> HIDE DEF S
<1>1. /\ n \in Nat /\ m \in Nat /\ m # 0 /\ DOMAIN L = 1..n
      /\ rest \in Seq(S) /\ Len(rest) = m - 1
      /\ \A j \in 1..(m - 1) : rest[j] = letters[j + 1]
      /\ Head(letters) = letters[1]
      /\ rest = <<>> <=> m = 1
  <2>1. /\ n \in Nat /\ m \in Nat /\ m # 0 /\ DOMAIN L = 1..n
    BY <1>0
  <2>2. /\ rest \in Seq(S) /\ Len(rest) = m - 1 /\ Head(letters) = letters[1]
    BY <1>0
  <2>3. \A j \in 1..(m - 1) : rest[j] = letters[j + 1]
    BY <1>0
  <2>4. rest = <<>> <=> m = 1
    <3> HIDE DEF rest, m
    <3>1. (rest # <<>> => Len(rest) \in Nat \ {0}) /\ Len(<<>>) = 0
      BY <2>2, EmptySeq
    <3> QED
      BY <2>1, <2>2, <3>1
  <2> QED
    BY <2>1, <2>2, <2>3, <2>4
<1>2. /\ m = n - k
      /\ \A j \in 1..m : letters[j] = L[k + j]
      /\ \A j \in 1..k : L[j] # "v"
  BY Zenon DEF LeftOf
<1> HIDE DEF L, rest, n, m
<1> DEFINE ch == Head(letters)
<1>3. ch = L[k + 1] /\ k + 1 \in 1..n
  <2>1. 1 \in 1..m /\ k + 1 \in 1..n
    BY <1>1, <1>2
  <2> QED
    BY <1>1, <1>2, <2>1, Zenon
<1> HIDE DEF ch
<1>4. TakesNext(a) <=> \E i \in 1..n : i = n /\ L[i] = "v" /\ \A j \in 1..(i - 1) : L[j] # "v"
  <2>1. a.kind # "long"
    OBVIOUS
  <2>2. TakesNext(a) <=> \E i \in DOMAIN a.letters :
            i = Len(a.letters) /\ a.letters[i] = "v" /\ \A j \in 1..(i - 1) : a.letters[j] # "v"
    BY <2>1, Zenon DEF TakesNext
  <2> QED
    BY <1>1, <2>2, Zenon DEF L, n
<1>5. ASSUME rest # <<>>, ch # "v" PROVE InCluster(a, rest)
  <2> DEFINE h == k + 1
  <2>1. h \in 1..(n - 1) /\ Len(rest) = n - h
    BY <1>1, <1>2, <1>5
  <2>2. \A j \in 1..Len(rest) : rest[j] = L[h + j]
    <3> TAKE j \in 1..Len(rest)
    <3>1. j \in 1..(m - 1) /\ j + 1 \in 1..m /\ k + (j + 1) = h + j
      BY <1>1, <1>2
    <3> QED
      BY <1>1, <1>2, <3>1, Zenon
  <2>3. \A j \in 1..h : L[j] # "v"
    <3>1. \A j \in 1..h : j \in 1..k \/ j = h
      OBVIOUS
    <3> QED
      BY <1>2, <1>3, <1>5, <3>1, Zenon
  <2> HIDE DEF h
  <2> QED
    BY <2>1, <2>2, <2>3, Zenon DEF InCluster, L, n
<1>6. ASSUME rest # <<>>, ch = "v" PROVE ~TakesNext(a)
  <2>1. k + 1 \in 1..(n - 1)
    BY <1>1, <1>2, <1>6
  <2> QED
    BY <1>3, <1>4, <1>6, <2>1, Zenon
<1>7. ASSUME rest = <<>> PROVE TakesNext(a) <=> ch = "v"
  <2>1. k + 1 = n /\ n \in 1..n /\ n - 1 = k
    BY <1>1, <1>2, <1>3, <1>7
  <2> QED
    BY <1>2, <1>3, <1>4, <2>1, Zenon
<1> QED
  BY <1>1, <1>5, <1>6, <1>7, Zenon DEF ch, rest, S

\* Every option that is read leaves the parser where the line goes on.
LEMMA OptionsAreRead ==
    ASSUME IInv, Reading, parse_long_options \/ ShortOption
    PROVE  Reading' /\ WordsLast'
<1> DEFINE N == Len(line)
           a == line[optind]
           next == optind + 1
<1>1. outcome = "none" /\ optind < argc
  BY Zenon DEF parse_long_options, ShortOption, AtArgument, IInv, Unread
<1>2. /\ N \in Nat /\ argc = N + 1 /\ optind \in 1..N /\ optind <= N /\ args[optind] = a /\ line \in Lines
      /\ next + 1 = optind + 2 /\ (next < argc <=> optind < N) /\ (next >= argc <=> ~(next < argc))
  <2>1. Facts(N, Roles(line, posix), Ahead(Roles(line, posix), N))
    BY <1>1, FactsHold
  <2>2. /\ N \in Nat /\ argc = N + 1 /\ optind \in 1..(N + 1) /\ line \in Lines
        /\ \A i \in optind..N : args[i] = line[i]
    BY <2>1, ZenonT(40) DEF Facts, IInv
  <2> HIDE DEF N
  <2> QED
    BY <1>1, <2>2
<1>3. ASSUME NEW ch, NEW optarg, Found(ch, optarg, next, <<>>), a.kind \notin {"word", "end"}, ~TakesNext(a)
      PROVE  Reading' /\ WordsLast'
  <2>1. next = AfterOption(line, optind)
    BY <1>3, Zenon DEF AfterOption
  <2>2. optind <= Len(line)
    BY <1>2
  <2> HIDE DEF next
  <2> QED
    BY <1>1, <1>3, <2>1, <2>2, FoundReads
<1>4. ASSUME NEW o, TakeNext(o, next), a.kind \notin {"word", "end"}, TakesNext(a)
      PROVE  Reading' /\ WordsLast'
  <2>1. CASE next < argc /\ Found(o, args[next], next + 1, <<>>)
    <3> DEFINE after == optind + 2
               given == args[next]
    <3>1. after = AfterOption(line, optind) /\ Found(o, given, after, <<>>)
      BY <1>2, <1>4, <2>1, Zenon DEF AfterOption
    <3>2. optind <= Len(line)
      BY <1>2
    <3> HIDE DEF after, given
    <3> QED
      BY <1>1, <1>4, <3>1, <3>2, FoundReads
  <2>2. CASE next >= argc /\ Found("?", NULL, next, <<>>)
    <3>1. next = AfterOption(line, optind)
      BY <1>2, <2>2, Zenon DEF AfterOption
    <3>2. optind <= Len(line)
      BY <1>2
    <3> HIDE DEF next
    <3> QED
      BY <1>1, <1>4, <2>2, <3>1, <3>2, FoundReads
  <2> QED
    BY <1>4, <2>1, <2>2, ZenonT(40) DEF TakeNext
<1>5. \/ a.kind \in {"word", "end"}
      \/ a.kind = "short" /\ a.letters \in Seq(STRING) /\ a.letters # <<>>
      \/ a.kind = "long" /\ a.eq \in BOOLEAN
  BY <1>2, LinesAssumption
<1>6. CASE parse_long_options
  <2>1. a.kind = "long" /\ a.kind # "short" /\ a.kind \notin {"word", "end"} /\ a.eq \in BOOLEAN
    <3>1. a.kind = "long"
      BY <1>2, <1>6, Zenon DEF parse_long_options
    <3> QED
      BY <1>5, <3>1
  <2>2. TakesNext(a) <=> a.names = {"v"} /\ ~a.eq
    BY <2>1, Zenon DEF TakesNext
  <2>3. \/ /\ ~\E o \in Options : a.names = {o}
           /\ Found("?", NULL, next, <<>>)
        \/ \E o \in Options :
             /\ a.names = {o} /\ ~TakesArgument(o)
             /\ Found(IF a.eq THEN "?" ELSE o, NULL, next, <<>>)
        \/ \E o \in Options :
             /\ a.names = {o} /\ TakesArgument(o)
             /\ IF a.eq THEN Found(o, [kind |-> "value"], next, <<>>) ELSE TakeNext(o, next)
    <3> HIDE DEF N
    <3> DEFINE b == args[optind]
    <3>1. \/ /\ ~\E o \in Options : b.names = {o}
             /\ Found("?", NULL, next, <<>>)
          \/ \E o \in Options :
               /\ b.names = {o} /\ ~TakesArgument(o)
               /\ Found(IF b.eq THEN "?" ELSE o, NULL, next, <<>>)
          \/ \E o \in Options :
               /\ b.names = {o} /\ TakesArgument(o)
               /\ IF b.eq THEN Found(o, [kind |-> "value"], next, <<>>) ELSE TakeNext(o, next)
      BY <1>6, Zenon DEF parse_long_options
    <3>2. b = a
      BY <1>2
    <3> HIDE DEF a, b, next
    <3> QED
      BY <3>1, <3>2, Zenon
  <2> HIDE DEF next
  <2>4. CASE (~\E o \in Options : a.names = {o}) /\ Found("?", NULL, next, <<>>)
    <3>1. ~TakesNext(a)
      <4>1. "v" \in Options
        BY DEF Options
      <4> QED
        BY <2>2, <2>4, <4>1, Zenon
    <3> QED
      BY <1>3, <2>1, <2>4, <3>1, Zenon
  <2>5. ASSUME NEW o \in Options, a.names = {o}, ~TakesArgument(o),
               Found(IF a.eq THEN "?" ELSE o, NULL, next, <<>>)
        PROVE  Reading' /\ WordsLast'
    <3>1. ~TakesNext(a)
      BY <2>2, <2>5, Zenon DEF TakesArgument
    <3> DEFINE ch == IF a.eq THEN "?" ELSE o
    <3>2. Found(ch, NULL, next, <<>>)
      BY <2>5
    <3> HIDE DEF ch
    <3> QED
      BY <1>3, <2>1, <3>1, <3>2, Zenon
  <2>6. ASSUME NEW o \in Options, a.names = {o}, TakesArgument(o), a.eq,
               Found(o, [kind |-> "value"], next, <<>>)
        PROVE  Reading' /\ WordsLast'
    <3>1. ~TakesNext(a)
      BY <2>2, <2>6, Zenon
    <3> QED
      BY <1>3, <2>1, <2>6, <3>1, Zenon
  <2>7. ASSUME NEW o \in Options, a.names = {o}, TakesArgument(o), ~a.eq, TakeNext(o, next)
        PROVE  Reading' /\ WordsLast'
    <3>1. TakesNext(a)
      BY <2>2, <2>7, Zenon DEF TakesArgument
    <3> QED
      BY <1>4, <2>1, <2>7, <3>1, Zenon
  <2> QED
    BY <2>3, <2>4, <2>5, <2>6, <2>7, Zenon
<1>7. CASE ShortOption
  <2> DEFINE letters == IF place # <<>> THEN place ELSE args[optind].letters
             ch == Head(letters)
             rest == Tail(letters)
  <2>1. /\ (outcome = "none" /\ place # <<>>) \/ (AtArgument /\ args[optind].kind = "short")
        /\ \/ ch \notin Options /\ Found("?", NULL, AfterLetter(rest), rest)
           \/ ch \in Options /\ ~TakesArgument(ch) /\ Found(ch, NULL, AfterLetter(rest), rest)
           \/ /\ ch \in Options /\ TakesArgument(ch)
              /\ IF rest # <<>>
                   THEN Found(ch, [kind |-> "rest", letters |-> rest], next, <<>>)
                   ELSE TakeNext(ch, next)
    BY <1>7, Zenon DEF ShortOption
  <2>2. a.kind = "short" /\ a.letters \in Seq(STRING) /\ a.letters # <<>> /\ a.kind \notin {"word", "end"}
    <3>1. place # <<>> => InCluster(a, place)
      BY <1>1, FactsHold, Zenon DEF Facts
    <3>2. a.kind = "short"
      BY <1>2, <2>1, <3>1, Zenon DEF InCluster
    <3> QED
      BY <1>5, <3>2
  <2>3. letters \in Seq(STRING) /\ letters # <<>> /\ \E k \in Nat : LeftOf(a, letters, k)
    <3>1. CASE place # <<>>
      <4>1. letters = place /\ place \in Seq(STRING) /\ InCluster(a, place)
        BY <1>1, <3>1, FactsHold, Zenon DEF Facts
      <4>2. PICK k \in 1..(Len(a.letters) - 1) :
                     /\ Len(place) = Len(a.letters) - k
                     /\ \A j \in 1..Len(place) : place[j] = a.letters[k + j]
                     /\ \A j \in 1..k : a.letters[j] # "v"
        BY <4>1, Zenon DEF InCluster
      <4>3. k \in Nat
        BY <2>2
      <4> QED
        BY <3>1, <4>1, <4>2, <4>3, Zenon DEF LeftOf
    <3>2. CASE place = <<>>
      <4>1. letters = a.letters
        BY <1>2, <3>2, Zenon
      <4>2. LeftOf(a, a.letters, 0)
        <5> DEFINE L == a.letters
                   n == Len(L)
        <5>1. n \in Nat
          BY <2>2
        <5>2. Len(a.letters) = n - 0
          BY <5>1
        <5> HIDE DEF n
        <5>3. \A j \in 1..n : 0 + j = j
          BY <5>1
        <5>4. \A j \in 1..0 : FALSE
          OBVIOUS
        <5> QED
          BY <5>2, <5>3, <5>4, Zenon DEF LeftOf, n
      <4>3. 0 \in Nat
        OBVIOUS
      <4> QED
        BY <2>2, <4>1, <4>2, <4>3, Zenon
    <3> QED
      BY <3>1, <3>2
  <2> HIDE DEF letters
  <2>4. PICK k \in Nat : LeftOf(a, letters, k)
    BY <2>3
  <2>5. /\ rest \in Seq(STRING)
        /\ rest # <<>> /\ ch # "v" => InCluster(a, rest)
        /\ rest # <<>> /\ ch = "v" => ~TakesNext(a)
        /\ rest = <<>> => (TakesNext(a) <=> ch = "v")
    <3> HIDE DEF a
    <3> QED
      BY <2>2, <2>3, <2>4, Letters
  <2> HIDE DEF ch, rest
  <2>6. ASSUME NEW c, NEW optarg, ch # "v", Found(c, optarg, AfterLetter(rest), rest)
        PROVE  Reading' /\ WordsLast'
    <3>1. CASE rest = <<>>
      <4>1. Found(c, optarg, next, <<>>)
        BY <2>6, <3>1, Zenon DEF AfterLetter
      <4>2. ~TakesNext(a)
        BY <2>5, <2>6, <3>1, Zenon
      <4> HIDE DEF next
      <4> QED
        BY <1>3, <2>2, <4>1, <4>2, Zenon
    <3>2. CASE rest # <<>>
      <4>1. Found(c, optarg, optind, rest)
        BY <2>6, <3>2, Zenon DEF AfterLetter
      <4>2. rest \in Seq(STRING) /\ InCluster(line[optind], rest) /\ line[optind].kind \notin {"word", "end"}
        BY <2>2, <2>5, <2>6, <3>2, Zenon
      <4>3. optind <= Len(line)
        BY <1>2
      <4> QED
        BY <1>1, <3>2, <4>1, <4>2, <4>3, FoundReads
    <3> QED
      BY <3>1, <3>2
  <2>7. ch \notin Options => ch # "v"
    BY DEF Options
  <2>8. TakesArgument(ch) <=> ch = "v"
    BY DEF TakesArgument
  <2>9. CASE ch # "v"
    BY <2>1, <2>6, <2>8, <2>9, Zenon
  <2>10. CASE ch = "v"
    <3>1. CASE rest # <<>>
      <4>1. Found(ch, [kind |-> "rest", letters |-> rest], next, <<>>)
        BY <2>1, <2>7, <2>8, <2>10, <3>1, Zenon
      <4>2. ~TakesNext(a)
        BY <2>5, <2>10, <3>1, Zenon
      <4> HIDE DEF next
      <4> QED
        BY <1>3, <2>2, <4>1, <4>2, Zenon
    <3>2. CASE rest = <<>>
      <4>1. TakeNext(ch, next)
        BY <2>1, <2>7, <2>8, <2>10, <3>2, Zenon
      <4>2. TakesNext(a)
        BY <2>5, <2>10, <3>2, Zenon
      <4> HIDE DEF next
      <4> QED
        BY <1>4, <2>2, <4>1, <4>2, Zenon
    <3> QED
      BY <3>1, <3>2
  <2> QED
    BY <2>9, <2>10
<1> QED
  BY <1>6, <1>7

\* getopt_long returns -1 with everything before last read: the line is sorted.
LEMMA FinishSorts ==
    ASSUME NEW N, NEW role, NEW ahead, Facts(N, role, ahead),
           role = Roles(line, posix), ahead = Ahead(role, N), KeepLine,
           NEW n \in 0..N, NEW e \in Int, Finish(n + 1, e), e # -1 => /\ nonopt_start # -1
                                                                    /\ nonopt_start < e /\ e <= n,
           BlocksAt(args, line, role, ahead, nonopt_start, e, n),
           \A i \in (n + 1)..N : role[i] = "rest" /\ args[i] = line[i]
    PROVE  Reading' /\ WordsLast'
<1> DEFINE s == nonopt_start
           m == ahead[n]
           w == n - m
<1>1. /\ N \in Nat /\ N = Len(line) /\ Len(args) = N /\ DOMAIN args = 1..N
      /\ s \in Int /\ s \in {-1} \cup 1..(optind - 1) /\ optind \in Int /\ Counts(ahead, role, N)
  BY DEF Facts
<1>2. m \in 0..n /\ n \in Nat /\ m \in Nat
  BY <1>1 DEF Counts
<1>3. /\ line' = line /\ posix' = posix /\ outcome' = "end"
      /\ IF e # -1 THEN args' = permute_args(s, e, n + 1, args) /\ optind' = (n + 1) - (e - s)
                   ELSE args' = args /\ optind' = IF s # -1 THEN s ELSE n + 1
  BY Zenon DEF Finish, KeepLine, LeavesLoop
<1>4. /\ Standing(args, line, role, ahead, s, w, n)
      /\ s = -1 <=> w = 0
      /\ s # -1 => IF e = -1 THEN s = m + 1 ELSE e = s + w
  BY Zenon DEF BlocksAt
<1>5. /\ Standing(args', line, role, ahead, m + 1, w, n)
      /\ optind' = m + 1 /\ Len(args') = N
      /\ \A i \in (n + 1)..N : args'[i] = line[i]
  <2>1. CASE e # -1
    <3> DEFINE r == permute_args(s, e, n + 1, args)
    <3>1. s >= 1 /\ s < e /\ e <= n /\ n \in 1..N
      BY <1>1, <2>1
    <3>2. /\ Standing(r, line, role, ahead, m + 1, w, n)
          /\ e - s = w
          /\ \A p \in (n + 1)..N : r[p] = args[p]
      <4>1. WordsMoved(r, args, line, role, ahead, s, e, n, N)
        <5> HIDE DEF s
        <5> QED
          BY ZenonT(40), <1>1, <3>1, Sorts DEF s
      <4> QED
        BY <4>1, Zenon DEF WordsMoved
    <3>3. Len(r) = N
      <4> DEFINE k == n + 1
      <4>1. s \in Nat /\ e \in Nat /\ s > 0 /\ k \in Nat /\ e < k /\ k <= N + 1 /\ s < e
        BY <1>1, <3>1
      <4> HIDE DEF k, s
      <4>2. Rotated(permute_args(s, e, k, args), s, e, k, args, N)
        BY ZenonT(40), <1>1, <4>1, PermuteRotates
      <4> QED
        BY <4>2, ZenonT(40) DEF Rotated, k
    <3>4. (n + 1) - w = m + 1
      BY <1>2
    <3> HIDE DEF r, w, m
    <3>5. args' = r /\ optind' = (n + 1) - (e - s)
      BY <1>3, <2>1, Zenon DEF r
    <3>6. optind' = m + 1
      BY <3>2, <3>4, <3>5, Zenon
    <3> QED
      BY <3>2, <3>3, <3>5, <3>6, ZenonT(40)
  <2>2. CASE e = -1
    <3>1. args' = args /\ optind' = IF s # -1 THEN s ELSE n + 1
      BY <1>3, <2>2, ZenonT(40)
    <3>2. optind' = m + 1
      <4> HIDE DEF m
      <4> QED
        BY <1>2, <1>4, <2>2, <3>1
    <3>3. Standing(args, line, role, ahead, m + 1, w, n)
      <4>1. CASE s # -1
        BY <1>4, <2>2, <4>1, Zenon
      <4>2. CASE s = -1
        <5>1. w = 0
          BY <1>4, <4>2
        <5>2. Standing(args, line, role, ahead, s, 0, n)
          <6> HIDE DEF w
          <6> QED
            BY <1>4, <5>1, ZenonT(40)
        <5> DEFINE t == m + 1
        <5>3. n - ahead[n] = 0
          BY <5>1
        <5> HIDE DEF t
        <5>4. Standing(args, line, role, ahead, t, 0, n)
          BY ZenonT(40), <1>1, <5>2, <5>3, StandsAnywhere
        <5> HIDE DEF w
        <5> QED
          BY <5>1, <5>4, ZenonT(40) DEF t
      <4> QED
        BY <4>1, <4>2
    <3> QED
      BY <1>1, <3>1, <3>2, <3>3, Zenon
  <2> QED
    BY <2>1, <2>2, Zenon
<1> DEFINE A == args'
<1>6. /\ ahead[N] = ahead[n]
      /\ \A i \in 1..N : A[SortedPlace(role, ahead, N, i)] = line[i]
  <2>1. /\ Standing(A, line, role, ahead, ahead[n] + 1, n - ahead[n], n)
        /\ \A i \in (n + 1)..N : role[i] = "rest" /\ A[i] = line[i]
    BY <1>5, Zenon
  <2>2. N \in Nat /\ Counts(ahead, role, N)
    BY Zenon, <1>1
  <2> HIDE DEF A, s, m, w
  <2>3. AllPlaced(A, line, role, ahead, n, N)
    BY ZenonT(40), <2>1, <2>2, SortedWhenRead
  <2> QED
    BY <2>3, Zenon DEF AllPlaced
<1>7. WordsLast'
  <2>1. Roles(line', posix') = role /\ Len(line') = N /\ Ahead(role, N) = ahead
    BY <1>1, <1>3, Zenon
  <2> HIDE DEF m, w, s
  <2>2. /\ Len(args') = N /\ optind' = ahead[N] + 1
        /\ \A i \in 1..N : args'[SortedPlace(role, ahead, N, i)] = line'[i]
    BY <1>3, <1>5, <1>6, Zenon DEF m
  <2> QED
    BY <2>1, <2>2, Zenon DEF WordsLast
<1>8. Reading'
  <2>1. outcome' # "none"
    BY <1>3
  <2> QED
    BY <2>1, ZenonT(40) DEF Reading
<1> QED
  BY ZenonT(40), <1>7, <1>8

\* The steps that read no option keep Reading, and leave the line sorted when
\* they are the last.
LEMMA WordsAreRead ==
    ASSUME IInv, Reading, EndOfArguments \/ StopAtWord \/ SkipWord \/ DashDash
    PROVE  Reading' /\ WordsLast'
<1> DEFINE N == Len(line)
           role == Roles(line, posix)
           ahead == Ahead(role, N)
           s == nonopt_start
           n == optind - 1
<1>1. outcome = "none" /\ place = <<>>
  BY Zenon DEF EndOfArguments, StopAtWord, SkipWord, DashDash, AtArgument
<1>2. Facts(N, role, ahead)
  BY ZenonT(40), <1>1, FactsHold
<1> HIDE DEF N, role, ahead
<1>3. /\ N \in Nat /\ N = Len(line) /\ Len(args) = N /\ DOMAIN args = 1..N /\ argc = N + 1
      /\ optind \in 1..(N + 1) /\ n \in 0..N /\ n + 1 = optind
      /\ s \in Int /\ s \in {-1} \cup 1..n
      /\ nonopt_end \in Int /\ nonopt_end \in {-1} \cup Nat
      /\ nonopt_end # -1 => /\ s # -1 /\ s < nonopt_end /\ nonopt_end <= n
  BY <1>1, <1>2 DEF Facts
<1>4. /\ \A i \in optind..N : args[i] = line[i]
      /\ Counts(ahead, role, N)
      /\ ReadSoFar(line, role, n)
      /\ posix => s = -1
      /\ BlocksAt(args, line, role, ahead, s, nonopt_end, n)
  BY <1>2, Zenon DEF Facts
<1>5. role = Roles(line, posix) /\ ahead = Ahead(role, N)
  BY ZenonT(40) DEF role, ahead
<1>6. CASE EndOfArguments
  <2>1. Finish(optind, nonopt_end) /\ KeepLine /\ optind >= argc
    BY <1>6, Zenon DEF EndOfArguments
  <2>2. n = N /\ \A i \in (n + 1)..N : FALSE
    BY <1>3, <2>1
  <2>3. Finish(n + 1, nonopt_end) /\ \A i \in (n + 1)..N : role[i] = "rest" /\ args[i] = line[i]
    BY <1>3, <2>1, <2>2, Zenon
  <2> HIDE DEF n, s
  <2> QED
    BY <1>2, <1>3, <1>4, <1>5, <2>1, <2>3, FinishSorts DEF s
<1>7. ASSUME optind < argc PROVE /\ optind \in 1..N /\ n \in 0..(N - 1) /\ args[optind] = line[optind]
                                 /\ role[optind] = IF line[optind].kind = "end" THEN "end"
                                                   ELSE IF line[optind].kind # "word" THEN "option"
                                                   ELSE IF posix THEN "rest" ELSE "word"
  <2>1. optind \in 1..N /\ n \in 0..(N - 1) /\ optind \in optind..N /\ Len(line) \in Nat /\ optind \in 1..Len(line)
    BY <1>3, <1>7
  <2>2. args[optind] = line[optind]
    BY <1>4, <2>1, Zenon
  <2>3. ReadSoFar(line, Roles(line, posix), optind - 1)
    BY <1>4, Zenon DEF role
  <2>4. Roles(line, posix)[optind] = IF line[optind].kind = "end" THEN "end"
                                     ELSE IF line[optind].kind # "word" THEN "option"
                                     ELSE IF posix THEN "rest" ELSE "word"
    BY ZenonT(40), <2>1, <2>3, RoleHere
  <2> QED
    BY <2>1, <2>2, <2>4, Zenon DEF role
<1>8. CASE DashDash
  <2>1. Finish(optind + 1, BlockEnd) /\ KeepLine /\ optind < argc /\ args[optind].kind = "end"
    BY <1>8, Zenon DEF DashDash, AtArgument
  <2>2. role[optind] = "end" /\ optind \in 1..N /\ n \in 0..(N - 1) /\ args[optind] = line[optind]
    BY <1>7, <2>1, Zenon
  <2> DEFINE e == EndOfBlock(s, nonopt_end, n)
  <2>3. e = BlockEnd
    BY <1>3, Zenon DEF EndOfBlock, BlockEnd
  <2>4. e \in Int /\ (s # -1 => e # -1 /\ e <= n + 1) /\ (e # -1 => s # -1 /\ s < e /\ e <= n + 1)
    BY <1>3 DEF EndOfBlock
  <2>5. BlocksAt(args, line, role, ahead, s, e, n)
    <3> HIDE DEF n, s
    <3> QED
      BY ZenonT(40), <1>3, <1>4, BlockEnds
  <2> HIDE DEF e
  <2> DEFINE k == n + 1
  <2>6. BlocksAt(args, line, role, ahead, s, e, k)
    <3>1. IsAhead(role[n + 1]) /\ args[n + 1] = line[n + 1]
      <4>1. IsAhead(role[optind])
        BY ZenonT(40), <2>2 DEF IsAhead
      <4> QED
        BY <1>3, <2>2, <4>1, Zenon
    <3> HIDE DEF n, s
    <3> QED
      BY <1>3, <1>4, <2>2, <2>4, <2>5, <3>1, OneAhead DEF k
  <2>7. k = optind /\ k \in 0..N /\ \A i \in (k + 1)..N : i \in optind..N /\ i \in (optind + 1)..N
    BY <1>3, <2>2
  <2>8. \A i \in (k + 1)..N : role[i] = "rest" /\ args[i] = line[i]
    <3> TAKE i \in (k + 1)..N
    <3>1. args[i] = line[i]
      BY <1>4, <2>7, ZenonT(40)
    <3>2. Len(line) \in Nat /\ optind \in 0..Len(line) /\ i \in (optind + 1)..Len(line)
      BY <1>3, <2>2, <2>7
    <3>3. Roles(line, posix)[optind] \in {"end", "rest"}
      BY <2>2 DEF role
    <3>4. Roles(line, posix)[i] = "rest"
      BY <3>2, <3>3, RestStays
    <3> QED
      BY <3>1, <3>4 DEF role
  <2>9. Finish(k + 1, e)
    BY <2>1, <2>3, <2>7, Zenon
  <2>10. e # -1 => nonopt_start # -1 /\ nonopt_start < e /\ e <= k
    BY <2>4, Zenon
  <2> HIDE DEF k, n
  <2> QED
    BY <1>2, <1>5, <2>1, <2>4, <2>6, <2>7, <2>8, <2>9, <2>10, FinishSorts
<1>9. CASE StopAtWord
  <2>1. /\ posix /\ optind < argc /\ args[optind].kind = "word" /\ outcome' = "end"
        /\ line' = line /\ posix' = posix /\ args' = args /\ optind' = optind
    BY <1>9, Zenon DEF StopAtWord, AtArgument, LeavesLoop
  <2>2. role[optind] = "rest" /\ optind \in 1..N
    <3>1. "word" # "end"
      OBVIOUS
    <3> QED
      BY <1>7, <2>1, <3>1, Zenon
  <2>3. \A i \in (n + 1)..N : role[i] = "rest" /\ args[i] = line[i]
    <3> TAKE i \in (n + 1)..N
    <3>1. i \in optind..N /\ (i = optind \/ i \in (optind + 1)..N)
      BY <1>3
    <3>2. args[i] = line[i]
      BY <1>4, <3>1, Zenon
    <3>3. CASE i = optind
      BY <2>2, <3>2, <3>3
    <3>4. CASE i \in (optind + 1)..N
      <4>1. Len(line) \in Nat /\ optind \in 0..Len(line) /\ i \in (optind + 1)..Len(line)
        BY <1>3, <2>2, <3>4
      <4>2. Roles(line, posix)[optind] \in {"end", "rest"}
        BY <2>2 DEF role
      <4>3. Roles(line, posix)[i] = "rest"
        BY <4>1, <4>2, RestStays
      <4> QED
        BY <3>2, <4>3 DEF role
    <3> QED
      BY <3>1, <3>3, <3>4
  <2>4. /\ n - ahead[n] = 0 /\ Standing(args, line, role, ahead, s, n - ahead[n], n)
    BY <1>4, <2>1, Zenon DEF BlocksAt
  <2>5. ahead[n] \in 0..n
    BY <1>3, <1>4, Zenon DEF Counts
  <2>6. Standing(args, line, role, ahead, ahead[n] + 1, n - ahead[n], n)
    <3>1. Standing(args, line, role, ahead, s, 0, n)
      BY ZenonT(40), <2>4
    <3> DEFINE t == ahead[n] + 1
    <3> HIDE DEF t, n, s
    <3>2. Standing(args, line, role, ahead, t, 0, n)
      BY <1>3, <1>4, <2>4, <3>1, StandsAnywhere
    <3> QED
      BY <2>4, <3>2, Zenon DEF t
  <2>7. /\ ahead[N] = ahead[n]
        /\ \A i \in 1..N : args[SortedPlace(role, ahead, N, i)] = line[i]
    <3> HIDE DEF n
    <3>1. AllPlaced(args, line, role, ahead, n, N)
      BY <1>3, <1>4, <2>3, <2>6, SortedWhenRead
    <3> QED
      BY <3>1, ZenonT(40) DEF AllPlaced
  <2>8. optind = ahead[N] + 1
    <3> DEFINE m == ahead[n]
    <3>1. m \in Int /\ n - m = 0 /\ ahead[N] = m
      BY <1>3, <2>4, <2>5, <2>7
    <3> HIDE DEF m
    <3> QED
      BY <1>3, <3>1
  <2>9. WordsLast'
    <3>1. Roles(line', posix') = role /\ Len(line') = N /\ Ahead(role, N) = ahead
      BY <1>3, <1>5, <2>1, Zenon
    <3>2. /\ Len(args') = N /\ optind' = ahead[N] + 1
          /\ \A i \in 1..N : args'[SortedPlace(role, ahead, N, i)] = line'[i]
      BY <1>3, <2>1, <2>7, <2>8, Zenon
    <3> QED
      BY <3>1, <3>2, Zenon DEF WordsLast
  <2>10. Reading'
    <3>1. outcome' # "none"
      BY <2>1
    <3> QED
      BY <3>1, Zenon DEF Reading
  <2> QED
    BY <2>9, <2>10
<1>10. CASE SkipWord
  <2>1. /\ ~posix /\ optind < argc /\ args[optind].kind = "word" /\ outcome' = outcome
        /\ line' = line /\ posix' = posix /\ optind' = optind + 1 /\ place' = place
    BY <1>10, Zenon DEF SkipWord, AtArgument, KeepLine
  <2>2. role[optind] = "word" /\ optind \in 1..N /\ n \in 0..(N - 1) /\ args[optind] = line[optind]
    <3>1. "word" # "end"
      OBVIOUS
    <3> QED
      BY <1>7, <2>1, <3>1, Zenon
  <2>3. ~IsAhead(role[n + 1]) /\ line[n + 1] = args[n + 1]
    <3>1. ~IsAhead(role[optind])
      BY <2>2 DEF IsAhead
    <3> QED
      BY <1>3, <2>2, <3>1, Zenon
  <2>4. ahead[n + 1] = ahead[n] /\ ahead[n] \in 0..n
    <3>1. n + 1 \in 1..N /\ (n + 1) - 1 = n
      BY ZenonT(40), <1>3, <2>2
    <3> QED
      BY <1>3, <1>4, <2>3, <3>1, Zenon DEF Counts
  <2> DEFINE A == args'
             t == nonopt_start'
             m == ahead[n]
             w == n - m
  <2>5. /\ nonopt_end' = -1 /\ t = m + 1 /\ A[n + 1] = line[n + 1]
        /\ Standing(A, line, role, ahead, t, w, n)
    <3>0. w \in Nat /\ m \in Nat /\ n \in Nat
      BY <1>3, <2>4
    <3>1. CASE s # -1 /\ nonopt_end # -1
      <4> DEFINE e == nonopt_end
      <4>1. A = permute_args(s, e, optind, args) /\ t = optind - (e - s) /\ nonopt_end' = -1
        BY <1>10, <3>1, Zenon DEF SkipWord
      <4>2. s >= 1 /\ s < e /\ e <= n /\ n \in 1..N
        BY <1>3, <3>1
      <4> DEFINE r == permute_args(s, e, n + 1, args)
      <4>3. /\ Standing(r, line, role, ahead, m + 1, w, n) /\ e - s = w
            /\ \A p \in (n + 1)..N : r[p] = args[p]
        <5>1. WordsMoved(r, args, line, role, ahead, s, e, n, N)
          <6> HIDE DEF n, s
          <6> QED
            BY <1>3, <1>4, <4>2, Sorts
        <5> QED
          BY <5>1, ZenonT(40) DEF WordsMoved
      <4>4. A = r /\ t = (n + 1) - w
        BY <1>3, <4>1, <4>3, Zenon
      <4>5. (n + 1) - w = m + 1 /\ n + 1 \in (n + 1)..N
        BY <1>3, <2>2, <3>0
      <4> HIDE DEF r, w, m, n, A, t
      <4>6. A[n + 1] = line[n + 1]
        BY <2>3, <4>3, <4>4, <4>5, Zenon
      <4> QED
        BY <4>1, <4>3, <4>4, <4>5, <4>6, Zenon
    <3>2. CASE ~(s # -1 /\ nonopt_end # -1)
      <4>1. /\ t = (IF s = -1 THEN optind ELSE s) /\ A = args /\ nonopt_end' = nonopt_end
        BY <1>10, <3>2, Zenon DEF SkipWord
      <4>2. nonopt_end = -1
        BY <1>3, <3>2
      <4>3. /\ Standing(args, line, role, ahead, s, w, n) /\ (s = -1 <=> w = 0) /\ (s # -1 => s = m + 1)
        BY <1>4, <4>2, Zenon DEF BlocksAt
      <4>4. t = m + 1
        <5>1. CASE s = -1
          <6> HIDE DEF m, n
          <6> QED
            BY <1>3, <3>0, <4>1, <4>3, <5>1
        <5>2. CASE s # -1
          BY <4>1, <4>3, <5>2, Zenon
        <5> QED
          BY <5>1, <5>2
      <4>5. Standing(args, line, role, ahead, t, w, n)
        <5>1. CASE s # -1
          BY <4>1, <4>3, <5>1, Zenon
        <5>2. CASE s = -1
          <6>1. n - ahead[n] = 0 /\ w = 0
            BY <4>3, <5>2
          <6>2. Standing(args, line, role, ahead, s, 0, n)
            BY <4>3, <6>1, ZenonT(40)
          <6> HIDE DEF t, n, s
          <6>3. Standing(args, line, role, ahead, t, 0, n)
            BY <1>3, <1>4, <6>1, <6>2, StandsAnywhere
          <6> HIDE DEF w
          <6> QED
            BY <6>1, <6>3, Zenon
        <5> QED
          BY <5>1, <5>2
      <4> QED
        BY <2>3, <4>1, <4>2, <4>4, <4>5, Zenon
    <3> QED
      BY <3>1, <3>2
  <2>6. m \in Nat /\ n \in Nat /\ t \in Int /\ w \in Nat /\ (n + 1) - m # 0 /\ t # -1 /\ optind' - 1 = n + 1
    <3>1. m \in Nat /\ n \in Nat /\ optind' - 1 = n + 1 /\ n >= m
      BY <1>3, <2>1, <2>4
    <3> HIDE DEF m, n, t
    <3> QED
      BY <2>5, <3>1
  <2>7. Standing(A, line, role, ahead, t, (n + 1) - ahead[n + 1], n + 1)
    <3>1. IF IsAhead(role[n + 1]) THEN t <= ahead[n] + 1 ELSE t = ahead[n] + 1
      BY <2>3, <2>5, Zenon
    <3> HIDE DEF A, t, n
    <3> QED
      BY ZenonT(40), <1>3, <1>4, <2>2, <2>5, <2>6, <3>1, StandsMore DEF w, m
  <2>8. BlocksAt(A, line, role, ahead, t, nonopt_end', n + 1)
    <3> HIDE DEF A, t, n
    <3>1. t = ahead[n + 1] + 1 /\ (n + 1) - ahead[n + 1] # 0
      BY <2>4, <2>5, <2>6, Zenon
    <3> QED
      BY <2>5, <2>6, <2>7, <3>1, Zenon DEF BlocksAt
  <2>9. ReadSoFar(line, role, n + 1)
    <3>1. \A i \in 1..(n + 1) : i \in 1..n \/ i = n + 1
      BY <1>3
    <3>2. role[n + 1] \in {"option", "argument", "word"} /\ role[n + 1] # "option"
      BY <1>3, <2>2
    <3>3. \A i \in 1..n : role[i] \in {"option", "argument", "word"}
      BY <1>4, Zenon DEF ReadSoFar
    <3> HIDE DEF n
    <3> QED
      BY <3>1, <3>2, <3>3, Zenon DEF ReadSoFar
  <2>10. Reading'
    <3>1. Roles(line', posix') = role /\ Len(line') = N /\ Ahead(role, N) = ahead
      BY <1>3, <1>5, <2>1, Zenon
    <3>2. /\ ReadSoFar(line', role, optind' - 1)
          /\ ~posix' /\ place' = <<>>
          /\ BlocksAt(args', line', role, ahead, nonopt_start', nonopt_end', optind' - 1)
      BY <1>1, <2>1, <2>6, <2>8, <2>9, Zenon
    <3> QED
      BY <3>1, <3>2, Zenon DEF Reading
  <2>11. WordsLast'
    <3>1. outcome' # "end"
      BY <1>1, <2>1
    <3> QED
      BY <3>1, Zenon DEF WordsLast
  <2> QED
    BY <2>10, <2>11
<1> QED
  BY <1>6, <1>8, <1>9, <1>10, Zenon

\* Nothing is read at first.
LEMMA ReadingStarts == Init => Reading /\ WordsLast
<1> SUFFICES ASSUME Init PROVE Reading /\ WordsLast
  OBVIOUS
<1> DEFINE N == Len(line)
           role == Roles(line, posix)
           ahead == Ahead(role, N)
<1>1. /\ line \in Lines /\ args = line /\ optind = 1 /\ place = <<>>
      /\ nonopt_start = -1 /\ nonopt_end = -1 /\ outcome = "none"
  BY Zenon DEF Init
<1>2. N \in Nat /\ optind - 1 = 0
  BY <1>1, LinesAssumption
<1>3. role[0] = "none" /\ "none" # "option"
  BY <1>2, RolesTable
<1> HIDE DEF role
<1>4. ahead[0] = 0
  <2> HIDE DEF N
  <2>1. Counts(ahead, role, N)
    BY <1>2, AheadTable
  <2> QED
    BY <2>1, Zenon DEF Counts
<1>5. \A i \in 1..0 : FALSE
  OBVIOUS
<1> HIDE DEF ahead, N
<1>6. ReadSoFar(line, role, 0)
  BY <1>3, <1>5, Zenon DEF ReadSoFar
<1>7. BlocksAt(args, line, role, ahead, nonopt_start, nonopt_end, 0)
  <2>1. 0 - ahead[0] = 0
    BY <1>4
  <2> QED
    BY <1>1, <1>5, <2>1, Zenon DEF BlocksAt, Standing
<1>8. Reading
  BY <1>1, <1>2, <1>6, <1>7, Zenon DEF Reading, role, ahead, N
<1>9. WordsLast
  <2>1. outcome # "end"
    BY <1>1
  <2> QED
    BY <2>1, Zenon DEF WordsLast
<1> QED
  BY <1>8, <1>9

\* Every step of the parser keeps Reading and WordsLast.
LEMMA ReadingStays == IInv /\ Reading /\ WordsLast /\ [Next]_vars => Reading' /\ WordsLast'
<1> SUFFICES ASSUME IInv, Reading, WordsLast, [Next]_vars PROVE Reading' /\ WordsLast'
  OBVIOUS
<1>1. CASE UNCHANGED vars
  BY <1>1, Zenon DEF vars, Reading, WordsLast
<1> QED
  BY <1>1, OptionsAreRead, WordsAreRead, Zenon DEF Next

\* When the parser is through, the options with their arguments stand before all
\* words, both in the order in which they were given, and optind is at the first
\* word: for a line of any length, however often permute_args was called and
\* whatever the lengths of the blocks it exchanged.
THEOREM OptionsBeforeWords == Spec => []WordsLast
<1>1. Init => IInv /\ Reading /\ WordsLast
  BY Starts, ReadingStarts
<1>2. IInv /\ Reading /\ WordsLast /\ [Next]_vars => (IInv /\ Reading /\ WordsLast)'
  BY StepKeeps, ReadingStays, Zenon
<1> QED
  BY <1>1, <1>2, PTL DEF Spec

(* The theorems *)

\* However many words are skipped and permuted on a line of any length, optind
\* stays within argv and its final NULL, and permute_args is never called with an
\* empty block (its gcd divides by the length of the second one).
THEOREM ParserStaysInArgv == Spec => []IndicesOK
<1>1. IInv => IndicesOK
  BY Zenon DEF IInv
<1> QED
  BY Starts, StepKeeps, <1>1, PTL DEF Spec

\* The path process_cmdline takes for create, index or lint is the argument that
\* stood at optind on the line as the user wrote it: no permutation made before
\* has moved it.
THEOREM PathIsAsWritten == Spec => []PathFollowsCommand
<1>1. IInv => PathFollowsCommand
  BY Zenon DEF IInv
<1> QED
  BY Starts, StepKeeps, <1>1, PTL DEF Spec

\* optarg is never NULL when process_cmdline hands it to atoi for -v.
THEOREM VerbosityHasArgument == Spec => []ArgumentIsThere
<1>1. IInv => ArgumentIsThere
  BY Zenon DEF IInv
<1> QED
  BY Starts, StepKeeps, <1>1, PTL DEF Spec

\* The letters of the current cluster that are still to be read.
LettersLeft ==
    IF place # <<>> THEN Len(place)
    ELSE IF optind < argc /\ args[optind].kind = "short" THEN Len(args[optind].letters) ELSE 0

\* What a call of getopt_long gets done: the last one, an argument, or a letter.
Advances ==
    /\ outcome = "none"
    /\ \/ outcome' # "none"
       \/ optind' \in (optind + 1)..(Len(line) + 1)
       \/ optind' = optind /\ LettersLeft' \in 0..(LettersLeft - 1)

\* Every step of the parser reads something.
LEMMA StepAdvances == IInv /\ IInv' /\ Reading /\ Next => Advances
<1> SUFFICES ASSUME IInv, IInv', Reading, Next PROVE Advances
  OBVIOUS
<1>1. outcome = "none"
  <2>1. AtArgument => outcome = "none"
    BY Zenon DEF AtArgument
  <2> QED
    BY <2>1, Zenon DEF Next, EndOfArguments, StopAtWord, SkipWord, DashDash, parse_long_options, ShortOption
<1>2. /\ line \in Lines /\ Len(args) = Len(line) /\ DOMAIN args = 1..Len(line) /\ Len(line) \in Nat
      /\ optind \in 1..(Len(line) + 1) /\ \A i \in optind..Len(line) : args[i] = line[i]
  <2>1. /\ line \in Lines /\ Len(args) = Len(line) /\ DOMAIN args = 1..Len(line)
        /\ optind \in 1..argc /\ (outcome = "none" => \A i \in optind..Len(line) : args[i] = line[i])
    BY Zenon DEF IInv, IndicesOK, Unread
  <2>2. Len(line) \in Nat
    BY <2>1, LinesAssumption, Zenon
  <2> QED
    BY <1>1, <2>1, <2>2 DEF argc
<1>3. line' = line
  BY Zenon DEF Next, EndOfArguments, StopAtWord, SkipWord, DashDash, parse_long_options, ShortOption,
               TakeNext, Found, KeepLine
<1>4. optind' \in Int /\ optind' <= Len(line) + 1
  <2>1. optind' \in 1..(Len(args') + 1) /\ Len(args') = Len(line')
    BY Zenon DEF IInv, IndicesOK, argc
  <2> QED
    BY <1>2, <1>3, <2>1
<1>5. outcome' # "none" => Advances
  BY <1>1, Zenon DEF Advances
<1>6. optind' > optind => Advances
  <2>1. optind' > optind => optind' \in (optind + 1)..(Len(line) + 1)
    BY <1>2, <1>4
  <2> QED
    BY <1>1, <2>1, Zenon DEF Advances
<1>7. CASE EndOfArguments \/ StopAtWord \/ DashDash
  <2>1. outcome' = "end"
    BY <1>7, Zenon DEF EndOfArguments, StopAtWord, DashDash, Finish, LeavesLoop
  <2>2. "end" # "none"
    OBVIOUS
  <2> QED
    BY <1>5, <2>1, <2>2, Zenon
<1>8. CASE SkipWord
  <2>1. optind' = optind + 1
    BY <1>8, Zenon DEF SkipWord
  <2> QED
    BY <1>2, <1>6, <2>1
<1>9. CASE parse_long_options
  <2>1. optind' = optind + 1 \/ optind' = (optind + 1) + 1
    BY <1>9, Zenon DEF parse_long_options, TakeNext, Found
  <2> QED
    BY <1>2, <1>6, <2>1
<1>10. CASE ShortOption
  <2> DEFINE letters == IF place # <<>> THEN place ELSE args[optind].letters
             rest == Tail(letters)
  <2>1. \/ optind' = optind + 1 \/ optind' = (optind + 1) + 1
        \/ rest # <<>> /\ optind' = optind /\ place' = rest
    BY <1>10, Zenon DEF ShortOption, TakeNext, Found, AfterLetter
  <2>2. letters \in Seq(STRING) /\ letters # <<>> /\ LettersLeft = Len(letters)
    <3>1. CASE place # <<>>
      <4>1. place \in Seq(STRING)
        BY <1>1, <3>1, Zenon DEF Reading
      <4> QED
        BY <3>1, <4>1, Zenon DEF LettersLeft
    <3>2. CASE place = <<>>
      <4>1. optind < argc /\ args[optind].kind = "short"
        BY <1>10, <3>2, Zenon DEF ShortOption, AtArgument
      <4>2. optind \in optind..Len(line) /\ optind \in DOMAIN line
        <5>1. DOMAIN line = 1..Len(line)
          BY <1>2, LinesAssumption, Zenon
        <5> QED
          BY <1>2, <4>1, <5>1 DEF argc
      <4>3. args[optind] = line[optind]
        BY <1>2, <4>2, Zenon
      <4>4. \/ line[optind].kind \in {"word", "end"}
            \/ line[optind].kind = "short" /\ line[optind].letters \in Seq(STRING) \ {<<>>}
            \/ line[optind].kind = "long" /\ line[optind].eq \in BOOLEAN
        BY <1>2, <4>2, LinesAssumption, Zenon
      <4>5. args[optind].letters \in Seq(STRING) /\ args[optind].letters # <<>>
        BY <4>1, <4>3, <4>4
      <4> QED
        BY <3>2, <4>1, <4>5, Zenon DEF LettersLeft
    <3> QED
      BY <3>1, <3>2, Zenon
  <2> HIDE DEF letters
  <2>3. Len(rest) = Len(letters) - 1 /\ Len(rest) \in Nat
    BY <2>2
  <2>4. CASE rest # <<>> /\ optind' = optind /\ place' = rest
    <3>1. LettersLeft' = Len(rest)
      BY <2>4, Zenon DEF LettersLeft
    <3>2. LettersLeft' \in 0..(LettersLeft - 1)
      BY <2>2, <2>3, <3>1
    <3> QED
      BY <1>1, <2>4, <3>2, Zenon DEF Advances
  <2>5. CASE optind' = optind + 1 \/ optind' = (optind + 1) + 1
    BY <1>2, <1>6, <2>5
  <2> QED
    BY <2>1, <2>4, <2>5, Zenon
<1> QED
  BY <1>7, <1>8, <1>9, <1>10, Zenon DEF Next

\* getopt_long never goes round in place: each of its calls ends the parsing, moves
\* optind on, never behind argv's final NULL, or leaves fewer letters of the
\* cluster at optind.  So a line of any length is read in finitely many calls; that
\* the calls are made is the fairness of Spec.
THEOREM EveryCallAdvances == Spec => [][Advances]_vars
<1>1. Init => IInv /\ Reading /\ WordsLast
  BY Starts, ReadingStarts, Zenon
<1>2. IInv /\ Reading /\ WordsLast /\ [Next]_vars => (IInv /\ Reading /\ WordsLast)'
  BY StepKeeps, ReadingStays, Zenon
<1>3. IInv /\ IInv' /\ Reading /\ [Next]_vars => [Advances]_vars
  BY StepAdvances, Zenon
<1> QED
  BY <1>1, <1>2, <1>3, PTL DEF Spec

=============================================================================
