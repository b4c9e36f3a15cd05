-------------------------- MODULE RequestBodyProofs --------------------------
(***************************************************************************)
(* Proofs about RequestBody, for bodies of any bytes and any length and    *)
(* for any number of calls: what _content holds, where read_line cuts, and *)
(* how far url_decode looks.                                               *)
(***************************************************************************)
EXTENDS RequestBody, Recursion, SequenceTheorems

-----------------------------------------------------------------------------
(* url_decode *)

\* The value of the loop at src, from those of the later positions.
DecodeStep(s, f, src) ==
    IF src > Len(s) THEN [out |-> <<>>, far |-> src]
    ELSE LET r == DecodeAt(s, src)
             rest == f[src + r.skip]
         IN  [out |-> <<r.byte>> \o rest.out,
              far |-> IF r.far > rest.far THEN r.far ELSE rest.far]

\* The loop reads one position or three.
LEMMA Skips ==
    ASSUME NEW s, NEW src
    PROVE  DecodeAt(s, src).skip \in {1, 3}
BY DEF DecodeAt

\* The loop of url_decode is defined at every position.
LEMMA DecodeTable ==
    ASSUME NEW s, Len(s) \in Nat
    PROVE  \E f : /\ f = [src \in 1..(Len(s) + 3) |-> DecodeStep(s, f, src)]
                  /\ Decoded(s) = f[1]
<1> DEFINE L == Len(s)
           m == CHOOSE f : f = [src \in 1..(Len(s) + 3) |-> DecodeStep(s, f, src)]
<1>1. ASSUME NEW f, NEW g, NEW x \in 1..(L + 3), \A y \in (x + 1)..(L + 3) : f[y] = g[y]
      PROVE  DecodeStep(s, f, x) = DecodeStep(s, g, x)
  <2>1. CASE x > L
    BY <2>1, Zenon DEF DecodeStep
  <2>2. CASE ~(x > L)
    <3> DEFINE y == x + DecodeAt(s, x).skip
    <3>1. y \in (x + 1)..(L + 3)
      BY <2>2, Skips
    <3>2. f[y] = g[y]
      <4> HIDE DEF y
      <4> QED
        BY <1>1, <3>1, Zenon
    <3> QED
      BY <2>2, <3>2, Zenon DEF DecodeStep
  <2> QED
    BY <2>1, <2>2
<1> DEFINE T == {n \in 0..(L + 2) : \E f : f = [x \in (L + 3 - n)..(L + 3) |-> DecodeStep(s, f, x)]}
<1>2. 0 \in T
  <2> DEFINE f == [x \in (L + 3 - 0)..(L + 3) |-> DecodeStep(s, <<>>, x)]
  <2>1. ASSUME NEW x \in (L + 3 - 0)..(L + 3) PROVE f[x] = DecodeStep(s, f, x)
    <3>1. x > L
      OBVIOUS
    <3> QED
      BY <3>1, Zenon DEF DecodeStep
  <2>2. f = [x \in (L + 3 - 0)..(L + 3) |-> DecodeStep(s, f, x)]
    <3>1. f = [x \in (L + 3 - 0)..(L + 3) |-> f[x]]
      BY Zenon
    <3> HIDE DEF f
    <3> QED
      BY <2>1, <3>1, Zenon
  <2>3. 0 \in 0..(L + 2)
    OBVIOUS
  <2> HIDE DEF f
  <2> QED
    BY <2>2, <2>3, Zenon
<1>3. ASSUME NEW n \in T, n \in 0..(L + 2 - 1) PROVE n + 1 \in T
  <2>1. PICK f : f = [x \in (L + 3 - n)..(L + 3) |-> DecodeStep(s, f, x)]
    BY Zenon
  <2> DEFINE a == L + 3 - (n + 1)
             g == [x \in a..(L + 3) |-> IF x = a THEN DecodeStep(s, f, x) ELSE f[x]]
  <2>2. /\ a \in 1..(L + 3) /\ n + 1 \in 0..(L + 2)
        /\ \A y \in (a + 1)..(L + 3) : y \in (L + 3 - n)..(L + 3) /\ y \in a..(L + 3) /\ y # a
        /\ \A x \in a..(L + 3) : x \in 1..(L + 3) /\ (x = a \/ x \in (a + 1)..(L + 3))
        /\ \A x \in a..(L + 3) : \A y \in (x + 1)..(L + 3) : y \in (a + 1)..(L + 3)
    BY <1>3
  <2> HIDE DEF a, L
  <2>3. \A y \in (a + 1)..(L + 3) : g[y] = f[y] /\ f[y] = DecodeStep(s, f, y)
    BY <2>1, <2>2, Zenon
  <2>4. ASSUME NEW x \in a..(L + 3) PROVE g[x] = DecodeStep(s, g, x)
    <3>1. DecodeStep(s, f, x) = DecodeStep(s, g, x)
      <4>1. \A y \in (x + 1)..(L + 3) : f[y] = g[y]
        BY <2>2, <2>3, Zenon
      <4> HIDE DEF g
      <4> QED
        BY <1>1, <2>2, <4>1, Zenon
    <3>2. g[x] = DecodeStep(s, f, x)
      BY <2>2, <2>3, Zenon
    <3> QED
      BY <3>1, <3>2, Zenon
  <2>5. g = [x \in a..(L + 3) |-> DecodeStep(s, g, x)]
    <3>1. g = [x \in a..(L + 3) |-> g[x]]
      BY Zenon
    <3> HIDE DEF g
    <3> QED
      BY <2>4, <3>1, Zenon
  <2> HIDE DEF g
  <2> QED
    BY <2>2, <2>5, Zenon DEF a
<1>4. L + 2 \in T
  <2> DEFINE N == L + 2
  <2>1. N \in Nat /\ N \in 0..N
    OBVIOUS
  <2>2. \A n \in T : n \in 0..(N - 1) => n + 1 \in T
    BY <1>3
  <2> HIDE DEF T, L, N
  <2>3. 0..N \subseteq T
    BY <1>2, <2>1, <2>2, BoundedInduction
  <2> QED
    BY <2>1, <2>3, Zenon DEF N
<1>5. L + 3 - (L + 2) = 1
  OBVIOUS
<1>6. \E f : f = [src \in 1..(Len(s) + 3) |-> DecodeStep(s, f, src)]
  BY <1>4, <1>5
<1>7. m = [src \in 1..(Len(s) + 3) |-> DecodeStep(s, m, src)]
  BY <1>6, Zenon
<1>8. Decoded(s) = m[1]
  BY Zenon DEF Decoded, DecodeStep
<1> QED
  BY <1>7, <1>8, Zenon
\* An escape is read behind its first digit only if that is one, and the NUL is none.
LEMMA DecodeAtInside ==
    ASSUME NEW s, Len(s) \in Nat, NEW src \in 1..Len(s)
    PROVE  /\ DecodeAt(s, src).far \in Nat /\ DecodeAt(s, src).far <= Len(s) + 1
           /\ src + DecodeAt(s, src).skip <= Len(s) + 1
<1>1. hex2int(NUL) = 255
  <2>1. (0 - 48) % 256 = 208 /\ 208 > 9
    <3>1. \A x \in Int : x + 256 = 208 => x % 256 = 208
      OBVIOUS
    <3>2. 0 - 48 \in Int /\ (0 - 48) + 256 = 208 /\ 208 > 9
      OBVIOUS
    <3> QED
      BY <3>1, <3>2, Zenon
  <2>2. Or32(208 + 47) = 255
    <3>1. (255 \div 32) % 2 = 1 /\ 255 % 256 = 255
      OBVIOUS
    <3> QED
      BY <3>1 DEF Or32
  <2>3. (255 - 97 + 11) % 256 = 169 /\ 169 > 15
    OBVIOUS
  <2> QED
    BY <2>1, <2>2, <2>3 DEF hex2int, NUL
<1> DEFINE high == hex2int(At(s, src + 1))
           low == hex2int(At(s, src + 2))
<1>2. high # 255 => src + 1 # Len(s) + 1
  BY <1>1, Zenon DEF At
<1>3. low # 255 => src + 2 # Len(s) + 1
  BY <1>1, Zenon DEF At
<1> HIDE DEF high, low
<1>4. \/ DecodeAt(s, src) = [byte |-> SPACE, skip |-> 1, far |-> src]
      \/ DecodeAt(s, src) = [byte |-> s[src], skip |-> 1, far |-> src]
      \/ DecodeAt(s, src) = [byte |-> PERCENT, skip |-> 1, far |-> src + 1]
      \/ high # 255 /\ DecodeAt(s, src) = [byte |-> PERCENT, skip |-> 1, far |-> src + 2]
      \/ /\ high # 255 /\ low # 255
         /\ DecodeAt(s, src) = [byte |-> high * 16 + low, skip |-> 3, far |-> src + 2]
  BY DEF DecodeAt, high, low
<1>5. \/ DecodeAt(s, src).skip = 1 /\ DecodeAt(s, src).far \in {src, src + 1}
      \/ high # 255 /\ DecodeAt(s, src).skip = 1 /\ DecodeAt(s, src).far = src + 2
      \/ high # 255 /\ low # 255 /\ DecodeAt(s, src).skip = 3 /\ DecodeAt(s, src).far = src + 2
  BY <1>4
<1> QED
  BY <1>2, <1>3, <1>5

\* url_decode reads nothing behind the NUL at the end of its argument.
LEMMA DecodeInside ==
    ASSUME NEW s, Len(s) \in Nat
    PROVE  Decoded(s).far \in Nat /\ Decoded(s).far <= Len(s) + 1
<1> DEFINE L == Len(s)
<1>1. PICK f : /\ f = [src \in 1..(Len(s) + 3) |-> DecodeStep(s, f, src)]
               /\ Decoded(s) = f[1]
  BY DecodeTable, Zenon
<1>2. \A src \in 1..(L + 3) : f[src] = DecodeStep(s, f, src)
  BY <1>1, Zenon
<1> DEFINE Fine(x) == f[x].far \in Nat /\ f[x].far <= L + 1
           T == {n \in 0..L : \A x \in (L + 1 - n)..(L + 1) : Fine(x)}
<1>3. 0 \in T
  <2>1. f[L + 1] = [out |-> <<>>, far |-> L + 1]
    <3>1. L + 1 \in 1..(L + 3) /\ L + 1 > L
      OBVIOUS
    <3> QED
      BY <1>2, <3>1, Zenon DEF DecodeStep
  <2> QED
    BY <2>1
<1>4. ASSUME NEW n \in T, n \in 0..(L - 1) PROVE n + 1 \in T
  <2> DEFINE a == L - n
             r == DecodeAt(s, a)
             y == a + r.skip
  <2>1. a \in 1..L /\ a \in 1..(L + 3) /\ ~(a > L)
    BY <1>4
  <2>2. r.far \in Nat /\ r.far <= L + 1 /\ y \in (L + 1 - n)..(L + 1)
    <3>1. r.skip \in {1, 3}
      BY Skips, Zenon
    <3>2. r.far \in Nat /\ r.far <= L + 1 /\ a + r.skip <= L + 1
      BY <2>1, DecodeAtInside
    <3> HIDE DEF r
    <3> QED
      BY <1>4, <3>1, <3>2
  <2>3. Fine(y)
    <3> HIDE DEF y, Fine, L
    <3> QED
      BY <2>2, Zenon
  <2>4. f[a] = [out |-> <<r.byte>> \o f[y].out, far |-> IF r.far > f[y].far THEN r.far ELSE f[y].far]
    <3>1. f[a] = DecodeStep(s, f, a)
      BY <1>2, <2>1, Zenon
    <3> QED
      BY <2>1, <3>1, Zenon DEF DecodeStep
  <2>5. Fine(a)
    <3> HIDE DEF r, y
    <3> QED
      BY <2>2, <2>3, <2>4
  <2>6. /\ n + 1 \in 0..L
        /\ \A x \in (L + 1 - (n + 1))..(L + 1) : x = a \/ x \in (L + 1 - n)..(L + 1)
    BY <1>4
  <2> HIDE DEF Fine, L, a
  <2> QED
    BY <2>5, <2>6, Zenon
<1>5. L \in T
  <2>1. L \in Nat /\ L \in 0..L
    OBVIOUS
  <2> HIDE DEF T, L
  <2> QED
    BY <1>3, <1>4, <2>1, BoundedInduction
<1>6. 1 \in (L + 1 - L)..(L + 1)
  OBVIOUS
<1>7. Fine(1)
  <2> HIDE DEF L, Fine
  <2> QED
    BY <1>5, <1>6, Zenon
<1> QED
  BY <1>1, <1>7

-----------------------------------------------------------------------------
(* Strings *)

\* f collects the strings of ss from the first on.
Joins(f, ss, S) ==
    /\ f \in [0..Len(ss) -> Seq(S)]
    /\ f[0] = <<>>
    /\ \A i \in 1..Len(ss) : f[i] = f[i - 1] \o ss[i]
    /\ Joined(ss) = f[Len(ss)]

\* Joining strings over S gives a string over S.
LEMMA JoinedTable ==
    ASSUME NEW S, NEW ss, Len(ss) \in Nat, \A i \in 1..Len(ss) : ss[i] \in Seq(S)
    PROVE  /\ \E f : Joins(f, ss, S)
           /\ Joined(ss) \in Seq(S)
<1> DEFINE N == Len(ss)
           V == Seq(S)
           z == <<>>
           step == [i \in 1..N |-> [v \in V |-> v \o ss[i]]]
           m == CHOOSE f : f = [i \in 0..Len(ss) |-> IF i = 0 THEN <<>> ELSE f[i - 1] \o ss[i]]
<1>1. Joined(ss) = m[Len(ss)]
  BY DEF Joined
<1>2. \A k \in 1..N, v \in V : step[k][v] = v \o ss[k] /\ step[k][v] \in V
  OBVIOUS
<1>3. z \in V /\ N \in Nat
  OBVIOUS
<1>4. \E f : Iterates(f, N, V, z, step)
  <2> HIDE DEF N, V, z, step
  <2> QED
    BY <1>2, <1>3, Iteration, Zenon
<1>5. PICK f : Iterates(f, N, V, z, step)
  BY <1>4, Zenon
<1>6. f \in [0..N -> V] /\ f[0] = z /\ \A k \in 1..N : f[k] = f[k - 1] \o ss[k]
  <2>1. f \in [0..N -> V] /\ f[0] = z /\ \A k \in 1..N : f[k] = step[k][f[k - 1]]
    BY <1>5, Zenon DEF Iterates
  <2>2. \A k \in 1..N : k - 1 \in 0..N
    BY <1>3
  <2> HIDE DEF N, V, z, step
  <2> QED
    BY ZenonT(40), <1>2, <2>1, <2>2
<1>7. f = [i \in 0..Len(ss) |-> IF i = 0 THEN <<>> ELSE f[i - 1] \o ss[i]]
  <2>1. f = [i \in 0..N |-> f[i]]
    BY <1>6, Zenon
  <2>2. ASSUME NEW i \in 0..N PROVE f[i] = IF i = 0 THEN <<>> ELSE f[i - 1] \o ss[i]
    <3>1. i = 0 \/ i \in 1..N
      BY <1>3
    <3> QED
      BY <1>6, <3>1, Zenon
  <2> HIDE DEF V
  <2> QED
    BY <2>1, <2>2, Zenon
<1>8. m = [i \in 0..Len(ss) |-> IF i = 0 THEN <<>> ELSE m[i - 1] \o ss[i]]
  BY <1>7, Zenon
<1> HIDE DEF m
<1>9. m \in [0..N -> V]
  <2> DEFINE T == {i \in 0..N : m[i] \in V}
  <2>1. 0 \in T
    BY <1>3, <1>8
  <2>2. ASSUME NEW i \in T, i \in 0..(N - 1) PROVE i + 1 \in T
    <3>1. i + 1 \in 0..N /\ i + 1 # 0 /\ (i + 1) - 1 = i /\ i + 1 \in 1..N
      BY <1>3, <2>2
    <3>2. m[i + 1] = m[i] \o ss[i + 1]
      <4>1. m[i + 1] = IF i + 1 = 0 THEN <<>> ELSE m[(i + 1) - 1] \o ss[i + 1]
        BY <1>8, <3>1, Zenon
      <4> QED
        BY <3>1, <4>1, Zenon
    <3>3. m[i] \in Seq(S) /\ ss[i + 1] \in Seq(S)
      BY <3>1, Zenon
    <3>4. m[i + 1] \in V
      BY <3>2, <3>3
    <3> QED
      BY <3>1, <3>4, Zenon
  <2>3. 0..N \subseteq T
    <3> HIDE DEF T, N
    <3> QED
      BY ZenonT(40), <1>3, <2>1, <2>2, BoundedInduction
  <2>4. m = [i \in 0..N |-> m[i]]
    BY <1>8, Zenon
  <2> HIDE DEF V, N
  <2> QED
    BY <2>3, <2>4, Zenon
<1>10. \A i \in 1..N : m[i] = m[i - 1] \o ss[i]
  <2> TAKE i \in 1..N
  <2>1. i \in 0..N /\ i # 0
    BY <1>3
  <2> QED
    BY <1>8, <2>1, Zenon
<1>11. m[0] = <<>> /\ N \in 0..N
  BY <1>3, <1>8
<1> QED
  BY <1>1, <1>9, <1>10, <1>11, Zenon DEF Joins

\* What CStr leaves of a string ends before the first NUL.
LEMMA CStrType ==
    ASSUME NEW S, NEW s \in Seq(S)
    PROVE  CStr(s) \in Seq(S)
<1>1. CASE NUL \notin Range(s)
  BY <1>1, Zenon DEF CStr
<1>2. CASE NUL \in Range(s)
  <2> DEFINE First(i) == s[i] = NUL /\ NUL \notin Range(SubSeq(s, 1, i - 1))
             T == {i \in Nat : i \in 1..Len(s) /\ s[i] = NUL}
  <2>1. \E i \in T : TRUE
    BY <1>2 DEF Range
  <2>2. PICK i \in T : \A j \in T : i <= j
    BY ZenonT(40), <2>1, LeastNatural
  <2>3. First(i)
    <3>1. ASSUME NEW j \in DOMAIN SubSeq(s, 1, i - 1), SubSeq(s, 1, i - 1)[j] = NUL
          PROVE  FALSE
      <4>1. j \in 1..(i - 1) /\ s[j] = NUL
        BY <3>1
      <4> QED
        BY <2>2, <4>1
    <3> QED
      BY <3>1 DEF Range
  <2> DEFINE c == CHOOSE k \in 1..Len(s) : First(k)
  <2>4. c \in 1..Len(s)
    <3>1. i \in 1..Len(s)
      OBVIOUS
    <3> HIDE DEF First
    <3> QED
      BY <2>3, <3>1, Zenon
  <2>5. CStr(s) = SubSeq(s, 1, c - 1)
    BY <1>2, Zenon DEF CStr
  <2> HIDE DEF c
  <2> QED
    BY <2>4, <2>5
<1> QED
  BY <1>1, <1>2

\* What split has after i bytes, from what it had before.
SplitByte(acc, c, delim) ==
    IF c = delim THEN Append(acc, <<>>) ELSE [acc EXCEPT ![Len(acc)] = Append(@, c)]

\* What split returns of the pieces it has at the end.
Trimmed(cut) == IF cut[Len(cut)] = <<>> THEN SubSeq(cut, 1, Len(cut) - 1) ELSE cut

\* A table with these values is the one split goes through.
LEMMA SplitSteps ==
    ASSUME NEW s, Len(s) \in Nat, NEW delim, NEW t, t[0] = << <<>> >>,
           \A i \in 1..Len(s) : t[i] = SplitByte(t[i - 1], s[i], delim)
    PROVE  split(s, delim) = Trimmed(t[Len(s)])
<1> DEFINE N == Len(s)
           after == CHOOSE f : f = [i \in 0..Len(s) |->
                        IF i = 0 THEN << <<>> >>
                        ELSE IF s[i] = delim THEN Append(f[i - 1], <<>>)
                             ELSE [f[i - 1] EXCEPT ![Len(f[i - 1])] = Append(@, s[i])]]
           cut == after[Len(s)]
<1>1. split(s, delim) = IF cut[Len(cut)] = <<>> THEN SubSeq(cut, 1, Len(cut) - 1) ELSE cut
  BY Zenon DEF split
<1> DEFINE g == [i \in 0..N |-> t[i]]
<1>2. ASSUME NEW i \in 0..N
      PROVE  /\ i # 0 => i - 1 \in 0..N /\ i \in 1..N
             /\ g[i] = t[i]
  OBVIOUS
<1>3. ASSUME NEW i \in 0..N
      PROVE  t[i] = IF i = 0 THEN << <<>> >>
                    ELSE IF s[i] = delim THEN Append(g[i - 1], <<>>)
                         ELSE [g[i - 1] EXCEPT ![Len(g[i - 1])] = Append(@, s[i])]
  <2>1. CASE i = 0
    BY <2>1, Zenon
  <2>2. CASE i # 0
    <3>1. i \in 1..N /\ g[i - 1] = t[i - 1]
      BY <1>2, <2>2, Zenon
    <3>2. t[i] = SplitByte(t[i - 1], s[i], delim)
      BY <3>1, Zenon
    <3> HIDE DEF g
    <3> QED
      BY <2>2, <3>1, <3>2, Zenon DEF SplitByte
  <2> QED
    BY <2>1, <2>2
<1>4. g = [i \in 0..Len(s) |->
             IF i = 0 THEN << <<>> >>
             ELSE IF s[i] = delim THEN Append(g[i - 1], <<>>)
                  ELSE [g[i - 1] EXCEPT ![Len(g[i - 1])] = Append(@, s[i])]]
  BY <1>3, Zenon
<1>5. after = [i \in 0..Len(s) |->
             IF i = 0 THEN << <<>> >>
             ELSE IF s[i] = delim THEN Append(after[i - 1], <<>>)
                  ELSE [after[i - 1] EXCEPT ![Len(after[i - 1])] = Append(@, s[i])]]
  <2> HIDE DEF g
  <2> QED
    BY <1>4, Zenon
<1> HIDE DEF after, g
<1>6. after[N] = t[N]
  <2> DEFINE T == {i \in 0..N : after[i] = t[i]}
  <2>1. 0 \in T
    <3>1. 0 \in 0..N
      OBVIOUS
    <3> QED
      BY <1>5, <3>1, Zenon
  <2>2. ASSUME NEW i \in T, i \in 0..(N - 1) PROVE i + 1 \in T
    <3>1. i + 1 \in 0..N /\ i + 1 # 0 /\ (i + 1) - 1 = i /\ i + 1 \in 1..N
      BY <2>2
    <3>2. after[i + 1] = SplitByte(after[(i + 1) - 1], s[i + 1], delim)
      BY <1>5, <3>1, Zenon DEF SplitByte
    <3>3. t[i + 1] = SplitByte(t[(i + 1) - 1], s[i + 1], delim)
      BY <3>1, Zenon
    <3> QED
      BY <3>1, <3>2, <3>3, Zenon
  <2>3. N \in 0..N /\ N \in Nat
    OBVIOUS
  <2> HIDE DEF T, N
  <2>4. N \in T
    BY <2>1, <2>2, <2>3, BoundedInduction
  <2> QED
    BY <2>4, Zenon DEF T
<1> HIDE DEF N
<1> QED
  BY <1>1, <1>6, Zenon DEF N, Trimmed

\* The pieces of a string over S: there is always a last one.
Pieces(S) == {a \in Seq(Seq(S)) : a # <<>>}

\* t has the pieces after every byte of s.
Splits(t, s, delim, S) ==
    /\ t \in [0..Len(s) -> Pieces(S)]
    /\ t[0] = << <<>> >>
    /\ \A i \in 1..Len(s) : t[i] = SplitByte(t[i - 1], s[i], delim)
    /\ split(s, delim) = Trimmed(t[Len(s)])

\* A byte goes to the last piece or begins another one.
LEMMA SplitByteType ==
    ASSUME NEW S, NEW v \in Pieces(S), NEW c \in S, NEW delim
    PROVE  SplitByte(v, c, delim) \in Pieces(S)
<1>1. Append(v, <<>>) \in Pieces(S)
  <2>1. v \in Seq(Seq(S)) /\ <<>> \in Seq(S)
    BY DEF Pieces
  <2>2. Append(v, <<>>) \in Seq(Seq(S)) /\ Len(Append(v, <<>>)) = Len(v) + 1 /\ Len(v) \in Nat
    BY <2>1
  <2>3. Append(v, <<>>) # <<>>
    BY <2>2
  <2> QED
    BY <2>2, <2>3, Zenon DEF Pieces
<1>2. [v EXCEPT ![Len(v)] = Append(@, c)] \in Pieces(S)
  <2>1. v \in Seq(Seq(S)) /\ Len(v) \in Nat /\ Len(v) # 0 /\ Len(v) \in 1..Len(v)
    BY DEF Pieces
  <2>2. Append(v[Len(v)], c) \in Seq(S)
    BY <2>1
  <2>3. [v EXCEPT ![Len(v)] = Append(@, c)] \in Seq(Seq(S))
    BY <2>1, <2>2
  <2>4. DOMAIN [v EXCEPT ![Len(v)] = Append(@, c)] = 1..Len(v)
    BY <2>1
  <2> QED
    BY <2>1, <2>3, <2>4 DEF Pieces
<1> QED
  BY <1>1, <1>2, Zenon DEF SplitByte

\* split is defined on every string.
LEMMA SplitTable ==
    ASSUME NEW S, NEW s \in Seq(S), NEW delim
    PROVE  \E t : Splits(t, s, delim, S)
<1> DEFINE N == Len(s)
           V == Pieces(S)
           z == << <<>> >>
           step == [i \in 1..N |-> [v \in V |-> SplitByte(v, s[i], delim)]]
<1>1. N \in Nat /\ z \in V /\ \A k \in 1..N : s[k] \in S
  BY DEF Pieces
<1> HIDE DEF V, z
<1>2. \A k \in 1..N, v \in V : step[k][v] = SplitByte(v, s[k], delim) /\ step[k][v] \in V
  BY <1>1, SplitByteType, Zenon DEF V
<1>3. \E f : Iterates(f, N, V, z, step)
  <2> HIDE DEF N, step
  <2> QED
    BY <1>1, <1>2, Iteration, Zenon
<1>4. PICK f : f \in [0..N -> V] /\ f[0] = z /\ \A k \in 1..N : f[k] = step[k][f[k - 1]]
  BY <1>3, Zenon DEF Iterates
<1>5. \A i \in 1..N : f[i] = SplitByte(f[i - 1], s[i], delim)
  <2> TAKE i \in 1..N
  <2>1. i - 1 \in 0..N
    BY <1>1
  <2>2. f[i - 1] \in V
    BY <1>4, <2>1, Zenon
  <2> HIDE DEF step
  <2> QED
    BY <1>2, <1>4, <2>2, Zenon
<1>6. split(s, delim) = Trimmed(f[Len(s)])
  BY <1>1, <1>4, <1>5, SplitSteps DEF z
<1> QED
  BY <1>4, <1>5, <1>6, Zenon DEF Splits, V, z

\* split cuts a string into strings.
LEMMA SplitType ==
    ASSUME NEW S, NEW s \in Seq(S), NEW delim
    PROVE  split(s, delim) \in Seq(Seq(S))
<1>1. PICK t : Splits(t, s, delim, S)
  BY SplitTable, Zenon
<1> DEFINE cut == t[Len(s)]
<1>2. Len(s) \in 0..Len(s)
  OBVIOUS
<1>3. cut \in Pieces(S) /\ split(s, delim) = Trimmed(cut)
  BY <1>1, <1>2, Zenon DEF Splits
<1> HIDE DEF cut
<1>4. SubSeq(cut, 1, Len(cut) - 1) \in Seq(Seq(S)) /\ cut \in Seq(Seq(S))
  BY <1>3 DEF Pieces
<1> QED
  BY <1>3, <1>4, Zenon DEF Trimmed

\* Bytes that end neither a string, nor a pair, nor a name.
Safe == Byte \ {NUL, AMP, EQ}

\* url_encode writes only such bytes.
LEMMA EncodeByteSafe ==
    ASSUME NEW c \in 0..127
    PROVE  EncodeByte(c) \in Seq(Safe)
<1>1. (IsAlnum(c) \/ c \in {45, 46, 95}) => c \in Safe
  BY DEF Safe, Byte, IsAlnum, NUL, AMP, EQ
<1>2. PLUS \in Safe /\ PERCENT \in Safe /\ SPACE \in Safe
  BY DEF Safe, Byte, PLUS, PERCENT, SPACE, NUL, AMP, EQ
<1>3. HexDigit(c % 16) \in Safe /\ HexDigit(c \div 16) \in Safe /\ (c < 16 => HexDigit(c) \in Safe)
  <2>1. c % 16 \in 0..15 /\ c \div 16 \in 0..15 /\ (c < 16 => c \in 0..15)
    OBVIOUS
  <2>2. \A d \in 0..15 : HexDigit(d) \in Safe
    BY DEF HexDigit, Byte, Safe, NUL, AMP, EQ
  <2> QED
    BY <2>1, <2>2, Zenon
<1> HIDE DEF Safe
<1>4. Escape(c) \in Seq(Safe)
  BY <1>2, <1>3 DEF Escape
<1>5. (IsAlnum(c) \/ c \in {45, 46, 95}) => <<c>> \in Seq(Safe)
  BY <1>1
<1>6. <<PLUS>> \in Seq(Safe)
  BY <1>2
<1> QED
  BY <1>4, <1>5, <1>6, Zenon DEF EncodeByte

\* The same for strings.
LEMMA EncodeSafe ==
    ASSUME NEW s \in Seq(0..127)
    PROVE  url_encode(s) \in Seq(Safe)
<1> DEFINE ss == [i \in 1..Len(s) |-> EncodeByte(s[i])]
<1> DEFINE A == 0..127
<1> HIDE DEF A, Safe
<1>2. Len(s) \in Nat /\ \A i \in 1..Len(s) : s[i] \in 0..127
  <2>1. s \in Seq(A)
    BY DEF A
  <2>2. Len(s) \in Nat /\ \A i \in 1..Len(s) : s[i] \in A
    BY <2>1
  <2> QED
    BY <2>2 DEF A
<1>3. Len(ss) = Len(s) /\ Len(ss) \in Nat
  BY <1>2
<1>4. \A i \in 1..Len(ss) : ss[i] \in Seq(Safe)
  BY ZenonT(40), <1>2, <1>3, EncodeByteSafe
<1> HIDE DEF ss
<1>5. Joined(ss) \in Seq(Safe)
  BY <1>3, <1>4, JoinedTable
<1> QED
  BY <1>5, Zenon DEF url_encode, ss

\* A byte is encoded in bytes.
LEMMA EncodeByteType ==
    ASSUME NEW c \in 0..127
    PROVE  EncodeByte(c) \in Seq(Byte)
<1>1. EncodeByte(c) \in Seq(Safe)
  BY ZenonT(40), EncodeByteSafe
<1>2. Safe \subseteq Byte
  BY DEF Safe
<1> HIDE DEF Safe
<1> QED
  BY <1>1, <1>2

\* The encoded form of a string of bytes below 128 is a string of bytes.
LEMMA EncodeType ==
    ASSUME NEW s \in Seq(0..127)
    PROVE  url_encode(s) \in Seq(Byte)
<1>1. url_encode(s) \in Seq(Safe)
  BY EncodeSafe
<1>2. Safe \subseteq Byte
  BY DEF Safe
<1> HIDE DEF Safe
<1> QED
  BY <1>1, <1>2

\* What a client sends for a form is a string of bytes.
LEMMA FormType ==
    ASSUME NEW f \in Forms
    PROVE  EncodeForm(f) \in Seq(Byte)
<1> DEFINE ss == [i \in 1..Len(f) |->
        (IF i = 1 THEN <<>> ELSE <<AMP>>) \o url_encode(f[i][1]) \o <<EQ>> \o url_encode(f[i][2])]
<1>1. f \in Seq(Seq(0..127) \X Seq(0..127))
  BY BodyAssumption, Zenon
<1>2. Len(f) \in Nat /\ \A i \in 1..Len(f) : f[i][1] \in Seq(0..127) /\ f[i][2] \in Seq(0..127)
  BY <1>1
<1>3. Len(ss) = Len(f) /\ Len(ss) \in Nat
  BY <1>2
<1>4. ASSUME NEW i \in 1..Len(ss) PROVE ss[i] \in Seq(Byte)
  <2>1. url_encode(f[i][1]) \in Seq(Byte) /\ url_encode(f[i][2]) \in Seq(Byte)
    BY <1>2, <1>3, EncodeType
  <2>2. <<>> \in Seq(Byte) /\ <<AMP>> \in Seq(Byte) /\ <<EQ>> \in Seq(Byte)
    BY DEF AMP, EQ, Byte
  <2>3. (IF i = 1 THEN <<>> ELSE <<AMP>>) \o url_encode(f[i][1]) \o <<EQ>> \o url_encode(f[i][2]) \in Seq(Byte)
    BY <2>1, <2>2
  <2> QED
    BY <1>3, <2>3
<1> HIDE DEF ss
<1>5. Joined(ss) \in Seq(Byte)
  BY <1>3, <1>4, JoinedTable
<1> QED
  BY <1>5, Zenon DEF EncodeForm, ss

-----------------------------------------------------------------------------
(* read_line *)

\* The string of read_line grows by the bytes of the body that are not NUL.
LEMMA LineTable ==
    ASSUME Left \in Seq(Byte)
    PROVE  /\ LineAfter \in [0..Len(Left) -> Seq(Byte)]
           /\ LineAfter[0] = <<>>
           /\ \A k \in 1..Len(Left) :
                 LineAfter[k] = IF Left[k] = NUL THEN LineAfter[k - 1]
                                ELSE Append(LineAfter[k - 1], Left[k])
<1> DEFINE N == Len(Left)
           V == Seq(Byte)
           z == <<>>
           Grown(v, c) == IF c = NUL THEN v ELSE Append(v, c)
           step == [i \in 1..N |-> [v \in V |-> Grown(v, Left[i])]]
<1>1. N \in Nat /\ z \in V /\ \A k \in 1..N : Left[k] \in Byte
  OBVIOUS
<1>2. ASSUME NEW v \in V, NEW c \in Byte PROVE Grown(v, c) \in V
  OBVIOUS
<1> HIDE DEF V, z
<1>3. \A k \in 1..N, v \in V : step[k][v] = Grown(v, Left[k]) /\ step[k][v] \in V
  <2> HIDE DEF Grown
  <2> QED
    BY <1>1, <1>2, Zenon
<1>4. \E f : Iterates(f, N, V, z, step)
  <2> HIDE DEF N, step
  <2> QED
    BY <1>1, <1>3, Iteration, Zenon
<1>5. PICK f : f \in [0..N -> V] /\ f[0] = z /\ \A k \in 1..N : f[k] = step[k][f[k - 1]]
  BY <1>4, Zenon DEF Iterates
<1>6. ASSUME NEW k \in 0..N
      PROVE  f[k] = IF k = 0 THEN <<>>
                    ELSE IF Left[k] = NUL THEN f[k - 1] ELSE Append(f[k - 1], Left[k])
  <2>1. CASE k = 0
    BY <1>5, <2>1, Zenon DEF z
  <2>2. CASE k # 0
    <3>1. k \in 1..N /\ k - 1 \in 0..N
      BY <1>1, <2>2
    <3>2. f[k] = Grown(f[k - 1], Left[k])
      <4> HIDE DEF Grown, step, N
      <4> QED
        BY <1>3, <1>5, <3>1
    <3> QED
      BY <2>2, <3>2, Zenon
  <2> QED
    BY <2>1, <2>2
<1>7. f = [k \in 0..Len(Left) |->
             IF k = 0 THEN <<>>
             ELSE IF Left[k] = NUL THEN f[k - 1] ELSE Append(f[k - 1], Left[k])]
  <2>1. f = [i \in 0..N |-> f[i]]
    BY <1>5, Zenon
  <2> QED
    BY <1>6, <2>1, Zenon
<1> DEFINE m == CHOOSE g : g = [k \in 0..Len(Left) |->
                  IF k = 0 THEN <<>>
                  ELSE IF Left[k] = NUL THEN g[k - 1] ELSE Append(g[k - 1], Left[k])]
<1>8. LineAfter = m
  BY DEF LineAfter
<1>9. m = [k \in 0..Len(Left) |->
             IF k = 0 THEN <<>>
             ELSE IF Left[k] = NUL THEN m[k - 1] ELSE Append(m[k - 1], Left[k])]
  BY <1>7, Zenon
<1> HIDE DEF m
<1>10. m[0] = <<>>
  BY <1>1, <1>9
<1>11. \A k \in 1..N : m[k] = Grown(m[k - 1], Left[k])
  <2> TAKE k \in 1..N
  <2>1. k \in 0..N /\ k # 0
    BY <1>1
  <2> QED
    BY <1>9, <2>1, Zenon
<1>12. m \in [0..N -> V]
  <2> DEFINE T == {i \in 0..N : m[i] \in V}
  <2>1. 0 \in T
    BY <1>1, <1>10 DEF z
  <2>2. ASSUME NEW i \in T, i \in 0..(N - 1) PROVE i + 1 \in T
    <3>1. i + 1 \in 0..N /\ (i + 1) - 1 = i /\ i + 1 \in 1..N
      BY <1>1, <2>2
    <3> HIDE DEF Grown
    <3>2. m[i + 1] = Grown(m[i], Left[i + 1])
      BY <1>11, <3>1
    <3> QED
      BY <1>1, <1>2, <3>1, <3>2, Zenon
  <2>3. m = [i \in 0..N |-> m[i]]
    BY <1>9, Zenon
  <2> HIDE DEF T, N
  <2>4. 0..N \subseteq T
    BY <1>1, <2>1, <2>2, BoundedInduction
  <2> QED
    BY <2>3, <2>4, Zenon DEF T
<1> QED
  BY <1>8, <1>10, <1>11, <1>12, Zenon DEF V

\* Every byte of the string was the last one when the string ended there.
LEMMA LineTrace ==
    ASSUME Left \in Seq(Byte), NEW k \in 0..Len(Left), NEW j \in 1..Len(LineAfter[k])
    PROVE  \E i \in 1..k : /\ Left[i] = LineAfter[k][j] /\ Len(LineAfter[i]) = j
                           /\ \A q \in 1..j : LineAfter[i][q] = LineAfter[k][q]
<1> DEFINE N == Len(Left)
           At1(n, p, i) == /\ Left[i] = LineAfter[n][p] /\ Len(LineAfter[i]) = p
                           /\ \A q \in 1..p : LineAfter[i][q] = LineAfter[n][q]
           Seen(n) == \A p \in 1..Len(LineAfter[n]) : \E i \in 1..n : At1(n, p, i)
           T == {n \in 0..N : Seen(n)}
<1>1. N \in Nat /\ \A n \in 1..N : Left[n] \in Byte
  OBVIOUS
<1>2. /\ \A n \in 0..N : LineAfter[n] \in Seq(Byte)
      /\ LineAfter[0] = <<>>
      /\ \A n \in 1..N : LineAfter[n] = IF Left[n] = NUL THEN LineAfter[n - 1]
                                        ELSE Append(LineAfter[n - 1], Left[n])
  BY ZenonT(40), LineTable
<1>3. 0 \in T
  BY <1>1, <1>2
<1>4. ASSUME NEW n \in T, n \in 0..(N - 1) PROVE n + 1 \in T
  <2>1. n + 1 \in 0..N /\ (n + 1) - 1 = n /\ n + 1 \in 1..N /\ n \in 0..N /\ n \in Nat
    BY <1>1, <1>4
  <2>2. LineAfter[n + 1] = IF Left[n + 1] = NUL THEN LineAfter[n] ELSE Append(LineAfter[n], Left[n + 1])
    BY <1>2, <2>1
  <2>3. \A i \in 1..n : i \in 1..(n + 1)
    BY <2>1
  <2>4. CASE Left[n + 1] = NUL
    <3>1. LineAfter[n + 1] = LineAfter[n]
      BY <2>2, <2>4, Zenon
    <3>2. \A p, i : At1(n + 1, p, i) <=> At1(n, p, i)
      BY <3>1, Zenon
    <3>3. Seen(n) /\ Len(LineAfter[n + 1]) = Len(LineAfter[n])
      BY <3>1, Zenon
    <3> HIDE DEF At1
    <3>4. Seen(n + 1)
      BY <2>3, <3>2, <3>3, Zenon
    <3> QED
      BY <2>1, <3>4, Zenon
  <2>5. CASE Left[n + 1] # NUL
    <3> DEFINE l == LineAfter[n]
               c == Left[n + 1]
               ll == LineAfter[n + 1]
    <3>1. l \in Seq(Byte) /\ ll = Append(l, c) /\ c \in Byte
      BY <1>1, <1>2, <2>1, <2>2, <2>5, Zenon
    <3>2. /\ Len(l) \in Nat /\ Len(ll) = Len(l) + 1 /\ ll[Len(l) + 1] = c
          /\ \A q \in 1..Len(l) : ll[q] = l[q]
      <4> HIDE DEF l, c, ll
      <4> QED
        BY <3>1
    <3>3. ASSUME NEW p \in 1..Len(ll) PROVE \E i \in 1..(n + 1) : At1(n + 1, p, i)
      <4>1. CASE p = Len(ll)
        <5>1. n + 1 \in 1..(n + 1)
          BY <2>1
        <5>2. At1(n + 1, p, n + 1)
          BY <3>2, <4>1, Zenon
        <5> QED
          BY <5>1, <5>2, Zenon
      <4>2. CASE p # Len(ll)
        <5>1. p \in 1..Len(l) /\ \A q \in 1..p : q \in 1..Len(l)
          <6> HIDE DEF l, ll
          <6> QED
            BY <3>2, <4>2
        <5>2. PICK i \in 1..n : At1(n, p, i)
          BY <5>1, Zenon
        <5>3. At1(n + 1, p, i)
          BY <3>2, <5>1, <5>2, Zenon
        <5> QED
          BY <2>3, <5>3, Zenon
      <4> QED
        BY <4>1, <4>2
    <3> QED
      BY <2>1, <3>3, Zenon
  <2> QED
    BY <2>4, <2>5
<1>5. k \in T
  <2> HIDE DEF T, N
  <2>1. 0..N \subseteq T
    BY <1>1, <1>3, <1>4, BoundedInduction
  <2> QED
    BY <2>1, Zenon DEF N
<1> QED
  BY <1>5, Zenon

\* A line of LinesEndOnce; it is the last one, and the body has ended, if ended.
GoodLine(l, ended) ==
    /\ \A j \in 1..(Len(l) - 2) : ~(l[j] = CR /\ l[j + 1] = LF)
    /\ \/ Len(l) > 1 /\ l[Len(l) - 1] = CR /\ l[Len(l)] = LF
       \/ l = <<LF>>
       \/ ended

\* The line that read_line returns: the loop would have stopped at an earlier CR LF.
LEMMA LineReturned ==
    ASSUME Left \in Seq(Byte), NEW k \in 0..Len(Left), \A j \in 1..(k - 1) : ~StopsAt(j),
           NEW ended, StopsAt(k) \/ MayStopAt(k) \/ ended
    PROVE  GoodLine(LineAfter[k], ended) /\ LineAfter[k] \in Seq(Byte)
<1> DEFINE l == LineAfter[k]
<1>1. /\ Len(Left) \in Nat
      /\ \A n \in 0..Len(Left) : LineAfter[n] \in Seq(Byte)
      /\ \A n \in 1..Len(Left) : LineAfter[n] = IF Left[n] = NUL THEN LineAfter[n - 1]
                                                ELSE Append(LineAfter[n - 1], Left[n])
  BY LineTable
<1>2. l \in Seq(Byte) /\ Len(l) \in Nat
  BY <1>1
<1>3. ASSUME NEW j \in 1..(Len(l) - 2), l[j] = CR, l[j + 1] = LF PROVE FALSE
  <2> DEFINE p == j + 1
  <2>1. p \in 1..Len(l) /\ j \in 1..p /\ p - 1 = j /\ p > 1 /\ p # Len(l)
    <3> HIDE DEF l
    <3> QED
      BY <1>2
  <2>2. PICK i \in 1..k : /\ Left[i] = l[p] /\ Len(LineAfter[i]) = p
                          /\ \A q \in 1..p : LineAfter[i][q] = l[q]
    <3> HIDE DEF p
    <3> QED
      BY ZenonT(40), <2>1, LineTrace
  <2>3. i # k
    BY <2>1, <2>2, Zenon
  <2>4. i \in 1..(k - 1) /\ i > 0
    BY <1>1, <2>3
  <2>5. StopsAt(i)
    BY <1>3, <2>1, <2>2, <2>4, Zenon DEF StopsAt
  <2> QED
    BY <2>4, <2>5
<1>4. ASSUME k > 0, Left[k] = LF
      PROVE  Len(l) > 0 /\ l[Len(l)] = LF
  <2>1. k \in 1..Len(Left) /\ k - 1 \in 0..Len(Left) /\ LF # NUL
    BY <1>1, <1>4 DEF LF, NUL
  <2>2. l = Append(LineAfter[k - 1], LF)
    BY <1>1, <1>4, <2>1, Zenon
  <2>3. LineAfter[k - 1] \in Seq(Byte)
    BY <1>1, <2>1, Zenon
  <2> QED
    BY <2>2, <2>3
<1>5. StopsAt(k) => Len(l) > 1 /\ l[Len(l) - 1] = CR /\ l[Len(l)] = LF
  BY <1>4, Zenon DEF StopsAt
<1>6. MayStopAt(k) => l = <<LF>>
  <2> SUFFICES ASSUME MayStopAt(k) PROVE l = <<LF>>
    OBVIOUS
  <2>1. Len(l) = 1 /\ l[1] = LF
    BY <1>4, Zenon DEF MayStopAt
  <2> HIDE DEF l
  <2> QED
    BY <1>2, <2>1
<1> QED
  BY <1>2, <1>3, <1>5, <1>6, Zenon DEF GoodLine

-----------------------------------------------------------------------------
(* The inductive invariant *)

BodyTypes ==
    /\ body \in Seq(Byte) /\ content_ \in Seq(Byte)
    /\ pos \in 0..Len(body)
    /\ lines \in Seq(Seq(Byte))

\* Until Apache fails or somebody else reads, a request has read nothing or all.
AllOrNothing ==
    ~failed /\ ~others =>
        IF has_read_content
          THEN /\ pos = Len(body)
               /\ content_ = body \/ (~form_data_.null /\ content_ = Append(body, NUL))
          ELSE pos = 0 /\ content_ = <<>>

IInv == BodyTypes /\ AllOrNothing /\ LinesEndOnce

\* What Apache has not handed out yet.
LEMMA LeftType ==
    ASSUME BodyTypes
    PROVE  Left \in Seq(Byte) /\ Len(Left) = Len(body) - pos /\ Len(body) \in Nat /\ pos \in Nat
BY DEF BodyTypes, Left

\* What the loop of content leaves in _content.
LEMMA AppendedIsBody ==
    ASSUME BodyTypes, AllOrNothing, NEW k \in 0..(Len(body) - pos), EndsAfter(k)
    PROVE  /\ Appended(k) \in Seq(Byte) /\ pos + k \in 0..Len(body)
           /\ ~failed' /\ ~others =>
                 /\ pos + k = Len(body)
                 /\ \/ Appended(k) = body
                    \/ ~form_data_.null /\ Appended(k) = Append(body, NUL)
<1>1. /\ Left \in Seq(Byte) /\ Len(Left) = Len(body) - pos /\ Len(body) \in Nat /\ pos \in Nat
      /\ pos <= Len(body) /\ k \in Nat /\ k <= Len(Left)
  <2>1. Left \in Seq(Byte) /\ Len(Left) = Len(body) - pos /\ Len(body) \in Nat /\ pos \in Nat
    BY LeftType
  <2>2. pos <= Len(body)
    BY DEF BodyTypes
  <2> QED
    BY <2>1, <2>2
<1>2. body \in Seq(Byte) /\ content_ \in Seq(Byte)
  BY DEF BodyTypes
<1>3. SubSeq(Left, 1, k) \in Seq(Byte)
  <2> HIDE DEF Left, Byte
  <2> QED
    BY <1>1
<1>4. Appended(k) \in Seq(Byte) /\ pos + k \in 0..Len(body)
  <2>1. Appended(k) \in Seq(Byte)
    BY <1>2, <1>3 DEF Appended
  <2> QED
    BY <1>1, <2>1
<1>5. ASSUME ~failed', ~others
      PROVE  /\ pos + k = Len(body)
             /\ \/ Appended(k) = body
                \/ ~form_data_.null /\ Appended(k) = Append(body, NUL)
  <2>1. k = Len(body) - pos /\ ~failed
    <3>1. ~(failed /\ failed' = failed) /\ ~(failed' = TRUE)
      BY <1>5
    <3> QED
      BY <3>1, Zenon DEF EndsAfter
  <2>2. CASE has_read_content
    <3>1. /\ pos = Len(body)
          /\ content_ = body \/ (~form_data_.null /\ content_ = Append(body, NUL))
      BY <1>5, <2>1, <2>2, Zenon DEF AllOrNothing
    <3>2. k = 0
      BY <1>1, <2>1, <3>1
    <3>3. Appended(k) = content_
      <4>1. SubSeq(Left, 1, 0) = <<>>
        BY <1>1
      <4>2. content_ \o <<>> = content_
        BY <1>2
      <4> QED
        BY <3>2, <4>1, <4>2, Zenon DEF Appended
    <3> QED
      BY <1>1, <2>1, <3>1, <3>3
  <2>3. CASE ~has_read_content
    <3>1. pos = 0 /\ content_ = <<>>
      BY <1>5, <2>1, <2>3, Zenon DEF AllOrNothing
    <3>2. Left = body
      BY <1>1, <1>2, <3>1 DEF Left
    <3>3. SubSeq(body, 1, k) = body /\ <<>> \o body = body
      <4>1. k = Len(body)
        BY <1>1, <2>1, <3>1
      <4> QED
        BY <1>2, <4>1
    <3>4. Appended(k) = body
      BY <3>1, <3>2, <3>3, Zenon DEF Appended
    <3> QED
      BY <1>1, <2>1, <3>4
  <2> QED
    BY <2>2, <2>3
<1> QED
  BY <1>4, <1>5

\* read_line is the only one that returns lines, and it has stopped once the
\* body is at its end.
LEMMA LinesStay ==
    ASSUME LinesEndOnce, lines' = lines, has_read_content => has_read_content'
    PROVE  LinesEndOnce'
BY Zenon DEF LinesEndOnce

\* One lemma for each kind of call: a call keeps the invariant.
LEMMA ReadsAll ==
    ASSUME IInv, content \/ contentFed \/ form_data
    PROVE  IInv'
<1> USE DEF IInv
<1>1. body' = body /\ lines' = lines /\ has_read_content'
  BY Zenon DEF content, contentFed, form_data, Calls
<1>2. LinesEndOnce'
  BY <1>1, LinesStay, Zenon
<1>3. PICK k \in 0..(Len(body) - pos) :
         /\ EndsAfter(k) /\ pos' = pos + k
         /\ \/ content_' = Appended(k) /\ others' = others /\ form_data_' = form_data_
            \/ content_' = content_ /\ others' = TRUE
            \/ /\ content_' = Append(Appended(k), NUL) /\ others' = others
               /\ form_data_.null /\ ~form_data_'.null
  <2>1. \A t : ~Table(t).null
    BY DEF Table
  <2>2. CASE content
    BY <2>2, Zenon DEF content
  <2>3. CASE contentFed
    BY <2>3, Zenon DEF contentFed
  <2>4. CASE form_data
    BY <2>1, <2>4, Zenon DEF form_data, Calls
  <2> QED
    BY ZenonT(40), <2>2, <2>3, <2>4
<1>4. /\ Appended(k) \in Seq(Byte) /\ pos + k \in 0..Len(body)
      /\ ~failed' /\ ~others =>
                 /\ pos + k = Len(body)
                 /\ \/ Appended(k) = body
                    \/ ~form_data_.null /\ Appended(k) = Append(body, NUL)
  BY <1>3, AppendedIsBody
<1>5. content_' \in Seq(Byte)
  <2>1. NUL \in Byte
    BY DEF NUL, Byte
  <2> HIDE DEF Byte
  <2> QED
    <3>1. Append(Appended(k), NUL) \in Seq(Byte)
      BY <1>4, <2>1
    <3> QED
      BY <1>3, <1>4, <3>1, Zenon DEF BodyTypes
<1>6. BodyTypes'
  BY <1>1, <1>3, <1>4, <1>5, Zenon DEF BodyTypes
<1>7. AllOrNothing'
  BY <1>1, <1>3, <1>4, Zenon DEF AllOrNothing
<1> QED
  BY <1>2, <1>6, <1>7, Zenon

\* read_line keeps the invariant.
LEMMA ReadsLine ==
    ASSUME IInv, read_line
    PROVE  IInv'
<1>1. PICK k \in 0..(Len(body) - pos) :
         /\ \A j \in 1..(k - 1) : ~StopsAt(j)
         /\ StopsAt(k) \/ MayStopAt(k) \/ has_read_content'
         /\ pos' = pos + k
         /\ lines' = Append(lines, LineAfter[k])
  BY Zenon DEF read_line
<1>2. body' = body /\ content_' = content_ /\ others' = TRUE /\ ~has_read_content
  BY Zenon DEF read_line, Calls
<1>3. Left \in Seq(Byte) /\ Len(Left) = Len(body) - pos /\ Len(body) \in Nat /\ pos \in Nat
  BY LeftType DEF IInv
<1>4. GoodLine(LineAfter[k], has_read_content') /\ LineAfter[k] \in Seq(Byte)
  <2>1. k \in 0..Len(Left)
    BY <1>3
  <2> QED
    BY <1>1, <1>3, <2>1, LineReturned, Zenon
<1>5. BodyTypes'
  <2>1. pos + k \in 0..Len(body)
    BY <1>3
  <2>2. lines' \in Seq(Seq(Byte))
    <3>1. lines \in Seq(Seq(Byte))
      BY DEF IInv, BodyTypes
    <3> HIDE DEF Byte
    <3> QED
      BY <1>1, <1>4, <3>1
  <2> QED
    BY <1>1, <1>2, <2>1, <2>2, Zenon DEF IInv, BodyTypes
<1>6. LinesEndOnce'
  <2> DEFINE n == Len(lines)
             ll == Append(lines, LineAfter[k])
  <2>1. lines \in Seq(Seq(Byte))
    BY DEF IInv, BodyTypes
  <2>2. /\ n \in Nat /\ Len(ll) = n + 1 /\ ll[n + 1] = LineAfter[k]
        /\ \A i \in 1..n : ll[i] = lines[i] /\ i # n + 1
        /\ \A i \in 1..(n + 1) : i \in 1..n \/ i = n + 1
    BY <1>4, <2>1
  <2>3. \A i \in 1..n : GoodLine(lines[i], FALSE)
    BY <1>2, Zenon DEF IInv, LinesEndOnce, GoodLine
  <2> HIDE DEF n, ll
  <2>4. \A i \in 1..Len(ll) : GoodLine(ll[i], i = Len(ll) /\ has_read_content')
    <3> TAKE i \in 1..Len(ll)
    <3>1. CASE i \in 1..n
      BY <2>2, <2>3, <3>1, Zenon DEF GoodLine
    <3>2. CASE i = n + 1
      BY <1>4, <2>2, <3>2, Zenon DEF GoodLine
    <3> QED
      BY <2>2, <3>1, <3>2
  <2>5. lines' = ll
    BY <1>1, Zenon DEF ll
  <2> QED
    BY <2>4, <2>5, Zenon DEF LinesEndOnce, GoodLine
<1> QED
  BY <1>2, <1>5, <1>6, Zenon DEF IInv, AllOrNothing

\* So do the calls that leave the content alone.
LEMMA ReadsOther ==
    ASSUME IInv, read \/ form_dataOther \/ UNCHANGED vars
    PROVE  IInv'
<1>1. /\ body' = body /\ content_' = content_ /\ lines' = lines
      /\ has_read_content => has_read_content'
  <2>1. body' = body /\ content_' = content_ /\ lines' = lines
    BY Zenon DEF read, form_dataOther, Calls, vars
  <2>2. has_read_content' = has_read_content \/ has_read_content' = TRUE
    BY Zenon DEF read, form_dataOther, vars
  <2> QED
    BY <2>1, <2>2
<1>2. LinesEndOnce'
  BY <1>1, LinesStay, Zenon DEF IInv
<1>3. CASE read
  <2>1. pos' \in 0..Len(body)
    <3>1. pos' = pos \/ \E k \in 1..MaxRead : k <= Len(body) - pos /\ pos' = pos + k
      BY <1>3, Zenon DEF read
    <3>2. Len(body) \in Nat /\ pos \in 0..Len(body) /\ MaxRead \in Nat
      BY LeftType, BodyAssumption DEF IInv, BodyTypes
    <3> QED
      BY <3>1, <3>2
  <2>2. others' = TRUE
    BY <1>3, Zenon DEF read
  <2> QED
    BY <1>1, <1>2, <2>1, <2>2, Zenon DEF IInv, BodyTypes, AllOrNothing
<1>4. CASE form_dataOther \/ UNCHANGED vars
  <2>1. /\ pos' = pos /\ failed' = failed /\ others' = others
        /\ has_read_content' = has_read_content
        /\ form_data_' = form_data_ \/ ~form_data_'.null
    <3>1. \A t : ~Table(t).null
      BY DEF Table
    <3> QED
      BY <1>4, <3>1, Zenon DEF form_dataOther, vars
  <2> QED
    BY <1>1, <1>2, <2>1, Zenon DEF IInv, BodyTypes, AllOrNothing
<1> QED
  BY <1>3, <1>4

\* The invariant holds before the first call.
LEMMA Starts == Init => IInv
<1> SUFFICES ASSUME Init PROVE IInv
  OBVIOUS
<1>1. body \in Seq(Byte)
  <2>1. CASE sent \in Forms /\ body = EncodeForm(sent)
    BY <2>1, FormType, Zenon
  <2>2. CASE body \in Raw
    BY <2>2, BodyAssumption, Zenon
  <2> QED
    BY <2>1, <2>2, Zenon DEF Init
<1>2. /\ pos = 0 /\ content_ = <<>> /\ lines = <<>> /\ has_read_content = FALSE
  BY Zenon DEF Init
<1>3. BodyTypes
  BY <1>1, <1>2 DEF BodyTypes
<1>4. LinesEndOnce
  <2>1. 1..Len(lines) = {}
    BY <1>2
  <2> QED
    BY <2>1, Zenon DEF LinesEndOnce
<1> QED
  BY <1>2, <1>3, <1>4, Zenon DEF IInv, AllOrNothing

\* Every call keeps the invariant.
LEMMA StepKeeps == IInv /\ [Next]_vars => IInv'
BY ReadsAll, ReadsLine, ReadsOther, Zenon DEF Next

-----------------------------------------------------------------------------
(* The theorems *)

\* content and form_data may be called in any order and any number of times, for
\* a body of any length: _content is the body once, and the NUL of form_data.
THEOREM BodyReadOnce == Spec => []ContentIsTheBody
<1>1. IInv => ContentIsTheBody
  <2> SUFFICES ASSUME IInv, has_read_content, ~failed, ~others
               PROVE  \E n \in 0..1 : content_ = body \o [i \in 1..n |-> NUL]
    BY Zenon DEF ContentIsTheBody
  <2>1. body \in Seq(Byte)
    BY Zenon DEF IInv, BodyTypes
  <2>2. content_ = body \/ content_ = Append(body, NUL)
    BY Zenon DEF IInv, AllOrNothing
  <2>3. body \o [i \in 1..0 |-> NUL] = body
    <3>1. [i \in 1..0 |-> NUL] = <<>>
      OBVIOUS
    <3>2. body \o <<>> = body
      BY <2>1
    <3> QED
      BY <3>1, <3>2
  <2>4. body \o [i \in 1..1 |-> NUL] = Append(body, NUL)
    <3>1. [i \in 1..1 |-> NUL] = <<NUL>>
      OBVIOUS
    <3>2. body \o <<NUL>> = Append(body, NUL)
      BY <2>1
    <3> QED
      BY <3>1, <3>2
  <2>5. 0 \in 0..1 /\ 1 \in 0..1
    OBVIOUS
  <2> QED
    BY <2>2, <2>3, <2>4, <2>5, Zenon
<1> QED
  BY Starts, StepKeeps, <1>1, PTL DEF Spec

\* Whatever the bytes and however they are read in between, every line that
\* read_line returns ends at its first CR LF, but for a lone LF and the last one.
THEOREM LinesAreCut == Spec => []LinesEndOnce
<1>1. IInv => LinesEndOnce
  BY Zenon DEF IInv
<1> QED
  BY Starts, StepKeeps, <1>1, PTL DEF Spec

\* Every name and value that parse_query_string cuts out of any content is
\* decoded without a look behind its NUL.
THEOREM DecodingStaysInside == Spec => []DecodeStaysInside
<1>1. IInv => DecodeStaysInside
  <2> SUFFICES ASSUME IInv, NEW p \in Range(split(CStr(content_), AMP))
               PROVE  Decoded(p).far <= Len(p) + 1
    BY Zenon DEF DecodeStaysInside
  <2>1. split(CStr(content_), AMP) \in Seq(Seq(Byte))
    BY CStrType, SplitType, Zenon DEF IInv, BodyTypes
  <2>2. Len(p) \in Nat
    BY <2>1 DEF Range
  <2> QED
    BY <2>2, DecodeInside
<1> QED
  BY Starts, StepKeeps, <1>1, PTL DEF Spec

-----------------------------------------------------------------------------
(* The codec *)

\* hex2int reads what "%2X" writes.
LEMMA HexRoundTrip ==
    ASSUME NEW d \in 0..15
    PROVE  hex2int(HexDigit(d)) = d /\ HexDigit(d) \in (48..57) \cup (65..70)
<1>1. CASE d < 10
  <2>1. HexDigit(d) = 48 + d
    BY <1>1 DEF HexDigit
  <2>2. ((48 + d) - 48) % 256 = d
    OBVIOUS
  <2>3. ~(d > 9) /\ ~(d > 15) /\ 48 + d \in 48..57
    BY <1>1
  <2>4. hex2int(48 + d) = d
    BY <2>2, <2>3 DEF hex2int
  <2> QED
    BY <2>1, <2>3, <2>4, Zenon
<1>2. CASE ~(d < 10)
  <2>1. HexDigit(d) = 55 + d /\ 55 + d \in 65..70
    BY <1>2 DEF HexDigit
  <2> DEFINE e == ((55 + d) - 48) % 256
             x == (Or32(e + 47) - 97 + 11) % 256
  <2>2. e = 7 + d /\ e > 9
    BY <1>2
  <2>3. Or32(e + 47) = 86 + d
    <3>1. e + 47 = 54 + d
      BY <2>2
    <3>2. ((54 + d) \div 32) % 2 = 0 /\ ((54 + d) + 32) % 256 = 86 + d
      BY <1>2
    <3> HIDE DEF e
    <3> QED
      BY <3>1, <3>2 DEF Or32
  <2>4. x = d
    <3>1. Or32(e + 47) - 97 + 11 = d
      BY <2>3
    <3>2. d % 256 = d
      OBVIOUS
    <3> QED
      BY <3>1, <3>2, Zenon
  <2>5. ~(d > 15)
    OBVIOUS
  <2>6. hex2int(55 + d) = IF x > 15 THEN 255 ELSE x
    <3> HIDE DEF x
    <3>1. hex2int(55 + d) = LET y == IF e > 9 THEN (Or32(e + 47) - 97 + 11) % 256 ELSE e
                            IN  IF y > 15 THEN 255 ELSE y
      BY Zenon DEF hex2int
    <3> QED
      BY <2>2, <3>1, Zenon DEF x
  <2> QED
    BY <2>1, <2>4, <2>5, <2>6, ZenonT(40)
<1> QED
  BY <1>1, <1>2

\* The bytes that "%2X" writes as two digits.
Plain == 16..127

\* A number of two hexadecimal digits has them as its quotient and remainder.
LEMMA TwoDigits ==
    ASSUME NEW h \in 0..15, NEW l \in 0..15
    PROVE  (h * 16 + l) \div 16 = h /\ (h * 16 + l) % 16 = l
OBVIOUS

\* What url_encode writes for a byte, the loop of url_decode reads as that byte.
LEMMA ByteRoundTrip ==
    ASSUME NEW c \in Plain, NEW e, NEW src \in Nat, Len(e) \in Nat,
           src + Len(EncodeByte(c)) <= Len(e) + 1,
           \A q \in 1..Len(EncodeByte(c)) : e[src + (q - 1)] = EncodeByte(c)[q]
    PROVE  /\ DecodeAt(e, src).byte = c
           /\ DecodeAt(e, src).skip = Len(EncodeByte(c))
<1> DEFINE w == EncodeByte(c)
<1>1. CASE w = <<c>> /\ c # PLUS /\ c # PERCENT
  <2>1. Len(w) = 1 /\ w[1] = c
    BY <1>1
  <2>2. e[src] = c
    <3>1. 1 \in 1..1 /\ src + (1 - 1) = src
      OBVIOUS
    <3> QED
      BY <2>1, <3>1
  <2>3. DecodeAt(e, src) = [byte |-> c, skip |-> 1, far |-> src]
    BY <1>1, <2>2, Zenon DEF DecodeAt
  <2> QED
    BY <2>1, <2>3
<1>2. CASE w = <<PLUS>> /\ c = SPACE
  <2>1. Len(w) = 1 /\ w[1] = PLUS
    BY <1>2
  <2>2. e[src] = PLUS
    <3>1. 1 \in 1..1 /\ src + (1 - 1) = src
      OBVIOUS
    <3> QED
      BY <2>1, <3>1
  <2>3. DecodeAt(e, src) = [byte |-> SPACE, skip |-> 1, far |-> src]
    BY <2>2, Zenon DEF DecodeAt
  <2> QED
    BY <1>2, <2>1, <2>3
<1>3. CASE w = <<PERCENT, HexDigit(c \div 16), HexDigit(c % 16)>>
  <2>1. PICK h \in 0..15, l \in 0..15 : c = h * 16 + l
    <3>1. \E h \in 1..7 : c - h * 16 \in 0..15
      <4>1. \/ c - 1 * 16 \in 0..15 \/ c - 2 * 16 \in 0..15 \/ c - 3 * 16 \in 0..15
            \/ c - 4 * 16 \in 0..15 \/ c - 5 * 16 \in 0..15 \/ c - 6 * 16 \in 0..15
            \/ c - 7 * 16 \in 0..15
        BY DEF Plain
      <4>2. 1 \in 1..7 /\ 2 \in 1..7 /\ 3 \in 1..7 /\ 4 \in 1..7 /\ 5 \in 1..7 /\ 6 \in 1..7 /\ 7 \in 1..7
        OBVIOUS
      <4> QED
        BY <4>1, <4>2, Zenon
    <3>2. PICK h \in 1..7 : c - h * 16 \in 0..15
      BY ZenonT(40), <3>1
    <3>3. h \in 0..15 /\ c = h * 16 + (c - h * 16)
      BY <3>2 DEF Plain
    <3> QED
      BY ZenonT(40), <3>2, <3>3
  <2>2. c \div 16 = h /\ c % 16 = l /\ h # 255 /\ l # 255
    <3>1. h # 255 /\ l # 255
      OBVIOUS
    <3>2. (h * 16 + l) \div 16 = h /\ (h * 16 + l) % 16 = l
      BY TwoDigits, Zenon
    <3> QED
      BY <2>1, <3>1, <3>2, Zenon
  <2>3. /\ Len(w) = 3 /\ w[1] = PERCENT /\ w[2] = HexDigit(h) /\ w[3] = HexDigit(l)
    <3>1. w = <<PERCENT, HexDigit(h), HexDigit(l)>>
      BY <1>3, <2>2, Zenon
    <3> QED
      BY <3>1
  <2>4. /\ e[src] = PERCENT /\ e[src + 1] = HexDigit(h) /\ e[src + 2] = HexDigit(l)
    <3>1. \A q \in 1..3 : e[src + (q - 1)] = w[q]
      BY <2>3
    <3>2. src + (1 - 1) = src /\ src + (2 - 1) = src + 1 /\ src + (3 - 1) = src + 2
      OBVIOUS
    <3>3. 1 \in 1..3 /\ 2 \in 1..3 /\ 3 \in 1..3
      OBVIOUS
    <3> HIDE DEF w
    <3> QED
      BY <2>3, <3>1, <3>2, <3>3
  <2>5. At(e, src + 1) = HexDigit(h) /\ At(e, src + 2) = HexDigit(l)
    <3>1. src + 1 # Len(e) + 1 /\ src + 2 # Len(e) + 1
      BY <2>3
    <3> QED
      BY <2>4, <3>1, Zenon DEF At
  <2>6. hex2int(At(e, src + 1)) = h /\ hex2int(At(e, src + 2)) = l
    BY <2>5, HexRoundTrip, Zenon
  <2>7. PERCENT # PLUS
    BY DEF PERCENT, PLUS
  <2>8. DecodeAt(e, src) = [byte |-> h * 16 + l, skip |-> 3, far |-> src + 2]
    BY ZenonT(40), <2>2, <2>4, <2>6, <2>7 DEF DecodeAt
  <2> QED
    BY <2>1, <2>3, <2>8
<1>4. \/ w = <<c>> /\ c # PLUS /\ c # PERCENT
      \/ w = <<PLUS>> /\ c = SPACE
      \/ w = <<PERCENT, HexDigit(c \div 16), HexDigit(c % 16)>>
  <2>1. ~(c < 16)
    BY DEF Plain
  <2>2. Escape(c) = <<PERCENT, HexDigit(c \div 16), HexDigit(c % 16)>>
    BY <2>1, Zenon DEF Escape
  <2>3. IsAlnum(c) \/ c \in {45, 46, 95} => c # PLUS /\ c # PERCENT
    BY DEF IsAlnum, PLUS, PERCENT, Plain
  <2> QED
    BY <2>2, <2>3, Zenon DEF EncodeByte
<1> QED
  BY <1>1, <1>2, <1>3, <1>4

\* The i-th string stands in the joined one behind those before it.
Piece(f, ss, i) ==
    /\ Len(f[i - 1]) \in Nat /\ Len(f[i]) = Len(f[i - 1]) + Len(ss[i])
    /\ Len(f[i]) <= Len(Joined(ss))
    /\ \A q \in 1..Len(ss[i]) : Joined(ss)[Len(f[i - 1]) + q] = ss[i][q]

\* No string that is joined is lost, cut or moved.
LEMMA JoinedPieces ==
    ASSUME NEW S, NEW ss, Len(ss) \in Nat, \A i \in 1..Len(ss) : ss[i] \in Seq(S),
           NEW f, Joins(f, ss, S), NEW i \in 1..Len(ss)
    PROVE  Piece(f, ss, i)
<1> DEFINE n == Len(ss)
           Pre(j, k) == Len(f[j]) <= Len(f[k]) /\ \A x \in 1..Len(f[j]) : f[k][x] = f[j][x]
           T == {k \in 0..n : \A j \in 0..k : Pre(j, k)}
<1>1. /\ \A k \in 0..n : f[k] \in Seq(S) /\ Len(f[k]) \in Nat
      /\ \A k \in 1..n : f[k] = f[k - 1] \o ss[k]
      /\ Joined(ss) = f[n]
  <2>1. f \in [0..n -> Seq(S)] /\ Joined(ss) = f[n] /\ \A k \in 1..n : f[k] = f[k - 1] \o ss[k]
    BY Zenon DEF Joins
  <2>2. \A k \in 0..n : f[k] \in Seq(S)
    BY <2>1, Zenon
  <2>3. \A k \in 0..n : Len(f[k]) \in Nat
    BY <2>2
  <2> QED
    BY <2>1, <2>2, <2>3, Zenon
<1>2. ASSUME NEW k \in 1..n
      PROVE  /\ Len(f[k]) = Len(f[k - 1]) + Len(ss[k]) /\ Len(ss[k]) \in Nat
             /\ \A x \in 1..Len(f[k - 1]) : f[k][x] = f[k - 1][x]
             /\ \A q \in 1..Len(ss[k]) : f[k][Len(f[k - 1]) + q] = ss[k][q]
  <2>1. k - 1 \in 0..n
    OBVIOUS
  <2>2. f[k - 1] \in Seq(S) /\ ss[k] \in Seq(S) /\ f[k] = f[k - 1] \o ss[k]
    BY <1>1, <2>1, Zenon
  <2> DEFINE a == f[k - 1]
             b == ss[k]
  <2> HIDE DEF a, b
  <2>3. /\ Len(a) \in Nat /\ Len(b) \in Nat /\ Len(a \o b) = Len(a) + Len(b)
        /\ \A x \in 1..Len(a) : (a \o b)[x] = a[x]
        /\ \A q \in 1..Len(b) : (a \o b)[Len(a) + q] = b[q]
    <3>1. a \in Seq(S) /\ b \in Seq(S)
      BY <2>2, Zenon DEF a, b
    <3> QED
      BY <3>1
  <2>4. f[k] = a \o b
    BY <2>2, Zenon DEF a, b
  <2> QED
    BY <2>3, <2>4, Zenon DEF a, b
<1>3. 0 \in T
  <2>1. \A j \in 0..0 : j = 0
    OBVIOUS
  <2>2. Len(f[0]) \in Nat
    BY <1>1
  <2> QED
    BY <2>1, <2>2
<1>4. ASSUME NEW k \in T, k \in 0..(n - 1) PROVE k + 1 \in T
  <2>1. /\ k + 1 \in 0..n /\ k + 1 \in 1..n /\ (k + 1) - 1 = k /\ k \in 0..n
        /\ \A j \in 0..(k + 1) : j \in 0..n /\ (j \in 0..k \/ j = k + 1)
    BY <1>4
  <2>2. ASSUME NEW j \in 0..(k + 1) PROVE Pre(j, k + 1)
    <3>1. CASE j = k + 1
      <4>1. Len(f[k + 1]) \in Nat
        BY <1>1, <2>1
      <4> QED
        BY <3>1, <4>1
    <3>2. CASE j \in 0..k
      <4>1. /\ Len(f[k + 1]) = Len(f[k]) + Len(ss[k + 1]) /\ Len(ss[k + 1]) \in Nat
            /\ \A x \in 1..Len(f[k]) : f[k + 1][x] = f[k][x]
        <5> DEFINE m == k + 1
        <5>1. m \in 1..n /\ m - 1 = k
          BY <2>1
        <5> HIDE DEF m
        <5>2. /\ Len(f[m]) = Len(f[k]) + Len(ss[m]) /\ Len(ss[m]) \in Nat
              /\ \A x \in 1..Len(f[k]) : f[m][x] = f[k][x]
          BY <1>2, <5>1, Zenon
        <5> QED
          BY <5>2, Zenon DEF m
      <4>2. Len(f[j]) \in Nat /\ Len(f[k]) \in Nat
        BY <1>1, <2>1
      <4>3. Pre(j, k)
        BY <3>2, Zenon
      <4> QED
        <5>1. Len(f[j]) <= Len(f[k + 1]) /\ \A x \in 1..Len(f[j]) : x \in 1..Len(f[k])
          <6> DEFINE a == Len(f[j])
                     b == Len(f[k])
                     c == Len(f[k + 1])
                     d == Len(ss[k + 1])
          <6>1. a \in Nat /\ b \in Nat /\ d \in Nat /\ c = b + d /\ a <= b
            BY <4>1, <4>2, <4>3, Zenon
          <6> HIDE DEF a, b, c, d
          <6>2. a <= c /\ \A x \in 1..a : x \in 1..b
            BY <6>1
          <6> QED
            BY <6>2, Zenon DEF a, b, c
        <5> QED
          BY <4>1, <4>3, <5>1, Zenon
    <3> QED
      BY <2>1, <3>1, <3>2, Zenon
  <2> HIDE DEF Pre
  <2> QED
    BY <2>1, <2>2, Zenon
<1>5. Pre(i, n)
  <2>1. n \in 0..n /\ i \in 0..n
    OBVIOUS
  <2> HIDE DEF T, n
  <2>2. n \in T
    BY ZenonT(40), <1>3, <1>4, <2>1, BoundedInduction DEF n
  <2> QED
    BY <2>1, <2>2, Zenon DEF T
<1>6. /\ Len(f[i]) = Len(f[i - 1]) + Len(ss[i]) /\ Len(ss[i]) \in Nat
      /\ \A q \in 1..Len(ss[i]) : f[i][Len(f[i - 1]) + q] = ss[i][q]
      /\ Len(f[i - 1]) \in Nat
  <2>1. i - 1 \in 0..n
    OBVIOUS
  <2> QED
    BY <1>1, <1>2, <2>1, Zenon
<1>7. \A q \in 1..Len(ss[i]) : Len(f[i - 1]) + q \in 1..Len(f[i])
  <2> DEFINE a == Len(f[i - 1])
             b == Len(ss[i])
             c == Len(f[i])
  <2>1. a \in Nat /\ b \in Nat /\ c = a + b
    BY <1>6, Zenon
  <2> HIDE DEF a, b, c
  <2>2. \A q \in 1..b : a + q \in 1..c
    BY <2>1
  <2> QED
    BY <2>2, Zenon DEF a, b, c
<1> QED
  BY <1>1, <1>5, <1>6, <1>7, Zenon DEF Piece

\* url_decode gives back every string without control characters below 16 that
\* url_encode encoded, whatever its length ("%%%2X" pads those with a space).
THEOREM UrlRoundTrip ==
    ASSUME NEW s \in Seq(Plain)
    PROVE  url_decode(url_encode(s)) = s
<1> DEFINE n == Len(s)
           ss == [i \in 1..n |-> EncodeByte(s[i])]
           e == url_encode(s)
<1>1. n \in Nat /\ \A i \in 1..n : s[i] \in Plain
  OBVIOUS
<1>2. Plain \subseteq 0..127 /\ NUL \notin Plain
  BY DEF Plain, NUL
<1>3. s \in Seq(0..127)
  <2> DEFINE A == 0..127
  <2>1. \A i \in 1..n : s[i] \in A
    BY ZenonT(40), <1>1, <1>2
  <2> HIDE DEF A
  <2>2. s \in Seq(A)
    BY <2>1
  <2> QED
    BY <2>2 DEF A
<1>4. Len(ss) = n
  BY <1>1
<1>5. \A i \in 1..n : ss[i] = EncodeByte(s[i])
  OBVIOUS
<1>6. e = Joined(ss)
  BY Zenon DEF url_encode
<1>7. \A i \in 1..n : ss[i] \in Seq(Byte)
  <2> TAKE i \in 1..n
  <2>1. s[i] \in 0..127
    BY ZenonT(40), <1>1, <1>2
  <2> QED
    BY <1>5, <2>1, EncodeByteType, Zenon
<1> HIDE DEF ss, n
<1>8. PICK f : Joins(f, ss, Byte)
  BY ZenonT(40), <1>1, <1>4, <1>7, JoinedTable
<1>9. e \in Seq(Byte) /\ Len(e) \in Nat
  <2>1. e \in Seq(Byte)
    BY <1>3, EncodeType, Zenon
  <2> QED
    BY <2>1
<1> HIDE DEF e
<1>10. PICK g : /\ g = [src \in 1..(Len(e) + 3) |-> DecodeStep(e, g, src)]
                /\ Decoded(e) = g[1]
  BY <1>9, DecodeTable, Zenon
<1> DEFINE at(i) == Len(f[i]) + 1
<1>11. at(n) = Len(e) + 1 /\ at(0) = 1
  <2>1. f[0] = <<>> /\ e = f[n]
    BY <1>4, <1>6, <1>8, Zenon DEF Joins
  <2> QED
    BY <2>1
<1>12. ASSUME NEW i \in 1..n
       PROVE  g[at(i - 1)].out = <<s[i]>> \o g[at(i)].out
  <2> DEFINE src == at(i - 1)
             w == EncodeByte(s[i])
  <2>1. /\ Len(f[i - 1]) \in Nat /\ Len(f[i]) = Len(f[i - 1]) + Len(w)
        /\ Len(f[i]) <= Len(e)
        /\ \A q \in 1..Len(w) : e[Len(f[i - 1]) + q] = w[q]
    <3>1. i \in 1..Len(ss)
      BY <1>4
    <3>2. ss[i] = w
      BY <1>5, Zenon
    <3>3. Len(ss) \in Nat /\ \A k \in 1..Len(ss) : ss[k] \in Seq(Byte)
      BY <1>1, <1>4, <1>7, Zenon
    <3>4. Piece(f, ss, i)
      BY <1>8, <3>1, <3>3, JoinedPieces, Zenon
    <3> HIDE DEF w
    <3> QED
      BY <1>6, <3>2, <3>4, Zenon DEF Piece
  <2>2. w \in Seq(Byte) /\ Len(w) \in Nat
    <3>1. w \in Seq(Byte)
      BY <1>5, <1>7, Zenon
    <3> HIDE DEF w
    <3> QED
      BY <3>1
  <2>3. /\ src \in Nat /\ src + Len(w) <= Len(e) + 1 /\ src + Len(w) = at(i)
        /\ \A q \in 1..Len(w) : e[src + (q - 1)] = w[q]
    <3>1. \A q \in 1..Len(w) : src + (q - 1) = Len(f[i - 1]) + q
      <4> HIDE DEF w
      <4> QED
        BY <2>1, <2>2
    <3>2. src \in Nat /\ src + Len(w) <= Len(e) + 1 /\ src + Len(w) = at(i)
      <4> HIDE DEF w
      <4> QED
        BY <1>9, <2>1, <2>2
    <3> QED
      BY <2>1, <3>1, <3>2, Zenon
  <2>4. DecodeAt(e, src).byte = s[i] /\ DecodeAt(e, src).skip = Len(w)
    <3> HIDE DEF src
    <3> QED
      BY <1>1, <1>9, <2>3, ByteRoundTrip, ZenonT(40)
  <2>5. ~(src > Len(e)) /\ src \in 1..(Len(e) + 3)
    <3>1. Len(w) # 0
      <4> DEFINE k == DecodeAt(e, src).skip
      <4>1. k \in {1, 3}
        BY Skips, Zenon
      <4>2. k = Len(w)
        BY <2>4, Zenon
      <4> HIDE DEF k
      <4>3. k # 0
        BY <4>1
      <4> QED
        BY <4>2, <4>3, Zenon
    <3>2. Len(f[i - 1]) \in Nat /\ src + Len(w) <= Len(e) + 1
      BY <2>1, <2>3, Zenon
    <3> DEFINE x == Len(f[i - 1])
               y == Len(w)
               z == Len(e)
    <3>3. x \in Nat /\ y \in Nat /\ z \in Nat /\ y # 0 /\ (x + 1) + y <= z + 1 /\ src = x + 1
      BY <1>9, <2>2, <3>1, <3>2, Zenon
    <3> HIDE DEF x, y, z, src
    <3>4. ~(src > z) /\ src \in 1..(z + 3)
      BY <3>3
    <3> QED
      BY <3>4, Zenon DEF z
  <2>6. g[src] = DecodeStep(e, g, src)
    BY <1>10, <2>5, Zenon
  <2> HIDE DEF src, w, at
  <2>7. g[src].out = <<DecodeAt(e, src).byte>> \o g[src + DecodeAt(e, src).skip].out
    BY <2>5, <2>6 DEF DecodeStep
  <2> QED
    BY <2>3, <2>4, <2>7, Zenon DEF src
<1> HIDE DEF at
<1>13. g[1].out = s
  <2> DEFINE T == {k \in 0..n : g[at(n - k)].out = SubSeq(s, (n - k) + 1, n)}
  <2>1. 0 \in T
    <3>1. Len(e) + 1 \in 1..(Len(e) + 3) /\ Len(e) + 1 > Len(e)
      BY <1>9
    <3>2. g[Len(e) + 1] = [out |-> <<>>, far |-> Len(e) + 1]
      BY <1>10, <3>1, Zenon DEF DecodeStep
    <3>3. SubSeq(s, n + 1, n) = <<>>
      BY <1>1
    <3>4. n - 0 = n /\ 0 \in 0..n
      BY <1>1
    <3>5. g[at(n)].out = <<>>
      BY <1>11, <3>2
    <3> QED
      BY ZenonT(40), <3>3, <3>4, <3>5
  <2>2. ASSUME NEW k \in T, k \in 0..(n - 1) PROVE k + 1 \in T
    <3> DEFINE i == n - k
    <3>1. i \in 1..n /\ k + 1 \in 0..n /\ n - (k + 1) = i - 1 /\ (i - 1) + 1 = i
      BY <1>1, <2>2
    <3>2. g[at(i)].out = SubSeq(s, i + 1, n)
      BY Zenon
    <3> HIDE DEF i
    <3>3. g[at(i - 1)].out = <<s[i]>> \o SubSeq(s, i + 1, n)
      BY <1>12, <3>1, <3>2, Zenon
    <3>4. <<s[i]>> \o SubSeq(s, i + 1, n) = SubSeq(s, i, n)
      <4>1. n = Len(s) /\ s \in Seq(Plain)
        BY DEF n
      <4> QED
        BY <3>1, <4>1
    <3> QED
      BY ZenonT(40), <3>1, <3>3, <3>4
  <2>3. n \in 0..n /\ n - n = 0 /\ 0 + 1 = 1
    BY <1>1
  <2> HIDE DEF T
  <2>4. n \in T
    BY <1>1, <2>1, <2>2, <2>3, BoundedInduction
  <2>5. g[at(0)].out = SubSeq(s, 1, n)
    BY ZenonT(40), <2>3, <2>4 DEF T
  <2>6. SubSeq(s, 1, n) = s
    BY DEF n
  <2> QED
    BY <1>11, <2>5, <2>6, Zenon
<1>14. CStr(s) = s
  <2>1. NUL \notin Range(s)
    BY <1>1, <1>2 DEF Range, n
  <2> QED
    BY <2>1, Zenon DEF CStr
<1> QED
  BY <1>10, <1>13, <1>14, Zenon DEF url_decode, e

-----------------------------------------------------------------------------
(* Forms *)

\* A table with these values is the one parse_pairs goes through.
LEMMA ParseSteps ==
    ASSUME NEW pairs, Len(pairs) \in Nat, NEW t, t[0] = <<>>,
           \A i \in 1..Len(pairs) : t[i] = parse_pair(t[i - 1], pairs[i])
    PROVE  parse_pairs(pairs) = t[Len(pairs)]
<1> DEFINE N == Len(pairs)
           upto == CHOOSE f : f = [i \in 0..Len(pairs) |->
                        IF i = 0 THEN <<>> ELSE parse_pair(f[i - 1], pairs[i])]
<1>1. parse_pairs(pairs) = upto[N]
  BY Zenon DEF parse_pairs
<1> DEFINE g == [i \in 0..N |-> t[i]]
<1>2. ASSUME NEW i \in 0..N
      PROVE  /\ i # 0 => i - 1 \in 0..N /\ i \in 1..N
             /\ g[i] = t[i]
  OBVIOUS
<1>3. ASSUME NEW i \in 0..N
      PROVE  t[i] = IF i = 0 THEN <<>> ELSE parse_pair(g[i - 1], pairs[i])
  <2>1. CASE i = 0
    BY <2>1, Zenon
  <2>2. CASE i # 0
    <3>1. i \in 1..N /\ g[i - 1] = t[i - 1]
      BY <1>2, <2>2, Zenon
    <3> HIDE DEF g
    <3> QED
      BY <2>2, <3>1, Zenon
  <2> QED
    BY <2>1, <2>2
<1>4. g = [i \in 0..Len(pairs) |-> IF i = 0 THEN <<>> ELSE parse_pair(g[i - 1], pairs[i])]
  BY <1>3, Zenon
<1>5. upto = [i \in 0..Len(pairs) |-> IF i = 0 THEN <<>> ELSE parse_pair(upto[i - 1], pairs[i])]
  <2> HIDE DEF g
  <2> QED
    BY <1>4, Zenon
<1> HIDE DEF upto, g
<1>6. upto[N] = t[N]
  <2> DEFINE T == {i \in 0..N : upto[i] = t[i]}
  <2>1. 0 \in T
    <3>1. 0 \in 0..N
      OBVIOUS
    <3> QED
      BY <1>5, <3>1, Zenon
  <2>2. ASSUME NEW i \in T, i \in 0..(N - 1) PROVE i + 1 \in T
    <3>1. i + 1 \in 0..N /\ i + 1 # 0 /\ (i + 1) - 1 = i /\ i + 1 \in 1..N
      BY <2>2
    <3>2. upto[i + 1] = parse_pair(upto[(i + 1) - 1], pairs[i + 1])
      BY <1>5, <3>1, Zenon
    <3>3. t[i + 1] = parse_pair(t[(i + 1) - 1], pairs[i + 1])
      BY <3>1, Zenon
    <3> QED
      BY <3>1, <3>2, <3>3, Zenon
  <2>3. N \in 0..N /\ N \in Nat
    OBVIOUS
  <2> HIDE DEF T, N
  <2>4. N \in T
    BY <2>1, <2>2, <2>3, BoundedInduction
  <2> QED
    BY <2>4, Zenon DEF T
<1> QED
  BY <1>1, <1>6, Zenon

\* The values under n among the first i pairs of f are v[i].
Gathers(v, f, n) ==
    /\ v[0] = <<>>
    /\ \A i \in 1..Len(f) :
          v[i] = IF Lower(f[i][1]) = n /\ f[i][2] # <<>> THEN Append(v[i - 1], f[i][2]) ELSE v[i - 1]
    /\ ValuesOf(f, n) = v[Len(f)]

\* ValuesOf gathers the values of a form.
LEMMA ValuesTable ==
    ASSUME NEW S, NEW f, Len(f) \in Nat, \A i \in 1..Len(f) : f[i][2] \in S, NEW n
    PROVE  \E v : Gathers(v, f, n)
<1> DEFINE N == Len(f)
           V == Seq(S)
           z == <<>>
           Value(acc, i) == IF Lower(f[i][1]) = n /\ f[i][2] # <<>> THEN Append(acc, f[i][2]) ELSE acc
           step == [i \in 1..N |-> [v \in V |-> Value(v, i)]]
           m == CHOOSE v : v = [i \in 0..Len(f) |->
                    IF i = 0 THEN <<>>
                    ELSE IF Lower(f[i][1]) = n /\ f[i][2] # <<>> THEN Append(v[i - 1], f[i][2])
                    ELSE v[i - 1]]
<1>1. ValuesOf(f, n) = m[N]
  BY Zenon DEF ValuesOf
<1>2. \A v \in V, i \in 1..N : Value(v, i) \in V
  <2> TAKE v \in V, i \in 1..N
  <2>1. Append(v, f[i][2]) \in V
    <3>1. f[i][2] \in S
      BY Zenon
    <3> QED
      BY <3>1
  <2> QED
    BY <2>1, Zenon
<1>3. N \in Nat /\ z \in V
  OBVIOUS
<1> HIDE DEF V, z, Value
<1>4. \A k \in 1..N, v \in V : step[k][v] = Value(v, k) /\ step[k][v] \in V
  BY <1>2, Zenon
<1>5. \E v : Iterates(v, N, V, z, step)
  <2> HIDE DEF N, step
  <2> QED
    BY <1>3, <1>4, Iteration, Zenon
<1>6. PICK v : v \in [0..N -> V] /\ v[0] = z /\ \A k \in 1..N : v[k] = step[k][v[k - 1]]
  BY <1>5, Zenon DEF Iterates
<1>7. ASSUME NEW i \in 0..N PROVE v[i] = IF i = 0 THEN <<>> ELSE Value(v[i - 1], i)
  <2>1. CASE i = 0
    BY <1>6, <2>1, Zenon DEF z
  <2>2. CASE i # 0
    <3>1. i \in 1..N /\ i - 1 \in 0..N
      BY <1>3, <2>2
    <3>2. v[i - 1] \in V
      BY <1>6, <3>1, Zenon
    <3> HIDE DEF step
    <3> QED
      BY <1>4, <1>6, <2>2, <3>1, <3>2, Zenon
  <2> QED
    BY <2>1, <2>2
<1>8. v = [i \in 0..Len(f) |->
               IF i = 0 THEN <<>>
               ELSE IF Lower(f[i][1]) = n /\ f[i][2] # <<>> THEN Append(v[i - 1], f[i][2])
               ELSE v[i - 1]]
  <2>1. v = [i \in 0..N |-> v[i]]
    BY <1>6, Zenon
  <2> QED
    BY <1>7, <2>1, Zenon DEF Value
<1>9. m = [i \in 0..Len(f) |->
               IF i = 0 THEN <<>>
               ELSE IF Lower(f[i][1]) = n /\ f[i][2] # <<>> THEN Append(m[i - 1], f[i][2])
               ELSE m[i - 1]]
  BY <1>8, Zenon
<1> HIDE DEF m
<1>10. 0 \in 0..N /\ \A i \in 1..N : i \in 0..N /\ i # 0
  BY <1>3
<1>11. m[0] = <<>>
  BY <1>9, <1>10, Zenon
<1>12. ASSUME NEW i \in 1..N
       PROVE  m[i] = IF Lower(f[i][1]) = n /\ f[i][2] # <<>> THEN Append(m[i - 1], f[i][2]) ELSE m[i - 1]
  BY <1>9, <1>10, Zenon
<1> QED
  BY <1>1, <1>11, <1>12, Zenon DEF Gathers

\* w stands in s behind p, with no delimiter in it.
RunsAt(s, p, w, delim) ==
    /\ p + Len(w) <= Len(s)
    /\ \A q \in 1..Len(w) : s[p + q] = w[q] /\ w[q] # delim

Begun(t, a, p) == t[p] = Append(a, <<>>)

AfterRun(t, a, p, w) == t[p + Len(w)] = Append(a, w)

\* Bytes that are no delimiter go to the piece that was begun.
LEMMA SplitRun ==
    ASSUME NEW S, NEW s \in Seq(S), NEW delim, NEW t, Splits(t, s, delim, S),
           NEW a \in Seq(Seq(S)), NEW p \in Nat, Begun(t, a, p),
           NEW w \in Seq(S), RunsAt(s, p, w, delim)
    PROVE  AfterRun(t, a, p, w)
<1> DEFINE L == Len(w)
           T == {q \in 0..L : t[p + q] = Append(a, SubSeq(w, 1, q))}
<1>0. p + Len(w) <= Len(s) /\ \A q \in 1..Len(w) : s[p + q] = w[q] /\ w[q] # delim
  BY Zenon DEF RunsAt
<1>1. L \in Nat /\ L \in 0..L /\ 0 \in 0..L /\ p \in Nat
  OBVIOUS
<1>2. 0 \in T
  <2>0. t[p] = Append(a, <<>>)
    BY DEF Begun
  <2>1. SubSeq(w, 1, 0) = <<>> /\ p + 0 = p
    OBVIOUS
  <2> QED
    BY <1>1, <2>0, <2>1, Zenon
<1>3. ASSUME NEW q \in T, q \in 0..(L - 1) PROVE q + 1 \in T
  <2> DEFINE b == SubSeq(w, 1, q)
             c == w[q + 1]
             acc == Append(a, b)
  <2>1. /\ q \in Nat /\ q + 1 \in 1..L /\ q + 1 \in 0..L /\ p + (q + 1) \in 1..Len(s)
        /\ (p + (q + 1)) - 1 = p + q
    BY <1>0, <1>1, <1>3
  <2>2. s[p + (q + 1)] = c /\ c # delim /\ c \in S
    <3>1. s[p + (q + 1)] = w[q + 1] /\ w[q + 1] # delim
      BY <1>0, <2>1, Zenon
    <3> QED
      BY <2>1, <3>1
  <2>3. b \in Seq(S) /\ SubSeq(w, 1, q + 1) = Append(b, c)
    <3>1. w \in Seq(S) /\ q \in Nat /\ q < Len(w)
      BY <2>1
    <3> QED
      BY <3>1
  <2>4. t[p + (q + 1)] = SplitByte(t[p + q], s[p + (q + 1)], delim)
    BY <2>1, Zenon DEF Splits
  <2>5. t[p + q] = acc
    BY <1>3
  <2> HIDE DEF b, c
  <2>6. [acc EXCEPT ![Len(acc)] = Append(@, c)] = Append(a, Append(b, c))
    <3>1. /\ acc \in Seq(Seq(S)) /\ Len(acc) = Len(a) + 1 /\ acc[Len(acc)] = b
          /\ \A i \in 1..Len(a) : acc[i] = a[i]
      BY <2>3
    <3> DEFINE x == [acc EXCEPT ![Len(acc)] = Append(@, c)]
               y == Append(a, Append(b, c))
    <3>2. Append(b, c) \in Seq(S) /\ Len(a) \in Nat
      BY <2>2, <2>3
    <3>3. y \in Seq(Seq(S)) /\ Len(y) = Len(a) + 1 /\ y[Len(a) + 1] = Append(b, c)
          /\ \A i \in 1..Len(a) : y[i] = a[i]
      BY <3>2
    <3> HIDE DEF acc
    <3>4. x \in Seq(Seq(S)) /\ Len(x) = Len(a) + 1 /\ x[Len(a) + 1] = Append(b, c)
          /\ \A i \in 1..Len(a) : x[i] = a[i]
      <4>1. /\ DOMAIN x = 1..Len(acc) /\ x[Len(acc)] = Append(acc[Len(acc)], c)
            /\ \A i \in 1..Len(a) : x[i] = acc[i]
        BY <3>1, <3>2
      <4>2. x \in Seq(Seq(S))
        BY <3>1, <3>2
      <4> QED
        BY <3>1, <3>2, <4>1, <4>2
    <3> HIDE DEF x, y
    <3>5. \A i \in 1..(Len(a) + 1) : i \in 1..Len(a) \/ i = Len(a) + 1
      BY <3>2
    <3>6. \A i \in 1..Len(x) : x[i] = y[i]
      BY <3>3, <3>4, <3>5, Zenon
    <3>7. x = y
      BY <3>3, <3>4, <3>6
    <3> QED
      BY <3>7, Zenon DEF x, y
  <2> HIDE DEF acc
  <2>7. t[p + (q + 1)] = Append(a, SubSeq(w, 1, q + 1))
    BY <2>2, <2>3, <2>4, <2>5, <2>6, Zenon DEF SplitByte
  <2> QED
    BY <2>1, <2>7, Zenon
<1>4. L \in T
  <2> HIDE DEF T, L
  <2> QED
    BY ZenonT(40), <1>1, <1>2, <1>3, BoundedInduction
<1>5. SubSeq(w, 1, L) = w
  OBVIOUS
<1> QED
  BY <1>4, <1>5, Zenon DEF AfterRun

\* Bytes of a C string.
NonNul == Byte \ {NUL}

\* A pair of a form as it is sent, and a pair with what goes before it.
Pair(p) == url_encode(p[1]) \o <<EQ>> \o url_encode(p[2])

Link(f, i) ==
    (IF i = 1 THEN <<>> ELSE <<AMP>>) \o url_encode(f[i][1]) \o <<EQ>> \o url_encode(f[i][2])

\* A pair has a "=" behind its name, and no "&" and no NUL.
PairIs(p) ==
    LET w == Pair(p)
        k == Len(url_encode(p[1]))
    IN  /\ w \in Seq(NonNul) /\ k \in Nat /\ Len(w) \in Nat /\ k < Len(w)
        /\ w[k + 1] = EQ
        /\ Len(w) = (k + 1) + Len(url_encode(p[2]))
        /\ \A q \in 1..k : w[q] = url_encode(p[1])[q] /\ w[q] # EQ
        /\ \A q \in 1..Len(url_encode(p[2])) : w[(k + 1) + q] = url_encode(p[2])[q]
        /\ \A q \in 1..Len(w) : w[q] # AMP /\ w[q] # NUL

\* So it is for strings of bytes below 128.
LEMMA PairShape ==
    ASSUME NEW p, p[1] \in Seq(0..127), p[2] \in Seq(0..127)
    PROVE  PairIs(p)
<1> DEFINE a == url_encode(p[1])
           b == url_encode(p[2])
           w == Pair(p)
           Q == Byte \ {NUL, AMP}
<1>1. a \in Seq(Safe) /\ b \in Seq(Safe)
  BY EncodeSafe, Zenon
<1>2. w = (a \o <<EQ>>) \o b
  BY Zenon DEF Pair
<1>3. \A c \in Safe : c # EQ /\ c \in Q
  BY DEF Safe
<1>4. EQ \in Q /\ \A c \in Q : c \in NonNul /\ c # AMP /\ c # NUL
  BY DEF EQ, NUL, AMP, Byte, NonNul
<1> HIDE DEF a, b, w, Safe, Q
<1>5. Len(a) \in Nat /\ Len(b) \in Nat /\ \A i \in 1..Len(a) : a[i] \in Safe
  BY <1>1
<1>6. a \in Seq(Q) /\ b \in Seq(Q)
  <2>1. Safe \subseteq Q
    BY <1>3, Zenon
  <2> QED
    BY <1>1, <2>1
<1>7. a \o <<EQ>> \in Seq(Q) /\ Len(a \o <<EQ>>) = Len(a) + 1 /\ (a \o <<EQ>>)[Len(a) + 1] = EQ
      /\ \A q \in 1..Len(a) : (a \o <<EQ>>)[q] = a[q]
  BY <1>4, <1>5, <1>6
<1> DEFINE x == a \o <<EQ>>
<1> HIDE DEF x
<1>8. /\ x \o b \in Seq(Q) /\ Len(x \o b) = Len(x) + Len(b)
      /\ \A q \in 1..Len(x) : (x \o b)[q] = x[q]
      /\ \A q \in 1..Len(b) : (x \o b)[Len(x) + q] = b[q]
  <2>1. x \in Seq(Q)
    BY <1>7, Zenon DEF x
  <2> QED
    BY <1>6, <2>1
<1>9. w = x \o b /\ Len(x) = Len(a) + 1 /\ x[Len(a) + 1] = EQ /\ \A q \in 1..Len(a) : x[q] = a[q]
  BY <1>2, <1>7, Zenon DEF x
<1>10. /\ w \in Seq(Q) /\ Len(w) = (Len(a) + 1) + Len(b)
       /\ \A q \in 1..(Len(a) + 1) : w[q] = x[q]
       /\ \A q \in 1..Len(b) : w[(Len(a) + 1) + q] = b[q]
  BY <1>8, <1>9, Zenon
<1>11. Len(a) + 1 \in 1..(Len(a) + 1) /\ \A q \in 1..Len(a) : q \in 1..(Len(a) + 1)
  BY <1>5
<1>12. w[Len(a) + 1] = EQ /\ \A q \in 1..Len(a) : w[q] = a[q] /\ w[q] # EQ
  BY <1>3, <1>5, <1>9, <1>10, <1>11, Zenon
<1>13. w \in Seq(NonNul) /\ Len(w) \in Nat /\ Len(a) < Len(w)
  <2>1. Q \subseteq NonNul
    BY <1>4, Zenon
  <2>2. w \in Seq(NonNul)
    BY <1>10, <2>1
  <2> QED
    BY <1>5, <1>10, <2>2
<1>14. \A q \in 1..Len(w) : w[q] # AMP /\ w[q] # NUL
  <2>1. \A q \in 1..Len(w) : w[q] \in Q
    BY <1>10
  <2> QED
    BY <1>4, <2>1, Zenon
<1> QED
  BY <1>5, <1>10, <1>12, <1>13, <1>14, Zenon DEF PairIs, a, b, w

\* The first pair stands alone, the others have a "&" before them.
LinkIs(f, i) ==
    /\ Link(f, i) \in Seq(NonNul)
    /\ i = 1 => Link(f, i) = Pair(f[i])
    /\ i # 1 => /\ Len(Link(f, i)) = Len(Pair(f[i])) + 1
                /\ Link(f, i)[1] = AMP
                /\ \A q \in 1..Len(Pair(f[i])) : Link(f, i)[1 + q] = Pair(f[i])[q]

Regroups(S) ==
    \A x, y, z \in Seq(S) : (x \o y) \o z = x \o (y \o z)

\* Strings may be joined from either end.
LEMMA Regroup ==
    ASSUME NEW S
    PROVE  Regroups(S)
<1> SUFFICES ASSUME NEW x \in Seq(S), NEW y \in Seq(S), NEW z \in Seq(S)
             PROVE  (x \o y) \o z = x \o (y \o z)
  BY Zenon DEF Regroups
<1> QED
  BY SMTT(30)

\* So it is for the pairs of a form of bytes below 128.
LEMMA LinkShape ==
    ASSUME NEW f, NEW i, f[i][1] \in Seq(0..127), f[i][2] \in Seq(0..127)
    PROVE  LinkIs(f, i)
<1> DEFINE a == url_encode(f[i][1])
           b == url_encode(f[i][2])
           h == IF i = 1 THEN <<>> ELSE <<AMP>>
<1>1. a \in Seq(Safe) /\ b \in Seq(Safe)
  BY EncodeSafe, Zenon
<1>2. Safe \subseteq NonNul /\ EQ \in NonNul /\ AMP \in NonNul
  BY DEF Safe, EQ, AMP, NUL, Byte, NonNul
<1> HIDE DEF Safe, NonNul
<1>a. \A x, y, z \in Seq(NonNul) : (x \o y) \o z = x \o (y \o z)
  <2>1. Regroups(NonNul)
    BY Regroup, Zenon
  <2> QED
    BY <2>1, Zenon DEF Regroups
<1>3. Link(f, i) = ((h \o a) \o <<EQ>>) \o b /\ Pair(f[i]) = (a \o <<EQ>>) \o b
  BY Zenon DEF Link, Pair
<1> HIDE DEF a, b
<1>4. a \in Seq(NonNul) /\ b \in Seq(NonNul) /\ <<EQ>> \in Seq(NonNul) /\ <<AMP>> \in Seq(NonNul) /\ <<>> \in Seq(NonNul)
  BY <1>1, <1>2
<1>5. h \in Seq(NonNul)
  BY <1>4, Zenon
<1> DEFINE x == (a \o <<EQ>>) \o b
<1>6. ((h \o a) \o <<EQ>>) \o b = h \o x
  <2> HIDE DEF h
  <2>1. (h \o a) \o <<EQ>> = h \o (a \o <<EQ>>)
    <3>1. a \in Seq(NonNul) /\ <<EQ>> \in Seq(NonNul)
      BY <1>4, Zenon
    <3> QED
      BY <1>5, <1>a, <3>1, Zenon
  <2>2. (h \o (a \o <<EQ>>)) \o b = h \o ((a \o <<EQ>>) \o b)
    <3> DEFINE y == a \o <<EQ>>
    <3>1. y \in Seq(NonNul)
      BY <1>4
    <3> HIDE DEF y
    <3>2. (h \o y) \o b = h \o (y \o b)
      <4>1. b \in Seq(NonNul)
        BY <1>4, Zenon
      <4> QED
        BY <1>5, <1>a, <3>1, <4>1, Zenon
    <3> QED
      BY <3>2, Zenon DEF y
  <2> QED
    BY <2>1, <2>2, Zenon
<1>7. x \in Seq(NonNul)
  BY <1>4
<1> HIDE DEF x
<1>8. Link(f, i) = h \o x /\ Pair(f[i]) = x
  BY <1>3, <1>6, Zenon DEF x
<1>9. CASE i = 1
  <2>1. h = <<>>
    BY <1>9, Zenon
  <2>2. <<>> \o x = x
    BY <1>7
  <2> QED
    BY <1>7, <1>8, <1>9, <2>1, <2>2, Zenon DEF LinkIs
<1>10. CASE i # 1
  <2>1. h = <<AMP>>
    BY <1>10, Zenon
  <2>2. /\ <<AMP>> \o x \in Seq(NonNul) /\ Len(<<AMP>> \o x) = Len(x) + 1 /\ (<<AMP>> \o x)[1] = AMP
        /\ \A q \in 1..Len(x) : (<<AMP>> \o x)[1 + q] = x[q]
    BY <1>4, <1>7
  <2> QED
    BY <1>8, <1>10, <2>1, <2>2, Zenon DEF LinkIs
<1> QED
  BY <1>9, <1>10

\* Forms of strings over bytes below 128.
AsciiForm(f) == f \in Seq(Seq(0..127) \X Seq(0..127))

\* The first i pairs of a form as they are sent.
SentPairs(f, i) == [j \in 1..i |-> Pair(f[j])]

\* split cuts an encoded form into its pairs, and there is no NUL in it.
LEMMA FormSplits ==
    ASSUME NEW f, AsciiForm(f), f # <<>>
    PROVE  split(EncodeForm(f), AMP) = SentPairs(f, Len(f)) /\ EncodeForm(f) \in Seq(NonNul)
<1> DEFINE N == Len(f)
           ss == [i \in 1..Len(f) |-> Link(f, i)]
           s == EncodeForm(f)
<1>1. /\ N \in Nat /\ N # 0 /\ \A i \in 1..N : f[i][1] \in Seq(0..127) /\ f[i][2] \in Seq(0..127)
  <2> DEFINE A == Seq(0..127)
  <2> HIDE DEF A
  <2>1. f \in Seq(A \X A)
    BY Zenon DEF AsciiForm, A
  <2>2. N \in Nat /\ N # 0 /\ \A i \in 1..N : f[i][1] \in A /\ f[i][2] \in A
    BY <2>1, EmptySeq
  <2> QED
    BY <2>2 DEF A
<1>2. \A i \in 1..N : PairIs(f[i])
  BY <1>1, PairShape, Zenon
<1>3. \A i \in 1..N : LinkIs(f, i)
  BY <1>1, LinkShape, Zenon
<1>3a. \A i \in 1..N : Link(f, i) \in Seq(NonNul)
  BY <1>3, Zenon DEF LinkIs
<1>4. s = Joined(ss)
  BY Zenon DEF EncodeForm, Link
<1>5. Len(ss) = N /\ \A i \in 1..N : ss[i] = Link(f, i)
  BY <1>1
<1> HIDE DEF N, ss, s, NonNul
<1>6. Joined(ss) \in Seq(NonNul) /\ \E j : Joins(j, ss, NonNul)
  BY ZenonT(40), <1>1, <1>5, <1>3a, JoinedTable
<1>7. PICK j : Joins(j, ss, NonNul)
  BY <1>6, Zenon
<1>8. \A i \in 1..N : Piece(j, ss, i)
  BY ZenonT(40), <1>1, <1>3a, <1>5, <1>7, JoinedPieces
<1>9. /\ j[0] = <<>> /\ s = j[N] /\ s \in Seq(NonNul)
      /\ \A i \in 1..N : /\ Len(j[i - 1]) \in Nat /\ Len(j[i]) = Len(j[i - 1]) + Len(Link(f, i))
                         /\ Len(j[i]) <= Len(s)
                         /\ \A q \in 1..Len(Link(f, i)) : s[Len(j[i - 1]) + q] = Link(f, i)[q]
  BY <1>4, <1>5, <1>6, <1>7, <1>8, Zenon DEF Joins, Piece
<1>10. PICK t : Splits(t, s, AMP, NonNul)
  BY <1>9, SplitTable, Zenon
<1>11. /\ t[0] = << <<>> >> /\ split(s, AMP) = Trimmed(t[Len(s)])
       /\ \A i \in 1..Len(s) : t[i] = SplitByte(t[i - 1], s[i], AMP)
  BY <1>10, Zenon DEF Splits
<1>12. Len(s) \in Nat
  BY <1>9
<1> DEFINE After(i) == t[Len(j[i])] = SentPairs(f, i)
           T == {i \in 0..(N - 1) : After(i + 1)}
<1>13. ASSUME NEW i \in 1..N
       PROVE  LET w == Pair(f[i])
              IN  /\ w \in Seq(NonNul) /\ Len(w) \in Nat /\ Len(w) # 0
                  /\ \A q \in 1..Len(w) : w[q] # AMP
                  /\ SentPairs(f, i) = Append(SentPairs(f, i - 1), w)
                  /\ SentPairs(f, i - 1) \in Seq(Seq(NonNul))
  <2> DEFINE w == Pair(f[i])
  <2>1. w \in Seq(NonNul) /\ Len(w) \in Nat /\ \A q \in 1..Len(w) : w[q] # AMP
    BY <1>2, Zenon DEF PairIs
  <2>2. \A m \in 1..N : Pair(f[m]) \in Seq(NonNul)
    BY <1>2, Zenon DEF PairIs
  <2>3. Len(w) # 0
    <3>1. /\ Len(url_encode(f[i][1])) \in Nat /\ Len(url_encode(f[i][1])) < Len(w)
      BY <1>2, Zenon DEF PairIs
    <3> HIDE DEF w
    <3> QED
      BY <2>1, <3>1
  <2>4. i \in Nat /\ i - 1 \in Nat /\ i - 1 < i /\ \A m \in 1..i : m \in 1..N
    BY <1>1
  <2> DEFINE x == SentPairs(f, i)
             y == SentPairs(f, i - 1)
  <2>5. \A k \in Nat : (\A m \in 1..k : m \in 1..N) => SentPairs(f, k) \in Seq(Seq(NonNul)) /\ Len(SentPairs(f, k)) = k
    <3> TAKE k \in Nat
    <3> HAVE \A m \in 1..k : m \in 1..N
    <3>1. \A m \in 1..k : Pair(f[m]) \in Seq(NonNul)
      BY <2>2
    <3> QED
      BY <3>1 DEF SentPairs
  <2>6. \A m \in 1..(i - 1) : m \in 1..i
    BY <2>4
  <2>7. x \in Seq(Seq(NonNul)) /\ Len(x) = i /\ y \in Seq(Seq(NonNul)) /\ Len(y) = i - 1
    BY <2>4, <2>5, <2>6, Zenon
  <2>8. \A m \in 1..i : x[m] = Pair(f[m])
    BY Zenon DEF SentPairs
  <2>9. \A m \in 1..(i - 1) : y[m] = Pair(f[m])
    BY Zenon DEF SentPairs
  <2> HIDE DEF x, y, w
  <2>10. Append(y, w) \in Seq(Seq(NonNul)) /\ Len(Append(y, w)) = i /\ Append(y, w)[i] = w
         /\ \A m \in 1..(i - 1) : Append(y, w)[m] = y[m]
    BY <2>1, <2>4, <2>7
  <2>11. \A m \in 1..i : x[m] = Append(y, w)[m]
    <3>1. \A m \in 1..i : m = i \/ m \in 1..(i - 1)
      BY <2>4
    <3>2. Append(y, w)[i] = Pair(f[i])
      BY <2>10, Zenon DEF w
    <3>3. \A m \in 1..(i - 1) : Append(y, w)[m] = Pair(f[m])
      BY <2>9, <2>10, Zenon
    <3>4. \A m \in 1..i : Append(y, w)[m] = Pair(f[m])
      BY <3>1, <3>2, <3>3, Zenon
    <3> QED
      BY <2>8, <3>4, Zenon
  <2>12. x = Append(y, w)
    BY <2>7, <2>10, <2>11
  <2> QED
    BY <2>1, <2>3, <2>7, <2>12, Zenon DEF x, y, w
<1>14. 0 \in T
  <2> DEFINE w == Pair(f[1])
  <2>1. 1 \in 1..N /\ 0 \in 0..(N - 1) /\ 1 - 1 = 0 /\ 0 + 1 = 1
    BY <1>1
  <2>2. Link(f, 1) = w
    BY <1>3, <2>1, Zenon DEF LinkIs
  <2>3. Len(j[0]) = 0
    BY <1>9
  <2>4. /\ Len(j[1]) = Len(j[0]) + Len(w) /\ Len(j[1]) <= Len(s)
        /\ \A q \in 1..Len(w) : s[Len(j[0]) + q] = w[q]
    BY <1>9, <2>1, <2>2, Zenon
  <2>5. /\ w \in Seq(NonNul) /\ Len(w) \in Nat
        /\ \A q \in 1..Len(w) : w[q] # AMP
        /\ SentPairs(f, 1) = Append(SentPairs(f, 0), w)
    BY <1>13, <2>1, Zenon
  <2>6. SentPairs(f, 0) = <<>>
    BY DEF SentPairs
  <2> HIDE DEF w
  <2> DEFINE a == <<>>
             p == 0
  <2>7. a \in Seq(Seq(NonNul)) /\ p \in Nat /\ t[p] = Append(a, <<>>) /\ p + Len(w) <= Len(s)
    BY <1>11, <2>3, <2>4, <2>5
  <2>8. \A q \in 1..Len(w) : s[p + q] = w[q] /\ w[q] # AMP
    BY <2>3, <2>4, <2>5, Zenon
  <2> HIDE DEF a, p
  <2>9. t[p + Len(w)] = Append(a, w)
    <3>1. RunsAt(s, p, w, AMP)
      BY <2>7, <2>8, Zenon DEF RunsAt
    <3>2. s \in Seq(NonNul) /\ w \in Seq(NonNul) /\ a \in Seq(Seq(NonNul)) /\ p \in Nat /\ Begun(t, a, p)
      BY <1>9, <2>5, <2>7, Zenon DEF Begun
    <3>3. Splits(t, s, AMP, NonNul)
      BY <1>10
    <3>4. AfterRun(t, a, p, w)
      BY <3>1, <3>2, <3>3, SplitRun
    <3> QED
      BY <3>4 DEF AfterRun
  <2>10. After(1)
    <3>1. Len(j[1]) = p + Len(w)
      BY <2>3, <2>4, Zenon DEF p
    <3>2. SentPairs(f, 1) = Append(a, w)
      BY <2>5, <2>6, Zenon DEF a
    <3> QED
      BY <2>9, <3>1, <3>2, Zenon
  <2> HIDE DEF After
  <2> QED
    BY <2>1, <2>10, Zenon
<1>15. ASSUME NEW k \in T, k \in 0..((N - 1) - 1) PROVE k + 1 \in T
  <2> DEFINE i == k + 2
             w == Pair(f[i])
             b == Len(j[k + 1])
  <2>1. i \in 1..N /\ i - 1 = k + 1 /\ i # 1 /\ k + 1 \in 1..N /\ (k + 1) + 1 = i /\ k + 1 \in 0..(N - 1)
    BY <1>1, <1>15
  <2> HIDE DEF i
  <2>2. /\ Len(Link(f, i)) = Len(w) + 1 /\ Link(f, i)[1] = AMP
        /\ \A q \in 1..Len(w) : Link(f, i)[1 + q] = w[q]
    BY <1>3, <2>1, Zenon DEF LinkIs
  <2>3. /\ b \in Nat /\ Len(j[i]) = b + Len(Link(f, i)) /\ Len(j[i]) <= Len(s)
        /\ \A q \in 1..Len(Link(f, i)) : s[b + q] = Link(f, i)[q]
    BY <1>9, <2>1, Zenon
  <2>4. /\ w \in Seq(NonNul) /\ Len(w) \in Nat
        /\ \A q \in 1..Len(w) : w[q] # AMP
        /\ SentPairs(f, i) = Append(SentPairs(f, k + 1), w)
        /\ SentPairs(f, k + 1) \in Seq(Seq(NonNul))
    BY <1>13, <2>1, Zenon
  <2>5. t[b] = SentPairs(f, k + 1)
    BY <1>15, Zenon
  <2> HIDE DEF w, b
  <2> DEFINE a == SentPairs(f, k + 1)
             p == b + 1
  <2>6. /\ p \in Nat /\ p \in 1..Len(s) /\ p - 1 = b /\ p + Len(w) = Len(j[i]) /\ p + Len(w) <= Len(s)
        /\ 1 \in 1..Len(Link(f, i)) /\ \A q \in 1..Len(w) : 1 + q \in 1..Len(Link(f, i)) /\ b + (1 + q) = p + q
    BY <1>12, <2>2, <2>3, <2>4
  <2>7. t[p] = Append(a, <<>>)
    <3>1. s[b + 1] = AMP
      BY <2>2, <2>3, <2>6, Zenon
    <3>2. t[p] = SplitByte(t[p - 1], s[p], AMP)
      BY <1>11, <2>6, Zenon
    <3> QED
      BY <2>5, <2>6, <3>1, <3>2, Zenon DEF SplitByte
  <2>8. \A q \in 1..Len(w) : s[p + q] = w[q] /\ w[q] # AMP
    <3> TAKE q \in 1..Len(w)
    <3>1. s[b + (1 + q)] = Link(f, i)[1 + q] /\ b + (1 + q) = p + q
      BY <2>3, <2>6, Zenon
    <3> QED
      BY <2>2, <2>4, <3>1, Zenon
  <2> HIDE DEF a, p
  <2>9. a \in Seq(Seq(NonNul))
    BY <2>4, Zenon DEF a
  <2>10. t[p + Len(w)] = Append(a, w)
    <3>1. RunsAt(s, p, w, AMP)
      BY <2>6, <2>8, Zenon DEF RunsAt
    <3>2. s \in Seq(NonNul) /\ w \in Seq(NonNul) /\ a \in Seq(Seq(NonNul)) /\ p \in Nat /\ Begun(t, a, p)
      BY <1>9, <2>4, <2>6, <2>7, <2>9, Zenon DEF Begun
    <3>3. Splits(t, s, AMP, NonNul)
      BY <1>10
    <3>4. AfterRun(t, a, p, w)
      BY <3>1, <3>2, <3>3, SplitRun
    <3> QED
      BY <3>4 DEF AfterRun
  <2>11. After(i)
    <3>1. p + Len(w) = Len(j[i])
      BY <2>6
    <3>2. SentPairs(f, i) = Append(a, w)
      BY <2>4, Zenon DEF a
    <3> QED
      BY <2>10, <3>1, <3>2, Zenon
  <2> HIDE DEF After
  <2> QED
    BY <2>1, <2>11, Zenon
<1>16. After(N)
  <2> DEFINE M == N - 1
  <2>1. M \in Nat /\ M \in 0..M /\ M + 1 = N
    BY <1>1
  <2> HIDE DEF T, M
  <2>2. M \in T
    BY <1>14, <1>15, <2>1, BoundedInduction DEF M
  <2> QED
    BY <2>1, <2>2, Zenon DEF T
<1>17. t[Len(s)] = SentPairs(f, N)
  BY <1>9, <1>16, Zenon
<1>18. Trimmed(SentPairs(f, N)) = SentPairs(f, N)
  <2> DEFINE w == Pair(f[N])
             a == SentPairs(f, N - 1)
  <2>1. N \in 1..N
    BY <1>1
  <2>2. /\ w \in Seq(NonNul) /\ Len(w) # 0 /\ SentPairs(f, N) = Append(a, w) /\ a \in Seq(Seq(NonNul))
    BY <1>13, <2>1, Zenon
  <2> HIDE DEF w, a
  <2>3. w # <<>>
    BY <2>2
  <2>4. Append(a, w)[Len(Append(a, w))] = w
    BY <2>2
  <2> QED
    BY <2>2, <2>3, <2>4, Zenon DEF Trimmed
<1> QED
  BY <1>9, <1>11, <1>17, <1>18, Zenon DEF s, N

\* The NUL behind a string ends it.
LEMMA CStrEnds ==
    ASSUME NEW s \in Seq(NonNul)
    PROVE  CStr(Append(s, NUL)) = s
<1> DEFINE r == Append(s, NUL)
           n == Len(s) + 1
           First(i) == r[i] = NUL /\ NUL \notin Range(SubSeq(r, 1, i - 1))
           c == CHOOSE i \in 1..Len(r) : First(i)
<1>1. \A x \in NonNul : x # NUL
  BY DEF NonNul
<1> HIDE DEF NonNul
<1>2. /\ Len(s) \in Nat /\ Len(r) = n /\ n \in 1..Len(r) /\ r[n] = NUL
      /\ \A i \in 1..Len(s) : r[i] = s[i] /\ s[i] \in NonNul
  OBVIOUS
<1>3. r \in Seq(NonNul \cup {NUL}) /\ DOMAIN r = 1..n
  OBVIOUS
<1>4. SubSeq(r, 1, n - 1) = s
  BY <1>2, <1>3
<1>5. First(n)
  <2>1. NUL \notin Range(s)
    <3>1. \A i \in DOMAIN s : s[i] # NUL
      BY <1>1, <1>2
    <3> QED
      BY <3>1, Zenon DEF Range
  <2> QED
    BY <1>2, <1>4, <2>1, Zenon
<1>6. \A i \in 1..Len(r) : First(i) => i = n
  <2> TAKE i \in 1..Len(r)
  <2>1. i \in 1..Len(s) \/ i = n
    BY <1>2
  <2> QED
    BY <1>1, <1>2, <2>1, Zenon
<1>7. c = n
  <2> HIDE DEF First, n
  <2> QED
    BY <1>2, <1>5, <1>6, Zenon
<1>8. NUL \in Range(r)
  BY <1>2, <1>3, Zenon DEF Range
<1>9. CStr(r) = SubSeq(r, 1, c - 1)
  BY <1>8, Zenon DEF CStr
<1> QED
  BY <1>4, <1>7, <1>9, Zenon

\* What url_encode writes is empty for the empty string only.
LEMMA EncodeEmpty ==
    ASSUME NEW s \in Seq(Plain)
    PROVE  Len(url_encode(s)) = 0 <=> s = <<>>
<1>1. url_encode(<<>>) = <<>>
  <2> DEFINE ss == [i \in 1..Len(<<>>) |-> EncodeByte(<<>>[i])]
  <2>1. Len(ss) = 0 /\ Len(ss) \in Nat /\ \A i \in 1..Len(ss) : ss[i] \in Seq(Byte)
    OBVIOUS
  <2>2. url_encode(<<>>) = Joined(ss)
    BY Zenon DEF url_encode
  <2> HIDE DEF ss
  <2>3. \E f : Joins(f, ss, Byte)
    BY ZenonT(40), <2>1, JoinedTable
  <2>4. Joined(ss) = <<>>
    BY <2>1, <2>3, Zenon DEF Joins
  <2> QED
    BY <2>2, <2>4
<1>2. CASE Len(url_encode(s)) = 0
  <2>2. s \in Seq(0..127)
    <3>1. Plain \subseteq 0..127
      BY DEF Plain
    <3> DEFINE A == 0..127
    <3>2. Plain \subseteq A
      BY <3>1
    <3> HIDE DEF A
    <3>3. s \in Seq(A)
      BY <3>2
    <3> QED
      BY <3>3 DEF A
  <2>3. url_encode(s) \in Seq(Safe)
    BY <2>2, EncodeSafe
  <2>4. url_encode(s) = <<>>
    BY <1>2, <2>3, EmptySeq
  <2>5. url_decode(url_encode(s)) = s
    BY UrlRoundTrip
  <2>6. <<>> \in Seq(Plain)
    OBVIOUS
  <2>7. url_decode(url_encode(<<>>)) = <<>>
    BY ZenonT(40), <2>6, UrlRoundTrip
  <2> QED
    BY <1>1, <1>2, <2>4, <2>5, <2>7, Zenon
<1>3. CASE s = <<>>
  <2>1. Len(<<>>) = 0
    OBVIOUS
  <2> QED
    BY <1>1, <1>3, <2>1, Zenon
<1> QED
  BY <1>2, <1>3

\* A pair that was sent is entered under its name with its value, unless that is
\* empty.
LEMMA PairParses ==
    ASSUME NEW p, p[1] \in Seq(Plain), p[2] \in Seq(Plain), PairIs(p), NEW t
    PROVE  parse_pair(t, Pair(p)) = IF p[2] = <<>> THEN t ELSE merge(t, p[1], p[2])
<1> DEFINE w == Pair(p)
           a == url_encode(p[1])
           b == url_encode(p[2])
           k == Len(a)
           n == k + 1
           First(i) == w[i] = EQ /\ EQ \notin Range(SubSeq(w, 1, i - 1))
           found == CHOOSE i \in 1..Len(w) : First(i)
<1>1. /\ w \in Seq(NonNul) /\ k \in Nat /\ Len(w) \in Nat /\ k < Len(w)
      /\ w[k + 1] = EQ /\ Len(w) = (k + 1) + Len(b)
      /\ \A q \in 1..k : w[q] = a[q] /\ w[q] # EQ
      /\ \A q \in 1..Len(b) : w[(k + 1) + q] = b[q]
  BY Zenon DEF PairIs
<1>2. a \in Seq(NonNul) /\ b \in Seq(NonNul)
  <2>1. p[1] \in Seq(0..127) /\ p[2] \in Seq(0..127)
    <3> DEFINE A == 0..127
    <3>1. Plain \subseteq A
      BY DEF Plain
    <3> HIDE DEF A, Plain
    <3>2. p[1] \in Seq(A) /\ p[2] \in Seq(A)
      BY <3>1
    <3> QED
      BY <3>2 DEF A
  <2>2. a \in Seq(Safe) /\ b \in Seq(Safe)
    BY <2>1, EncodeSafe, Zenon
  <2>3. Safe \subseteq NonNul
    BY DEF Safe, NonNul
  <2> HIDE DEF a, b
  <2> QED
    BY <2>2, <2>3
<1>3. (Len(b) = 0 <=> p[2] = <<>>) /\ Len(b) \in Nat
  <2>1. Len(b) = 0 <=> p[2] = <<>>
    BY EncodeEmpty, Zenon
  <2>2. Len(b) \in Nat
    <3> HIDE DEF b
    <3> QED
      BY <1>2
  <2> QED
    BY <2>1, <2>2, Zenon
<1>4. url_decode(a) = p[1] /\ url_decode(b) = p[2]
  BY UrlRoundTrip, Zenon
<1> HIDE DEF w, a, b
<1>5. n \in 1..Len(w) /\ DOMAIN w = 1..Len(w)
  BY <1>1
<1>6. SubSeq(w, 1, n - 1) = a
  <2>1. n - 1 = k /\ k \in Nat /\ k <= Len(w)
    BY <1>1
  <2>2. SubSeq(w, 1, k) \in Seq(NonNul) /\ Len(SubSeq(w, 1, k)) = k /\ \A q \in 1..k : SubSeq(w, 1, k)[q] = w[q]
    BY <1>1, <2>1
  <2>3. SubSeq(w, 1, k) = a
    BY <1>1, <1>2, <2>2
  <2> QED
    BY <2>1, <2>3, Zenon
<1>7. SubSeq(w, n + 1, Len(w)) = b
  <2> DEFINE x == SubSeq(w, n + 1, Len(w))
  <2>1. x \in Seq(NonNul) /\ Len(x) = Len(b) /\ \A q \in 1..Len(b) : x[q] = w[(n + 1) + q - 1]
    BY <1>1, <1>3, <1>5
  <2>2. \A q \in 1..Len(b) : (n + 1) + q - 1 = (k + 1) + q
    BY <1>1, <1>3
  <2> HIDE DEF x, k
  <2>3. \A q \in 1..Len(x) : x[q] = b[q]
    BY <1>1, <2>1, <2>2, Zenon
  <2>4. x = b
    BY <1>2, <2>1, <2>3
  <2> QED
    BY <2>4, Zenon DEF x
<1>8. First(n)
  <2>1. EQ \notin Range(a)
    <3>0. DOMAIN a = 1..k
      BY <1>2
    <3>1. \A q \in DOMAIN a : a[q] # EQ
      BY <1>1, <3>0, Zenon
    <3> QED
      BY <3>1, Zenon DEF Range
  <2> QED
    BY <1>1, <1>6, <2>1, Zenon
<1>9. \A i \in 1..Len(w) : First(i) => i = n
  <2> TAKE i \in 1..Len(w)
  <2> HAVE First(i)
  <2>1. i \in 1..k \/ i = n \/ i > n
    BY <1>1
  <2>2. CASE i \in 1..k
    BY <1>1, <2>2, Zenon
  <2>3. CASE i > n
    <3> DEFINE x == SubSeq(w, 1, i - 1)
    <3>1. n \in DOMAIN x /\ x[n] = w[n]
      BY <1>1, <1>5, <2>3
    <3>2. EQ \in Range(x)
      <4>1. x[n] = EQ
        BY <1>1, <3>1, Zenon
      <4> HIDE DEF x
      <4> QED
        BY <3>1, <4>1, Zenon DEF Range
    <3> QED
      BY <3>2, Zenon
  <2> QED
    BY <2>1, <2>2, <2>3
<1>10. found = n
  <2> HIDE DEF First, n
  <2> QED
    BY <1>5, <1>8, <1>9, Zenon
<1>11. EQ \in Range(w)
  BY <1>1, <1>5, Zenon DEF Range
<1>12. parse_pair(t, w) = IF found = Len(w) THEN t
                          ELSE merge(t, url_decode(SubSeq(w, 1, found - 1)), url_decode(SubSeq(w, found + 1, Len(w))))
  BY <1>11, Zenon DEF parse_pair
<1>13. n = Len(w) <=> p[2] = <<>>
  <2> HIDE DEF k
  <2> QED
    BY <1>1, <1>3
<1> HIDE DEF found, n
<1> QED
  BY <1>4, <1>6, <1>7, <1>10, <1>12, <1>13, Zenon DEF w

\* The names that have a value among the first i pairs of a form.
NamesUpto(f, i) == {Lower(f[j][1]) : j \in {k \in 1..i : f[k][2] # <<>>}}

\* One more pair adds its name, if it has a value.
LEMMA NamesGrow ==
    ASSUME NEW f, NEW i \in Nat, i # 0
    PROVE  NamesUpto(f, i) = NamesUpto(f, i - 1) \cup (IF f[i][2] # <<>> THEN {Lower(f[i][1])} ELSE {})
<1>1. \A k : k \in 1..i <=> k \in 1..(i - 1) \/ k = i
  OBVIOUS
<1> QED
  BY <1>1, Zenon DEF NamesUpto

\* A name without a value so far has none.
LEMMA NothingGathered ==
    ASSUME NEW f, Len(f) \in Nat, NEW n, NEW v, Gathers(v, f, n), NEW i \in 0..Len(f), n \notin NamesUpto(f, i)
    PROVE  v[i] = <<>>
<1> DEFINE N == Len(f)
           T == {k \in 0..N : n \notin NamesUpto(f, k) => v[k] = <<>>}
<1>1. 0 \in T
  <2>1. 0 \in 0..N
    OBVIOUS
  <2> QED
    BY <2>1, Zenon DEF Gathers
<1>2. ASSUME NEW k \in T, k \in 0..(N - 1) PROVE k + 1 \in T
  <2> SUFFICES ASSUME n \notin NamesUpto(f, k + 1) PROVE v[k + 1] = <<>>
    <3>1. k + 1 \in 0..N
      BY <1>2
    <3> QED
      BY <3>1, Zenon
  <2>1. k + 1 \in Nat /\ k + 1 # 0 /\ (k + 1) - 1 = k /\ k + 1 \in 1..N
    BY <1>2
  <2> DEFINE m == k + 1
  <2> HIDE DEF m
  <2>2. NamesUpto(f, m) = NamesUpto(f, m - 1) \cup (IF f[m][2] # <<>> THEN {Lower(f[m][1])} ELSE {})
    <3>1. m \in Nat /\ m # 0
      BY <2>1 DEF m
    <3> QED
      BY <3>1, NamesGrow
  <2>3. n \notin NamesUpto(f, m - 1) /\ ~(Lower(f[m][1]) = n /\ f[m][2] # <<>>)
    BY <2>2, Zenon DEF m
  <2>4. v[m] = v[m - 1]
    <3>1. m \in 1..N
      BY <2>1 DEF m
    <3> QED
      BY <2>3, <3>1, Zenon DEF Gathers
  <2>5. v[m - 1] = <<>>
    <3>1. m - 1 = k
      BY <2>1 DEF m
    <3> QED
      BY <1>2, <2>3, <3>1, Zenon
  <2> QED
    BY <2>4, <2>5, Zenon DEF m
<1>3. i \in T
  <2>1. N \in Nat
    OBVIOUS
  <2> HIDE DEF T
  <2>2. 0..N \subseteq T
    <3> HIDE DEF N
    <3> QED
      BY <1>1, <1>2, <2>1, BoundedInduction
  <2> QED
    BY <2>2, Zenon
<1> QED
  BY <1>3

\* H is G with one more value under n0; D are the names G has.
OneMore(G, H, D, n0, value) ==
    /\ \A n \in D \ {n0} : H[n] = G[n]
    /\ n0 \in D => H[n0] = Append(G[n0], value)
    /\ n0 \notin D => H[n0] = <<value>>

Over(D, G) == [n \in D |-> G[n]]

\* Entering a value under a name makes the table of one pair more of it.
LEMMA MergeGathers ==
    ASSUME NEW D, NEW G, NEW H, NEW name, NEW value, OneMore(G, H, D, Lower(name), value)
    PROVE  merge(Over(D, G), name, value) = Over(D \cup {Lower(name)}, H)
<1> DEFINE n0 == Lower(name)
           t == [n \in D |-> G[n]]
           E == D \cup {n0}
<1>1. DOMAIN t = D
  OBVIOUS
<1>2. CASE n0 \in D
  <2>1. merge(t, name, value) = [t EXCEPT ![n0] = Append(@, value)]
    BY <1>1, <1>2, Zenon DEF merge
  <2>2. E = D
    BY <1>2, Zenon
  <2> HIDE DEF n0
  <2>3. [t EXCEPT ![n0] = Append(@, value)] = [n \in D |-> IF n = n0 THEN Append(G[n0], value) ELSE G[n]]
    BY ZenonT(40), <1>2
  <2>4. \A n \in D : (IF n = n0 THEN Append(G[n0], value) ELSE G[n]) = H[n]
    BY <1>2, Zenon DEF OneMore, n0
  <2>5. [n \in D |-> IF n = n0 THEN Append(G[n0], value) ELSE G[n]] = [n \in D |-> H[n]]
    BY <2>4, Zenon
  <2> HIDE DEF t, E
  <2> QED
    BY <2>1, <2>2, <2>3, <2>5, Zenon DEF t, E, n0, Over
<1>3. CASE n0 \notin D
  <2>1. merge(t, name, value) = [m \in DOMAIN t \cup {n0} |-> IF m = n0 THEN <<value>> ELSE t[m]]
    BY <1>1, <1>3, Zenon DEF merge
  <2>2. \A m \in E : (IF m = n0 THEN <<value>> ELSE t[m]) = H[m]
    <3> TAKE m \in E
    <3>1. CASE m = n0
      BY <1>3, <3>1, Zenon DEF OneMore
    <3>2. CASE m # n0
      <4>1. m \in D /\ m \in D \ {n0}
        BY <3>2, Zenon
      <4>2. t[m] = G[m]
        BY <4>1, Zenon
      <4> QED
        BY <3>2, <4>1, <4>2, Zenon DEF OneMore
    <3> QED
      BY <3>1, <3>2
  <2>3. [m \in E |-> IF m = n0 THEN <<value>> ELSE t[m]] = [m \in E |-> H[m]]
    BY <2>2, Zenon
  <2> HIDE DEF t
  <2> QED
    BY <1>1, <2>1, <2>3, Zenon DEF t, Over
<1> QED
  BY <1>2, <1>3

\* Forms whose strings come through url_encode.
PrintableForm(f) == f \in Seq(Seq(Plain) \X Seq(Plain))

\* Every name of f that has a value is in the table, with all its values in order.
Arrived(f, table) ==
    /\ DOMAIN table = {Lower(p[1]) : p \in {q \in Range(f) : q[2] # <<>>}}
    /\ \A n \in DOMAIN table : table[n] = ValuesOf(f, n)

\* Parsing the encoding of a form gives the form back.
THEOREM FormRoundTrip ==
    ASSUME NEW f, PrintableForm(f), f # <<>>
    PROVE  Arrived(f, parse_query_string(CStr(Append(EncodeForm(f), NUL))))
<1> DEFINE N == Len(f)
           pairs == SentPairs(f, N)
<1>1. AsciiForm(f)
  <2> DEFINE A == 0..127
  <2>1. Plain \subseteq A
    BY DEF Plain
  <2> HIDE DEF A, Plain
  <2>2. Seq(Plain) \subseteq Seq(A)
    BY <2>1
  <2>3. Seq(Plain) \X Seq(Plain) \subseteq Seq(A) \X Seq(A)
    BY <2>2
  <2> DEFINE X == Seq(Plain) \X Seq(Plain)
             Y == Seq(A) \X Seq(A)
  <2> HIDE DEF X, Y
  <2>4. f \in Seq(X) /\ X \subseteq Y
    BY <2>3, Zenon DEF X, Y, PrintableForm
  <2>5. f \in Seq(Y)
    BY <2>4
  <2> QED
    BY <2>5, Zenon DEF Y, A, AsciiForm
<1>2. /\ N \in Nat /\ N # 0 /\ DOMAIN f = 1..N
      /\ \A i \in 1..N : f[i][1] \in Seq(Plain) /\ f[i][2] \in Seq(Plain)
  <2> DEFINE A == Seq(Plain)
  <2> HIDE DEF A
  <2>1. f \in Seq(A \X A)
    BY Zenon DEF PrintableForm, A
  <2>2. N \in Nat /\ N # 0 /\ DOMAIN f = 1..N /\ \A i \in 1..N : f[i][1] \in A /\ f[i][2] \in A
    BY <2>1, EmptySeq
  <2> QED
    BY <2>2 DEF A
<1>3. \A i \in 1..N : PairIs(f[i])
  <2> DEFINE A == Seq(0..127)
  <2> HIDE DEF A
  <2>1. f \in Seq(A \X A)
    BY <1>1, Zenon DEF AsciiForm, A
  <2>2. \A i \in 1..N : f[i][1] \in A /\ f[i][2] \in A
    BY <2>1
  <2> QED
    BY <2>2, PairShape, Zenon DEF A
<1>4. /\ split(EncodeForm(f), AMP) = pairs
      /\ CStr(Append(EncodeForm(f), NUL)) = EncodeForm(f)
  BY <1>1, FormSplits, CStrEnds, Zenon
<1>5. Len(pairs) = N /\ \A i \in 1..N : pairs[i] = Pair(f[i])
  BY <1>2 DEF SentPairs
<1> DEFINE V(n) == CHOOSE v : Gathers(v, f, n)
<1>6. \A n : Gathers(V(n), f, n)
  <2> TAKE n
  <2>1. \E v : Gathers(v, f, n)
    <3> DEFINE S == Seq(Plain)
    <3>1. \A i \in 1..N : f[i][2] \in S
      BY <1>2, Zenon
    <3> HIDE DEF S
    <3> QED
      BY ZenonT(40), <1>2, <3>1, ValuesTable
  <2> QED
    BY <2>1, Zenon
<1> HIDE DEF V, N, pairs
<1> DEFINE Row(i) == [n \in NamesUpto(f, i) |-> V(n)[i]]
           t == [i \in 0..N |-> Row(i)]
<1>7. 0 \in 0..N /\ N \in 0..N /\ \A i \in 1..N : i \in 0..N /\ i - 1 \in 0..N /\ i \in Nat /\ i # 0
  BY <1>2
<1>8. t[0] = <<>>
  <2>1. NamesUpto(f, 0) = {}
    <3>1. \A k : k \notin 1..0
      OBVIOUS
    <3> QED
      BY <3>1, Zenon DEF NamesUpto
  <2>2. t[0] = [n \in {} |-> V(n)[0]]
    BY <1>7, <2>1, Zenon
  <2>3. \A g : g = [n \in {} |-> V(n)[0]] => g = <<>>
    <3> TAKE g
    <3> HAVE g = [n \in {} |-> V(n)[0]]
    <3> QED
      OBVIOUS
  <2> QED
    BY <2>2, <2>3, Zenon
<1>9. ASSUME NEW i \in 1..N PROVE t[i] = parse_pair(t[i - 1], pairs[i])
  <2> DEFINE name == f[i][1]
             value == f[i][2]
             n0 == Lower(name)
             D == NamesUpto(f, i - 1)
  <2>1. t[i] = Row(i) /\ t[i - 1] = Row(i - 1)
    BY <1>7, Zenon
  <2>2. name \in Seq(Plain) /\ value \in Seq(Plain) /\ PairIs(f[i])
    BY <1>2, <1>3, Zenon
  <2>3. parse_pair(t[i - 1], pairs[i]) = IF value = <<>> THEN t[i - 1] ELSE merge(t[i - 1], name, value)
    <3> HIDE DEF t
    <3> QED
      BY <1>5, <2>2, PairParses, Zenon
  <2>4. NamesUpto(f, i) = D \cup (IF value # <<>> THEN {n0} ELSE {})
    BY <1>7, NamesGrow, Zenon
  <2>5. \A n : V(n)[i] = IF n0 = n /\ value # <<>> THEN Append(V(n)[i - 1], value) ELSE V(n)[i - 1]
    BY <1>6, Zenon DEF Gathers, N
  <2>6. n0 \notin D => V(n0)[i - 1] = <<>>
    <3>1. i - 1 \in 0..Len(f) /\ Len(f) \in Nat /\ Gathers(V(n0), f, n0)
      BY <1>2, <1>6, <1>7, Zenon DEF N
    <3> DEFINE k == i - 1
               v == V(n0)
    <3> HIDE DEF k, v
    <3>2. n0 \notin NamesUpto(f, k) => v[k] = <<>>
      BY <3>1, NothingGathered, Zenon DEF k, v
    <3> QED
      BY <3>2, Zenon DEF k, v
  <2>7. CASE value = <<>>
    <3>1. NamesUpto(f, i) = D
      BY <2>4, <2>7, Zenon
    <3>2. \A n : V(n)[i] = V(n)[i - 1]
      BY <2>5, <2>7, Zenon
    <3>3. Row(i) = Row(i - 1)
      BY <3>1, <3>2, Zenon
    <3> HIDE DEF t, Row
    <3> QED
      BY <2>1, <2>3, <2>7, <3>3, Zenon
  <2>8. CASE value # <<>>
    <3> DEFINE E == D \cup {n0}
               G == [n \in E |-> V(n)[i - 1]]
               H == [n \in E |-> V(n)[i]]
    <3>1. NamesUpto(f, i) = E /\ n0 \in E /\ \A n \in D : n \in E
      BY <2>4, <2>8, Zenon
    <3>2. (\A n \in E : G[n] = V(n)[i - 1]) /\ (\A n \in E : H[n] = V(n)[i])
      BY Zenon
    <3>3. Row(i) = [n \in E |-> H[n]] /\ Row(i - 1) = [n \in D |-> G[n]]
      <4>1. Row(i) = [n \in E |-> V(n)[i]] /\ Row(i - 1) = [n \in D |-> V(n)[i - 1]]
        BY <3>1, Zenon
      <4> HIDE DEF Row, G, H, E, D
      <4>2. [n \in E |-> V(n)[i]] = [n \in E |-> H[n]]
        BY <3>2, Zenon
      <4>3. [n \in D |-> V(n)[i - 1]] = [n \in D |-> G[n]]
        BY <3>1, <3>2, Zenon
      <4> QED
        BY <4>1, <4>2, <4>3, Zenon
    <3> HIDE DEF G, H, E, D, Row, t
    <3>4. \A n \in D \ {n0} : H[n] = G[n]
      <4>1. \A n \in D \ {n0} : V(n)[i] = V(n)[i - 1]
        BY <2>5, Zenon
      <4> QED
        BY <3>1, <3>2, <4>1, Zenon
    <3>5. H[n0] = Append(V(n0)[i - 1], value) /\ G[n0] = V(n0)[i - 1]
      BY <2>5, <2>8, <3>1, <3>2, Zenon
    <3>6. n0 \notin D => H[n0] = <<value>>
      <4>1. Append(<<>>, value) = <<value>>
        BY <2>2
      <4> QED
        BY <2>6, <3>5, <4>1, Zenon
    <3>7. n0 \in D => H[n0] = Append(G[n0], value)
      BY <3>5, Zenon
    <3>8. merge([n \in D |-> G[n]], name, value) = [n \in D \cup {n0} |-> H[n]]
      <4>1. OneMore(G, H, D, Lower(name), value)
        BY <3>4, <3>6, <3>7, Zenon DEF OneMore
      <4>2. merge(Over(D, G), name, value) = Over(D \cup {Lower(name)}, H)
        <5> HIDE DEF name, value
        <5> QED
          BY <4>1, MergeGathers
      <4> QED
        BY <4>2, Zenon DEF Over
    <3>9. merge(t[i - 1], name, value) = t[i]
      BY <2>1, <3>3, <3>8, Zenon DEF E
    <3> QED
      BY <2>3, <2>8, <3>9, Zenon
  <2> QED
    BY <2>7, <2>8
<1>10. parse_pairs(pairs) = Row(N)
  <2>1. t[N] = Row(N)
    BY <1>7, Zenon
  <2> HIDE DEF t, Row
  <2>2. parse_pairs(pairs) = t[Len(pairs)]
    BY ZenonT(40), <1>2, <1>5, <1>8, <1>9, ParseSteps
  <2> QED
    BY <1>5, <2>1, <2>2, Zenon
<1>11. parse_query_string(CStr(Append(EncodeForm(f), NUL))) = Row(N)
  <2> HIDE DEF Row
  <2> QED
    BY <1>4, <1>10, Zenon DEF parse_query_string
<1>12. DOMAIN Row(N) = NamesUpto(f, N) /\ \A n \in NamesUpto(f, N) : Row(N)[n] = V(n)[N]
  BY Zenon
<1>13. \A n : V(n)[N] = ValuesOf(f, n)
  BY <1>6, Zenon DEF Gathers, N
<1>14. NamesUpto(f, N) = {Lower(p[1]) : p \in {q \in Range(f) : q[2] # <<>>}}
  BY <1>2, Zenon DEF NamesUpto, Range
<1> HIDE DEF Row
<1> QED
  BY <1>11, <1>12, <1>13, <1>14, Zenon DEF Arrived

\* A form the client sent is the body.
Origin == sent # <<>> => sent \in Forms /\ body = EncodeForm(sent)

\* The table of form_data is that of the whole body, unless Apache failed or
\* another reader took a part of it.
FormParsed ==
    ctype = "form" /\ ~form_data_.null /\ ~failed /\ ~others =>
        form_data_.table = parse_query_string(CStr(Append(body, NUL)))

\* Both hold at first, when there is no table.
LEMMA ParsedStarts == Init => Origin /\ FormParsed
<1> SUFFICES ASSUME Init PROVE Origin /\ FormParsed
  OBVIOUS
<1>1. form_data_.null
  BY DEF Init, NoTable
<1>2. sent # <<>> => sent \in Forms /\ body = EncodeForm(sent)
  BY Zenon DEF Init
<1> QED
  BY <1>1, <1>2, Zenon DEF Origin, FormParsed

\* Every call keeps them.
LEMMA ParsedStays == IInv /\ Origin /\ FormParsed /\ [Next]_vars => Origin' /\ FormParsed'
<1> SUFFICES ASSUME IInv, Origin, FormParsed, [Next]_vars PROVE Origin' /\ FormParsed'
  OBVIOUS
<1>1. sent' = sent /\ body' = body /\ ctype' = ctype
  BY Zenon DEF Next, content, contentFed, read_line, read, form_data, form_dataOther, Calls, vars
<1>2. Origin'
  BY <1>1, Zenon DEF Origin
<1>3. CASE form_data
  <2>1. PICK k \in 0..(Len(body) - pos) :
           /\ EndsAfter(k) /\ content_' = Append(Appended(k), NUL)
           /\ form_data_' = Table(parse_query_string(CStr(content_')))
    BY <1>3, Zenon DEF form_data
  <2>2. form_data_.null /\ others' = others
    BY <1>3, Zenon DEF form_data
  <2>3. ~failed' /\ ~others =>
             \/ Appended(k) = body
             \/ ~form_data_.null /\ Appended(k) = Append(body, NUL)
    BY <2>1, AppendedIsBody DEF IInv
  <2>4. ~failed' /\ ~others' => content_' = Append(body, NUL)
    BY <2>1, <2>2, <2>3, Zenon
  <2>5. \A t : Table(t).table = t
    BY DEF Table
  <2>6. form_data_'.table = parse_query_string(CStr(content_'))
    BY <2>1, <2>5, Zenon
  <2>7. FormParsed'
    BY <1>1, <2>4, <2>6, Zenon DEF FormParsed
  <2> QED
    BY <1>2, <2>7
<1>4. CASE form_dataOther
  <2>1. ctype' # "form"
    <3>1. ctype = "other"
      BY <1>4, Zenon DEF form_dataOther
    <3> QED
      BY <1>1, <3>1
  <2> QED
    BY <1>2, <2>1, Zenon DEF FormParsed
<1>5. CASE content \/ contentFed \/ read_line \/ read \/ UNCHANGED vars
  <2>1. form_data_' = form_data_ /\ (others' = others \/ others' = TRUE)
    BY <1>5, Zenon DEF content, contentFed, read_line, read, vars
  <2>2. failed' = failed \/ failed' = TRUE
    BY <1>5, Zenon DEF content, contentFed, read_line, read, vars, EndsAfter
  <2> QED
    BY <1>1, <1>2, <2>1, <2>2, Zenon DEF FormParsed
<1> QED
  BY <1>3, <1>4, <1>5, Zenon DEF Next

\* The forms clients send hold no bytes below 16.
PrintableForms == \A f \in Forms : PrintableForm(f)

\* form_data returns the form that was sent, whatever its names and values, of
\* bytes from 16 to 127, and however many they are, and whatever calls of content
\* came before it.  For lower bytes it does not: url_encode pads their escapes with
\* a space.
THEOREM FormsArrive == PrintableForms => (Spec => []FormIsWhatWasSent)
<1> SUFFICES ASSUME PrintableForms PROVE Spec => []FormIsWhatWasSent
  OBVIOUS
<1>1. Init => IInv /\ Origin /\ FormParsed
  BY Starts, ParsedStarts
<1>2. IInv /\ Origin /\ FormParsed /\ [Next]_vars => (IInv /\ Origin /\ FormParsed)'
  BY StepKeeps, ParsedStays, Zenon
<1>3. IInv /\ Origin /\ FormParsed => FormIsWhatWasSent
  <2> SUFFICES ASSUME Origin, FormParsed, ctype = "form", sent # <<>>, ~form_data_.null, ~failed, ~others
               PROVE  Arrived(sent, form_data_.table)
    BY Zenon DEF FormIsWhatWasSent, Arrived
  <2>1. sent \in Forms /\ body = EncodeForm(sent)
    BY Zenon DEF Origin
  <2>2. form_data_.table = parse_query_string(CStr(Append(EncodeForm(sent), NUL)))
    BY <2>1, Zenon DEF FormParsed
  <2>3. PrintableForm(sent)
    BY <2>1, Zenon DEF PrintableForms
  <2>4. Arrived(sent, parse_query_string(CStr(Append(EncodeForm(sent), NUL))))
    BY <2>3, FormRoundTrip, Zenon
  <2> QED
    BY <2>2, <2>4, Zenon
<1> QED
  BY <1>1, <1>2, <1>3, PTL DEF Spec

=============================================================================
