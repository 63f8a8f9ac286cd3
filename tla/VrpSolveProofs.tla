--------------------------- MODULE VrpSolveProofs ---------------------------
(***************************************************************************)
(* Proofs about VrpSolve, for any depots, stops, costs, capacities and     *)
(* limits, engine answers of any shape and any order of the tasks.         *)
(***************************************************************************)
EXTENDS VrpSolve, SubsequencesProofs

-----------------------------------------------------------------------------
(* argmin and the division into vehicles.                                  *)

LEMMA ArgminIs ==
    ASSUME NEW n \in Nat \ {0}, NEW v, DOMAIN v = 1..n,
           \A i \in 1..n : v[i] \in Nat
    PROVE  Argmin(v) \in 1..n /\ \A j \in 1..n : v[Argmin(v)] <= v[j]
<1> DEFINE D == {v[i] : i \in 1..n}
<1>1. PICK m \in D : \A x \in D : m <= x
  <2>1. D \subseteq Nat /\ D # {}  OBVIOUS
  <2> HIDE DEF D
  <2> QED BY <2>1, LeastElement
<1> DEFINE E == {i \in 1..n : v[i] = m}
<1>2. PICK i \in E : \A j \in E : i <= j
  <2>1. E \subseteq Nat /\ E # {}  BY <1>1
  <2> HIDE DEF E
  <2> QED BY <2>1, LeastElement
<1>3. \A j \in DOMAIN v : v[i] <= v[j] /\ (v[i] = v[j] => i <= j)
  BY <1>1, <1>2
<1>4. \E k \in DOMAIN v :
         \A j \in DOMAIN v : v[k] <= v[j] /\ (v[k] = v[j] => k <= j)
  BY <1>2, <1>3
<1> QED BY <1>4 DEF Argmin

LEMMA Divides ==
    ASSUME NEW a \in Nat, NEW b \in Nat \ {0}
    PROVE  /\ a \div b \in Nat
           /\ (a \div b) * b <= a /\ a < (a \div b) * b + b
OBVIOUS

LEMMA Modulo ==
    ASSUME NEW a \in Nat, NEW t \in Nat \ {0}, a < t + t
    PROVE  a % t = IF a < t THEN a ELSE a - t
OBVIOUS

LEMMA SubSeqJoins ==
    ASSUME NEW S, NEW s \in Seq(S), NEW a \in 0..Len(s), NEW e \in a..Len(s)
    PROVE  /\ SubSeq(s, 1, a) \o SubSeq(s, a + 1, e) = SubSeq(s, 1, e)
           /\ SubSeq(s, a + 1, e) \in Seq(S)
           /\ Len(SubSeq(s, a + 1, e)) = e - a
           /\ SubSeq(s, 1, Len(s)) = s
OBVIOUS

-----------------------------------------------------------------------------
(* sweep_order.                                                            *)

(* The gap before the place the order may be cut at.                       *)
GapAt(keyed, b, i) ==
    IF i = 0 THEN b[keyed[1]] + Tau - b[keyed[Len(keyed)]]
    ELSE b[keyed[i + 1]] - b[keyed[i]]

LEMMA StaysSorted ==
    ASSUME NEW S, NEW keyed \in Seq(S), NEW b \in [S -> Nat],
           SortedBy(keyed, b),
           NEW i \in 1..Len(keyed), NEW j \in i..Len(keyed)
    PROVE  b[keyed[i]] <= b[keyed[j]]
<1> DEFINE Bad == {k \in i..Len(keyed) : ~(b[keyed[i]] <= b[keyed[k]])}
<1>1. SUFFICES ASSUME Bad # {} PROVE FALSE  OBVIOUS
<1>2. PICK k \in Bad : \A m \in Bad : k <= m
  <2>1. Bad \subseteq Nat  OBVIOUS
  <2> HIDE DEF Bad
  <2> QED BY <1>1, <2>1, LeastElement
<1>3. \A m \in 1..Len(keyed) : keyed[m] \in S /\ b[keyed[m]] \in Nat
  OBVIOUS
<1>4. k # i  BY <1>2, <1>3
<1>5. k - 1 \in i..Len(keyed) /\ k - 1 \notin Bad
      /\ k - 1 \in 1..(Len(keyed) - 1)
  BY <1>2, <1>4
<1>6. b[keyed[i]] <= b[keyed[k - 1]]  BY <1>5
<1>7. b[keyed[k - 1]] <= b[keyed[(k - 1) + 1]] /\ (k - 1) + 1 = k
  BY <1>5, <1>2 DEF SortedBy
<1> QED BY <1>2, <1>3, <1>5, <1>6, <1>7

LEMMA CutIsWidest ==
    ASSUME NEW S, NEW keyed \in Seq(S), Len(keyed) # 0,
           NEW b \in [S -> 0..(Tau - 1)], SortedBy(keyed, b)
    PROVE  LET n == Len(keyed)
               start == WidestGapStart(keyed, b)
           IN  /\ start \in 0..(n - 1)
               /\ \A j \in 0..(n - 1) :
                     /\ GapAt(keyed, b, j) \in Nat
                     /\ GapAt(keyed, b, j) <= GapAt(keyed, b, start)
<1> DEFINE n == Len(keyed)
           G(i) == GapAt(keyed, b, i)
<1>1. n \in Nat \ {0} /\ Tau \in Nat \ {0}
  BY AllocationAssumption DEF AllocationAssumption
<1>2. \A m \in 1..n : keyed[m] \in S /\ b[keyed[m]] \in 0..(Tau - 1)
  OBVIOUS
<1>3. \A i \in 0..(n - 1) : G(i) \in Nat /\ G(i) <= Tau + Tau
  <2> SUFFICES ASSUME NEW i \in 0..(n - 1)
               PROVE  G(i) \in Nat /\ G(i) <= Tau + Tau
    OBVIOUS
  <2>1. CASE i = 0
    <3>1. 1 \in 1..n /\ n \in 1..n  BY <1>1
    <3> QED BY <1>1, <1>2, <2>1, <3>1 DEF GapAt
  <2>2. CASE i # 0
    <3>1. i \in 1..(n - 1) /\ i \in 1..n /\ i + 1 \in 1..n  BY <1>1, <2>2
    <3>2. b[keyed[i]] <= b[keyed[i + 1]]  BY <3>1 DEF SortedBy
    <3> QED BY <1>1, <1>2, <2>2, <3>1, <3>2 DEF GapAt
  <2> QED BY <2>1, <2>2
<1> HIDE DEF G
<1> DEFINE D == {(Tau + Tau) - G(i) : i \in 0..(n - 1)}
<1>4. PICK m \in D : \A x \in D : m <= x
  <2>1. D \subseteq Nat /\ D # {}  BY <1>1, <1>3
  <2> HIDE DEF D
  <2> QED BY <2>1, LeastElement
<1> DEFINE E == {i \in 0..(n - 1) : (Tau + Tau) - G(i) = m}
<1>5. PICK i \in E : \A j \in E : i <= j
  <2>1. E \subseteq Nat /\ E # {}  BY <1>4
  <2> HIDE DEF E
  <2> QED BY <2>1, LeastElement
<1>6. \A j \in 0..(n - 1) : G(i) >= G(j) /\ (G(i) = G(j) => i <= j)
  <2> SUFFICES ASSUME NEW j \in 0..(n - 1)
               PROVE  G(i) >= G(j) /\ (G(i) = G(j) => i <= j)
    OBVIOUS
  <2>1. m <= (Tau + Tau) - G(j) /\ (Tau + Tau) - G(i) = m  BY <1>4, <1>5
  <2>2. G(i) = G(j) => j \in E  BY <2>1
  <2>3. G(i) = G(j) => i <= j  BY <1>5, <2>2
  <2>4. i \in 0..(n - 1)  BY <1>5
  <2>5. G(i) \in Nat /\ G(j) \in Nat /\ Tau + Tau \in Nat
    BY <1>1, <1>3, <2>4
  <2>6. (Tau + Tau) - G(i) <= (Tau + Tau) - G(j)  BY <2>1
  <2> HIDE DEF E, D
  <2>7. G(i) >= G(j)  BY <2>5, <2>6
  <2> QED BY <2>3, <2>7
<1>7. WidestGapStart(keyed, b) =
         CHOOSE k \in 0..(n - 1) : \A j \in 0..(n - 1) :
            G(k) >= G(j) /\ (G(k) = G(j) => k <= j)
  BY Zenon DEF WidestGapStart, GapAt, G
<1>8. WidestGapStart(keyed, b) \in 0..(n - 1)
      /\ \A j \in 0..(n - 1) : G(WidestGapStart(keyed, b)) >= G(j)
  <2>1. i \in 0..(n - 1)  BY <1>5
  <2> HIDE DEF n
  <2> QED BY Zenon, <1>6, <1>7, <2>1
<1> QED BY <1>1, <1>3, <1>8 DEF G

(* Where the i-th place of the rotated order was.                          *)
Turn(n, start, i) == IF i + start <= n THEN i + start ELSE i + start - n

LEMMA RotatedIs ==
    ASSUME NEW S, NEW keyed \in Seq(S), Len(keyed) # 0, NEW b,
           WidestGapStart(keyed, b) \in 0..(Len(keyed) - 1),
           IsInjective(keyed)
    PROVE  /\ Rotated(keyed, b) \in Seq(S)
           /\ Len(Rotated(keyed, b)) = Len(keyed)
           /\ \A i \in 1..Len(keyed) :
                 Rotated(keyed, b)[i]
                    = keyed[Turn(Len(keyed), WidestGapStart(keyed, b), i)]
           /\ IsInjective(Rotated(keyed, b))
           /\ ToSet(Rotated(keyed, b)) = ToSet(keyed)
<1> DEFINE n == Len(keyed)
           start == WidestGapStart(keyed, b)
           r == Rotated(keyed, b)
           T(i) == Turn(n, start, i)
<1>1. n \in Nat \ {0} /\ start \in 0..(n - 1)  OBVIOUS
<1>2. r = [i \in 1..n |-> keyed[((i - 1 + start) % n) + 1]]  BY DEF Rotated
<1> HIDE DEF start, r
<1>3. ASSUME NEW i \in 1..n
      PROVE  ((i - 1 + start) % n) + 1 = T(i) /\ T(i) \in 1..n
  <2>1. PICK x \in Nat : x = i - 1 + start /\ x < n + n  BY <1>1
  <2>2. n \in Nat \ {0}  BY <1>1
  <2> HIDE DEF n
  <2>3. x % n = IF x < n THEN x ELSE x - n  BY <2>1, <2>2, Modulo
  <2>4. (x % n) + 1 = T(i) /\ T(i) \in 1..n
    BY <1>1, <2>1, <2>2, <2>3 DEF Turn, n
  <2> QED BY Zenon, <2>1, <2>4
<1>4. \A i \in 1..n : r[i] = keyed[T(i)]  BY <1>2, <1>3
<1>5. r \in Seq(S) /\ Len(r) = n /\ DOMAIN r = 1..n
  <2>1. \A i \in 1..n : keyed[T(i)] \in S  BY <1>3
  <2>2. r \in [1..n -> S]  BY <1>2, <1>3, <2>1
  <2> QED BY <1>1, <2>2
<1>6. \A i, j \in 1..n : T(i) = T(j) => i = j  BY <1>1 DEF Turn
<1>7. \A k \in 1..n : \E i \in 1..n : T(i) = k
  <2> SUFFICES ASSUME NEW k \in 1..n PROVE \E i \in 1..n : T(i) = k
    OBVIOUS
  <2>1. CASE k > start
    <3>1. k - start \in 1..n /\ T(k - start) = k  BY <1>1, <2>1 DEF Turn
    <3> QED BY <3>1
  <2>2. CASE ~(k > start)
    <3>1. k + n - start \in 1..n /\ T(k + n - start) = k
      BY <1>1, <2>2 DEF Turn
    <3> QED BY <3>1
  <2> QED BY <2>1, <2>2
<1>8. IsInjective(r)
  <2> HIDE DEF T
  <2>1. SUFFICES ASSUME NEW i \in 1..n, NEW j \in 1..n, r[i] = r[j]
                 PROVE  i = j
    BY <1>5 DEF IsInjective
  <2>2. keyed[T(i)] = keyed[T(j)]  BY <1>4, <2>1
  <2>3. \A k, m \in 1..n : keyed[k] = keyed[m] => k = m
    BY DEF IsInjective
  <2>4. T(i) = T(j)  BY <1>3, <2>2, <2>3
  <2> QED BY <1>6, <2>4
<1>9. ToSet(r) = ToSet(keyed)
  <2> HIDE DEF T
  <2>1. ToSet(r) \subseteq ToSet(keyed)  BY <1>3, <1>4, <1>5 DEF ToSet
  <2>2. ASSUME NEW k \in 1..n PROVE keyed[k] \in ToSet(r)
    <3>1. PICK i \in 1..n : T(i) = k  BY <1>7
    <3> QED BY <3>1, <1>4, <1>5 DEF ToSet
  <2>3. ToSet(keyed) = {keyed[k] : k \in 1..n}  BY DEF ToSet
  <2> QED BY <2>1, <2>2, <2>3
<1> QED BY <1>4, <1>5, <1>8, <1>9 DEF r, start

-----------------------------------------------------------------------------
(* build_chunk_requests.                                                   *)

LEMMA ChunksAre ==
    ASSUME NEW S, NEW order \in Seq(S), Len(order) # 0, NEW size \in Nat \ {0}
    PROVE  /\ Chunks(order, size) \in Seq(Seq(S))
           /\ \A c \in DOMAIN Chunks(order, size) :
                 Len(Chunks(order, size)[c]) <= size
           /\ Len(Chunks(order, size)) # 0
           /\ FlattenSeq(Chunks(order, size)) = order
<1> DEFINE L == Len(order)
           nc == (L + size - 1) \div size
           cs == Chunks(order, size)
           To(c) == IF c * size <= L THEN c * size ELSE L
<1>1. L \in Nat \ {0} /\ L + size - 1 \in Nat  OBVIOUS
<1>2. nc \in Nat /\ nc * size <= L + size - 1 /\ L + size - 1 < nc * size + size
  BY <1>1, Divides
<1>3. cs = [c \in 1..nc |-> SubSeq(order, (c - 1) * size + 1, To(c))]
  BY DEF Chunks
<1> HIDE DEF nc, cs
<1>4. nc # 0
  <2>1. 0 * size = 0  OBVIOUS
  <2> QED BY <1>1, <1>2, <2>1
<1>5. ASSUME NEW c \in 1..nc
      PROVE  /\ (c - 1) * size \in Nat /\ (c - 1) * size + size = c * size
             /\ (c - 1) * size < L
  <2>1. c \in Nat /\ c - 1 \in Nat /\ c - 1 <= nc - 1 /\ nc - 1 \in Nat
    BY <1>2, <1>4
  <2>2. (c - 1) * size <= (nc - 1) * size  BY <2>1
  <2>3. (nc - 1) * size = nc * size - size  BY <1>2
  <2>4. (c - 1) * size \in Nat /\ (c - 1) * size = c * size - size  BY <2>1
  <2>5. nc * size \in Nat /\ c * size \in Nat  BY <1>2, <2>1
  <2> QED BY <1>1, <1>2, <2>2, <2>3, <2>4, <2>5
<1>6. ASSUME NEW c \in 1..nc
      PROVE  /\ (c - 1) * size \in 0..L /\ To(c) \in ((c - 1) * size)..L
             /\ To(c) - (c - 1) * size <= size
             /\ c # 1 => To(c - 1) = (c - 1) * size
  BY <1>1, <1>5
<1>7. To(nc) = L
  <2>1. nc * size \in Nat  BY <1>2
  <2> QED BY <1>1, <1>2, <2>1
<1> HIDE DEF To
<1>8. \A c \in 1..nc : /\ cs[c] = SubSeq(order, (c - 1) * size + 1, To(c))
                       /\ cs[c] \in Seq(S)
                       /\ Len(cs[c]) <= size
  <2> SUFFICES ASSUME NEW c \in 1..nc
               PROVE  /\ cs[c] = SubSeq(order, (c - 1) * size + 1, To(c))
                      /\ cs[c] \in Seq(S)
                      /\ Len(cs[c]) <= size
    OBVIOUS
  <2> DEFINE a == (c - 1) * size
  <2>1. a \in 0..L /\ To(c) \in a..L /\ To(c) - a <= size  BY <1>6
  <2>2. cs[c] = SubSeq(order, a + 1, To(c))  BY <1>3
  <2> HIDE DEF a
  <2>3. SubSeq(order, a + 1, To(c)) \in Seq(S)
        /\ Len(SubSeq(order, a + 1, To(c))) = To(c) - a
    BY <2>1, SubSeqJoins
  <2> QED BY <2>1, <2>2, <2>3 DEF a
<1>9. cs \in Seq(Seq(S)) /\ Len(cs) = nc /\ DOMAIN cs = 1..nc
  <2>1. cs \in [1..nc -> Seq(S)]  BY <1>3, <1>8
  <2> QED BY <1>2, <2>1
<1>10. PICK g : Flattens(g, cs, nc) /\ FlattenSeq(cs) = g[nc]
  <2>1. \E g : Flattens(g, cs, Len(cs)) /\ FlattenSeq(cs) = g[Len(cs)]
    BY <1>4, <1>9, FlattenSeqUnfolds
  <2> QED BY <1>9, <2>1
<1> DEFINE Bad == {c \in 1..nc : g[c] # SubSeq(order, 1, To(c))}
<1>11. Bad = {}
  <2>1. SUFFICES ASSUME Bad # {} PROVE FALSE  OBVIOUS
  <2>2. PICK c \in Bad : \A m \in Bad : c <= m
    <3>1. Bad \subseteq Nat  BY <1>2
    <3> HIDE DEF Bad
    <3> QED BY <2>1, <3>1, LeastElement
  <2>3. g[c] = IF c = 1 THEN cs[c] ELSE g[c - 1] \o cs[c]
    BY <1>2, <1>10, <2>2, FlattensStep
  <2>4. CASE c = 1
    <3>1. (c - 1) * size + 1 = 1  BY <2>4
    <3> QED BY <1>8, <2>2, <2>3, <2>4, <3>1
  <2>5. CASE c # 1
    <3>1. c - 1 \in 1..nc /\ c - 1 \notin Bad  BY <1>2, <2>2, <2>5
    <3> DEFINE a == (c - 1) * size
    <3>2. g[c - 1] = SubSeq(order, 1, a)
      BY <1>6, <2>2, <2>5, <3>1
    <3>3. cs[c] = SubSeq(order, a + 1, To(c)) /\ a \in 0..L
          /\ To(c) \in a..L
      BY <1>6, <1>8, <2>2
    <3> DEFINE e == To(c)
    <3>4. a \in 0..Len(order) /\ e \in a..Len(order)  BY <3>3
    <3> HIDE DEF a, e
    <3>5. SubSeq(order, 1, a) \o SubSeq(order, a + 1, e) = SubSeq(order, 1, e)
      BY <3>4, SubSeqJoins
    <3> QED BY <2>2, <2>3, <2>5, <3>2, <3>3, <3>5 DEF e
  <2> QED BY <2>4, <2>5
<1>12. FlattenSeq(cs) = order
  <2>1. nc \in 1..nc  BY <1>2, <1>4
  <2>2. g[nc] = SubSeq(order, 1, L)  BY <1>7, <1>11, <2>1
  <2>3. SubSeq(order, 1, L) = order
    <3>1. 0 \in 0..Len(order) /\ Len(order) \in 0..Len(order)  OBVIOUS
    <3> QED BY <3>1, SubSeqJoins
  <2> QED BY <1>10, <2>2, <2>3
<1> QED BY <1>4, <1>8, <1>9, <1>12 DEF cs

(* The empty wedge between two neighbours of the sweep.                    *)
Wedge(b, s, t) == (b[t] + Tau - b[s]) % Tau

(* What SweepCutsWidestGap says of a sweep order.                          *)
CutWide(order, b) ==
    \A i \in 1..(Len(order) - 1) :
       \/ Wedge(b, order[i], order[i + 1])
             <= Wedge(b, order[Len(order)], order[1])
       \/ \A s \in ToSet(order) : b[s] = b[order[1]]

LEMMA WedgeIs ==
    ASSUME NEW p \in 0..(Tau - 1), NEW q \in 0..(Tau - 1)
    PROVE  (q + Tau - p) % Tau = IF q < p THEN q + Tau - p ELSE q - p
<1>1. Tau \in Nat \ {0}  BY AllocationAssumption DEF AllocationAssumption
<1>2. PICK x \in Nat : x = q + Tau - p /\ x < Tau + Tau  BY <1>1
<1>3. x % Tau = IF x < Tau THEN x ELSE x - Tau  BY <1>1, <1>2, Modulo
<1>4. x % Tau = IF q < p THEN q + Tau - p ELSE q - p
  BY <1>1, <1>2, <1>3
<1> QED BY Zenon, <1>2, <1>4

LEMMA RotatedCutsWide ==
    ASSUME NEW S, NEW keyed \in Seq(S), Len(keyed) # 0,
           NEW b \in [S -> 0..(Tau - 1)], SortedBy(keyed, b),
           IsInjective(keyed)
    PROVE  CutWide(Rotated(keyed, b), b)
<1> DEFINE n == Len(keyed)
           start == WidestGapStart(keyed, b)
           r == Rotated(keyed, b)
           B(i) == b[keyed[i]]
           G(i) == GapAt(keyed, b, i)
           W(i, j) == Wedge(b, keyed[i], keyed[j])
<1>1. n \in Nat \ {0} /\ Tau \in Nat \ {0}
  BY AllocationAssumption DEF AllocationAssumption
<1>2. start \in 0..(n - 1)
      /\ \A j \in 0..(n - 1) : G(j) \in Nat /\ G(j) <= G(start)
  BY CutIsWidest
<1>3. /\ Len(r) = n
      /\ \A i \in 1..n : r[i] = keyed[Turn(n, start, i)]
      /\ ToSet(r) = ToSet(keyed)
  BY <1>2, RotatedIs
<1>4. \A i \in 1..n : B(i) \in 0..(Tau - 1)  OBVIOUS
<1>5. \A i, j \in 1..n : i <= j => B(i) <= B(j)
  <2>1. b \in [S -> Nat]  BY <1>1
  <2> SUFFICES ASSUME NEW i \in 1..n, NEW j \in 1..n, i <= j
               PROVE  B(i) <= B(j)
    OBVIOUS
  <2>2. i \in 1..Len(keyed) /\ j \in i..Len(keyed)  OBVIOUS
  <2> QED BY <2>1, <2>2, StaysSorted
<1>6. \A i, j \in 1..n :
         W(i, j) = IF B(j) < B(i) THEN B(j) + Tau - B(i) ELSE B(j) - B(i)
  BY <1>4, WedgeIs DEF Wedge
<1>7. G(0) = B(1) + Tau - B(n)
      /\ \A i \in 1..(n - 1) : G(i) = B(i + 1) - B(i)
  BY DEF GapAt
<1> HIDE DEF n, start, r, B, G, W
<1>8. W(n, 1) <= G(0) /\ (B(1) < B(n) => W(n, 1) = G(0))
  <2>1. 1 \in 1..n /\ n \in 1..n /\ 1 <= n  BY <1>1
  <2>2. B(1) <= B(n)  BY <1>5, <2>1
  <2> QED BY <1>1, <1>4, <1>6, <1>7, <2>1, <2>2
<1>9. \A i \in 1..(n - 1) : W(i, i + 1) = G(i)
  <2> SUFFICES ASSUME NEW i \in 1..(n - 1) PROVE W(i, i + 1) = G(i)
    OBVIOUS
  <2>1. i \in 1..n /\ i + 1 \in 1..n /\ i <= i + 1  BY <1>1
  <2>2. B(i) <= B(i + 1)  BY <1>5, <2>1
  <2> QED BY <1>1, <1>4, <1>6, <1>7, <2>1, <2>2
<1>10. ASSUME NEW i \in 1..(n - 1)
       PROVE  Wedge(b, r[i], r[i + 1]) <= G(start)
  <2>1. i \in 1..n /\ i + 1 \in 1..n  BY <1>1
  <2>2. Wedge(b, r[i], r[i + 1])
           = W(Turn(n, start, i), Turn(n, start, i + 1))
    BY <1>3, <2>1 DEF W
  <2>3. CASE Turn(n, start, i) = n
    <3>1. Turn(n, start, i + 1) = 1  BY <1>1, <1>2, <2>3 DEF Turn
    <3>2. G(0) \in Nat /\ G(0) <= G(start) /\ G(start) \in Nat
          /\ W(n, 1) \in Nat
      <4>1. 0 \in 0..(n - 1) /\ 1 \in 1..n /\ n \in 1..n  BY <1>1
      <4>2. G(0) \in Nat /\ G(0) <= G(start) /\ G(start) \in Nat
        BY <1>2, <4>1
      <4>3. B(1) \in 0..(Tau - 1) /\ B(n) \in 0..(Tau - 1)  BY <1>4, <4>1
      <4>4. W(n, 1) = IF B(1) < B(n) THEN B(1) + Tau - B(n) ELSE B(1) - B(n)
        BY <1>6, <4>1
      <4>5. B(1) <= B(n)  BY <1>5, <4>1, <1>1
      <4> QED BY <1>1, <4>2, <4>3, <4>4, <4>5
    <3> QED BY <1>8, <2>2, <2>3, <3>1, <3>2
  <2>4. CASE Turn(n, start, i) # n
    <3>1. Turn(n, start, i) \in 1..(n - 1)
          /\ Turn(n, start, i + 1) = Turn(n, start, i) + 1
      BY <1>1, <1>2, <2>4 DEF Turn
    <3>2. Turn(n, start, i) \in 0..(n - 1)  BY <3>1
    <3>3. W(Turn(n, start, i), Turn(n, start, i) + 1) = G(Turn(n, start, i))
      BY <1>9, <3>1
    <3> QED BY <1>2, <2>2, <3>1, <3>2, <3>3
  <2> QED BY <2>3, <2>4
<1>11. r[1] = keyed[start + 1] /\ r[n] = keyed[IF start = 0 THEN n ELSE start]
  <2>1. Turn(n, start, 1) = start + 1
        /\ Turn(n, start, n) = IF start = 0 THEN n ELSE start
    BY <1>1, <1>2 DEF Turn
  <2>2. 1 \in 1..n /\ n \in 1..n  BY <1>1
  <2> QED BY <1>3, <2>1, <2>2
<1>12. CASE start # 0
  <2>1. start \in 1..(n - 1)  BY <1>1, <1>2, <1>12
  <2>2. Wedge(b, r[n], r[1]) = W(start, start + 1)
    BY <1>11, <1>12 DEF W
  <2>3. Wedge(b, r[n], r[1]) = G(start)  BY <1>9, <2>1, <2>2
  <2> QED BY <1>3, <1>10, <2>3 DEF CutWide, r
<1>13. CASE start = 0
  <2>1. Wedge(b, r[n], r[1]) = W(n, 1)  BY <1>11, <1>13 DEF W
  <2>2. CASE B(1) < B(n)
    <3>1. Wedge(b, r[n], r[1]) = G(start)  BY <1>8, <1>13, <2>1, <2>2
    <3> QED BY <1>3, <1>10, <3>1 DEF CutWide, r
  <2>3. CASE ~(B(1) < B(n))
    <3>1. \A i \in 1..n : B(i) = B(1)
      <4> SUFFICES ASSUME NEW i \in 1..n PROVE B(i) = B(1)
        OBVIOUS
      <4>1. 1 \in 1..n /\ n \in 1..n /\ 1 <= i /\ i <= n  BY <1>1
      <4>2. B(1) <= B(i) /\ B(i) <= B(n)  BY <1>5, <4>1
      <4> QED BY <1>1, <1>4, <2>3, <4>1, <4>2
    <3>2. r[1] = keyed[1]  BY <1>11, <1>13
    <3>3. ASSUME NEW s \in ToSet(r) PROVE b[s] = b[r[1]]
      <4>1. ToSet(keyed) = {keyed[i] : i \in 1..n}  BY DEF ToSet, n
      <4>2. PICK i \in 1..n : s = keyed[i]  BY <1>3, <4>1
      <4> QED BY <3>1, <3>2, <4>2 DEF B
    <3> QED BY <3>3 DEF CutWide, r
  <2> QED BY <2>2, <2>3
<1> QED BY <1>12, <1>13

-----------------------------------------------------------------------------
(* select_depot and allocate_stops.                                        *)

LEMMA Constants ==
    /\ NDepots \in Nat \ {0} /\ NStops \in Nat \ {0} /\ 1 \in Depots
    /\ Unreachable \in Nat /\ SanityLimit \in Nat /\ Tau \in Nat \ {0}
    /\ {BatchSize, MaxCells, ChunkLimit, TripBound, Concurrency}
          \subseteq Nat \ {0}
    /\ 0 \notin Stops
    /\ \A m : Band(m) \in Nat
<1>1. Hysteresis \div Speed \in Nat
  BY Divides, AllocationAssumption DEF AllocationAssumption
<1> QED
  BY <1>1, AllocationAssumption, VrpAssumption
     DEF AllocationAssumption, VrpAssumption, Band, Depots, Stops

LEMMA SelectIs ==
    ASSUME NEW m, NEW air \in [Depots -> Nat],
           NEW column \in [Depots -> 0..Unreachable]
    PROVE  LET d == SelectDepot(m, air, column)
               best == Argmin(column)
           IN  /\ d \in Depots
               /\ \A e \in Depots : air[d] <= air[e] + SanityLimit
               /\ \/ m = "radial"
                  \/ column[d] <= column[best] + Band(m)
                  \/ \E e \in Depots : air[best] > air[e] + SanityLimit
<1> DEFINE anchor == Argmin(air)
           best == Argmin(column)
           d == SelectDepot(m, air, column)
           taken == /\ m # "radial"
                    /\ air[best] <= air[anchor] + SanityLimit
                    /\ column[best] < Unreachable
                    /\ \/ column[anchor] >= Unreachable
                       \/ column[best] + Band(m) < column[anchor]
<1>1. anchor \in Depots /\ \A e \in Depots : air[anchor] <= air[e]
  BY Constants, ArgminIs DEF Depots
<1>2. best \in Depots /\ \A e \in Depots : column[best] <= column[e]
  <2>1. \A e \in Depots : column[e] \in Nat  OBVIOUS
  <2> QED BY <2>1, Constants, ArgminIs DEF Depots
<1>3. d = IF taken THEN best ELSE anchor  BY DEF SelectDepot
<1> HIDE DEF anchor, best, d
<1>4. /\ \A e \in Depots : air[e] \in Nat /\ column[e] \in 0..Unreachable
      /\ Unreachable \in Nat /\ SanityLimit \in Nat /\ Band(m) \in Nat
  BY Constants
<1>5. CASE taken
  <2>1. \A e \in Depots : air[best] <= air[e] + SanityLimit
    BY <1>1, <1>2, <1>4, <1>5
  <2>2. column[best] <= column[best] + Band(m)  BY <1>2, <1>4
  <2> QED BY <1>2, <1>3, <1>5, <2>1, <2>2 DEF d, best
<1>6. CASE ~taken
  <2>1. \A e \in Depots : air[anchor] <= air[e] + SanityLimit
    BY <1>1, <1>4
  <2>2. \/ m = "radial"
        \/ column[anchor] <= column[best] + Band(m)
        \/ air[best] > air[anchor] + SanityLimit
    BY <1>1, <1>2, <1>4, <1>6
  <2> QED BY <1>1, <1>3, <1>6, <2>1, <2>2 DEF d, best
<1> QED BY <1>5, <1>6

(* An allocation: nobody's stop twice, and all of them if whole.           *)
Allocated(a, whole) ==
    /\ \A d \in Depots : /\ a.assignments[d] \in Seq(Stops)
                         /\ IsInjective(a.assignments[d])
                         /\ ToSet(a.assignments[d]) \cap ToSet(a.unreachable)
                               = {}
    /\ \A d, e \in Depots :
          d # e => ToSet(a.assignments[d]) \cap ToSet(a.assignments[e]) = {}
    /\ a.unreachable \in Seq(Stops) /\ IsInjective(a.unreachable)
    /\ whole => \A s \in Stops :
                   \/ s \in ToSet(a.unreachable)
                   \/ \E d \in Depots : s \in ToSet(a.assignments[d])

(* What AllocationSound says of the stops of each depot.                   *)
Sound(m, a, durs, dists) ==
    \A d \in Depots : \A s \in ToSet(a.assignments[d]) :
       LET cost(e) == Target(m, durs, dists)[e][s]
           best == Argmin([e \in Depots |-> cost(e)])
       IN /\ ~Unserved(dists[d][s])
          /\ \A e \in Depots : Air[s][d] <= Air[s][e] + SanityLimit
          /\ \/ m = "radial"
             \/ cost(d) <= cost(best) + Band(m)
             \/ \E e \in Depots : Air[s][best] > Air[s][e] + SanityLimit

LEMMA AllocateIs ==
    ASSUME NEW m, NEW durs \in [Depots -> Seq(0..Unreachable)],
           NEW dists \in [Depots -> Seq(0..Unreachable)],
           WellShaped(durs, dists, NDepots, NStops)
    PROVE  /\ Allocated(AllocateStops(m, Air, durs, dists),
                        Len(dists[1]) = NStops)
           /\ Sound(m, AllocateStops(m, Air, durs, dists), durs, dists)
<1> DEFINE w == Len(dists[1])
           target == Target(m, durs, dists)
           at == DepotOf(m, Air, durs, dists)
           column(s) == [d \in DOMAIN target |-> target[d][s]]
           Served(s) == ~Unserved(dists[at[s]][s])
           all == [s \in DOMAIN at |-> s]
           mine(d) == {s \in DOMAIN at : at[s] = d /\ Served(s)}
           a == AllocateStops(m, Air, durs, dists)
<1>1. w \in Nat /\ w <= NStops
      /\ \A d \in Depots : Len(durs[d]) = w /\ Len(dists[d]) = w
  BY Constants DEF WellShaped, Depots
<1>2. target \in [Depots -> Seq(0..Unreachable)]
      /\ \A d \in Depots : Len(target[d]) = w
  BY <1>1 DEF Target
<1> HIDE DEF w
<1>3. ASSUME NEW s \in 1..w
      PROVE  /\ s \in Stops /\ Air[s] \in [Depots -> Nat]
             /\ column(s) \in [Depots -> 0..Unreachable]
             /\ column(s) = [d \in Depots |-> target[d][s]]
  <2>1. s \in Stops  BY <1>1, Constants DEF Stops
  <2>2. \A d \in Depots : target[d][s] \in 0..Unreachable
    <3> DEFINE R == 0..Unreachable
    <3>1. ASSUME NEW q \in Seq(R), Len(q) = w PROVE q[s] \in R
      <4> HIDE DEF R
      <4>1. s \in DOMAIN q  BY <1>1, <3>1
      <4> QED BY <4>1
    <3> HIDE DEF R
    <3>2. \A d \in Depots : target[d] \in Seq(R) /\ Len(target[d]) = w
      BY <1>2 DEF R
    <3>3. \A d \in Depots : target[d][s] \in R  BY <3>1, <3>2
    <3> QED BY <3>3 DEF R
  <2>3. DOMAIN target = Depots  BY <1>2
  <2> HIDE DEF target
  <2> QED BY <2>1, <2>2, <2>3, VrpAssumption DEF VrpAssumption
<1>4. at = [s \in 1..w |-> SelectDepot(m, Air[s], column(s))]
  BY DEF DepotOf, w
<1>5. a.assignments = [d \in DOMAIN dists |-> Kept(all, mine(d))]
      /\ a.unreachable = Kept(all, {s \in DOMAIN at : ~Served(s)})
  BY DEF AllocateStops
<1> HIDE DEF a, at, target, w
<1>6. ASSUME NEW s \in 1..w
      PROVE  LET best == Argmin(column(s))
             IN  /\ at[s] \in Depots
                 /\ \A e \in Depots : Air[s][at[s]] <= Air[s][e] + SanityLimit
                 /\ \/ m = "radial"
                    \/ column(s)[at[s]] <= column(s)[best] + Band(m)
                    \/ \E e \in Depots : Air[s][best] > Air[s][e] + SanityLimit
  <2>1. at[s] = SelectDepot(m, Air[s], column(s))  BY <1>4
  <2>2. PICK col \in [Depots -> 0..Unreachable] : col = column(s)  BY <1>3
  <2>3. Air[s] \in [Depots -> Nat]  BY <1>3
  <2> HIDE DEF column
  <2> QED BY <2>1, <2>2, <2>3, SelectIs
<1>7. DOMAIN at = 1..w /\ all \in Seq(Stops) /\ IsInjective(all)
      /\ ToSet(all) = 1..w
  <2>1. DOMAIN at = 1..w  BY <1>4
  <2>2. all = [s \in 1..w |-> s]  BY <2>1
  <2>3. all \in [1..w -> Stops]  BY <1>3, <2>2
  <2> QED BY <1>1, <2>1, <2>2, <2>3 DEF IsInjective, ToSet
<1> HIDE DEF Served, all
<1>8. ASSUME NEW d \in Depots
      PROVE  /\ a.assignments[d] \in Seq(Stops)
             /\ IsInjective(a.assignments[d])
             /\ ToSet(a.assignments[d]) = mine(d)
  <2>1. a.assignments[d] = Kept(all, mine(d))  BY <1>5
  <2>2. mine(d) \subseteq ToSet(all)  BY <1>7
  <2> HIDE DEF mine
  <2>3. /\ Kept(all, mine(d)) \in Seq(Stops)
        /\ ToSet(Kept(all, mine(d))) = ToSet(all) \cap mine(d)
        /\ IsInjective(Kept(all, mine(d)))
    BY <1>7, KeptSelects
  <2> QED BY <2>1, <2>2, <2>3
<1>9. /\ a.unreachable \in Seq(Stops) /\ IsInjective(a.unreachable)
      /\ ToSet(a.unreachable) = {s \in 1..w : ~Served(s)}
  <2> DEFINE rest == {s \in DOMAIN at : ~Served(s)}
  <2>1. rest \subseteq ToSet(all) /\ rest = {s \in 1..w : ~Served(s)}
    BY <1>7
  <2>2. a.unreachable = Kept(all, rest)  BY <1>5
  <2> HIDE DEF rest
  <2>3. /\ Kept(all, rest) \in Seq(Stops)
        /\ ToSet(Kept(all, rest)) = ToSet(all) \cap rest
        /\ IsInjective(Kept(all, rest))
    BY <1>7, KeptSelects
  <2> QED BY <2>1, <2>2, <2>3
<1>10. Allocated(a, w = NStops)
  <2>1. \A d \in Depots : ToSet(a.assignments[d]) \cap ToSet(a.unreachable) = {}
    BY <1>8, <1>9
  <2>2. \A d, e \in Depots :
           d # e => ToSet(a.assignments[d]) \cap ToSet(a.assignments[e]) = {}
    <3>1. \A d \in Depots : ToSet(a.assignments[d]) = mine(d)  BY <1>8
    <3>2. \A d, e \in Depots : d # e => mine(d) \cap mine(e) = {}
      OBVIOUS
    <3> HIDE DEF mine
    <3> QED BY <3>1, <3>2
  <2>3. ASSUME w = NStops, NEW s \in Stops
        PROVE  \/ s \in ToSet(a.unreachable)
               \/ \E d \in Depots : s \in ToSet(a.assignments[d])
    <3>1. s \in 1..w  BY <2>3 DEF Stops
    <3>2. at[s] \in Depots  BY <1>6, <3>1
    <3> QED BY <1>7, <1>8, <1>9, <3>1, <3>2
  <2> QED BY <1>8, <1>9, <2>1, <2>2, <2>3 DEF Allocated
<1>11. Sound(m, a, durs, dists)
  <2>1. ASSUME NEW d \in Depots, NEW s \in ToSet(a.assignments[d])
        PROVE  LET best == Argmin([e \in Depots |-> target[e][s]])
               IN /\ ~Unserved(dists[d][s])
                  /\ \A e \in Depots : Air[s][d] <= Air[s][e] + SanityLimit
                  /\ \/ m = "radial"
                     \/ target[d][s] <= target[best][s] + Band(m)
                     \/ \E e \in Depots :
                           Air[s][best] > Air[s][e] + SanityLimit
    <3>1. s \in 1..w /\ at[s] = d /\ Served(s)  BY <1>7, <1>8
    <3>2. ~Unserved(dists[d][s])  BY <3>1 DEF Served
    <3>3. column(s) = [e \in Depots |-> target[e][s]]  BY <1>3, <3>1
    <3> DEFINE col == [e \in Depots |-> target[e][s]]
               best == Argmin(col)
    <3>4. best \in Depots
      <4>1. col \in [Depots -> 0..Unreachable]  BY <1>3, <3>1, <3>3
      <4>2. \A i \in 1..NDepots : col[i] \in Nat
        BY <4>1, Constants DEF Depots
      <4>3. DOMAIN col = 1..NDepots  BY DEF Depots
      <4> HIDE DEF col
      <4> QED BY <4>2, <4>3, Constants, ArgminIs DEF Depots
    <3>5. col[d] = target[d][s] /\ col[best] = target[best][s]
      BY <3>4
    <3>6. LET b == Argmin(col)
          IN  /\ \A e \in Depots : Air[s][d] <= Air[s][e] + SanityLimit
              /\ \/ m = "radial"
                 \/ col[d] <= col[b] + Band(m)
                 \/ \E e \in Depots : Air[s][b] > Air[s][e] + SanityLimit
      <4> HIDE DEF column, col
      <4> QED BY <1>6, <3>1, <3>3 DEF col
    <3> HIDE DEF col
    <3> QED BY <3>2, <3>5, <3>6 DEF col
  <2> QED BY <2>1 DEF Sound, target
<1> QED BY <1>10, <1>11 DEF a, w

-----------------------------------------------------------------------------
(* reorder_waypoints.                                                      *)

LEMMA ReorderedIs ==
    ASSUME NEW chunk \in Seq(Stops), IsInjective(chunk),
           NEW places \in Waypoints(Len(chunk)), InChunk(places, chunk)
    PROVE  /\ Reordered(places, chunk) \in Seq(Stops)
           /\ IsInjective(Reordered(places, chunk))
           /\ ToSet(Reordered(places, chunk)) \subseteq ToSet(chunk)
           /\ Len(places) = Len(chunk) =>
                 ToSet(chunk) \subseteq ToSet(Reordered(places, chunk))
<1> DEFINE n == Len(chunk)
           r == Reordered(places, chunk)
<1>1. PICK k \in (Most(n, 1) - 1)..(n + 1) : places \in SetToSeqs(1..k)
  BY DEF Waypoints
<1>2. n \in Nat /\ k \in Nat  BY DEF Most
<1>3. IsFiniteSet(1..k) /\ Cardinality(1..k) = k  BY <1>2, FS_Interval
<1>4. /\ places \in Seq(1..k) /\ Len(places) = k /\ IsInjective(places)
      /\ ToSet(places) = 1..k
  <2> DEFINE K == 1..k
  <2>1. IsFiniteSet(K) /\ places \in SetToSeqs(K) /\ Cardinality(K) = k
    BY <1>1, <1>3
  <2> HIDE DEF K
  <2>2. /\ places \in Seq(K) /\ Len(places) = Cardinality(K)
        /\ IsInjective(places) /\ ToSet(places) = K
    BY <2>1, SeqsOfSet
  <2> QED BY <2>1, <2>2 DEF K
<1>5. DOMAIN places = 1..k /\ \A i \in 1..k : places[i] \in 1..n
  BY <1>2, <1>4 DEF InChunk
<1>6. r = [i \in 1..k |-> chunk[places[i]]]  BY <1>5 DEF Reordered
<1> HIDE DEF r
<1>7. \A j \in 1..n : chunk[j] \in Stops  OBVIOUS
<1>8. r \in Seq(Stops) /\ DOMAIN r = 1..k
  <2>1. r \in [1..k -> Stops]  BY <1>5, <1>6, <1>7
  <2> QED BY <1>2, <2>1
<1>9. IsInjective(r)
  <2>1. \A i, j \in 1..n : chunk[i] = chunk[j] => i = j  BY DEF IsInjective
  <2>2. \A i, j \in 1..k : places[i] = places[j] => i = j
    BY <1>4, <1>5 DEF IsInjective
  <2> QED BY <1>5, <1>6, <1>8, <2>1, <2>2 DEF IsInjective
<1>10. ToSet(r) \subseteq ToSet(chunk)
  BY <1>5, <1>6, <1>8 DEF ToSet
<1>11. ASSUME k = n PROVE ToSet(chunk) \subseteq ToSet(r)
  <2>1. \A j \in 1..n : \E i \in 1..k : places[i] = j
    BY <1>4, <1>5, <1>11 DEF ToSet
  <2>2. ASSUME NEW j \in 1..n PROVE chunk[j] \in ToSet(r)
    <3>1. PICK i \in 1..k : places[i] = j  BY <2>1
    <3> QED BY <3>1, <1>6, <1>8 DEF ToSet
  <2>3. ToSet(chunk) = {chunk[j] : j \in 1..n}  BY DEF ToSet
  <2> QED BY <2>2, <2>3
<1> QED BY <1>4, <1>8, <1>9, <1>10, <1>11 DEF r

-----------------------------------------------------------------------------
(* The invariant.                                                          *)

Labels == Seq(Nat \cup {Ids[d] : d \in Depots})
Routes == [depot : Depots, stops : Seq(Stops), label : Labels]

Typed ==
    /\ TypeOK
    /\ durations \in [Depots -> Seq(0..Unreachable)]
    /\ distances \in [Depots -> Seq(0..Unreachable)]
    /\ routes \in Seq(Routes)

Phased ==
    /\ pc = "table" =>
          /\ fetched < NStops /\ depot = 0 /\ routes = <<>>
          /\ faithful => \A d \in Depots : /\ Len(durations[d]) = fetched
                                           /\ Len(distances[d]) = fetched
    /\ pc # "join" => chunks = <<>> /\ task = <<>>
    /\ pc \in {"depot", "join"} => endpoint = "vrp"
    /\ pc = "ok" /\ endpoint = "vrp" => depot = NDepots

Split == pc \in {"depot", "join", "ok"} => Allocated(allocation, faithful)

Sounded ==
    (pc \in {"depot", "ok"} /\ depot = 0 /\ fetched = NStops) =>
       Sound(mode, allocation, durations, distances)

(* What a task that has ended brings for its chunk.                        *)
Came(state, route, chunk, whole) ==
    /\ state = "joined" => route # Failed
    /\ (state \in {"ended", "joined"} /\ route # Failed) =>
          /\ IsInjective(route) /\ ToSet(route) \subseteq ToSet(chunk)
          /\ whole => ToSet(chunk) \subseteq ToSet(route)

Solving ==
    pc = "join" =>
       /\ depot < NDepots
       /\ \A c \in DOMAIN chunks :
             /\ IsInjective(chunks[c]) /\ Len(chunks[c]) <= ChunkSize
             /\ Came(task[c], result[c], chunks[c], faithful)
       /\ \A c, e \in DOMAIN chunks :
             c # e => ToSet(chunks[c]) \cap ToSet(chunks[e]) = {}
       /\ UNION {ToSet(chunks[c]) : c \in DOMAIN chunks}
             = ToSet(allocation.assignments[depot + 1])

(* The routes so far, and the stops of the depots that had their turn.     *)
Once ==
    /\ \A i \in DOMAIN routes :
          /\ routes[i].depot <= depot
          /\ IsInjective(routes[i].stops)
          /\ ToSet(routes[i].stops)
                \subseteq ToSet(allocation.assignments[routes[i].depot])
    /\ \A i, j \in DOMAIN routes :
          i # j => ToSet(routes[i].stops) \cap ToSet(routes[j].stops) = {}
    /\ faithful => \A d \in 1..depot :
                      \A s \in ToSet(allocation.assignments[d]) :
                         \E i \in DOMAIN routes : s \in ToSet(routes[i].stops)

Labelled ==
    /\ LabelsInOrder
    /\ \A i \in DOMAIN routes :
          LET id == Ids[routes[i].depot]
          IN id # NoId => \/ routes[i].label = <<id>>
                          \/ \E n \in Nat : routes[i].label = <<id, n>>

Wide == Len(chunks) > 1 => CutWide(FlattenSeq(chunks), bearing)

Inv == /\ Typed /\ Phased /\ Split /\ Sounded /\ Solving /\ Once /\ Labelled
       /\ Wide /\ CallsBounded

-----------------------------------------------------------------------------
(* The steps of a task.                                                    *)

LEMMA ChunkSizeIs ==
    ASSUME capacity \in Capacities
    PROVE  /\ ChunkSize \in Nat \ {0} /\ ChunkSize <= capacity
           /\ ChunkSize <= TripBound
BY Constants, VrpAssumption DEF VrpAssumption, ChunkSize, Least

LEMMA TaskMoves ==
    ASSUME Inv, NEW c \in DOMAIN task, NEW state \in TaskStates,
           task' = [task EXCEPT ![c] = state],
           UNCHANGED <<requestVars, pc, tableVars, allocation, depot, chunks,
                       bearing, routes>>,
           faithful' \in BOOLEAN, faithful' => faithful,
           result' \in [DOMAIN chunks -> Seq(Stops) \cup {Failed}],
           \A e \in DOMAIN task : e # c => result'[e] = result[e],
           Came(state, result'[c], chunks[c], faithful'),
           state = "calling" => SlotFree
    PROVE  Inv'
<1> USE DEF requestVars, tableVars
<1>1. /\ DOMAIN task = DOMAIN chunks /\ chunks \in Seq(Seq(Stops))
      /\ task \in [DOMAIN chunks -> TaskStates]
      /\ capacity \in Capacities
  BY DEF Inv, Typed, TypeOK
<1>2. pc = "join"
  <2>1. task # <<>>  BY <1>1
  <2> QED BY <2>1 DEF Inv, Phased
<1>3. task' \in [DOMAIN chunks -> TaskStates]  BY <1>1
<1>4. Typed'  BY <1>3 DEF Inv, Typed, TypeOK
<1>5. Phased'  BY <1>2 DEF Inv, Phased
<1>6. Split'  BY DEF Inv, Split, Allocated
<1>7. Sounded'  BY <1>2 DEF Sounded
<1>8. Solving'
  <2>1. ChunkSize' = ChunkSize  BY DEF ChunkSize
  <2>2. ASSUME NEW e \in DOMAIN chunks
        PROVE  Came(task'[e], result'[e], chunks[e], faithful')
    <3>1. CASE e = c  BY <3>1, <1>1
    <3>2. CASE e # c
      <4>1. Came(task[e], result[e], chunks[e], faithful)
        BY <1>2 DEF Inv, Solving
      <4>2. task'[e] = task[e] /\ result'[e] = result[e]  BY <3>2, <1>1
      <4> QED BY <4>1, <4>2 DEF Came
    <3> QED BY <3>1, <3>2
  <2> QED BY <1>2, <2>1, <2>2 DEF Inv, Solving
<1>9. Once'  BY DEF Inv, Once
<1>10. Labelled'  BY DEF Inv, Labelled, LabelsInOrder
<1>11. Wide'  BY DEF Inv, Wide, CutWide, Wedge
<1>12. CallsBounded'
  <2> DEFINE calling == {e \in DOMAIN task : task[e] = "calling"}
             next == {e \in DOMAIN task' : task'[e] = "calling"}
  <2>1. IsFiniteSet(calling)
    <3>1. DOMAIN task = 1..Len(chunks) /\ Len(chunks) \in Nat  BY <1>1
    <3>2. \A k \in Nat : IsFiniteSet(1..k)  BY FS_Interval
    <3>3. IsFiniteSet(DOMAIN task) /\ calling \subseteq DOMAIN task
      BY <3>1, <3>2
    <3> QED BY <3>3, FS_Subset
  <2>2. DOMAIN task' = DOMAIN task
        /\ \A e \in DOMAIN task : e # c => task'[e] = task[e]
        /\ task'[c] = state
    BY <1>1
  <2>3. Cardinality(next) <= Concurrency
    <3>1. CASE state = "calling"
      <4>1. Cardinality(calling) < Concurrency  BY <3>1 DEF SlotFree
      <4>2. next = calling \cup {c}  BY <2>2, <3>1
      <4> HIDE DEF calling, next
      <4>3. Cardinality(calling) \in Nat
            /\ Cardinality(next) <= Cardinality(calling) + 1
            /\ Cardinality(next) \in Nat
        <5>1. CASE c \in calling
          <6>1. next = calling  BY <4>2, <5>1
          <6> QED BY <6>1, <2>1, FS_CardinalityType
        <5>2. CASE c \notin calling
          <6>1. Cardinality(calling \cup {c}) = Cardinality(calling) + 1
            BY <5>2, <2>1, FS_AddElement
          <6>2. Cardinality(calling) \in Nat  BY <2>1, FS_CardinalityType
          <6> QED BY <4>2, <6>1, <6>2
        <5> QED BY <5>1, <5>2
      <4> QED BY <4>1, <4>3, Constants
    <3>2. CASE state # "calling"
      <4>1. next \subseteq calling  BY <2>2, <3>2
      <4>2. Cardinality(calling) <= Concurrency  BY DEF Inv, CallsBounded
      <4> HIDE DEF calling, next
      <4>3. Cardinality(next) <= Cardinality(calling)
            /\ Cardinality(next) \in Nat /\ Cardinality(calling) \in Nat
        BY <2>1, <4>1, FS_Subset, FS_CardinalityType
      <4> QED BY <4>2, <4>3, Constants
    <3> QED BY <3>1, <3>2
  <2>4. \A e \in DOMAIN chunks : Len(chunks[e]) <= capacity
                                 /\ Len(chunks[e]) <= TripBound
    <3>1. \A e \in DOMAIN chunks :
             Len(chunks[e]) \in Nat /\ Len(chunks[e]) <= ChunkSize
      BY <1>1, <1>2 DEF Inv, Solving
    <3>2. capacity \in Nat /\ TripBound \in Nat
      BY <1>1, Constants, VrpAssumption DEF VrpAssumption
    <3> QED BY <1>1, <3>1, <3>2, ChunkSizeIs
  <2> QED BY <1>1, <1>2, <2>2, <2>3, <2>4 DEF CallsBounded
<1> QED BY <1>4, <1>5, <1>6, <1>7, <1>8, <1>9, <1>10, <1>11, <1>12 DEF Inv

LEMMA TaskInv ==
    ASSUME Inv, NEW c \in Stops, Task(c) PROVE Inv'
<1>1. /\ DOMAIN task = DOMAIN chunks /\ chunks \in Seq(Seq(Stops))
      /\ result \in [DOMAIN chunks -> Seq(Stops) \cup {Failed}]
      /\ faithful \in BOOLEAN
  BY DEF Inv, Typed, TypeOK
<1>2. c \in DOMAIN task => pc = "join" /\ IsInjective(chunks[c])
  <2> SUFFICES ASSUME c \in DOMAIN task
               PROVE  pc = "join" /\ IsInjective(chunks[c])
    OBVIOUS
  <2>1. task # <<>>  BY <1>1
  <2> QED BY <1>1, <2>1 DEF Inv, Phased, Solving
<1>3. CASE Acquire(c)
  <2>1. Came("calling", result[c], chunks[c], faithful)  BY DEF Came
  <2> QED BY <1>1, <1>3, <2>1, TaskMoves DEF Acquire, TaskStates
<1>4. CASE TripAnswered(c)
  <2>1. PICK places \in Waypoints(Len(chunks[c])) :
           /\ result' = [result EXCEPT ![c] =
                 IF InChunk(places, chunks[c])
                 THEN Reordered(places, chunks[c]) ELSE Failed]
           /\ faithful' = (faithful /\ Len(places) = Len(chunks[c]))
    BY <1>4 DEF TripAnswered
  <2> DEFINE chunk == chunks[c]
             route == IF InChunk(places, chunk)
                      THEN Reordered(places, chunk) ELSE Failed
  <2>2. c \in DOMAIN chunks /\ chunk \in Seq(Stops) /\ IsInjective(chunk)
    <3>1. c \in DOMAIN task  BY <1>4 DEF TripAnswered
    <3>2. \A e \in DOMAIN chunks : chunks[e] \in Seq(Stops)  BY <1>1
    <3> QED BY <1>1, <1>2, <3>1, <3>2
  <2>3. InChunk(places, chunk) =>
           /\ Reordered(places, chunk) \in Seq(Stops)
           /\ IsInjective(Reordered(places, chunk))
           /\ ToSet(Reordered(places, chunk)) \subseteq ToSet(chunk)
           /\ Len(places) = Len(chunk) =>
                 ToSet(chunk) \subseteq ToSet(Reordered(places, chunk))
    <3> HIDE DEF chunk
    <3> QED BY <2>1, <2>2, ReorderedIs DEF chunk
  <2>4. route \in Seq(Stops) \cup {Failed}  BY <2>3
  <2>5. result' \in [DOMAIN chunks -> Seq(Stops) \cup {Failed}]
        /\ result'[c] = route
        /\ \A e \in DOMAIN task : e # c => result'[e] = result[e]
    BY <1>1, <2>1, <2>2, <2>4
  <2>6. faithful' \in BOOLEAN /\ (faithful' => faithful)
        /\ (faithful' => Len(places) = Len(chunk))
    BY <1>1, <2>1
  <2>7. Came("ended", route, chunk, faithful')  BY <2>3, <2>6 DEF Came
  <2> QED BY <1>4, <2>5, <2>6, <2>7, TaskMoves DEF TripAnswered, TaskStates
<1>5. CASE TripFailed(c)
  <2>1. Came("ended", Failed, chunks[c], faithful)  BY DEF Came
  <2>2. result' \in [DOMAIN chunks -> Seq(Stops) \cup {Failed}]
        /\ result'[c] = Failed
        /\ \A e \in DOMAIN task : e # c => result'[e] = result[e]
    BY <1>1, <1>5 DEF TripFailed
  <2> QED BY <1>1, <1>5, <2>1, <2>2, TaskMoves DEF TripFailed, TaskStates
<1> QED BY <1>3, <1>4, <1>5 DEF Task

LEMMA JoinRouteInv ==
    ASSUME Inv, NEW c \in DOMAIN task, JoinRoute(c) PROVE Inv'
<1>1. /\ DOMAIN task = DOMAIN chunks
      /\ result \in [DOMAIN chunks -> Seq(Stops) \cup {Failed}]
      /\ faithful \in BOOLEAN
  BY DEF Inv, Typed, TypeOK
<1>2. Came(task[c], result[c], chunks[c], faithful)
  BY <1>1 DEF Inv, Solving, JoinRoute
<1>3. Came("joined", result[c], chunks[c], faithful)
  BY <1>2 DEF Came, JoinRoute
<1> QED BY <1>1, <1>3, TaskMoves DEF JoinRoute, TaskStates

-----------------------------------------------------------------------------
(* The steps of the handler.                                               *)

(* Without a depot under way nothing runs.                                 *)
Quiet ==
    /\ chunks = <<>> /\ task = <<>> /\ result = <<>>
    /\ bearing \in [Stops -> 0..(Tau - 1)]

LEMMA QuietIs ==
    ASSUME Quiet', pc' # "join"
    PROVE  /\ chunks' \in Seq(Seq(Stops))
           /\ task' \in [DOMAIN chunks' -> TaskStates]
           /\ result' \in [DOMAIN chunks' -> Seq(Stops) \cup {Failed}]
           /\ Solving' /\ Wide' /\ CallsBounded'
<1> USE DEF Quiet
<1>1. Len(chunks') = 0 /\ DOMAIN task' = {} /\ DOMAIN chunks' = {}  OBVIOUS
<1>2. CallsBounded'
  <2>1. {c \in DOMAIN task' : task'[c] = "calling"} = {}  BY <1>1
  <2>2. Cardinality({}) = 0  BY FS_EmptySet
  <2>3. Cardinality({c \in DOMAIN task' : task'[c] = "calling"})
           <= Concurrency
    BY <2>1, <2>2, Constants
  <2> QED BY <1>1, <2>1, <2>3 DEF CallsBounded
<1> QED BY <1>1, <1>2 DEF Solving, Wide

LEMMA NoDepotIs ==
    ASSUME NoDepot PROVE Quiet'
BY Constants DEF NoDepot, Quiet

LEMMA FailInv ==
    ASSUME Inv, FetchFailed PROVE Inv'
<1> USE DEF FetchFailed, requestVars, tableVars, depotVars
<1>1. Typed'  BY DEF Inv, Typed, TypeOK, Phases
<1>2. Phased' /\ Split' /\ Sounded' /\ Solving'
  BY DEF Inv, Phased, Split, Sounded, Solving
<1>3. Once' /\ Labelled' /\ Wide' /\ CallsBounded'
  BY DEF Inv, Once, Labelled, LabelsInOrder, Wide, CutWide, Wedge,
         CallsBounded
<1> QED BY <1>1, <1>2, <1>3 DEF Inv

LEMMA RespondInv ==
    ASSUME Inv, Respond PROVE Inv'
<1> USE DEF Respond, requestVars, tableVars, depotVars
<1>1. Typed'  BY DEF Inv, Typed, TypeOK, Phases
<1>2. Phased' /\ Split' /\ Solving'
  BY DEF Inv, Phased, Split, Allocated, Solving
<1>3. Once' /\ Labelled' /\ Wide' /\ CallsBounded'
  BY DEF Inv, Once, Labelled, LabelsInOrder, Wide, CutWide, Wedge,
         CallsBounded
<1>4. Sounded'  BY Constants DEF Sounded
<1> QED BY <1>1, <1>2, <1>3, <1>4 DEF Inv

LEMMA DisconnectInv ==
    ASSUME Inv, Disconnect PROVE Inv'
<1> USE DEF Disconnect, AbortAll, requestVars, tableVars
<1>1. Quiet' /\ pc' # "join"  BY NoDepotIs
<1>2. /\ chunks' \in Seq(Seq(Stops))
      /\ task' \in [DOMAIN chunks' -> TaskStates]
      /\ result' \in [DOMAIN chunks' -> Seq(Stops) \cup {Failed}]
      /\ Solving' /\ Wide' /\ CallsBounded'
  BY <1>1, QuietIs
<1>3. Typed'  BY <1>1, <1>2 DEF Inv, Typed, TypeOK, Phases, Quiet
<1>4. Phased' /\ Split' /\ Sounded'
  BY <1>1 DEF Inv, Phased, Split, Sounded, Quiet
<1>5. Once' /\ Labelled'  BY DEF Inv, Once, Labelled, LabelsInOrder
<1> QED BY <1>2, <1>3, <1>4, <1>5 DEF Inv

LEMMA JoinErrorInv ==
    ASSUME Inv, NEW c \in DOMAIN task, JoinError(c) PROVE Inv'
<1> USE DEF JoinError, AbortAll, requestVars, tableVars
<1>1. Quiet' /\ pc' # "join"  BY NoDepotIs
<1>2. /\ chunks' \in Seq(Seq(Stops))
      /\ task' \in [DOMAIN chunks' -> TaskStates]
      /\ result' \in [DOMAIN chunks' -> Seq(Stops) \cup {Failed}]
      /\ Solving' /\ Wide' /\ CallsBounded'
  BY <1>1, QuietIs
<1>3. Typed'  BY <1>1, <1>2 DEF Inv, Typed, TypeOK, Phases, Quiet
<1>4. Phased' /\ Split' /\ Sounded'
  BY <1>1 DEF Inv, Phased, Split, Sounded, Quiet
<1>5. Once' /\ Labelled'  BY DEF Inv, Once, Labelled, LabelsInOrder
<1> QED BY <1>2, <1>3, <1>4, <1>5 DEF Inv

LEMMA DropTablesIs ==
    ASSUME DropTables
    PROVE  /\ durations' \in [Depots -> Seq(0..Unreachable)]
           /\ distances' \in [Depots -> Seq(0..Unreachable)]
           /\ fetched' = 0 /\ fetched' # NStops
BY Constants DEF DropTables, NoRows

LEMMA SkipInv ==
    ASSUME Inv, SkipDepot PROVE Inv'
<1> USE DEF SkipDepot, requestVars, depotVars
<1>1. depot \in 0..(NDepots - 1) /\ depot + 1 \in Depots
  BY Constants DEF Inv, Typed, TypeOK, Depots
<1>2. Typed'
  <2>1. fetched' \in 0..NStops /\ depot' \in 0..NDepots
    BY <1>1, DropTablesIs, Constants DEF Depots
  <2> QED BY <2>1, DropTablesIs DEF Inv, Typed, TypeOK
<1>3. Phased' /\ Split' /\ Sounded' /\ Solving'
  BY DropTablesIs DEF Inv, Phased, Split, Allocated, Sounded, Solving
<1>4. Labelled' /\ Wide' /\ CallsBounded'
  BY DEF Inv, Labelled, LabelsInOrder, Wide, CutWide, Wedge, CallsBounded
<1>5. Once'
  <2>1. \A i \in DOMAIN routes : routes[i].depot <= depot + 1
    <3>1. \A i \in DOMAIN routes : routes[i].depot \in Depots
                                   /\ routes[i].depot <= depot
      BY DEF Inv, Typed, TypeOK, Once
    <3> QED BY <1>1, <3>1 DEF Depots
  <2>2. ToSet(allocation.assignments[depot + 1]) = {}  BY DEF ToSet
  <2>3. \A d \in 1..(depot + 1) : d \in 1..depot \/ d = depot + 1
    BY <1>1
  <2> QED BY <2>1, <2>2, <2>3 DEF Inv, Once
<1> QED BY <1>2, <1>3, <1>4, <1>5 DEF Inv

LEMMA BeginInv ==
    ASSUME Inv, BeginDepot PROVE Inv'
<1> USE DEF requestVars
<1> DEFINE stops == allocation.assignments[depot + 1]
<1>1. /\ pc = "depot" /\ depot < NDepots /\ stops # <<>> /\ pc' = "join"
      /\ task' = [c \in DOMAIN chunks' |-> "waiting"]
      /\ result' = [c \in DOMAIN chunks' |-> <<>>]
      /\ DropTables
      /\ UNCHANGED <<requestVars, allocation, depot, routes, faithful>>
  BY DEF BeginDepot
<1>2. depot \in 0..(NDepots - 1) /\ depot + 1 \in Depots
  BY <1>1, Constants DEF Inv, Typed, TypeOK, Depots
<1>3. Allocated(allocation, faithful)  BY <1>1 DEF Inv, Split
<1>4. stops \in Seq(Stops) /\ IsInjective(stops) /\ Len(stops) # 0
  <2>1. stops \in Seq(Stops) /\ IsInjective(stops)
    BY <1>2, <1>3 DEF Allocated
  <2> QED BY <1>1, <2>1
<1>5. /\ ChunkSize \in Nat \ {0} /\ ChunkSize <= capacity
      /\ ChunkSize <= TripBound /\ ChunkSize' = ChunkSize
  BY <1>1, ChunkSizeIs DEF Inv, Typed, TypeOK, ChunkSize
<1>6. PICK order \in Seq(Stops) :
         /\ Len(order) # 0 /\ IsInjective(order) /\ ToSet(order) = ToSet(stops)
         /\ chunks' = Chunks(order, ChunkSize)
         /\ bearing' \in [Stops -> 0..(Tau - 1)]
         /\ Len(chunks') > 1 => CutWide(order, bearing')
  <2> DEFINE Good(order) ==
         /\ Len(order) # 0 /\ IsInjective(order) /\ ToSet(order) = ToSet(stops)
         /\ chunks' = Chunks(order, ChunkSize)
         /\ bearing' \in [Stops -> 0..(Tau - 1)]
         /\ Len(chunks') > 1 => CutWide(order, bearing')
  <2>1. CASE /\ Len(stops) <= ChunkSize
             /\ chunks' = Chunks(stops, ChunkSize)
             /\ UNCHANGED bearing
    <3> DEFINE L == Len(stops)
               size == ChunkSize
    <3>1. L \in Nat \ {0} /\ size \in Nat \ {0} /\ L <= size
      BY <1>4, <1>5, <2>1
    <3>2. (L + size - 1) \div size = 1
      <4> HIDE DEF L, size
      <4>1. PICK q \in Nat : q = (L + size - 1) \div size
                             /\ q * size <= L + size - 1
                             /\ L + size - 1 < q * size + size
        <5>1. L + size - 1 \in Nat  BY <3>1
        <5> QED BY <3>1, <5>1, Divides
      <4>2. q # 0
        <5>1. 0 * size = 0  BY <3>1
        <5> QED BY <3>1, <4>1, <5>1
      <4>3. ~(q >= 2)
        <5>1. q >= 2 => q * size >= 2 * size  BY <3>1
        <5>2. 2 * size = size + size  BY <3>1
        <5> QED BY <3>1, <4>1, <5>1, <5>2
      <4> QED BY <4>1, <4>2, <4>3
    <3>3. Len(chunks') = 1
      BY <2>1, <3>2 DEF Chunks
    <3>4. bearing' \in [Stops -> 0..(Tau - 1)]
      BY <2>1 DEF Inv, Typed, TypeOK
    <3>5. Good(stops)  BY <1>4, <2>1, <3>3, <3>4
    <3> HIDE DEF Good
    <3>6. stops \in Seq(Stops)  BY <1>4
    <3> QED BY <3>5, <3>6 DEF Good
  <2>2. CASE /\ Len(stops) > ChunkSize
             /\ \E b \in [ToSet(stops) -> Angles],
                   keyed \in SetToSeqs(ToSet(stops)) :
                   /\ SortedBy(keyed, b)
                   /\ chunks' = Chunks(Rotated(keyed, b), ChunkSize)
                   /\ bearing' = [s \in Stops |->
                         IF s \in ToSet(stops) THEN b[s] ELSE 0]
    <3> DEFINE S == ToSet(stops)
    <3>1. PICK b \in [S -> Angles], keyed \in SetToSeqs(S) :
                   /\ SortedBy(keyed, b)
                   /\ chunks' = Chunks(Rotated(keyed, b), ChunkSize)
                   /\ bearing' = [s \in Stops |-> IF s \in S THEN b[s] ELSE 0]
      BY <2>2
    <3>2. S \subseteq Stops /\ IsFiniteSet(S) /\ S # {}
      <4>1. S \subseteq Stops /\ S # {}
        <5>1. 1 \in DOMAIN stops /\ \A i \in DOMAIN stops : stops[i] \in Stops
          BY <1>4
        <5> HIDE DEF stops
        <5> QED BY <5>1 DEF ToSet
      <4>2. IsFiniteSet(Stops)  BY Constants, FS_Interval DEF Stops
      <4> HIDE DEF S
      <4> QED BY <4>1, <4>2, FS_Subset
    <3>3. ToSet(stops) = S  OBVIOUS
    <3>4. b \in [S -> 0..(Tau - 1)]
      <4>1. Angles \subseteq 0..(Tau - 1)  BY VrpAssumption DEF VrpAssumption
      <4> HIDE DEF S
      <4> QED BY <3>1, <4>1
    <3> HIDE DEF S
    <3>5. keyed \in Seq(S) /\ Len(keyed) # 0 /\ IsInjective(keyed)
          /\ ToSet(keyed) = S
      <4>1. keyed \in Seq(S) /\ IsInjective(keyed) /\ ToSet(keyed) = S
        BY <3>1, <3>2, SeqsOfSet
      <4> QED BY <3>2, <4>1 DEF ToSet
    <3> DEFINE order == Rotated(keyed, b)
    <3>6. WidestGapStart(keyed, b) \in 0..(Len(keyed) - 1)
      BY <3>1, <3>4, <3>5, CutIsWidest
    <3>7. /\ order \in Seq(S) /\ Len(order) = Len(keyed)
          /\ IsInjective(order) /\ ToSet(order) = S
      BY <3>5, <3>6, RotatedIs
    <3>8. CutWide(order, b)  BY <3>1, <3>4, <3>5, RotatedCutsWide
    <3> HIDE DEF order
    <3>9. order \in Seq(Stops)  BY <3>2, <3>7
    <3>10. bearing' \in [Stops -> 0..(Tau - 1)]
      BY <3>1, <3>4, Constants
    <3>11. \A s \in S : bearing'[s] = b[s]  BY <3>1, <3>2
    <3>12. CutWide(order, bearing')
      <4>1. \A i \in 1..Len(order) : order[i] \in S  BY <3>7
      <4>2. 1 \in 1..Len(order) /\ Len(order) \in 1..Len(order)
        BY <3>5, <3>7
      <4>3. \A i \in 1..(Len(order) - 1) :
               i \in 1..Len(order) /\ i + 1 \in 1..Len(order)
        BY <3>7
      <4>4. \A s, t \in S : Wedge(bearing', s, t) = Wedge(b, s, t)
        BY <3>11 DEF Wedge
      <4> QED BY <3>7, <3>8, <3>11, <4>1, <4>2, <4>3, <4>4 DEF CutWide
    <3>13. Good(order)
      BY <3>1, <3>3, <3>5, <3>7, <3>10, <3>12 DEF order
    <3> HIDE DEF Good
    <3> QED BY <3>9, <3>13 DEF Good
  <2> QED BY <2>1, <2>2, <1>1 DEF BeginDepot
<1>7. /\ chunks' \in Seq(Seq(Stops)) /\ Len(chunks') # 0
      /\ \A c \in DOMAIN chunks' : Len(chunks'[c]) <= ChunkSize
      /\ FlattenSeq(chunks') = order
  BY <1>5, <1>6, ChunksAre
<1>8. /\ ToSet(stops) = UNION {ToSet(chunks'[c]) : c \in DOMAIN chunks'}
      /\ \A c \in DOMAIN chunks' : IsInjective(chunks'[c])
      /\ \A c, e \in DOMAIN chunks' :
            c # e => ToSet(chunks'[c]) \cap ToSet(chunks'[e]) = {}
  <2>1. PICK cs \in Seq(Seq(Stops)) : cs = chunks'  BY <1>7
  <2>2. DOMAIN cs = 1..Len(cs)  OBVIOUS
  <2>3. /\ ToSet(FlattenSeq(cs)) = UNION {ToSet(cs[i]) : i \in 1..Len(cs)}
        /\ IsInjective(FlattenSeq(cs)) =>
                 /\ \A i \in 1..Len(cs) : IsInjective(cs[i])
                 /\ \A i, j \in 1..Len(cs) :
                       i # j => ToSet(cs[i]) \cap ToSet(cs[j]) = {}
    BY <1>7, <2>1, FlattenParts
  <2> QED BY <1>6, <1>7, <2>1, <2>2, <2>3
<1> HIDE DEF stops
<1>9. Typed'
  <2>1. task' \in [DOMAIN chunks' -> TaskStates]  BY <1>1 DEF TaskStates
  <2>2. result' \in [DOMAIN chunks' -> Seq(Stops) \cup {Failed}]
    BY <1>1
  <2>3. fetched' \in 0..NStops  BY <1>1, DropTablesIs, Constants
  <2> QED BY <1>1, <1>6, <1>7, <2>1, <2>2, <2>3, DropTablesIs
          DEF Inv, Typed, TypeOK, Phases
<1>10. Phased' /\ Split' /\ Sounded'
  BY <1>1 DEF Inv, Phased, Split, Allocated, Sounded
<1>11. Solving'
  <2>1. \A c \in DOMAIN chunks' :
           Came(task'[c], result'[c], chunks'[c], faithful')
    BY <1>1 DEF Came
  <2> QED BY <1>1, <1>5, <1>7, <1>8, <2>1 DEF Solving, stops
<1>12. Once' /\ Labelled'
  BY <1>1 DEF Inv, Once, Labelled, LabelsInOrder
<1>13. Wide'  BY <1>6, <1>7 DEF Wide
<1>14. CallsBounded'
  <2> DEFINE none == {c \in DOMAIN task' : task'[c] = "calling"}
  <2>1. none = {}  BY <1>1
  <2> HIDE DEF none
  <2>2. Cardinality(none) <= Concurrency /\ \A c \in none : FALSE
    BY <2>1, FS_EmptySet, Constants
  <2> QED BY <1>1, <2>2 DEF CallsBounded, none
<1> QED BY <1>9, <1>10, <1>11, <1>12, <1>13, <1>14 DEF Inv

LEMMA EndInv ==
    ASSUME Inv, EndDepot PROVE Inv'
<1> USE DEF requestVars, tableVars
<1> DEFINE n == Len(routes)
           m == Len(chunks)
           d == depot + 1
           new == DepotRoutes(d)
<1>1. /\ pc = "join" /\ pc' = "depot" /\ depot' = d /\ NoDepot
      /\ routes' = routes \o new
      /\ \A c \in DOMAIN task : task[c] = "joined"
      /\ UNCHANGED <<requestVars, tableVars, allocation, faithful>>
  BY DEF EndDepot
<1>2. Quiet' /\ pc' # "join"  BY <1>1, NoDepotIs
<1>3. /\ chunks' \in Seq(Seq(Stops))
      /\ task' \in [DOMAIN chunks' -> TaskStates]
      /\ result' \in [DOMAIN chunks' -> Seq(Stops) \cup {Failed}]
      /\ Solving' /\ Wide' /\ CallsBounded'
  BY <1>2, QuietIs
<1>4. depot \in 0..(NDepots - 1) /\ d \in Depots /\ depot \in Nat
      /\ d \in Nat /\ d <= d
  <2>1. depot < NDepots  BY <1>1 DEF Inv, Solving
  <2>2. depot \in Nat  BY Constants DEF Inv, Typed, TypeOK
  <2> QED BY <2>1, <2>2, Constants DEF Depots
<1>5. /\ chunks \in Seq(Seq(Stops)) /\ m \in Nat /\ DOMAIN chunks = 1..m
      /\ DOMAIN task = 1..m
      /\ result \in [1..m -> Seq(Stops) \cup {Failed}]
      /\ routes \in Seq(Routes) /\ n \in Nat /\ DOMAIN routes = 1..n
  BY DEF Inv, Typed, TypeOK
<1>6. \A c \in 1..m :
         /\ result[c] \in Seq(Stops) /\ IsInjective(result[c])
         /\ ToSet(result[c]) \subseteq ToSet(chunks[c])
         /\ faithful => ToSet(chunks[c]) \subseteq ToSet(result[c])
  <2> SUFFICES ASSUME NEW c \in 1..m
               PROVE  /\ result[c] \in Seq(Stops) /\ IsInjective(result[c])
                      /\ ToSet(result[c]) \subseteq ToSet(chunks[c])
                      /\ faithful => ToSet(chunks[c]) \subseteq ToSet(result[c])
    OBVIOUS
  <2>1. Came(task[c], result[c], chunks[c], faithful) /\ task[c] = "joined"
    BY <1>1, <1>5 DEF Inv, Solving
  <2> QED BY <1>5, <2>1 DEF Came
<1>7. /\ \A c, e \in 1..m :
            c # e => ToSet(chunks[c]) \cap ToSet(chunks[e]) = {}
      /\ UNION {ToSet(chunks[c]) : c \in 1..m}
            = ToSet(allocation.assignments[d])
  BY <1>1, <1>5 DEF Inv, Solving
<1> DEFINE lab(c) == VehicleLabel(d, c, m, n)
<1>8. /\ DOMAIN new = 1..m
      /\ \A c \in 1..m : /\ new[c].depot = d /\ new[c].stops = result[c]
                         /\ new[c].label = lab(c)
                         /\ new[c] = [depot |-> d, stops |-> result[c],
                                      label |-> lab(c)]
  BY <1>5 DEF DepotRoutes
<1>9. \A c \in 1..m : lab(c) \in Labels
  <2> SUFFICES ASSUME NEW c \in 1..m PROVE lab(c) \in Labels
    OBVIOUS
  <2> DEFINE R == Nat \cup {Ids[e] : e \in Depots}
  <2>1. Ids[d] \in R /\ c \in R /\ n + c - 1 \in R  BY <1>4, <1>5
  <2> HIDE DEF R
  <2>2. <<Ids[d]>> \in Seq(R) /\ <<Ids[d], c>> \in Seq(R)
        /\ <<n + c - 1>> \in Seq(R)
    BY <2>1
  <2> QED BY <2>2 DEF VehicleLabel, Labels, R
<1> HIDE DEF new, n, m, lab
<1>10. new \in Seq(Routes) /\ Len(new) = m
  <2>1. \A c \in 1..m : new[c] \in Routes
    BY <1>4, <1>6, <1>8, <1>9 DEF Routes
  <2>2. new \in [1..m -> Routes]
    <3>1. new = [c \in 1..m |-> new[c]]  BY <1>5, <1>8 DEF new, DepotRoutes
    <3> QED BY <2>1, <3>1
  <2> QED BY <1>5, <2>2
<1>11. /\ routes' \in Seq(Routes) /\ DOMAIN routes' = 1..(n + m)
       /\ \A i \in 1..n : routes'[i] = routes[i]
       /\ \A c \in 1..m : routes'[n + c] = new[c]
       /\ \A i \in DOMAIN routes' : routes'[i] \in Routes
  <2> HIDE DEF d
  <2>1. Len(routes) = n /\ Len(new) = m  BY <1>10 DEF n
  <2>2. routes' = routes \o new  BY <1>1 DEF new
  <2>3. routes \in Seq(Routes) /\ new \in Seq(Routes)  BY <1>5, <1>10
  <2>4. /\ routes \o new \in Seq(Routes)
        /\ DOMAIN (routes \o new) = 1..(Len(routes) + Len(new))
        /\ \A i \in 1..(Len(routes) + Len(new)) : (routes \o new)[i] \in Routes
        /\ \A i \in 1..Len(routes) : (routes \o new)[i] = routes[i]
        /\ \A i \in 1..Len(new) : (routes \o new)[Len(routes) + i] = new[i]
    <3> HIDE DEF new
    <3> QED BY <2>3, ConcatAt
  <2> QED BY Zenon, <2>1, <2>2, <2>4
<1>12. \A i \in 1..(n + m) : i \in 1..n \/ \E c \in 1..m : i = n + c
  <2> SUFFICES ASSUME NEW i \in 1..(n + m), i \notin 1..n
               PROVE  \E c \in 1..m : i = n + c
    OBVIOUS
  <2>1. i - n \in 1..m /\ i = n + (i - n)  BY <1>5
  <2> QED BY <2>1
<1>13. Typed'
  <2>1. depot' \in 0..NDepots  BY <1>1, <1>4, Constants
  <2>2. \A i \in DOMAIN routes' : routes'[i].depot \in Depots
                                  /\ routes'[i].stops \in Seq(Stops)
    <3>1. \A i \in DOMAIN routes' : routes'[i] \in Routes  BY <1>11
    <3> QED BY <3>1 DEF Routes
  <2> QED BY <1>1, <1>2, <1>3, <1>11, <2>1, <2>2
          DEF Inv, Typed, TypeOK, Phases, Quiet
<1>14. Phased' /\ Split'
  BY <1>1, <1>2 DEF Inv, Phased, Split, Allocated, Quiet
<1>15. Sounded'  BY <1>1, <1>4 DEF Sounded
<1>16. \A i \in 1..n : /\ routes[i].depot \in Depots
                       /\ routes[i].depot <= depot /\ routes[i].depot # d
                       /\ routes[i].depot <= d
                       /\ IsInjective(routes[i].stops)
                       /\ ToSet(routes[i].stops) \subseteq
                             ToSet(allocation.assignments[routes[i].depot])
  <2>1. \A i \in 1..n : routes[i].depot \in Depots
                        /\ routes[i].depot <= depot
    BY <1>5 DEF Inv, Typed, TypeOK, Once
  <2>2. \A x \in Depots : x <= depot => x # d /\ x <= d
    BY <1>4 DEF Depots
  <2> QED BY <1>5, <2>1, <2>2 DEF Inv, Once
<1>17. \A e \in Depots : e # d =>
          ToSet(allocation.assignments[e])
             \cap ToSet(allocation.assignments[d]) = {}
  BY <1>1, <1>4 DEF Inv, Split, Allocated
<1>18. Once'
  <2>1. ASSUME NEW i \in DOMAIN routes'
        PROVE  /\ routes'[i].depot <= depot'
               /\ IsInjective(routes'[i].stops)
               /\ ToSet(routes'[i].stops) \subseteq
                     ToSet(allocation'.assignments[routes'[i].depot])
    <3>1. CASE i \in 1..n  BY <1>1, <1>11, <1>16, <3>1
    <3>2. CASE \E c \in 1..m : i = n + c
      <4>1. PICK c \in 1..m : i = n + c  BY <3>2
      <4>2. routes'[i].depot = d /\ routes'[i].stops = result[c]
        BY <1>8, <1>11, <4>1
      <4>3. ToSet(chunks[c]) \subseteq ToSet(allocation.assignments[d])
        BY <1>7
      <4> QED BY <1>1, <1>4, <1>6, <4>2, <4>3
    <3> QED BY <1>11, <1>12, <3>1, <3>2
  <2>2. ASSUME NEW i \in DOMAIN routes', NEW j \in DOMAIN routes', i # j
        PROVE  ToSet(routes'[i].stops) \cap ToSet(routes'[j].stops) = {}
    <3>1. \A k \in 1..n, c \in 1..m :
             ToSet(routes[k].stops) \cap ToSet(result[c]) = {}
      <4> SUFFICES ASSUME NEW k \in 1..n, NEW c \in 1..m
                   PROVE  ToSet(routes[k].stops) \cap ToSet(result[c]) = {}
        OBVIOUS
      <4>1. ToSet(result[c]) \subseteq ToSet(allocation.assignments[d])
        BY <1>6, <1>7
      <4> QED BY <1>16, <1>17, <4>1
    <3>2. CASE i \in 1..n /\ j \in 1..n
      BY <1>5, <1>11, <2>2, <3>2 DEF Inv, Once
    <3>3. CASE \E c \in 1..m : i = n + c
      <4>1. PICK c \in 1..m : i = n + c  BY <3>3
      <4>2. routes'[i].stops = result[c]  BY <1>8, <1>11, <4>1
      <4>3. CASE j \in 1..n  BY <1>11, <3>1, <4>2, <4>3
      <4>4. CASE \E e \in 1..m : j = n + e
        <5>1. PICK e \in 1..m : j = n + e  BY <4>4
        <5>2. routes'[j].stops = result[e]  BY <1>8, <1>11, <5>1
        <5>3. c # e  BY <2>2, <4>1, <5>1
        <5>4. ToSet(chunks[c]) \cap ToSet(chunks[e]) = {}  BY <1>7, <5>3
        <5> QED BY <1>6, <4>2, <5>2, <5>4
      <4> QED BY <1>11, <1>12, <4>3, <4>4
    <3>4. CASE i \in 1..n /\ \E e \in 1..m : j = n + e
      <4>1. PICK e \in 1..m : j = n + e  BY <3>4
      <4>2. routes'[j].stops = result[e]  BY <1>8, <1>11, <4>1
      <4> QED BY <1>11, <3>1, <3>4, <4>2
    <3> QED BY <1>11, <1>12, <3>2, <3>3, <3>4
  <2>3. ASSUME faithful', NEW e \in 1..depot',
               NEW s \in ToSet(allocation'.assignments[e])
        PROVE  \E i \in DOMAIN routes' : s \in ToSet(routes'[i].stops)
    <3>1. CASE e \in 1..depot
      <4>1. PICK i \in 1..n : s \in ToSet(routes[i].stops)
        BY <1>1, <1>5, <2>3, <3>1 DEF Inv, Once
      <4>2. i \in DOMAIN routes'  BY <1>5, <1>11
      <4> QED BY <1>11, <4>1, <4>2
    <3>2. CASE e = d
      <4>1. PICK c \in 1..m : s \in ToSet(chunks[c])
        BY <1>1, <1>7, <2>3, <3>2
      <4>2. s \in ToSet(result[c])  BY <1>1, <1>6, <2>3, <4>1
      <4>3. n + c \in DOMAIN routes' /\ routes'[n + c].stops = result[c]
        BY <1>5, <1>8, <1>11
      <4> QED BY <4>2, <4>3
    <3> QED BY <1>1, <1>4, <3>1, <3>2
  <2> QED BY <2>1, <2>2, <2>3 DEF Once
<1>19. Labelled'
  <2>1. \A i \in 1..n :
           /\ Ids[routes[i].depot] = NoId => routes[i].label = <<i - 1>>
           /\ Ids[routes[i].depot] # NoId =>
                 \/ routes[i].label = <<Ids[routes[i].depot]>>
                 \/ \E k \in Nat :
                       routes[i].label = <<Ids[routes[i].depot], k>>
    BY <1>5 DEF Inv, Labelled, LabelsInOrder
  <2>2. \A c \in 1..m :
           /\ Ids[d] = NoId => lab(c) = <<n + c - 1>>
           /\ Ids[d] # NoId => \/ lab(c) = <<Ids[d]>> /\ m = 1
                               \/ lab(c) = <<Ids[d], c>>
    BY <1>5 DEF lab, VehicleLabel
  <2>3. \A e \in Depots : /\ Ids[e] \notin Nat
                          /\ Ids[d] # NoId /\ e # d => Ids[e] # Ids[d]
    BY <1>4, VrpAssumption DEF VrpAssumption
  <2>4. \A a, b : <<a>> = <<b>> => a = b  OBVIOUS
  <2>5. \A a, b, k, l : <<a, k>> = <<b, l>> => a = b /\ k = l  OBVIOUS
  <2>6. \A a, b, k : <<a>> # <<b, k>>
    <3> SUFFICES ASSUME NEW a, NEW b, NEW k, <<a>> = <<b, k>> PROVE FALSE
      OBVIOUS
    <3>1. Len(<<a>>) = 1 /\ Len(<<b, k>>) = 2  OBVIOUS
    <3> QED BY <3>1
  <2>7. ASSUME NEW i \in 1..n, NEW c \in 1..m
        PROVE  routes[i].label # lab(c)
    <3> DEFINE id == Ids[routes[i].depot]
    <3>1. id \notin Nat /\ Ids[d] \notin Nat
          /\ (Ids[d] # NoId => id # Ids[d])
      BY <1>4, <1>16, <2>3
    <3>2. i - 1 \in Nat /\ n + c - 1 \in Nat /\ i - 1 # n + c - 1
      BY <1>5
    <3> DEFINE old == routes[i].label
    <3>3. \/ id = NoId /\ old = <<i - 1>>
          \/ id # NoId /\ old = <<id>>
          \/ id # NoId /\ \E k \in Nat : old = <<id, k>>
      BY <2>1
    <3>4. \/ Ids[d] = NoId /\ lab(c) = <<n + c - 1>>
          \/ Ids[d] # NoId /\ lab(c) = <<Ids[d]>>
          \/ Ids[d] # NoId /\ lab(c) = <<Ids[d], c>>
      BY <2>2
    <3> HIDE DEF id, old
    <3> QED BY <2>4, <2>5, <2>6, <3>1, <3>2, <3>3, <3>4 DEF old
  <2>8. ASSUME NEW c \in 1..m, NEW e \in 1..m, c # e
        PROVE  lab(c) # lab(e)
    <3>1. n + c - 1 # n + e - 1  BY <1>5, <2>8
    <3>2. m # 1  BY <1>5, <2>8
    <3> QED BY <2>2, <2>4, <2>5, <2>8, <3>1, <3>2
  <2>9. \A i, j \in 1..n : i # j => routes[i].label # routes[j].label
    BY <1>5 DEF Inv, Labelled, LabelsInOrder
  <2>10. ASSUME NEW i \in DOMAIN routes', NEW j \in DOMAIN routes', i # j
         PROVE  routes'[i].label # routes'[j].label
    <3>1. CASE i \in 1..n /\ j \in 1..n  BY <1>11, <2>9, <2>10, <3>1
    <3>2. CASE i \in 1..n /\ \E e \in 1..m : j = n + e
      BY <1>8, <1>11, <2>7, <3>2
    <3>3. CASE (\E c \in 1..m : i = n + c) /\ j \in 1..n
      BY <1>8, <1>11, <2>7, <3>3
    <3>4. CASE (\E c \in 1..m : i = n + c) /\ (\E e \in 1..m : j = n + e)
      <4>1. PICK c \in 1..m : i = n + c  BY <3>4
      <4>2. PICK e \in 1..m : j = n + e  BY <3>4
      <4>3. c # e  BY <2>10, <4>1, <4>2
      <4> QED BY <1>8, <1>11, <2>8, <4>1, <4>2, <4>3
    <3> QED BY <1>11, <1>12, <3>1, <3>2, <3>3, <3>4
  <2>11. ASSUME NEW i \in DOMAIN routes'
         PROVE  LET id == Ids[routes'[i].depot]
                IN  /\ id = NoId => routes'[i].label = <<i - 1>>
                    /\ id # NoId => \/ routes'[i].label = <<id>>
                                    \/ \E k \in Nat :
                                          routes'[i].label = <<id, k>>
    <3>1. CASE i \in 1..n  BY <1>11, <2>1, <3>1
    <3>2. CASE \E c \in 1..m : i = n + c
      <4>1. PICK c \in 1..m : i = n + c  BY <3>2
      <4>2. routes'[i].depot = d /\ routes'[i].label = lab(c)
        BY <1>8, <1>11, <4>1
      <4>3. c \in Nat /\ i - 1 = n + c - 1  BY <1>5, <4>1
      <4>4. /\ Ids[d] = NoId => lab(c) = <<i - 1>>
            /\ Ids[d] # NoId => \/ lab(c) = <<Ids[d]>>
                                \/ \E k \in Nat : lab(c) = <<Ids[d], k>>
        BY <2>2, <4>3
      <4> HIDE DEF d
      <4> QED BY <4>2, <4>4
    <3> QED BY <1>11, <1>12, <3>1, <3>2
  <2> QED BY <2>10, <2>11 DEF Labelled, LabelsInOrder
<1> QED BY <1>3, <1>13, <1>14, <1>15, <1>18, <1>19 DEF Inv

LEMMA BatchIs ==
    ASSUME fetched \in 0..(NStops - 1) PROVE Batch \in 1..(NStops - fetched)
<1> DEFINE q == MaxCells \div NDepots
<1>1. q \in Nat  BY Constants, Divides
<1> HIDE DEF q
<1>2. Batch = Least(Most(Least(BatchSize, q), 1), NStops - fetched)
  BY DEF Batch, q
<1>3. BatchSize \in Nat \ {0} /\ NStops - fetched \in Nat \ {0}
      /\ NStops - fetched >= 1
  BY Constants
<1> QED BY <1>1, <1>2, <1>3 DEF Least, Most

LEMMA ExtendedIs ==
    ASSUME NEW rows \in [Depots -> Seq(0..Unreachable)],
           NEW table \in [Depots -> Seq(Legs)], NEW part \in 1..2
    PROVE  /\ Extended(rows, table, part) \in [Depots -> Seq(0..Unreachable)]
           /\ \A d \in Depots : Len(Extended(rows, table, part)[d])
                                   = Len(rows[d]) + Len(table[d])
<1> DEFINE R == 0..Unreachable
           more(d) == [i \in DOMAIN table[d] |-> table[d][i][part]]
<1>1. ASSUME NEW leg \in Legs PROVE leg[part] \in R
  BY VrpAssumption DEF VrpAssumption
<1> HIDE DEF R
<1>2. ASSUME NEW d \in Depots
      PROVE  more(d) \in Seq(R) /\ Len(more(d)) = Len(table[d])
  <2>1. table[d] \in Seq(Legs)  OBVIOUS
  <2>2. PICK t \in Seq(Legs) : t = table[d]  BY <2>1
  <2>3. \A i \in 1..Len(t) : t[i] \in Legs  BY <2>2
  <2>4. [i \in DOMAIN t |-> t[i][part]] \in [1..Len(t) -> R]
    BY <1>1, <2>3
  <2>5. [i \in DOMAIN t |-> t[i][part]] \in Seq(R)
        /\ Len([i \in DOMAIN t |-> t[i][part]]) = Len(t)
    BY <2>4
  <2> QED BY <2>2, <2>5
<1>3. Extended(rows, table, part) = [d \in Depots |-> rows[d] \o more(d)]
  BY DEF Extended
<1> HIDE DEF more
<1>4. \A d \in Depots : rows[d] \in Seq(R)  BY DEF R
<1>5. \A d \in Depots : rows[d] \o more(d) \in Seq(R)
                        /\ Len(rows[d] \o more(d)) = Len(rows[d]) + Len(more(d))
  BY <1>2, <1>4
<1> QED BY <1>2, <1>3, <1>5 DEF R

(* The rows stay of the length asked for as long as the engine is faithful.*)
LEMMA FetchIs ==
    ASSUME NEW n \in Nat \ {0}, Fetch(n), faithful \in BOOLEAN,
           durations \in [Depots -> Seq(0..Unreachable)],
           distances \in [Depots -> Seq(0..Unreachable)]
    PROVE  /\ durations' \in [Depots -> Seq(0..Unreachable)]
           /\ distances' \in [Depots -> Seq(0..Unreachable)]
           /\ faithful' \in BOOLEAN /\ (faithful' => faithful)
           /\ faithful' => \A d \in Depots :
                              /\ Len(durations'[d]) = Len(durations[d]) + n
                              /\ Len(distances'[d]) = Len(distances[d]) + n
<1>1. \A t \in [1..n -> Legs] : t \in Seq(Legs) /\ Len(t) = n  OBVIOUS
<1>2. CASE \E table \in Tables(n) :
             /\ durations' = Extended(durations, table, 1)
             /\ distances' = Extended(distances, table, 2)
             /\ UNCHANGED faithful
  <2>1. PICK table \in Tables(n) :
             /\ durations' = Extended(durations, table, 1)
             /\ distances' = Extended(distances, table, 2)
             /\ UNCHANGED faithful
    BY <1>2
  <2>2. table \in [Depots -> Seq(Legs)]
        /\ \A d \in Depots : Len(table[d]) = n
    BY <1>1 DEF Tables
  <2>3. 1 \in 1..2 /\ 2 \in 1..2  OBVIOUS
  <2>4. /\ Extended(durations, table, 1) \in [Depots -> Seq(0..Unreachable)]
        /\ \A d \in Depots : Len(Extended(durations, table, 1)[d])
                                = Len(durations[d]) + Len(table[d])
    BY <2>2, <2>3, ExtendedIs
  <2>5. /\ Extended(distances, table, 2) \in [Depots -> Seq(0..Unreachable)]
        /\ \A d \in Depots : Len(Extended(distances, table, 2)[d])
                                = Len(distances[d]) + Len(table[d])
    BY <2>2, <2>3, ExtendedIs
  <2> QED BY <2>1, <2>2, <2>4, <2>5
<1>3. CASE \E leg \in Legs, lens \in [Depots -> (n - 1)..(n + 1)],
              both \in BOOLEAN :
              LET asked == [d \in Depots |-> n]
              IN /\ lens # asked
                 /\ durations' = Extended(durations, Table(lens, leg), 1)
                 /\ distances' = Extended(distances,
                                   Table(IF both THEN lens ELSE asked, leg), 2)
                 /\ faithful' = FALSE
  <2> DEFINE asked == [d \in Depots |-> n]
  <2>1. PICK leg \in Legs, lens \in [Depots -> (n - 1)..(n + 1)],
             both \in BOOLEAN :
                 /\ durations' = Extended(durations, Table(lens, leg), 1)
                 /\ distances' = Extended(distances,
                                   Table(IF both THEN lens ELSE asked, leg), 2)
                 /\ faithful' = FALSE
    BY <1>3
  <2>2. ASSUME NEW ls \in [Depots -> (n - 1)..(n + 1)]
        PROVE  Table(ls, leg) \in [Depots -> Seq(Legs)]
    <3>1. \A d \in Depots : ls[d] \in Nat  OBVIOUS
    <3>2. \A k \in Nat : [i \in 1..k |-> leg] \in Seq(Legs)  OBVIOUS
    <3> QED BY <3>1, <3>2 DEF Table
  <2>3. asked \in [Depots -> (n - 1)..(n + 1)]  OBVIOUS
  <2> HIDE DEF asked
  <2> DEFINE other == IF both THEN lens ELSE asked
  <2>4. Table(lens, leg) \in [Depots -> Seq(Legs)]
        /\ Table(other, leg) \in [Depots -> Seq(Legs)]
    BY <2>2, <2>3
  <2>5. 1 \in 1..2 /\ 2 \in 1..2  OBVIOUS
  <2> QED BY <2>1, <2>4, <2>5, ExtendedIs
<1> QED BY <1>2, <1>3 DEF Fetch

LEMMA TableInv ==
    ASSUME Inv, FetchTable PROVE Inv'
<1> USE DEF requestVars, depotVars
<1> DEFINE n == Batch
<1>1. /\ pc = "table" /\ Fetch(n) /\ fetched' = fetched + n
      /\ IF fetched' < NStops THEN UNCHANGED <<pc, allocation>>
         ELSE Allocate(durations', distances')
      /\ UNCHANGED <<requestVars, depot, depotVars, routes>>
  BY DEF FetchTable
<1>2. fetched \in 0..(NStops - 1) /\ depot = 0 /\ routes = <<>>
      /\ (faithful => \A d \in Depots : /\ Len(durations[d]) = fetched
                                        /\ Len(distances[d]) = fetched)
  BY <1>1, Constants DEF Inv, Typed, TypeOK, Phased
<1>3. n \in 1..(NStops - fetched)  BY <1>2, BatchIs
<1> HIDE DEF n
<1>4. n \in Nat \ {0} /\ fetched' \in 0..NStops /\ NStops \in Nat
  BY <1>1, <1>2, <1>3, Constants
<1>5. /\ durations' \in [Depots -> Seq(0..Unreachable)]
      /\ distances' \in [Depots -> Seq(0..Unreachable)]
      /\ faithful' \in BOOLEAN /\ (faithful' => faithful)
      /\ faithful' => \A d \in Depots :
                         /\ Len(durations'[d]) = Len(durations[d]) + n
                         /\ Len(distances'[d]) = Len(distances[d]) + n
  BY <1>1, <1>4, FetchIs DEF Inv, Typed, TypeOK
<1>6. faithful' => \A d \in Depots : /\ Len(durations'[d]) = fetched'
                                     /\ Len(distances'[d]) = fetched'
  BY <1>1, <1>2, <1>5
<1>7. chunks' = <<>> /\ task' = <<>> /\ chunks = <<>> /\ task = <<>>
  BY <1>1 DEF Inv, Phased
<1>8. /\ Once' /\ Labelled' /\ Wide' /\ CallsBounded'
  <2>1. Once'
    <3>1. DOMAIN routes' = {} /\ 1..depot' = {}  BY <1>1, <1>2
    <3> QED BY <3>1 DEF Once
  <2>2. Labelled'  BY <1>1 DEF Inv, Labelled, LabelsInOrder
  <2>3. Wide'  BY <1>7 DEF Wide
  <2> DEFINE old == {c \in DOMAIN task : task[c] = "calling"}
  <2>4. CallsBounded'
    <3>1. Cardinality({}) = 0  BY FS_EmptySet
    <3>2. {c \in DOMAIN task' : task'[c] = "calling"} = {}  BY <1>7
    <3>3. Cardinality({c \in DOMAIN task' : task'[c] = "calling"})
             <= Concurrency
      BY <3>1, <3>2, Constants
    <3> QED BY <1>7, <3>2, <3>3 DEF CallsBounded
  <2> QED BY <2>1, <2>2, <2>3, <2>4
<1>9. CASE fetched' < NStops
  <2>1. UNCHANGED <<pc, allocation>>  BY <1>1, <1>9
  <2>2. Typed'  BY <1>1, <1>4, <1>5, <2>1 DEF Inv, Typed, TypeOK
  <2>3. Phased' /\ Split' /\ Sounded' /\ Solving'
    BY <1>1, <1>2, <1>4, <1>6, <1>7, <1>9, <2>1
       DEF Phased, Split, Sounded, Solving
  <2> QED BY <1>8, <2>2, <2>3 DEF Inv
<1>10. CASE ~(fetched' < NStops)
  <2> DEFINE a == AllocateStops(mode, Air, durations', distances')
  <2>1. Allocate(durations', distances') /\ fetched' = NStops
    BY <1>1, <1>4, <1>10
  <2>2. CASE ~WellShaped(durations', distances', NDepots, NStops)
    <3>1. allocation' = allocation /\ pc' = "error"
      BY <2>1, <2>2 DEF Allocate
    <3>2. Typed'  BY <1>1, <1>4, <1>5, <3>1 DEF Inv, Typed, TypeOK, Phases
    <3>3. Phased' /\ Split' /\ Sounded' /\ Solving'
      BY <1>7, <3>1 DEF Phased, Split, Sounded, Solving
    <3> QED BY <1>8, <3>2, <3>3 DEF Inv
  <2>3. CASE WellShaped(durations', distances', NDepots, NStops)
    <3>1. allocation' = a /\ pc' = IF endpoint = "vrp" THEN "depot" ELSE "ok"
      BY <2>1, <2>3 DEF Allocate
    <3>2. /\ Allocated(a, Len(distances'[1]) = NStops)
          /\ Sound(mode, a, durations', distances')
      BY <1>5, <2>3, AllocateIs
    <3> HIDE DEF a
    <3>3. faithful' => Len(distances'[1]) = NStops
      BY <1>6, <2>1, Constants
    <3>4. Allocated(allocation', faithful')
      BY <3>1, <3>2, <3>3 DEF Allocated
    <3>5. Typed'
      <4>1. \A d \in Depots : allocation'.assignments[d] \in Seq(Stops)
        BY <3>4 DEF Allocated
      <4>2. allocation'.unreachable \in Seq(Stops)
        BY <3>4 DEF Allocated
      <4>3. pc' \in Phases  BY <3>1 DEF Phases
      <4> QED BY <1>1, <1>4, <1>5, <4>1, <4>2, <4>3 DEF Inv, Typed, TypeOK
    <3>6. Split'  BY <3>4 DEF Split
    <3>7. Sounded'
      <4>1. mode' = mode  BY <1>1
      <4>2. Sound(mode', allocation', durations', distances')
        BY <3>1, <3>2, <4>1
      <4> QED BY <4>2 DEF Sounded
    <3>8. Phased' /\ Solving'
      BY <1>1, <1>7, <3>1 DEF Phased, Solving
    <3> QED BY <1>8, <3>5, <3>6, <3>7, <3>8 DEF Inv
  <2> QED BY <2>2, <2>3
<1> QED BY <1>9, <1>10

-----------------------------------------------------------------------------
(* The theorem.                                                            *)

LEMMA InitInv == Init => Inv
<1> SUFFICES ASSUME Init PROVE Inv  OBVIOUS
<1> USE DEF Init
<1>1. TypeOK
  <2>1. \A d \in Depots : /\ durations[d] \in Seq(0..Unreachable)
                          /\ distances[d] \in Seq(0..Unreachable)
                          /\ allocation.assignments[d] \in Seq(Stops)
    BY DEF NoRows, NoAllocation
  <2>2. allocation.unreachable \in Seq(Stops)  BY DEF NoAllocation
  <2>3. bearing \in [Stops -> 0..(Tau - 1)]  BY Constants
  <2> QED BY <2>1, <2>2, <2>3, Constants DEF TypeOK, Phases
<1>2. Typed  BY <1>1 DEF Typed, NoRows
<1>3. Phased  BY Constants DEF Phased, NoRows
<1>4. Split /\ Sounded /\ Solving  BY DEF Split, Sounded, Solving
<1>5. Once /\ Labelled /\ Wide
  BY DEF Once, Labelled, LabelsInOrder, Wide
<1>6. CallsBounded
  <2> DEFINE none == {c \in DOMAIN task : task[c] = "calling"}
  <2>1. none = {}  OBVIOUS
  <2> HIDE DEF none
  <2>2. Cardinality(none) <= Concurrency /\ \A c \in none : FALSE
    BY <2>1, FS_EmptySet, Constants
  <2> QED BY <2>2 DEF CallsBounded, none
<1> QED BY <1>2, <1>3, <1>4, <1>5, <1>6 DEF Inv

LEMMA NextInv == Inv /\ [Next]_vars => Inv'
<1> SUFFICES ASSUME Inv, [Next]_vars PROVE Inv'  OBVIOUS
<1>1. CASE UNCHANGED vars
  <2> USE <1>1 DEF vars, requestVars, tableVars, depotVars
  <2>1. Typed'  BY DEF Inv, Typed, TypeOK
  <2>2. Phased' /\ Split' /\ Sounded'
    BY DEF Inv, Phased, Split, Sounded
  <2>3. Solving'  BY DEF Inv, Solving, ChunkSize
  <2>4. Once' /\ Labelled'  BY DEF Inv, Once, Labelled, LabelsInOrder
  <2>5. Wide'  BY DEF Inv, Wide, CutWide, Wedge
  <2>6. CallsBounded'  BY DEF Inv, CallsBounded
  <2> QED BY <2>1, <2>2, <2>3, <2>4, <2>5, <2>6 DEF Inv
<1>2. CASE Handler
  BY <1>2, TableInv, FailInv, SkipInv, BeginInv, EndInv, RespondInv,
     JoinRouteInv, JoinErrorInv DEF Handler
<1>3. CASE \E c \in Stops : Task(c)  BY <1>3, TaskInv
<1>4. CASE Disconnect  BY <1>4, DisconnectInv
<1> QED BY <1>1, <1>2, <1>3, <1>4 DEF Next

(* A stop that sequences without repetition or overlap have is in one      *)
(* place.                                                                  *)
LEMMA PlacesAre ==
    ASSUME NEW seqs, NEW s,
           \A i \in DOMAIN seqs : IsInjective(seqs[i]),
           \A i, j \in DOMAIN seqs :
              i # j => ToSet(seqs[i]) \cap ToSet(seqs[j]) = {}
    PROVE  Cardinality(Places(seqs, s)) =
              IF \E i \in DOMAIN seqs : s \in ToSet(seqs[i]) THEN 1 ELSE 0
<1> DEFINE P == Places(seqs, s)
<1>1. \A p \in P : \E i \in DOMAIN seqs : \E j \in DOMAIN seqs[i] :
         p = <<i, j>> /\ seqs[i][j] = s
  BY DEF Places
<1>2. \A i \in DOMAIN seqs : \A j \in DOMAIN seqs[i] :
         seqs[i][j] = s => <<i, j>> \in P
  BY DEF Places
<1> HIDE DEF P
<1>3. \A i \in DOMAIN seqs : \A j \in DOMAIN seqs[i] :
         seqs[i][j] = s => s \in ToSet(seqs[i])
  BY DEF ToSet
<1>4. ASSUME NEW p \in P, NEW q \in P PROVE p = q
  <2>1. PICK i \in DOMAIN seqs : \E j \in DOMAIN seqs[i] :
           p = <<i, j>> /\ seqs[i][j] = s
    BY <1>1
  <2>2. PICK j \in DOMAIN seqs[i] : p = <<i, j>> /\ seqs[i][j] = s
    BY <2>1
  <2>3. PICK k \in DOMAIN seqs : \E l \in DOMAIN seqs[k] :
           q = <<k, l>> /\ seqs[k][l] = s
    BY <1>1
  <2>4. PICK l \in DOMAIN seqs[k] : q = <<k, l>> /\ seqs[k][l] = s
    BY <2>3
  <2>5. i = k  BY <1>3, <2>2, <2>4
  <2>6. j = l  BY <2>2, <2>4, <2>5 DEF IsInjective
  <2> QED BY <2>2, <2>4, <2>5, <2>6
<1>5. CASE \E i \in DOMAIN seqs : s \in ToSet(seqs[i])
  <2>1. PICK p : p \in P  BY <1>2, <1>5 DEF ToSet
  <2>2. P = {p}  BY <1>4, <2>1
  <2> QED BY <1>5, <2>2, FS_Singleton DEF P
<1>6. CASE ~\E i \in DOMAIN seqs : s \in ToSet(seqs[i])
  <2>1. P = {}  BY <1>1, <1>3, <1>6
  <2> QED BY <1>6, <2>1, FS_EmptySet DEF P
<1> QED BY <1>5, <1>6

(* The keys of the depots are told apart, so each key's stops are those of *)
(* its depot.                                                              *)
LEMMA ReportIs ==
    /\ \A d, e \in Depots : Key(d) = Key(e) => d = e
    /\ DOMAIN Report = {Key(d) : d \in Depots}
    /\ \A d \in Depots : Report[Key(d)] = allocation.assignments[d]
<1>1. \A a, b : <<a>> = <<b>> => a = b  OBVIOUS
<1>2. \A d, e \in Depots : Key(d) = Key(e) => d = e
  <2> SUFFICES ASSUME NEW d \in Depots, NEW e \in Depots, Key(d) = Key(e)
               PROVE  d = e
    OBVIOUS
  <2>1. d \in Nat /\ e \in Nat /\ d - 1 \in Nat /\ e - 1 \in Nat
    BY DEF Depots
  <2>2. /\ Ids[d] \notin Nat /\ Ids[e] \notin Nat
        /\ d # e /\ Ids[d] # NoId => Ids[d] # Ids[e]
    BY VrpAssumption DEF VrpAssumption
  <2>3. (IF Ids[d] # NoId THEN Ids[d] ELSE d - 1)
           = IF Ids[e] # NoId THEN Ids[e] ELSE e - 1
    BY <1>1 DEF Key
  <2> QED BY <2>1, <2>2, <2>3
<1>3. ASSUME NEW d \in Depots
      PROVE  Report[Key(d)] = allocation.assignments[d]
  <2> DEFINE Latest(f) == Key(f) = Key(d) /\
                        \A e \in Depots : Key(e) = Key(d) => e <= f
  <2>1. \A e \in Depots : Key(e) = Key(d) => e <= d
    <3>1. d <= d  BY DEF Depots
    <3> QED BY <1>2, <3>1
  <2>2. \E f \in Depots : Latest(f)  BY <2>1
  <2>3. (CHOOSE f \in Depots : Latest(f)) = d
    <3>1. \A f \in Depots : Latest(f) => f = d  BY <1>2
    <3> HIDE DEF Latest
    <3> QED BY Zenon, <2>2, <3>1
  <2>4. Report[Key(d)] = allocation.assignments[CHOOSE f \in Depots : Latest(f)]
    BY Zenon DEF Report
  <2> QED BY Zenon, <2>3, <2>4
<1>4. DOMAIN Report = {Key(d) : d \in Depots}  BY Zenon DEF Report
<1> QED BY <1>2, <1>3, <1>4

LEMMA StopsOnce ==
    ASSUME Inv, pc = "ok", NEW s \in Stops
    PROVE  LET found == Cardinality(Answered(s))
                          + Cardinality(Places(<<allocation.unreachable>>, s))
           IN  found <= 1 /\ (faithful => found = 1)
<1> DEFINE A == Cardinality(Answered(s))
           U == Cardinality(Places(<<allocation.unreachable>>, s))
           given == \E d \in Depots : s \in ToSet(allocation.assignments[d])
           left == s \in ToSet(allocation.unreachable)
<1>1. Allocated(allocation, faithful)  BY DEF Inv, Split
<1>2. U = IF left THEN 1 ELSE 0
  <2> DEFINE seqs == <<allocation.unreachable>>
  <2>1. DOMAIN seqs = {1} /\ seqs[1] = allocation.unreachable  OBVIOUS
  <2>2. IsInjective(allocation.unreachable)  BY <1>1 DEF Allocated
  <2> HIDE DEF seqs
  <2>3. Cardinality(Places(seqs, s)) =
           IF \E i \in DOMAIN seqs : s \in ToSet(seqs[i]) THEN 1 ELSE 0
    BY <2>1, <2>2, PlacesAre
  <2> QED BY <2>1, <2>3 DEF seqs
<1>3. ~(given /\ left)  BY <1>1 DEF Allocated
<1>4. faithful => given \/ left  BY <1>1 DEF Allocated
<1>5. /\ A = 0 \/ A = 1
      /\ A = 1 => given
      /\ faithful /\ given => A = 1
  <2>1. CASE endpoint = "vrp"
    <3> DEFINE seqs == [i \in DOMAIN routes |-> routes[i].stops]
    <3>1. DOMAIN seqs = DOMAIN routes
          /\ \A i \in DOMAIN routes : seqs[i] = routes[i].stops
      OBVIOUS
    <3>2. Answered(s) = Places(seqs, s)  BY <2>1 DEF Answered
    <3> HIDE DEF seqs
    <3>3. /\ \A i \in DOMAIN seqs : IsInjective(seqs[i])
          /\ \A i, j \in DOMAIN seqs :
                i # j => ToSet(seqs[i]) \cap ToSet(seqs[j]) = {}
      BY <3>1 DEF Inv, Once
    <3>4. A = IF \E i \in DOMAIN seqs : s \in ToSet(seqs[i]) THEN 1 ELSE 0
      BY <3>2, <3>3, PlacesAre
    <3>5. (\E i \in DOMAIN seqs : s \in ToSet(seqs[i])) => given
      BY <3>1 DEF Inv, Once, Typed, TypeOK
    <3>6. faithful /\ given => \E i \in DOMAIN seqs : s \in ToSet(seqs[i])
      <4>1. depot = NDepots  BY <2>1 DEF Inv, Phased
      <4> QED BY <3>1, <4>1 DEF Inv, Once, Depots
    <3> HIDE DEF given
    <3> QED BY <3>4, <3>5, <3>6
  <2>2. CASE endpoint # "vrp"
    <3>1. Answered(s) = Places(Report, s)  BY <2>2 DEF Answered
    <3>2. \A k \in DOMAIN Report : \E d \in Depots :
             k = Key(d) /\ Report[k] = allocation.assignments[d]
      BY ReportIs
    <3>3. \A k \in DOMAIN Report : IsInjective(Report[k])
      BY <1>1, <3>2 DEF Allocated
    <3>4. ASSUME NEW k \in DOMAIN Report, NEW l \in DOMAIN Report, k # l
          PROVE  ToSet(Report[k]) \cap ToSet(Report[l]) = {}
      <4>1. PICK d \in Depots :
               k = Key(d) /\ Report[k] = allocation.assignments[d]
        BY <3>2
      <4>2. PICK e \in Depots :
               l = Key(e) /\ Report[l] = allocation.assignments[e]
        BY <3>2
      <4>3. d # e  BY <3>4, <4>1, <4>2
      <4> QED BY <1>1, <4>1, <4>2, <4>3 DEF Allocated
    <3>5. A = IF \E k \in DOMAIN Report : s \in ToSet(Report[k])
              THEN 1 ELSE 0
      BY <3>1, <3>3, <3>4, PlacesAre
    <3>6. (\E k \in DOMAIN Report : s \in ToSet(Report[k])) <=> given
      BY <3>2, ReportIs
    <3> HIDE DEF given
    <3> QED BY <3>5, <3>6
  <2> QED BY <2>1, <2>2
<1> HIDE DEF A, U, given, left
<1>6. A + U <= 1 /\ (faithful => A + U = 1)  BY <1>2, <1>3, <1>4, <1>5
<1> QED BY <1>6 DEF A, U

LEMMA InvSuffices == Inv => AnswerIsSound
<1> SUFFICES ASSUME Inv PROVE AnswerIsSound  OBVIOUS
<1>1. EveryStopOnce  BY StopsOnce DEF EveryStopOnce
<1>2. LabelsInOrder  BY DEF Inv, Labelled
<1>3. AllocationSound
  BY DEF Inv, Sounded, Sound, AllocationSound
<1>4. SweepCutsWidestGap
  BY DEF Inv, Wide, CutWide, Wedge, SweepCutsWidestGap
<1> QED BY <1>1, <1>2, <1>3, <1>4 DEF Inv, Typed, AnswerIsSound

(* vrp and vrp_allocate, with any number of depots and stops, any engine   *)
(* answers and any order of the chunks: an answer serves each stop at most *)
(* once and, if the engine answers in the shape asked for, serves or       *)
(* reports every one; labels are told apart; a stop's depot is within the  *)
(* band of the best; the sweep cuts at the widest gap; no call outlives    *)
(* its request.                                                            *)
THEOREM AnswersAreSound == Spec => []AnswerIsSound
BY InvSuffices, InitInv, NextInv, PTL DEF Spec
=============================================================================
