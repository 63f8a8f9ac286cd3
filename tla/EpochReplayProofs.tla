-------------------------- MODULE EpochReplayProofs --------------------------
(***************************************************************************)
(* Proofs about EpochReplay, for any orders, vehicles, waves, arrivals and *)
(* policies.                                                               *)
(*                                                                         *)
(* EveryOrderGoesInTime is not inductive: that no order is lost at the end *)
(* of the day needs that what is visible is what was sent and what is      *)
(* carried (Accounted), and that an order is sent in time needs that what  *)
(* is carried can still be served when the next wave starts (Waits), which *)
(* is the must-go rule of epochs.py applied at every earlier wave.         *)
(*                                                                         *)
(* HoldingIsHonest needs besides that what is published is the first fit   *)
(* of what is carried (Published) and that work is noticed within an epoch *)
(* of its arrival (Noticed).                                               *)
(***************************************************************************)
EXTENDS EpochReplay, SubsequencesProofs

Visible == {o \in Orders : firstSeen[o] # Unseen}

(* One row of the replay.                                                  *)
Counts == {Cardinality(S) : S \in SUBSET Orders}

Records ==
    [wave : 1..EpochCount,
     dispatched : Seq(Orders), postponed : Seq(Orders),
     must : Seq(Orders), forced : Seq(Orders),
     delay : Nat, moves : Counts]

Typed ==
    /\ TypeOK
    /\ day \in [Orders -> Nat] /\ \A o \in Orders : day[o] <= Horizon.end
    /\ records \in Seq(Records)

Accounted ==
    /\ Sent \in Seq(Orders)
    /\ IsInjective(Sent \o carried)
    /\ ToSet(Sent \o carried) = Visible
    /\ dispatchedEver = ToSet(Sent)
    /\ \A i \in DOMAIN records :
          ToSet(records[i].dispatched) \subseteq dispatchedEver

Waits ==
    carried # <<>> =>
       /\ wave <= EpochCount
       /\ \A o \in ToSet(carried) : Servable(o, Epoch(wave).start)

AllGone == Over => ToSet(Sent) = Orders

Inv == Typed /\ Accounted /\ Waits /\ AllGone /\ SentWhileServable

-----------------------------------------------------------------------------
(* Sums of naturals over finite sets.                                       *)
LEMMA SumIsNat ==
    ASSUME NEW S, IsFiniteSet(S), NEW f, \A x \in S : f[x] \in Nat
    PROVE  SumFunctionOnSet(f, S) \in Nat
<1> DEFINE Bad == {T \in SUBSET S : SumFunctionOnSet(f, T) \notin Nat}
<1>1. Bad = {}
  <2>1. SUFFICES ASSUME Bad # {} PROVE FALSE  OBVIOUS
  <2>2. Bad \in SUBSET SUBSET S  OBVIOUS
  <2>3. PICK T \in Bad : /\ IsFiniteSet(T)
                         /\ \A x \in T : T \ {x} \notin Bad
    <3> HIDE DEF Bad
    <3> QED BY <2>1, <2>2, SmallestSet
  <2>4. CASE T = {}
    <3>1. SumFunctionOnSet(f, T) = 0  BY <2>3, <2>4, SumUnfolds
    <3> QED BY <2>3, <3>1
  <2>5. CASE T # {}
    <3>1. PICK x \in T :
             SumFunctionOnSet(f, T) = f[x] + SumFunctionOnSet(f, T \ {x})
      BY <2>3, <2>5, SumUnfolds
    <3>2. T \in SUBSET S  BY <2>2
    <3>3. SumFunctionOnSet(f, T \ {x}) \in Nat /\ f[x] \in Nat
      BY <2>3, <3>2
    <3> QED BY <2>3, <3>1, <3>3
  <2> QED BY <2>4, <2>5
<1> QED BY <1>1

LEMMA SumUnion ==
    ASSUME NEW A, IsFiniteSet(A), NEW B, IsFiniteSet(B), A \cap B = {},
           NEW f, \A x \in A \cup B : f[x] \in Nat
    PROVE  SumFunctionOnSet(f, A \cup B)
              = SumFunctionOnSet(f, A) + SumFunctionOnSet(f, B)
<1> DEFINE Sum(T) == SumFunctionOnSet(f, T)
           Bad == {T \in SUBSET B : Sum(A \cup T) # Sum(A) + Sum(T)}
<1>1. Bad = {}
  <2>1. SUFFICES ASSUME Bad # {} PROVE FALSE  OBVIOUS
  <2>2. Bad \in SUBSET SUBSET B  OBVIOUS
  <2>3. PICK T \in Bad : /\ IsFiniteSet(T)
                         /\ \A x \in T : T \ {x} \notin Bad
    <3> HIDE DEF Bad
    <3> QED BY <2>1, <2>2, SmallestSet
  <2>4. T \in SUBSET B  BY <2>2
  <2>5. Sum(A) \in Nat
    <3>1. \A x \in A : f[x] \in Nat  OBVIOUS
    <3> QED BY <3>1, SumIsNat
  <2>6. CASE T = {}
    <3>1. Sum(T) = 0  BY <2>3, <2>6, SumUnfolds
    <3>2. A \cup T = A  BY <2>6
    <3>3. Sum(A \cup T) # Sum(A) + Sum(T)  OBVIOUS
    <3> HIDE DEF Sum
    <3> QED BY <2>5, <3>1, <3>2, <3>3
  <2>7. CASE T # {}
    <3>1. PICK x \in T : Sum(T) = f[x] + Sum(T \ {x})
      BY <2>3, <2>7, SumUnfolds
    <3>2. /\ IsFiniteSet(A \cup T) /\ IsFiniteSet(T \ {x})
          /\ \A y \in A \cup T : f[y] \in Nat
          /\ \A y \in T \ {x} : f[y] \in Nat
          /\ x \in A \cup T
      BY <2>3, <2>4, FS_Union, FS_Subset
    <3>3. Sum(A \cup T) = f[x] + Sum((A \cup T) \ {x})
      BY <3>2, SumWithout
    <3>4. (A \cup T) \ {x} = A \cup (T \ {x})  BY <2>4, <3>1
    <3>5. Sum(A \cup (T \ {x})) = Sum(A) + Sum(T \ {x})
      BY <2>3, <2>4, <3>1
    <3>6. Sum(T \ {x}) \in Nat /\ f[x] \in Nat  BY <3>2, SumIsNat
    <3>7. Sum(A \cup T) # Sum(A) + Sum(T)  OBVIOUS
    <3>8. Sum(A \cup T) = f[x] + Sum(A \cup (T \ {x}))  BY <3>3, <3>4
    <3> DEFINE all == Sum(A \cup T)
               rest == Sum(A \cup (T \ {x}))
               a == Sum(A)
               t == Sum(T)
               u == Sum(T \ {x})
    <3>9. /\ a \in Nat /\ u \in Nat /\ f[x] \in Nat /\ all # a + t
          /\ all = f[x] + rest /\ rest = a + u /\ t = f[x] + u
      BY <2>5, <3>1, <3>5, <3>6, <3>7, <3>8
    <3> HIDE DEF all, rest, a, t, u
    <3> QED BY <3>9
  <2> QED BY <2>6, <2>7
<1>2. B \in SUBSET B /\ B \notin Bad  BY <1>1
<1> QED BY <1>2

(* Entries that are at least f and at most c more, so is the sum.          *)
LEMMA SumBetween ==
    ASSUME NEW S, IsFiniteSet(S), NEW f, NEW h, NEW c \in Nat,
           \A x \in S : /\ f[x] \in Nat /\ h[x] \in Nat
                        /\ f[x] <= h[x] /\ h[x] <= f[x] + c
    PROVE  /\ SumFunctionOnSet(f, S) <= SumFunctionOnSet(h, S)
           /\ SumFunctionOnSet(h, S)
                 <= SumFunctionOnSet(f, S) + Cardinality(S) * c
<1> DEFINE F(T) == SumFunctionOnSet(f, T)
           H(T) == SumFunctionOnSet(h, T)
           Near(T) == F(T) <= H(T) /\ H(T) <= F(T) + Cardinality(T) * c
           Bad == {T \in SUBSET S : ~Near(T)}
<1>1. Bad = {}
  <2>1. SUFFICES ASSUME Bad # {} PROVE FALSE  OBVIOUS
  <2>2. Bad \in SUBSET SUBSET S  OBVIOUS
  <2>3. PICK T \in Bad :
           /\ IsFiniteSet(T)
           /\ \A x \in T : IsFiniteSet(T \ {x}) /\ T \ {x} \notin Bad
    <3> HIDE DEF Bad
    <3> QED BY <2>1, <2>2, SmallestSet
  <2>4. T \in SUBSET S  BY <2>2
  <2>5. CASE T = {}
    <3>1. F(T) = 0 /\ H(T) = 0  BY <2>3, <2>5, SumUnfolds
    <3>2. Cardinality(T) = 0  BY <2>5, FS_EmptySet
    <3>3. ~Near(T)  OBVIOUS
    <3> HIDE DEF F, H
    <3> QED BY <3>1, <3>2, <3>3
  <2>6. CASE T # {}
    <3>1. PICK x \in T : F(T) = f[x] + F(T \ {x})
      BY <2>3, <2>6, SumUnfolds
    <3>2. \A y \in T : h[y] \in Nat /\ f[y] \in Nat  BY <2>4
    <3>3. H(T) = h[x] + H(T \ {x})  BY <2>3, <3>2, SumWithout
    <3>4. /\ f[x] \in Nat /\ h[x] \in Nat
          /\ f[x] <= h[x] /\ h[x] <= f[x] + c
      BY <2>4
    <3>5. F(T \ {x}) \in Nat /\ H(T \ {x}) \in Nat
      <4>1. IsFiniteSet(T \ {x})  BY <2>3
      <4>2. \A y \in T \ {x} : h[y] \in Nat /\ f[y] \in Nat  BY <3>2
      <4> QED BY <4>1, <4>2, SumIsNat
    <3>6. Near(T \ {x})  BY <2>3, <2>4
    <3>7. Cardinality(T \ {x}) = Cardinality(T) - 1
          /\ Cardinality(T) \in Nat
      BY <2>3, FS_RemoveElement, FS_CardinalityType
    <3>8. Cardinality(T) * c = Cardinality(T \ {x}) * c + c
      <4>1. \A k, m \in Int : k = m + 1 => k * c = m * c + c  OBVIOUS
      <4> DEFINE k == Cardinality(T)
                 m == Cardinality(T \ {x})
      <4>2. k \in Nat /\ m = k - 1  BY <3>7
      <4> HIDE DEF k, m
      <4>3. k \in Int /\ m \in Int /\ k = m + 1  BY <4>2
      <4>4. k * c = m * c + c  BY <4>1, <4>3
      <4> QED BY <4>4 DEF k, m
    <3>9. Cardinality(T \ {x}) * c \in Int
      <4>1. Cardinality(T \ {x}) \in Int  BY <3>7
      <4> QED BY <4>1
    <3>10. ~Near(T)  OBVIOUS
    <3> HIDE DEF F, H
    <3>11. F(T \ {x}) <= H(T \ {x})
           /\ H(T \ {x}) <= F(T \ {x}) + Cardinality(T \ {x}) * c
      BY <3>6
    <3>12. F(T) <= H(T)  BY <3>1, <3>3, <3>4, <3>5, <3>11
    <3>13. H(T) <= F(T) + Cardinality(T) * c
      BY <3>1, <3>3, <3>4, <3>5, <3>8, <3>9, <3>11
    <3> QED BY <3>10, <3>12, <3>13
  <2> QED BY <2>5, <2>6
<1>2. S \in SUBSET S /\ S \notin Bad  BY <1>1
<1> QED BY <1>2

-----------------------------------------------------------------------------
(* The waves.                                                              *)

LEMMA Sets ==
    /\ Orders \subseteq Nat /\ IsFiniteSet(Orders)
    /\ Unseen \notin Nat
    /\ Horizon.start \in Nat /\ Horizon.end \in Nat
    /\ Horizon.start < Horizon.end
    /\ EpochLength \in Nat \ {0}
<1>1. Cardinality(Vehicles) \in Nat /\ Cardinality(Vehicles) # 0
      /\ Cardinality(Orders) \in Nat
  BY FS_CardinalityType, FS_EmptySet, DispatchAssumption
     DEF DispatchAssumption
<1>2. 1 \in Vehicles  BY <1>1, DispatchAssumption DEF DispatchAssumption
<1>3. ShiftStart[1] \in Nat
  BY <1>2, DispatchAssumption DEF DispatchAssumption
<1>4. /\ Orders \subseteq Nat /\ IsFiniteSet(Orders)
      /\ HorizonEnd \in Nat /\ ShiftStart[1] < HorizonEnd
      /\ EpochLength \in Nat \ {0}
  BY <1>1, DispatchAssumption DEF DispatchAssumption
<1>5. Unseen \notin Nat  BY ReplayAssumption DEF ReplayAssumption
<1>6. Horizon.start = ShiftStart[1] /\ Horizon.end = HorizonEnd
  BY DEF Horizon
<1> QED BY <1>3, <1>4, <1>5, <1>6

LEMMA Quotient ==
    ASSUME NEW a \in Nat, NEW b \in Nat \ {0}
    PROVE  /\ a \div b \in Nat
           /\ (a \div b) * b <= a /\ a < (a \div b) * b + b
OBVIOUS

(* The waves cover the horizon without a gap.                              *)
LEMMA Waves ==
    /\ EpochCount \in Nat \ {0}
    /\ \A i \in 1..EpochCount : Epoch(i).start \in Nat
    /\ \A i \in 1..(EpochCount - 1) : Epoch(i).end = Epoch(i + 1).start
    /\ \A i \in 1..(EpochCount - 1) :
          Epoch(i + 1).start = Epoch(i).start + EpochLength
    /\ Epoch(1).start = Horizon.start
    /\ Epoch(EpochCount).end = Horizon.end
<1> DEFINE L == EpochLength
           span == Horizon.end - Horizon.start
           n == EpochCount
<1>1. L \in Nat \ {0} /\ span \in Nat \ {0} /\ Horizon.start \in Nat
      /\ Horizon.end = Horizon.start + span
  BY Sets
<1>2. n = (span + L - 1) \div L  BY DEF EpochCount
<1>3. \A i : Epoch(i).start = Horizon.start + (i - 1) * L
  BY DEF Epoch
<1>4. \A i : Epoch(i).end = Min({Horizon.start + (i - 1) * L + L, Horizon.end})
  BY DEF Epoch
<1> HIDE DEF L, span, n
<1>5. span + L - 1 \in Nat  BY <1>1
<1>6. n \in Nat /\ n * L <= span + L - 1 /\ span + L - 1 < n * L + L
  BY <1>1, <1>2, <1>5, Quotient
<1>7. n # 0
  <2>1. 0 * L = 0  BY <1>1
  <2> QED BY <1>1, <1>6, <2>1
<1>8. \A a, b \in Nat : Min({a, b}) = IF a <= b THEN a ELSE b  BY DEF Min
<1>9. ASSUME NEW i \in 1..n
      PROVE  (i - 1) * L \in Nat /\ (i - 1) * L + L = i * L
  <2>1. i - 1 \in Nat /\ i \in Nat /\ L \in Nat  BY <1>1, <1>6
  <2> QED BY <2>1
<1>10. ASSUME NEW i \in 1..(n - 1)
       PROVE  Epoch(i).end = Epoch(i + 1).start
  <2>1. i \in 1..n /\ i <= n - 1 /\ i \in Nat /\ n - 1 \in Nat  BY <1>6
  <2>2. i * L <= (n - 1) * L  BY <2>1, <1>1
  <2>3. (n - 1) * L = n * L - L  BY <1>1, <1>6
  <2>4. i * L < span  BY <2>1, <2>2, <2>3, <1>1, <1>6
  <2>5. Horizon.start + (i - 1) * L + L = Horizon.start + i * L
    BY <2>1, <1>1, <1>9
  <2>6. Horizon.start + i * L \in Nat /\ Horizon.end \in Nat
        /\ Horizon.start + i * L <= Horizon.end
    BY <2>1, <2>4, <1>1
  <2>7. Epoch(i).end = Horizon.start + i * L
    BY <2>5, <2>6, <1>4, <1>8
  <2>8. (i + 1) - 1 = i  BY <2>1
  <2> QED BY <2>7, <2>8, <1>3
<1>11. Epoch(n).end = Horizon.end
  <2>1. n \in 1..n  BY <1>6, <1>7
  <2>2. Horizon.start + (n - 1) * L + L = Horizon.start + n * L
    BY <2>1, <1>1, <1>9
  <2>3. Horizon.start + n * L \in Nat /\ Horizon.end \in Nat
        /\ Horizon.end <= Horizon.start + n * L
    BY <1>1, <1>6
  <2>4. Min({Horizon.start + n * L, Horizon.end}) = Horizon.end
    BY <2>3, <1>8
  <2> QED BY <2>2, <2>4, <1>4
<1>12. \A i \in 1..n : Epoch(i).start \in Nat  BY <1>1, <1>3, <1>9
<1>13. ASSUME NEW i \in 1..(n - 1)
       PROVE  Epoch(i + 1).start = Epoch(i).start + L
  <2>1. i \in 1..n /\ i \in Nat /\ (i + 1) - 1 = i  BY <1>6
  <2>2. Epoch(i + 1).start = Horizon.start + i * L  BY <1>3, <2>1
  <2>3. (i - 1) * L \in Nat /\ (i - 1) * L + L = i * L  BY <1>9, <2>1
  <2> QED BY <1>1, <1>3, <2>2, <2>3
<1>14. Epoch(1).start = Horizon.start
  <2>1. 1 - 1 = 0 /\ 0 * L = 0  BY <1>1
  <2> QED BY <1>1, <1>3, <2>1
<1> QED BY <1>6, <1>7, <1>10, <1>11, <1>12, <1>13, <1>14 DEF n, L

-----------------------------------------------------------------------------
(* known_by: the requests in order.                                        *)

Sorted(seq, S) ==
    /\ seq \in [1..Cardinality(S) -> S]
    /\ \A i, j \in DOMAIN seq :
          i < j => \/ day[seq[i]] < day[seq[j]]
                   \/ day[seq[i]] = day[seq[j]] /\ seq[i] < seq[j]

LEMMA SortedExists ==
    ASSUME day \in [Orders -> Nat], NEW S \in SUBSET Orders
    PROVE  \E seq : Sorted(seq, S)
<1> DEFINE Bad == {n \in Nat : \E T \in SUBSET Orders :
                      Cardinality(T) = n /\ ~\E seq : Sorted(seq, T)}
<1>1. \A T \in SUBSET Orders : IsFiniteSet(T) /\ Cardinality(T) \in Nat
  BY Sets, FS_Subset, FS_CardinalityType
<1>2. SUFFICES ASSUME Bad # {} PROVE FALSE  BY <1>1
<1>3. PICK n \in Bad : \A m \in Bad : n <= m
  <2>1. Bad \subseteq Nat  OBVIOUS
  <2> HIDE DEF Bad
  <2> QED BY <1>2, <2>1, LeastElement
<1>4. PICK T \in SUBSET Orders : Cardinality(T) = n /\ ~\E seq : Sorted(seq, T)
  OBVIOUS
<1>5. CASE T = {}
  <2>1. n = 0  BY <1>4, <1>5, FS_EmptySet
  <2>2. Sorted([i \in {} |-> 0], T)
    <3>1. 1..Cardinality(T) = {}  BY <1>4, <2>1
    <3> QED BY <1>5, <3>1 DEF Sorted
  <2> QED BY <1>4, <2>2
<1>6. CASE T # {}
  <2>1. PICK o \in T : \A p \in T : p # o =>
           day[o] < day[p] \/ (day[o] = day[p] /\ o < p)
    <3> DEFINE D == {day[o] : o \in T}
    <3>1. PICK d \in D : \A e \in D : d <= e
      <4>1. D \subseteq Nat /\ D # {}  BY <1>6
      <4> HIDE DEF D
      <4> QED BY <4>1, LeastElement
    <3> DEFINE E == {o \in T : day[o] = d}
    <3>2. PICK o \in E : \A p \in E : o <= p
      <4>1. E \subseteq Nat /\ E # {}  BY <3>1, Sets
      <4> HIDE DEF E
      <4> QED BY <4>1, LeastElement
    <3>3. ASSUME NEW p \in T, p # o
          PROVE  day[o] < day[p] \/ (day[o] = day[p] /\ o < p)
      <4>1. day[o] = d /\ d <= day[p] /\ d \in Nat /\ day[p] \in Nat
        BY <3>1, <3>2
      <4>2. o \in Nat /\ p \in Nat  BY <3>2, Sets
      <4>3. day[p] = d => o <= p  BY <3>2
      <4> QED BY <3>3, <4>1, <4>2, <4>3
    <3> QED BY <3>2, <3>3
  <2> DEFINE rest == T \ {o}
  <2>2. rest \in SUBSET Orders /\ Cardinality(rest) = n - 1 /\ n # 0
    BY <1>1, <1>4, <2>1, FS_RemoveElement, FS_EmptySet
  <2>3. n - 1 \in Nat /\ n - 1 \notin Bad
    BY <1>3, <2>2
  <2>4. PICK seq : Sorted(seq, rest)  BY <2>2, <2>3
  <2> DEFINE all == [i \in 1..n |-> IF i = 1 THEN o ELSE seq[i - 1]]
  <2>5. \A i \in 1..n : i # 1 => i - 1 \in 1..(n - 1) /\ seq[i - 1] \in rest
    <3>1. seq \in [1..(n - 1) -> rest]  BY <2>2, <2>4 DEF Sorted
    <3> HIDE DEF rest
    <3> QED BY <3>1, <2>2, <1>3
  <2>6. all \in [1..n -> T]  BY <2>5
  <2>7. ASSUME NEW i \in 1..n, NEW j \in 1..n, i < j
        PROVE  \/ day[all[i]] < day[all[j]]
               \/ day[all[i]] = day[all[j]] /\ all[i] < all[j]
    <3>1. j # 1  BY <2>7, <2>2, <1>3
    <3>2. CASE i = 1
      <4>1. all[i] = o /\ all[j] = seq[j - 1] /\ seq[j - 1] \in rest
        BY <2>5, <3>1, <3>2
      <4> HIDE DEF all
      <4> QED BY <4>1, <2>1
    <3>3. CASE i # 1
      <4>1. i - 1 \in 1..(n - 1) /\ j - 1 \in 1..(n - 1) /\ i - 1 < j - 1
        BY <2>5, <2>7, <3>1, <3>3, <1>3
      <4>2. all[i] = seq[i - 1] /\ all[j] = seq[j - 1]  BY <3>1, <3>3
      <4>3. DOMAIN seq = 1..(n - 1)  BY <2>2, <2>4 DEF Sorted
      <4> HIDE DEF all
      <4> QED BY <4>1, <4>2, <4>3, <2>4 DEF Sorted
    <3> QED BY <3>2, <3>3
  <2>8. Sorted(all, T)
    <3> HIDE DEF all
    <3>1. DOMAIN all = 1..n  BY <2>6
    <3> QED BY <1>4, <2>6, <2>7, <3>1 DEF Sorted
  <2> QED BY <1>4, <2>8
<1> QED BY <1>5, <1>6

LEMMA KnownBySorts ==
    ASSUME day \in [Orders -> Nat], NEW t
    PROVE  /\ KnownBy(t) \in Seq(Orders) /\ IsInjective(KnownBy(t))
           /\ ToSet(KnownBy(t)) = {o \in Orders : day[o] <= t}
<1> DEFINE known == {o \in Orders : day[o] <= t}
           n == Cardinality(known)
<1>1. IsFiniteSet(known) /\ n \in Nat
  BY Sets, FS_Subset, FS_CardinalityType
<1>2. PICK seq : seq = KnownBy(t) /\ Sorted(seq, known)
  <2>1. \E seq : Sorted(seq, known)  BY SortedExists
  <2>2. \E seq \in [1..n -> known] : Sorted(seq, known)
    BY <2>1 DEF Sorted
  <2>3. KnownBy(t) = CHOOSE seq \in [1..n -> known] :
           \A i, j \in DOMAIN seq :
              i < j => \/ day[seq[i]] < day[seq[j]]
                       \/ day[seq[i]] = day[seq[j]] /\ seq[i] < seq[j]
    BY Zenon DEF KnownBy
  <2> HIDE DEF known, n
  <2> QED BY Zenon, <2>2, <2>3 DEF Sorted
<1> HIDE DEF known, n
<1>3. seq \in [1..n -> known] /\ DOMAIN seq = 1..n  BY <1>2 DEF Sorted, n
<1>4. known \subseteq Orders /\ known \subseteq Nat  BY Sets DEF known
<1>5. ASSUME NEW i \in 1..n, NEW j \in 1..n, i < j PROVE seq[i] # seq[j]
  <2>1. seq[i] \in Orders /\ seq[j] \in Orders /\ seq[i] \in Nat
    BY <1>3, <1>4
  <2>2. day[seq[i]] \in Nat  BY <2>1
  <2>3. \/ day[seq[i]] < day[seq[j]]
        \/ day[seq[i]] = day[seq[j]] /\ seq[i] < seq[j]
    BY <1>2, <1>3, <1>5 DEF Sorted
  <2> QED BY <2>1, <2>2, <2>3
<1>6. ASSUME NEW i \in 1..n, NEW j \in 1..n, seq[i] = seq[j] PROVE i = j
  BY <1>1, <1>5, <1>6
<1>7. IsInjective(seq)  BY <1>3, <1>6 DEF IsInjective
<1>8. seq \in Injection(1..n, known)
  BY <1>3, <1>6 DEF Injection, IsInjective
<1>9. seq \in Surjection(1..n, known)
  <2>1. IsFiniteSet(1..n) /\ Cardinality(1..n) = n
    BY <1>1, FS_Interval
  <2> QED BY <1>1, <1>8, <2>1, FS_Injection DEF n
<1>10. ToSet(seq) = known
  BY <1>3, <1>9 DEF ToSet, Surjection
<1>11. seq \in Seq(Orders)
  <2>1. seq \in [1..n -> Orders]  BY <1>3, <1>4
  <2> QED BY <1>1, <2>1
<1> QED BY <1>2, <1>7, <1>10, <1>11 DEF known

-----------------------------------------------------------------------------
(* What a wave decides.                                                    *)

LEMMA ArrivedIs ==
    ASSUME Typed
    PROVE  /\ Arrived \in Seq(Orders) /\ IsInjective(Arrived)
           /\ ToSet(Arrived) \cap (dispatchedEver \cup ToSet(carried)) = {}
           /\ LastWave => Orders \subseteq ToSet(Arrived) \cup dispatchedEver
                                              \cup ToSet(carried)
           /\ ~LastWave =>
                 \A o \in Orders \ (dispatchedEver \cup ToSet(carried)) :
                    o \in ToSet(Arrived) <=> day[o] <= Epoch(wave).start
<1> DEFINE t == IF LastWave THEN Epoch(wave).end ELSE Epoch(wave).start
           fresh == Orders \ (dispatchedEver \cup ToSet(carried))
<1>1. day \in [Orders -> Nat]  BY DEF Typed
<1>2. /\ KnownBy(t) \in Seq(Orders) /\ IsInjective(KnownBy(t))
      /\ ToSet(KnownBy(t)) = {o \in Orders : day[o] <= t}
  BY <1>1, KnownBySorts
<1>3. Arrived = Kept(KnownBy(t), fresh)  BY DEF Arrived
<1>4. LastWave => \A o \in Orders : day[o] <= t
  BY Waves DEF LastWave, Typed
<1>6. ~LastWave => t = Epoch(wave).start  OBVIOUS
<1> HIDE DEF t, fresh
<1>5. /\ Arrived \in Seq(Orders) /\ IsInjective(Arrived)
      /\ ToSet(Arrived) = ToSet(KnownBy(t)) \cap fresh
  BY <1>2, <1>3, KeptSelects
<1> QED BY <1>2, <1>4, <1>5, <1>6 DEF fresh

(* Nobody's work is lost between dispatched and postponed, what was chosen *)
(* goes, and what waits can be reached by the end of the wave.             *)
LEMMA DecideSplits ==
    ASSUME NEW open \in Seq(Orders), IsInjective(open),
           NEW t, NEW chosen \in SUBSET Orders
    PROVE  LET d == Decide(open, Classify(open, t), chosen)
           IN  /\ d.dispatched \in Seq(Orders) /\ IsInjective(d.dispatched)
               /\ d.postponed \in Seq(Orders) /\ IsInjective(d.postponed)
               /\ d.forced \in Seq(Orders)
               /\ Classify(open, t).must \in Seq(Orders)
               /\ ToSet(d.dispatched) \cup ToSet(d.postponed) = ToSet(open)
               /\ ToSet(d.dispatched) \cap ToSet(d.postponed) = {}
               /\ ToSet(d.postponed) \cap chosen = {}
               /\ \A o \in ToSet(d.postponed) : Servable(o, t)
<1> DEFINE must == {o \in Orders : MustGo(o, t)}
           musts == Kept(open, must)
           forced == Kept(musts, Orders \ chosen)
           out == chosen \cup ToSet(forced)
<1>1. ToSet(open) \subseteq Orders  BY DEF ToSet
<1>2. musts \in Seq(Orders) /\ ToSet(musts) = ToSet(open) \cap must
  BY KeptSelects
<1>3. forced \in Seq(Orders) /\ ToSet(forced) = ToSet(musts) \ chosen
  <2>1. forced \in Seq(Orders)
        /\ ToSet(forced) = ToSet(musts) \cap (Orders \ chosen)
    BY <1>2, KeptSelects
  <2> QED BY <1>1, <1>2, <2>1
<1>4. /\ Kept(open, out) \in Seq(Orders) /\ IsInjective(Kept(open, out))
      /\ ToSet(Kept(open, out)) = ToSet(open) \cap out
  <2> HIDE DEF out
  <2> QED BY KeptSelects
<1>5. /\ Kept(open, Orders \ out) \in Seq(Orders)
      /\ IsInjective(Kept(open, Orders \ out))
      /\ ToSet(Kept(open, Orders \ out)) = ToSet(open) \cap (Orders \ out)
  <2> HIDE DEF out
  <2> QED BY KeptSelects
<1>6. /\ Classify(open, t).must = musts
      /\ Decide(open, Classify(open, t), chosen).dispatched = Kept(open, out)
      /\ Decide(open, Classify(open, t), chosen).postponed
            = Kept(open, Orders \ out)
      /\ Decide(open, Classify(open, t), chosen).forced = forced
  BY DEF Decide, Classify
<1>7. \A o \in Orders : o \notin must => Servable(o, t)
  BY DEF MustGo, Servable
<1> HIDE DEF must, musts, forced
<1> QED BY <1>1, <1>2, <1>3, <1>4, <1>5, <1>6, <1>7

-----------------------------------------------------------------------------
(* _first_fit puts only what it is given on vehicles.                      *)

Fits(g, orders, k) ==
    g = [i \in 0..k |->
            IF i = 0 THEN [o \in {} |-> 0]
            ELSE LET owner == g[i - 1]
                     room == Room(owner, orders[i])
                 IN IF room = {} THEN owner
                    ELSE [o \in DOMAIN owner \cup {orders[i]} |->
                            IF o = orders[i] THEN Min(room) ELSE owner[o]]]

LEMMA FitsExists ==
    ASSUME NEW orders \in Seq(Orders), NEW k \in 0..Len(orders)
    PROVE  \E g : Fits(g, orders, k)
<1> DEFINE Bad == {n \in 0..Len(orders) : ~\E g : Fits(g, orders, n)}
<1>1. SUFFICES ASSUME Bad # {} PROVE FALSE  OBVIOUS
<1>2. PICK n \in Bad : \A m \in Bad : n <= m
  <2>1. Bad \subseteq Nat  OBVIOUS
  <2> HIDE DEF Bad
  <2> QED BY <1>1, <2>1, LeastElement
<1>3. CASE n = 0
  <2>1. Fits([i \in 0..0 |-> [o \in {} |-> 0]], orders, 0)  BY DEF Fits
  <2> QED BY <1>2, <1>3, <2>1
<1>4. CASE n # 0
  <2>1. n - 1 \in 0..Len(orders) /\ n - 1 \notin Bad  BY <1>2, <1>4
  <2>2. PICK g : Fits(g, orders, n - 1)  BY <2>1
  <2> DEFINE Step(owner, o) ==
                LET room == Room(owner, o)
                IN IF room = {} THEN owner
                   ELSE [p \in DOMAIN owner \cup {o} |->
                            IF p = o THEN Min(room) ELSE owner[p]]
             h == [i \in 0..n |-> IF i = n THEN Step(g[n - 1], orders[n])
                                  ELSE g[i]]
  <2>3. ASSUME NEW i \in 0..(n - 1)
        PROVE  g[i] = IF i = 0 THEN [o \in {} |-> 0]
                      ELSE Step(g[i - 1], orders[i])
    BY Zenon, <2>2 DEF Fits
  <2> HIDE DEF Step
  <2>4. ASSUME NEW i \in 0..n
        PROVE  h[i] = IF i = 0 THEN [o \in {} |-> 0]
                      ELSE Step(h[i - 1], orders[i])
    <3>1. CASE i = n  BY <3>1, <1>4
    <3>2. CASE i # n
      <4>1. h[i] = g[i] /\ (i # 0 => h[i - 1] = g[i - 1])  BY <3>2
      <4>2. i \in 0..(n - 1)  BY <3>2
      <4> HIDE DEF h
      <4> QED BY <2>3, <4>1, <4>2
    <3> QED BY <3>1, <3>2
  <2>5. h = [i \in 0..n |-> h[i]]  OBVIOUS
  <2>6. Fits(h, orders, n)
    <3> HIDE DEF h
    <3>1. h = [i \in 0..n |-> IF i = 0 THEN [o \in {} |-> 0]
                              ELSE Step(h[i - 1], orders[i])]
      BY <2>4, <2>5
    <3> QED BY Zenon, <3>1 DEF Fits, Step
  <2> QED BY <2>6, <1>2
<1> QED BY <1>3, <1>4

LEMMA FirstFitPlaces ==
    ASSUME NEW orders \in Seq(Orders)
    PROVE  DOMAIN FirstFit(orders) \subseteq ToSet(orders)
<1>1. Len(orders) \in 0..Len(orders) /\ DOMAIN orders = 1..Len(orders)
  OBVIOUS
<1>2. PICK g : Fits(g, orders, Len(orders))
               /\ FirstFit(orders) = g[Len(orders)]
  <2>1. \E g : Fits(g, orders, Len(orders))  BY <1>1, FitsExists
  <2> QED BY Zenon, <2>1 DEF FirstFit, Fits
<1> DEFINE Bad == {n \in 0..Len(orders) :
                     ~(DOMAIN g[n] \subseteq {orders[i] : i \in 1..n})}
<1>3. Bad = {}
  <2>1. SUFFICES ASSUME Bad # {} PROVE FALSE  OBVIOUS
  <2>2. PICK n \in Bad : \A m \in Bad : n <= m
    <3>1. Bad \subseteq Nat  OBVIOUS
    <3> HIDE DEF Bad
    <3> QED BY <2>1, <3>1, LeastElement
  <2>3. CASE n = 0
    <3>1. g[0] = [o \in {} |-> 0]  BY <1>2, <2>3 DEF Fits
    <3> QED BY <2>2, <2>3, <3>1
  <2>4. CASE n # 0
    <3>1. n - 1 \in 0..Len(orders) /\ n - 1 \notin Bad  BY <2>2, <2>4
    <3>2. DOMAIN g[n - 1] \subseteq {orders[i] : i \in 1..(n - 1)}  BY <3>1
    <3>3. DOMAIN g[n] \subseteq DOMAIN g[n - 1] \cup {orders[n]}
      BY <1>2, <2>4 DEF Fits
    <3>4. {orders[i] : i \in 1..(n - 1)} \cup {orders[n]}
             \subseteq {orders[i] : i \in 1..n}
      BY <2>4
    <3> QED BY <2>2, <3>2, <3>3, <3>4
  <2> QED BY <2>3, <2>4
<1>4. DOMAIN g[Len(orders)] \subseteq {orders[i] : i \in 1..Len(orders)}
  BY <1>1, <1>3
<1> QED BY <1>1, <1>2, <1>4 DEF ToSet

(* A beginning that is wanted is the beginning of what is kept.            *)
Begins(kept, seq, m, k) ==
    /\ k <= m => Len(kept) = k
    /\ k > m => Len(kept) >= m
    /\ \A i \in 1..m : i <= k => kept[i] = seq[i]

LEMMA KeptBeginning ==
    ASSUME NEW S, NEW seq \in Seq(S), NEW wanted, NEW m \in 0..Len(seq),
           \A i \in 1..m : seq[i] \in wanted
    PROVE  /\ m <= Len(Kept(seq, wanted))
           /\ \A i \in 1..m : Kept(seq, wanted)[i] = seq[i]
<1>1. Len(seq) \in Nat /\ Len(seq) \in 0..Len(seq)  OBVIOUS
<1>2. PICK g : Keeps(g, seq, wanted, Len(seq))
               /\ Kept(seq, wanted) = g[Len(seq)]
  <2>1. \E g : Keeps(g, seq, wanted, Len(seq))  BY <1>1, KeepsExists
  <2> QED BY Zenon, <2>1 DEF Kept, Keeps
<1>3. \A k \in 0..Len(seq) : g[k] \in Seq(S)
  BY <1>2, KeepsSelects DEF Selects
<1>4. ASSUME NEW k \in 0..Len(seq)
      PROVE  g[k] = IF k = 0 THEN <<>>
                    ELSE IF seq[k] \in wanted THEN Append(g[k - 1], seq[k])
                    ELSE g[k - 1]
  BY Zenon, <1>2 DEF Keeps
<1> DEFINE Bad == {k \in 0..Len(seq) : ~Begins(g[k], seq, m, k)}
<1>5. Bad = {}
  <2>1. SUFFICES ASSUME Bad # {} PROVE FALSE  OBVIOUS
  <2>2. PICK n \in Bad : \A k \in Bad : n <= k
    <3>1. Bad \subseteq Nat  OBVIOUS
    <3> HIDE DEF Bad
    <3> QED BY <2>1, <3>1, LeastElement
  <2>3. n \in 0..Len(seq) /\ ~Begins(g[n], seq, m, n)  OBVIOUS
  <2>4. CASE n = 0
    <3>1. g[n] = <<>>  BY <1>4, <2>3, <2>4
    <3>2. Begins(<<>>, seq, m, 0)  BY DEF Begins
    <3> QED BY <2>3, <2>4, <3>1, <3>2
  <2>5. CASE n # 0
    <3>1. n - 1 \in 0..Len(seq) /\ n - 1 \notin Bad
      BY <1>1, <2>2, <2>3, <2>5
    <3>2. Begins(g[n - 1], seq, m, n - 1)  BY <3>1
    <3> DEFINE old == g[n - 1]
               new == g[n]
    <3>3. old \in Seq(S) /\ new \in Seq(S)  BY <1>3, <2>3, <3>1
    <3>4. new = IF seq[n] \in wanted THEN Append(old, seq[n]) ELSE old
      BY <1>4, <2>3, <2>5
    <3>5. n \in 1..Len(seq) /\ seq[n] \in S  BY <2>3, <2>5
    <3>6. n <= m => seq[n] \in wanted  BY <3>5
    <3> HIDE DEF Bad, old, new
    <3>7. CASE seq[n] \in wanted
      <4>1. new = Append(old, seq[n]) /\ Len(new) = Len(old) + 1
            /\ new[Len(old) + 1] = seq[n]
            /\ \A i \in 1..Len(old) : new[i] = old[i]
        BY <3>3, <3>4, <3>5, <3>7
      <4>2. Begins(new, seq, m, n)
        <5>1. Begins(old, seq, m, n - 1)  BY <3>2 DEF old
        <5>2. Len(old) \in Nat /\ m \in Nat /\ n \in Nat
          BY <1>1, <3>3, <3>5
        <5> QED BY <4>1, <5>1, <5>2, <3>5 DEF Begins
      <4> QED BY <2>3, <4>2 DEF new
    <3>8. CASE seq[n] \notin wanted
      <4>1. new = old /\ n > m  BY <1>1, <3>4, <3>5, <3>6, <3>8
      <4>2. Begins(new, seq, m, n)
        <5>1. Begins(old, seq, m, n - 1)  BY <3>2 DEF old
        <5>2. Len(old) \in Nat /\ m \in Nat /\ n \in Nat
          BY <1>1, <3>3, <3>5
        <5> QED BY <4>1, <5>1, <5>2, <3>5 DEF Begins
      <4> QED BY <2>3, <4>2 DEF new
    <3> QED BY <3>7, <3>8
  <2> QED BY <2>4, <2>5
<1>6. Begins(Kept(seq, wanted), seq, m, Len(seq))  BY <1>1, <1>2, <1>5
<1>7. Kept(seq, wanted) \in Seq(S)  BY KeptSelects
<1>8. Len(Kept(seq, wanted)) \in Nat  BY <1>7
<1> QED BY <1>1, <1>6, <1>8 DEF Begins

-----------------------------------------------------------------------------
(* Orders that come after a beginning do not move it.                      *)
Nobody == [o \in {} |-> 0]

PutOn(owner, o) ==
    LET room == Room(owner, o)
    IN IF room = {} THEN owner
       ELSE [p \in DOMAIN owner \cup {o} |->
                IF p = o THEN Min(room) ELSE owner[p]]

LEMMA FitsStep ==
    ASSUME NEW g, NEW orders, NEW k \in Nat, Fits(g, orders, k),
           NEW i \in 0..k
    PROVE  /\ i = 0 => g[i] = Nobody
           /\ i # 0 => g[i] = PutOn(g[i - 1], orders[i])
<1>1. g[i] = IF i = 0 THEN Nobody ELSE PutOn(g[i - 1], orders[i])
  BY Zenon DEF Fits, PutOn, Nobody
<1> QED BY Zenon, <1>1

LEMMA FirstFitIs ==
    ASSUME NEW orders \in Seq(Orders)
    PROVE  \E g : Fits(g, orders, Len(orders))
                  /\ FirstFit(orders) = g[Len(orders)]
<1>1. Len(orders) \in 0..Len(orders)  OBVIOUS
<1>2. \E g : Fits(g, orders, Len(orders))  BY <1>1, FitsExists
<1> QED BY Zenon, <1>2 DEF FirstFit, Fits

LEMMA PutOnKeeps ==
    ASSUME NEW owner, NEW o, NEW p, p # o
    PROVE  /\ p \in DOMAIN PutOn(owner, o) <=> p \in DOMAIN owner
           /\ p \in DOMAIN owner => PutOn(owner, o)[p] = owner[p]
<1>1. CASE Room(owner, o) = {}  BY <1>1 DEF PutOn
<1>2. CASE Room(owner, o) # {}
  <2>1. PutOn(owner, o) = [q \in DOMAIN owner \cup {o} |->
                             IF q = o THEN Min(Room(owner, o)) ELSE owner[q]]
    BY Zenon, <1>2 DEF PutOn
  <2> QED BY <2>1
<1> QED BY <1>1, <1>2

LEMMA FirstFitKeeps ==
    ASSUME NEW s \in Seq(Orders), NEW t \in Seq(Orders), IsInjective(t),
           Len(s) <= Len(t), \A i \in 1..Len(s) : t[i] = s[i],
           NEW p \in ToSet(s)
    PROVE  /\ p \in DOMAIN FirstFit(t) <=> p \in DOMAIN FirstFit(s)
           /\ p \in DOMAIN FirstFit(s) => FirstFit(t)[p] = FirstFit(s)[p]
<1> DEFINE m == Len(s)
           n == Len(t)
<1>1. m \in Nat /\ n \in Nat /\ m <= n /\ DOMAIN s = 1..m /\ DOMAIN t = 1..n
  OBVIOUS
<1>2. PICK g : Fits(g, s, m) /\ FirstFit(s) = g[m]  BY FirstFitIs
<1>3. PICK h : Fits(h, t, n) /\ FirstFit(t) = h[n]  BY FirstFitIs
<1>4. \A i \in 1..m : t[i] = s[i]  OBVIOUS
<1>5. PICK a \in 1..m : p = s[a]  BY <1>1 DEF ToSet
<1>6. \A i \in 1..n : i > m => t[i] # p
  BY <1>1, <1>4, <1>5 DEF IsInjective
<1> HIDE DEF m, n
<1> DEFINE Apart == {i \in 0..m : h[i] # g[i]}
<1>7. Apart = {}
  <2>1. SUFFICES ASSUME Apart # {} PROVE FALSE  OBVIOUS
  <2>2. PICK k \in Apart : \A i \in Apart : k <= i
    <3>1. Apart \subseteq Nat  BY <1>1
    <3> HIDE DEF Apart
    <3> QED BY <2>1, <3>1, LeastElement
  <2>3. k \in 0..m /\ k \in 0..n /\ h[k] # g[k]  BY <1>1
  <2>4. CASE k = 0
    <3>1. g[k] = Nobody /\ h[k] = Nobody
      BY <1>1, <1>2, <1>3, <2>3, <2>4, FitsStep
    <3> QED BY <2>3, <3>1
  <2>5. CASE k # 0
    <3>1. g[k] = PutOn(g[k - 1], s[k]) /\ h[k] = PutOn(h[k - 1], t[k])
      BY <1>1, <1>2, <1>3, <2>3, <2>5, FitsStep
    <3>2. k - 1 \in 0..m /\ ~(k <= k - 1) /\ k \in 1..m
      BY <1>1, <2>3, <2>5
    <3>3. h[k - 1] = g[k - 1]  BY <2>2, <3>2
    <3> QED BY <1>4, <2>3, <3>1, <3>2, <3>3
  <2> QED BY <2>4, <2>5
<1> DEFINE Same(i) == /\ p \in DOMAIN h[i] <=> p \in DOMAIN g[m]
                      /\ p \in DOMAIN g[m] => h[i][p] = g[m][p]
           Bad == {i \in m..n : ~Same(i)}
<1>8. Bad = {}
  <2>1. SUFFICES ASSUME Bad # {} PROVE FALSE  OBVIOUS
  <2>2. PICK k \in Bad : \A i \in Bad : k <= i
    <3>1. Bad \subseteq Nat  BY <1>1
    <3> HIDE DEF Bad
    <3> QED BY <2>1, <3>1, LeastElement
  <2>3. k \in m..n /\ ~Same(k)  OBVIOUS
  <2>4. CASE k = m
    <3>1. m \in 0..m  BY <1>1
    <3>2. h[m] = g[m]  BY <1>7, <3>1
    <3> QED BY <2>3, <2>4, <3>2
  <2>5. CASE k # m
    <3>1. k - 1 \in m..n /\ ~(k <= k - 1) /\ k \in 1..n /\ k > m
          /\ k \in 0..n /\ k # 0
      BY <1>1, <2>3, <2>5
    <3>2. Same(k - 1)  BY <2>2, <3>1
    <3>3. h[k] = PutOn(h[k - 1], t[k])  BY <1>1, <1>3, <3>1, FitsStep
    <3>4. p # t[k]  BY <1>6, <3>1
    <3>5. /\ p \in DOMAIN h[k] <=> p \in DOMAIN h[k - 1]
          /\ p \in DOMAIN h[k - 1] => h[k][p] = h[k - 1][p]
      BY <3>3, <3>4, PutOnKeeps
    <3> QED BY <2>3, <3>2, <3>5
  <2> QED BY <2>4, <2>5
<1>9. n \in m..n  BY <1>1
<1>10. Same(n)  BY <1>8, <1>9
<1> QED BY <1>2, <1>3, <1>10

-----------------------------------------------------------------------------
(* icd_policy.                                                             *)
Starts(split) == {[going |-> ToSet(split.must),
                   undecided |-> ToSet(split.defer), over |-> FALSE]}

Judged(states, e) == UNION {Judge(s, e) : s \in states}

Rounding(g, split, e, k) ==
    g = [i \in 0..k |-> IF i = 0 THEN Starts(split)
                        ELSE Judged(g[i - 1], e)]

LEMMA RoundingStep ==
    ASSUME NEW g, NEW split, NEW e, NEW k \in Nat, Rounding(g, split, e, k),
           NEW i \in 0..k
    PROVE  g[i] = IF i = 0 THEN Starts(split)
                  ELSE Judged(g[i - 1], e)
BY Zenon DEF Rounding

LEMMA RoundingExists ==
    ASSUME NEW split, NEW e, NEW k \in Nat
    PROVE  \E g : Rounding(g, split, e, k)
<1> DEFINE Bad == {n \in Nat : ~\E g : Rounding(g, split, e, n)}
<1>1. SUFFICES ASSUME Bad # {} PROVE FALSE  OBVIOUS
<1>2. PICK n \in Bad : \A m \in Bad : n <= m
  <2>1. Bad \subseteq Nat  OBVIOUS
  <2> HIDE DEF Bad
  <2> QED BY <1>1, <2>1, LeastElement
<1>3. CASE n = 0
  <2> DEFINE g == [i \in 0..0 |-> Starts(split)]
  <2>1. g = [i \in 0..0 |-> IF i = 0 THEN Starts(split)
                            ELSE Judged(g[i - 1], e)]
    OBVIOUS
  <2> HIDE DEF g
  <2>2. Rounding(g, split, e, 0)  BY Zenon, <2>1 DEF Rounding
  <2> QED BY <1>2, <1>3, <2>2
<1>4. CASE n # 0
  <2>0. n \in Nat  OBVIOUS
  <2>1. n - 1 \in Nat /\ n - 1 \notin Bad
    <3> HIDE DEF Bad
    <3> QED BY <1>2, <1>4, <2>0
  <2>2. PICK g : Rounding(g, split, e, n - 1)  BY <2>1
  <2> DEFINE h == [i \in 0..n |-> IF i = n THEN Judged(g[n - 1], e)
                                  ELSE g[i]]
  <2>3. ASSUME NEW i \in 0..n
        PROVE  h[i] = IF i = 0 THEN Starts(split)
                      ELSE Judged(h[i - 1], e)
    <3>1. CASE i = n
      <4>1. h[i] = Judged(g[n - 1], e) /\ h[i - 1] = g[n - 1]
        BY <1>4, <2>0, <3>1
      <4> HIDE DEF h
      <4> QED BY <1>4, <3>1, <4>1
    <3>2. CASE i # n
      <4>1. h[i] = g[i] /\ (i # 0 => h[i - 1] = g[i - 1])
        BY <2>0, <3>2
      <4>2. i \in 0..(n - 1)  BY <2>0, <3>2
      <4>3. g[i] = IF i = 0 THEN Starts(split) ELSE Judged(g[i - 1], e)
        BY <2>1, <2>2, <4>2, RoundingStep
      <4> HIDE DEF h
      <4> QED BY <4>1, <4>3
    <3> QED BY <3>1, <3>2
  <2>4. h = [i \in 0..n |-> h[i]]  OBVIOUS
  <2> HIDE DEF h
  <2>5. Rounding(h, split, e, n)  BY Zenon, <2>3, <2>4 DEF Rounding
  <2> QED BY <1>2, <2>5
<1> QED BY <1>3, <1>4

LEMMA IcdIs ==
    ASSUME NEW split, NEW e
    PROVE  \E g : /\ Rounding(g, split, e, Rounds)
                  /\ Icd(split, e) = {s.going : s \in g[Rounds]}
<1>1. Rounds \in Nat  BY DispatchAssumption DEF DispatchAssumption
<1>2. \E g : Rounding(g, split, e, Rounds)  BY <1>1, RoundingExists
<1> QED BY Zenon, <1>2 DEF Icd, Rounding, Judged, Starts

(* Deferred work without another order in reach is sent by every scenario, *)
(* hence in the first round, and nothing that goes is called back.         *)
Lonely(o) == \A p \in Orders \ {o} : Gap[o][p] > Reach

LEMMA LonelyGoes ==
    ASSUME NEW split, NEW e, NEW o \in ToSet(split.defer), Lonely(o),
           NEW chosen \in Icd(split, e)
    PROVE  o \in chosen
<1>0. /\ Rounds \in Nat \ {0} /\ Scenarios \in Nat \ {0}
      /\ SendAt \in Nat /\ Full \in Nat /\ SendAt <= Full
  BY DispatchAssumption DEF DispatchAssumption
<1>1. PICK g : /\ Rounding(g, split, e, Rounds)
               /\ Icd(split, e) = {s.going : s \in g[Rounds]}
  BY IcdIs
<1>2. ASSUME NEW going, NEW drawn \in [1..Scenarios -> Futures(e)]
      PROVE  Share(o, going, drawn, e.end) = Full
  <2>1. \A future \in Futures(e) : future \subseteq Orders  BY DEF Futures
  <2>2. \A i \in DOMAIN drawn : WouldSend(o, going, drawn[i], e.end)
    BY <2>1 DEF WouldSend, Lonely
  <2>3. {i \in DOMAIN drawn : WouldSend(o, going, drawn[i], e.end)}
           = 1..Scenarios
    BY <2>2
  <2>4. Cardinality(1..Scenarios) = Scenarios  BY <1>0, FS_Interval
  <2>5. (Scenarios * Full) \div Scenarios = Full
    BY <1>0
  <2> QED BY <2>3, <2>4, <2>5 DEF Share
<1>3. \A s \in g[1] : o \in s.going
  <2>1. 1 \in 0..Rounds /\ 0 \in 0..Rounds  BY <1>0
  <2>2. g[0] = Starts(split)  BY <1>0, <1>1, <2>1, RoundingStep
  <2>3. g[1] = Judged(g[0], e)
    <3>1. g[1] = IF 1 = 0 THEN Starts(split)
                 ELSE Judged(g[1 - 1], e)
      BY <1>0, <1>1, <2>1, RoundingStep
    <3>2. 1 # 0 /\ 1 - 1 = 0  OBVIOUS
    <3> QED BY Zenon, <3>1, <3>2
  <2> DEFINE first == [going |-> ToSet(split.must),
                       undecided |-> ToSet(split.defer), over |-> FALSE]
  <2>4. g[1] = Judge(first, e)  BY <2>2, <2>3 DEF Judged, Starts
  <2> SUFFICES ASSUME NEW s \in g[1] PROVE o \in s.going  OBVIOUS
  <2>5. PICK drawn \in [1..Scenarios -> Futures(e)] :
           s = JudgeWith(first, drawn, e.end)
    BY <2>4 DEF Judge
  <2>6. o \in first.undecided  OBVIOUS
  <2>7. Share(o, first.going, drawn, e.end) >= SendAt
    BY <1>0, <1>2
  <2> QED BY <2>5, <2>6, <2>7 DEF JudgeWith
<1>4. ASSUME NEW s, NEW r \in Judge(s, e) PROVE s.going \subseteq r.going
  BY DEF Judge, JudgeWith
<1> DEFINE Bad == {k \in 1..Rounds : \E s \in g[k] : o \notin s.going}
<1>5. Bad = {}
  <2>1. SUFFICES ASSUME Bad # {} PROVE FALSE  OBVIOUS
  <2>2. PICK k \in Bad : \A m \in Bad : k <= m
    <3>1. Bad \subseteq Nat  BY <1>0
    <3> HIDE DEF Bad
    <3> QED BY <2>1, <3>1, LeastElement
  <2>3. PICK s \in g[k] : o \notin s.going  OBVIOUS
  <2>4. k # 1 /\ k \in 1..Rounds  BY <1>3, <2>3
  <2>5. k - 1 \in 1..Rounds /\ k \in 0..Rounds /\ ~(k <= k - 1) /\ k # 0
    BY <1>0, <2>4
  <2>6. k - 1 \notin Bad  BY <2>2, <2>5
  <2>7. g[k] = Judged(g[k - 1], e)
    <3>1. g[k] = IF k = 0 THEN Starts(split)
                 ELSE Judged(g[k - 1], e)
      BY <1>0, <1>1, <2>5, RoundingStep
    <3> QED BY Zenon, <2>5, <3>1
  <2>8. PICK r \in g[k - 1] : s \in Judge(r, e)
    BY <2>3, <2>7 DEF Judged
  <2>9. o \in r.going  BY <2>5, <2>6, <2>8
  <2> QED BY <1>4, <2>3, <2>8, <2>9
<1>6. Rounds \in 1..Rounds  BY <1>0
<1> QED BY <1>1, <1>5, <1>6

-----------------------------------------------------------------------------
(* The invariant.                                                          *)

LEMMA InitInv == Init => Inv
<1> SUFFICES ASSUME Init PROVE Inv  OBVIOUS
<1> USE DEF Init
<1>1. Sent = <<>>
  <2>1. [i \in DOMAIN records |-> records[i].dispatched] = <<>>  OBVIOUS
  <2> QED BY <2>1 DEF Sent, FlattenSeq
<1>2. \A o \in Orders : day[o] \in Nat /\ day[o] <= Horizon.end
  <2>1. \A a, b \in Int : Max({a, b}) = IF a >= b THEN a ELSE b
    BY DEF Max
  <2>2. \A t \in Arrivals : t \in Nat /\ t <= Horizon.end
    BY <2>1, Sets DEF Arrivals
  <2> QED BY <2>2
<1>3. day \in [Orders -> Nat]  BY <1>2
<1>4. Typed
  <2>1. DOMAIN provisional \subseteq ToSet(carried)  OBVIOUS
  <2>2. carried \in Seq(Orders) /\ IsInjective(carried)  BY DEF IsInjective
  <2> QED BY <1>2, <1>3, <2>1, <2>2, Waves DEF Typed, TypeOK
<1>5. Accounted
  <2>1. Sent \o carried = <<>>  BY <1>1
  <2>2. IsInjective(<<>>) /\ ToSet(<<>>) = {}  BY DEF IsInjective, ToSet
  <2>3. Visible = {}  BY DEF Visible
  <2> QED BY <1>1, <2>1, <2>2, <2>3 DEF Accounted
<1>6. Waits /\ SentWhileServable  BY DEF Waits, SentWhileServable
<1>7. AllGone  BY Waves DEF AllGone, Over
<1> QED BY <1>4, <1>5, <1>6, <1>7 DEF Inv

LEMMA OpenIs ==
    ASSUME Inv
    PROVE  /\ Open \in Seq(Orders) /\ IsInjective(Open)
           /\ ToSet(Open) = ToSet(carried) \cup ToSet(Arrived)
           /\ ToSet(Open) \cap dispatchedEver = {}
           /\ ToSet(Sent) \cap ToSet(carried) = {} /\ IsInjective(Sent)
           /\ ToSet(Sent) \cup ToSet(carried) = Visible
<1>1. carried \in Seq(Orders) /\ IsInjective(carried) /\ Sent \in Seq(Orders)
  BY DEF Inv, Typed, TypeOK, Accounted
<1>2. /\ IsInjective(Sent) /\ ToSet(Sent) \cap ToSet(carried) = {}
      /\ ToSet(Sent) \cup ToSet(carried) = Visible
      /\ dispatchedEver = ToSet(Sent)
  BY <1>1, ConcatSets DEF Inv, Accounted
<1>3. /\ Arrived \in Seq(Orders) /\ IsInjective(Arrived)
      /\ ToSet(Arrived) \cap (dispatchedEver \cup ToSet(carried)) = {}
  BY ArrivedIs DEF Inv
<1>4. /\ Open \in Seq(Orders)
      /\ ToSet(Open) = ToSet(carried) \cup ToSet(Arrived)
      /\ IsInjective(Open)
  BY <1>1, <1>3, ConcatSets DEF Open
<1> QED BY <1>2, <1>3, <1>4

LEMMA SkipInv ==
    ASSUME Inv, SkipWave PROVE Inv'
<1> USE DEF SkipWave
<1>1. carried = <<>> /\ ToSet(Open) = {}
  <2>1. carried \in Seq(Orders) /\ Arrived \in Seq(Orders)
    BY ArrivedIs DEF Inv, Typed, TypeOK
  <2>2. Len(carried) + Len(Arrived) = 0
    BY <2>1 DEF Open
  <2> QED BY <2>1, <2>2 DEF ToSet
<1>2. wave \in 1..EpochCount /\ EpochCount \in Nat
  BY Waves DEF Playing, Inv, Typed, TypeOK
<1>3. Sent' = Sent  BY DEF Sent
<1>4. Typed'  BY <1>2 DEF Inv, Typed, TypeOK
<1>5. Accounted'  BY <1>3 DEF Inv, Accounted, Visible
<1>6. Waits'  BY <1>1 DEF Waits
<1>7. SentWhileServable'
  BY DEF Inv, SentWhileServable, Servable
<1>8. AllGone'
  <2>1. SUFFICES ASSUME Over' PROVE ToSet(Sent) = Orders
    BY <1>3 DEF AllGone
  <2>2. LastWave  BY <1>2, <2>1 DEF Over, LastWave
  <2>3. Orders \subseteq dispatchedEver
    BY <1>1, <2>2, ArrivedIs, OpenIs DEF Inv
  <2>4. dispatchedEver \subseteq Orders /\ dispatchedEver = ToSet(Sent)
    BY DEF Inv, Typed, TypeOK, Accounted
  <2> QED BY <2>3, <2>4
<1> QED BY <1>4, <1>5, <1>6, <1>7, <1>8 DEF Inv

LEMMA RefuseInv ==
    ASSUME Inv, RefuseWave PROVE Inv'
<1> USE DEF RefuseWave
<1>1. Sent' = Sent  BY DEF Sent
<1>2. Typed'  BY DEF Inv, Typed, TypeOK
<1>3. Accounted'  BY <1>1 DEF Inv, Accounted, Visible
<1>4. Waits'  BY DEF Inv, Waits, Servable
<1>5. SentWhileServable'  BY DEF Inv, SentWhileServable, Servable
<1>6. AllGone'  BY <1>1 DEF Inv, AllGone, Over
<1> QED BY <1>2, <1>3, <1>4, <1>5, <1>6 DEF Inv

(* A wave that is played, step by step.                                    *)
SeenNow ==
    [o \in Orders |->
        IF o \in ToSet(Arrived) THEN Epoch(wave).start ELSE firstSeen[o]]

Split == Classify(Open, Epoch(wave).end)

Row(d) ==
    [wave |-> wave, dispatched |-> d.dispatched, postponed |-> d.postponed,
     must |-> Split.must, forced |-> d.forced,
     delay |-> Delay(ToSet(d.dispatched), SeenNow, Epoch(wave).start),
     moves |-> Cardinality(Moved(provisional, FirstFit(d.postponed),
                                 ToSet(d.postponed)))]

Turn(chosen, d) ==
    /\ Playing
    /\ chosen \in Chosen(Open, Split) /\ chosen \subseteq ToSet(Open)
    /\ d = Decide(Open, Split, chosen)
    /\ carried' = d.postponed
    /\ dispatchedEver' = dispatchedEver \cup ToSet(d.dispatched)
    /\ provisional' = FirstFit(d.postponed)
    /\ records' = Append(records, Row(d))
    /\ firstSeen' = SeenNow /\ wave' = wave + 1
    /\ UNCHANGED <<day, policy, raised>>

LEMMA TurnIs == PlayWave => \E chosen, d : Turn(chosen, d)
<1> SUFFICES ASSUME PlayWave PROVE \E chosen, d : Turn(chosen, d)  OBVIOUS
<1>1. PICK chosen \in Chosen(Open, Split) :
         LET d == Decide(Open, Split, chosen)
             published == FirstFit(d.postponed)
         IN /\ Known(Open, chosen)
            /\ carried' = d.postponed
            /\ dispatchedEver' = dispatchedEver \cup ToSet(d.dispatched)
            /\ provisional' = published
            /\ records' = Append(records,
                 [wave |-> wave, dispatched |-> d.dispatched,
                  postponed |-> d.postponed, must |-> Split.must,
                  forced |-> d.forced,
                  delay |-> Delay(ToSet(d.dispatched), SeenNow,
                                  Epoch(wave).start),
                  moves |-> Cardinality(Moved(provisional, published,
                                              ToSet(d.postponed)))])
  BY Zenon DEF PlayWave, Split, SeenNow
<1>2. /\ Playing /\ firstSeen' = SeenNow /\ wave' = wave + 1
      /\ UNCHANGED <<day, policy, raised>>
  BY Zenon DEF PlayWave, SeenNow
<1> DEFINE d == Decide(Open, Split, chosen)
<1>3. Turn(chosen, d)  BY Zenon, <1>1, <1>2 DEF Turn, Row, Known
<1> QED BY <1>3

(* What it divides the open work into, and what it writes down.            *)
Divides(chosen, d) ==
    /\ chosen \in SUBSET Orders
    /\ d.dispatched \in Seq(Orders) /\ IsInjective(d.dispatched)
    /\ d.postponed \in Seq(Orders) /\ IsInjective(d.postponed)
    /\ ToSet(d.dispatched) \cup ToSet(d.postponed) = ToSet(Open)
    /\ ToSet(d.dispatched) \cap ToSet(d.postponed) = {}
    /\ ToSet(d.postponed) \cap chosen = {}
    /\ \A o \in ToSet(d.postponed) : Servable(o, Epoch(wave).end)
    /\ LastWave => ToSet(d.postponed) = {}
    /\ \A o \in ToSet(Open) : o \in Orders /\ SeenNow[o] \in Nat
    /\ ToSet(d.dispatched) \cap ToSet(Sent) = {}

Writes(d) ==
    /\ Row(d) \in Records
    /\ records' \in Seq(Records) /\ Len(records') = Len(records) + 1
    /\ records'[Len(records) + 1] = Row(d)
    /\ \A i \in 1..Len(records) : records'[i] = records[i]
    /\ Sent' = Sent \o d.dispatched
    /\ Sent' \in Seq(Orders) /\ IsInjective(Sent')
    /\ ToSet(Sent') = ToSet(Sent) \cup ToSet(d.dispatched)

LEMMA TurnDivides ==
    ASSUME Inv, NEW chosen, NEW d, Turn(chosen, d)
    PROVE  /\ Divides(chosen, d)
           /\ d.forced \in Seq(Orders) /\ Split.must \in Seq(Orders)
<1>1. d = Decide(Open, Split, chosen) /\ chosen \subseteq ToSet(Open)
      /\ chosen \in Chosen(Open, Split) /\ Playing
  BY DEF Turn
<1>2. /\ Open \in Seq(Orders) /\ IsInjective(Open)
      /\ ToSet(Open) = ToSet(carried) \cup ToSet(Arrived)
      /\ ToSet(Open) \cap dispatchedEver = {}
      /\ ToSet(Sent) \cup ToSet(carried) = Visible
  BY OpenIs
<1>3. ToSet(Open) \subseteq Orders  BY <1>2 DEF ToSet
<1>4. chosen \in SUBSET Orders  BY <1>1, <1>3
<1>5. /\ d.dispatched \in Seq(Orders) /\ IsInjective(d.dispatched)
      /\ d.postponed \in Seq(Orders) /\ IsInjective(d.postponed)
      /\ d.forced \in Seq(Orders) /\ Split.must \in Seq(Orders)
      /\ ToSet(d.dispatched) \cup ToSet(d.postponed) = ToSet(Open)
      /\ ToSet(d.dispatched) \cap ToSet(d.postponed) = {}
      /\ ToSet(d.postponed) \cap chosen = {}
      /\ \A o \in ToSet(d.postponed) : Servable(o, Epoch(wave).end)
  <2> DEFINE t == Epoch(wave).end
             e == Decide(Open, Classify(Open, t), chosen)
  <2>1. d = e /\ Split.must = Classify(Open, t).must
    BY Zenon, <1>1 DEF Split
  <2>2. Open \in Seq(Orders) /\ IsInjective(Open)  BY <1>2
  <2>3. /\ e.dispatched \in Seq(Orders) /\ IsInjective(e.dispatched)
        /\ e.postponed \in Seq(Orders) /\ IsInjective(e.postponed)
        /\ e.forced \in Seq(Orders) /\ Classify(Open, t).must \in Seq(Orders)
        /\ ToSet(e.dispatched) \cup ToSet(e.postponed) = ToSet(Open)
        /\ ToSet(e.dispatched) \cap ToSet(e.postponed) = {}
        /\ ToSet(e.postponed) \cap chosen = {}
        /\ \A o \in ToSet(e.postponed) : Servable(o, t)
    <3> HIDE DEF t
    <3> QED BY <1>4, <2>2, DecideSplits
  <2> HIDE DEF e
  <2> QED BY <2>1, <2>3
<1>6. LastWave => ToSet(d.postponed) = {}
  <2>1. LastWave => chosen = ToSet(Open)  BY <1>1 DEF Chosen, Greedy
  <2> QED BY <1>5, <2>1
<1>7. ASSUME NEW o \in ToSet(Open) PROVE o \in Orders /\ SeenNow[o] \in Nat
  <2>1. o \in Orders  BY <1>3
  <2>2. CASE o \in ToSet(Arrived)
    <3>1. Epoch(wave).start \in Nat
      BY <1>1, Waves DEF Playing, Inv, Typed, TypeOK
    <3> QED BY <2>1, <2>2, <3>1 DEF SeenNow
  <2>3. CASE o \notin ToSet(Arrived)
    <3>1. o \in Visible  BY <1>2, <2>3
    <3>2. firstSeen[o] \in Nat
      BY <2>1, <3>1 DEF Visible, Inv, Typed, TypeOK
    <3> QED BY <2>1, <2>3, <3>2 DEF SeenNow
  <2> QED BY <2>1, <2>2, <2>3
<1>8. ToSet(d.dispatched) \cap ToSet(Sent) = {}
  <2>1. dispatchedEver = ToSet(Sent)  BY DEF Inv, Accounted
  <2> QED BY <1>2, <1>5, <2>1
<1> QED BY <1>4, <1>5, <1>6, <1>7, <1>8 DEF Divides

LEMMA MaxIs == \A a, b \in Int : Max({a, b}) = IF a >= b THEN a ELSE b
  BY DEF Max

LEMMA DelayIsNat ==
    ASSUME NEW S \in SUBSET Orders, NEW seen, \A o \in S : seen[o] \in Nat,
           NEW start \in Nat
    PROVE  Delay(S, seen, start) \in Nat
<1> DEFINE w == [o \in S |-> Waited(o, seen, start)]
<1>1. \A o \in S : w[o] \in Nat  BY MaxIs DEF Waited
<1>2. IsFiniteSet(S) /\ DOMAIN w = S  BY Sets, FS_Subset
<1>3. Delay(S, seen, start) = SumFunctionOnSet(w, S)
  BY Zenon, <1>2 DEF Delay, SumFunction
<1> HIDE DEF w
<1> QED BY <1>1, <1>2, <1>3, SumIsNat

LEMMA TurnWrites ==
    ASSUME Inv, NEW chosen, NEW d, Turn(chosen, d)
    PROVE  Writes(d)
<1> DEFINE out == d.dispatched
           kept == d.postponed
           row == Row(d)
<1>1. /\ Divides(chosen, d)
      /\ d.forced \in Seq(Orders) /\ Split.must \in Seq(Orders)
  BY TurnDivides
<1>2. /\ out \in Seq(Orders) /\ IsInjective(out) /\ kept \in Seq(Orders)
      /\ ToSet(out) \subseteq ToSet(Open)
      /\ \A o \in ToSet(out) : o \in Orders /\ SeenNow[o] \in Nat
      /\ ToSet(out) \cap ToSet(Sent) = {}
  BY <1>1 DEF Divides
<1>3. /\ wave \in 1..EpochCount /\ Epoch(wave).start \in Nat
      /\ records \in Seq(Records) /\ Sent \in Seq(Orders)
      /\ records' = Append(records, row)
  BY Waves DEF Turn, Playing, Inv, Typed, TypeOK, Accounted
<1>4. IsInjective(Sent)  BY OpenIs
<1>5. row \in Records
  <2> HIDE DEF out, kept
  <2>1. Moved(provisional, FirstFit(kept), ToSet(kept)) \in SUBSET Orders
    BY <1>2 DEF Moved, ToSet
  <2>2. Delay(ToSet(out), SeenNow, Epoch(wave).start) \in Nat
    <3>1. ToSet(out) \in SUBSET Orders  BY <1>2
    <3> QED BY <1>2, <1>3, <3>1, DelayIsNat
  <2>3. Cardinality(Moved(provisional, FirstFit(kept), ToSet(kept))) \in Counts
    BY Zenon, <2>1 DEF Counts
  <2>4. row = [wave |-> wave, dispatched |-> out, postponed |-> kept,
               must |-> Split.must, forced |-> d.forced,
               delay |-> Delay(ToSet(out), SeenNow, Epoch(wave).start),
               moves |-> Cardinality(Moved(provisional, FirstFit(kept),
                                           ToSet(kept)))]
    BY Zenon DEF Row, out, kept
  <2> HIDE DEF row
  <2> QED BY <1>1, <1>2, <1>3, <2>2, <2>3, <2>4 DEF Records
<1>6. row.dispatched = out  BY DEF Row
<1> HIDE DEF row, out, kept
<1>7. records' \in Seq(Records) /\ Len(records') = Len(records) + 1
      /\ records'[Len(records) + 1] = row
      /\ \A i \in 1..Len(records) : records'[i] = records[i]
  BY <1>3, <1>5
<1>8. Sent' = Sent \o out
  <2> DEFINE sheets == [i \in DOMAIN records |-> records[i].dispatched]
  <2>1. sheets \in Seq(Seq(Orders))
    <3>1. \A r \in Records : r.dispatched \in Seq(Orders)  BY DEF Records
    <3>2. \A i \in DOMAIN records : records[i] \in Records  BY <1>3
    <3> QED BY <1>3, <3>1, <3>2
  <2>2. [i \in DOMAIN records' |-> records'[i].dispatched]
           = Append(sheets, out)
    BY <1>2, <1>3, <1>6, <1>7
  <2>3. Sent = FlattenSeq(sheets)  BY DEF Sent
  <2>4. Sent' = FlattenSeq([i \in DOMAIN records' |-> records'[i].dispatched])
    BY DEF Sent
  <2> HIDE DEF sheets
  <2> QED BY <1>2, <2>1, <2>2, <2>3, <2>4, FlattenAppend
<1>9. /\ Sent' \in Seq(Orders) /\ IsInjective(Sent')
      /\ ToSet(Sent') = ToSet(Sent) \cup ToSet(out)
  BY <1>2, <1>3, <1>4, <1>8, ConcatSets
<1> QED BY <1>5, <1>7, <1>8, <1>9 DEF Writes, row, out

LEMMA PlayInv ==
    ASSUME Inv, PlayWave PROVE Inv'
<1> DEFINE new == ToSet(Arrived)
           seen == SeenNow
<1>1. PICK chosen, d : Turn(chosen, d)  BY TurnIs
<1> DEFINE out == d.dispatched
           kept == d.postponed
           row == Row(d)
<1>2. /\ Playing /\ firstSeen' = seen /\ wave' = wave + 1
      /\ UNCHANGED <<day, policy, raised>>
  BY <1>1 DEF Turn
<1>3. /\ ToSet(Open) = ToSet(carried) \cup new
      /\ ToSet(Open) \cap dispatchedEver = {}
      /\ ToSet(Sent) \cup ToSet(carried) = Visible
  BY OpenIs
<1>4. /\ new \cap (dispatchedEver \cup ToSet(carried)) = {} /\ new \subseteq Orders
      /\ LastWave => Orders \subseteq new \cup dispatchedEver \cup ToSet(carried)
  BY ArrivedIs DEF Inv, ToSet
<1>5. Divides(chosen, d) /\ Writes(d)  BY <1>1, TurnDivides, TurnWrites
<1>6. /\ out \in Seq(Orders) /\ IsInjective(out)
      /\ kept \in Seq(Orders) /\ IsInjective(kept)
      /\ ToSet(out) \cup ToSet(kept) = ToSet(Open)
      /\ ToSet(out) \cap ToSet(kept) = {}
      /\ \A o \in ToSet(kept) : Servable(o, Epoch(wave).end)
      /\ \A o \in ToSet(Open) : o \in Orders /\ seen[o] \in Nat
      /\ LastWave => ToSet(kept) = {}
  BY <1>5 DEF Divides
<1>7. /\ carried' = kept /\ dispatchedEver' = dispatchedEver \cup ToSet(out)
      /\ provisional' = FirstFit(kept)
  BY <1>1 DEF Turn
<1>9. /\ wave \in 1..EpochCount /\ EpochCount \in Nat
      /\ Epoch(wave).start \in Nat
      /\ firstSeen \in [Orders -> Nat \cup {Unseen}]
      /\ records \in Seq(Records) /\ Len(records) < wave
      /\ dispatchedEver = ToSet(Sent) /\ Sent \in Seq(Orders)
  BY <1>2, Waves DEF Playing, Inv, Typed, TypeOK, Accounted
<1>10. seen \in [Orders -> Nat \cup {Unseen}]  BY <1>9 DEF SeenNow
<1>11. row.dispatched = out /\ row.wave = wave  BY DEF Row
<1>12. /\ records' \in Seq(Records) /\ Len(records') = Len(records) + 1
       /\ records'[Len(records) + 1] = row
       /\ \A i \in 1..Len(records) : records'[i] = records[i]
       /\ Sent' \in Seq(Orders) /\ IsInjective(Sent')
       /\ ToSet(Sent') = ToSet(Sent) \cup ToSet(out)
  BY <1>5 DEF Writes
<1>14. Visible' = ToSet(Sent) \cup ToSet(carried) \cup new
  BY <1>2, <1>3, <1>4, <1>9, Sets DEF Visible, SeenNow
<1>15. ToSet(Sent) \cap ToSet(carried) = {}  BY OpenIs
<1> HIDE DEF new, seen, out, kept, row
<1>16. Accounted'
  <2>1. ToSet(Sent') \cap ToSet(kept) = {}  BY <1>3, <1>6, <1>9, <1>12, <1>15
  <2>2. /\ IsInjective(Sent' \o kept)
        /\ ToSet(Sent' \o kept) = ToSet(Sent') \cup ToSet(kept)
    BY <1>6, <1>12, <2>1, ConcatSets
  <2>3. ToSet(Sent' \o kept) = Visible'
    BY <1>3, <1>6, <1>12, <1>14, <2>2
  <2>4. ASSUME NEW i \in DOMAIN records'
        PROVE  ToSet(records'[i].dispatched) \subseteq dispatchedEver'
    <3>1. i \in 1..(Len(records) + 1)  BY <1>9, <1>12
    <3>2. CASE i = Len(records) + 1  BY <1>7, <1>11, <1>12, <3>2
    <3>3. CASE i # Len(records) + 1
      <4>1. i \in DOMAIN records /\ records'[i] = records[i]
        BY <1>9, <1>12, <3>1, <3>3
      <4> QED BY <4>1, <1>7 DEF Inv, Accounted
    <3> QED BY <3>2, <3>3
  <2>5. dispatchedEver' = ToSet(Sent')  BY <1>7, <1>9, <1>12
  <2>6. Sent' \o carried' = Sent' \o kept  BY <1>7
  <2> QED BY <1>12, <2>2, <2>3, <2>4, <2>5, <2>6 DEF Accounted
<1>17. Typed'
  <2>1. DOMAIN provisional' \subseteq ToSet(carried')
    BY <1>6, <1>7, FirstFitPlaces
  <2>2. dispatchedEver' \subseteq Orders  BY <1>6, <1>7, <1>9 DEF ToSet
  <2>3. firstSeen' \in [Orders -> Nat \cup {Unseen}]  BY <1>2, <1>10
  <2>4. wave' \in 1..(EpochCount + 1) /\ Len(records') < wave'
    BY <1>2, <1>9, <1>12
  <2>5. carried' \in Seq(Orders) /\ IsInjective(carried')  BY <1>6, <1>7
  <2>6. day' = day /\ EpochCount' = EpochCount
    BY <1>2 DEF EpochCount, Horizon
  <2>7. Typed  BY DEF Inv
  <2> QED BY <2>1, <2>2, <2>3, <2>4, <2>5, <2>6, <2>7, <1>12
          DEF Typed, TypeOK
<1>18. Waits'
  <2>1. SUFFICES ASSUME kept # <<>>
                 PROVE  /\ wave + 1 <= EpochCount
                        /\ \A o \in ToSet(kept) :
                              Servable(o, Epoch(wave + 1).start)
    BY <1>2, <1>7 DEF Waits, Servable
  <2>2. ToSet(kept) # {}
    <3>1. Len(kept) # 0 /\ 1 \in DOMAIN kept  BY <1>6, <2>1
    <3> QED BY <3>1 DEF ToSet
  <2>3. ~LastWave  BY <1>6, <2>2
  <2>4. wave \in 1..(EpochCount - 1)  BY <1>9, <2>3 DEF LastWave
  <2> QED BY <1>6, <1>9, <2>4, Waves
<1>19. SentWhileServable'
  <2>1. SUFFICES ASSUME NEW i \in 1..(Len(records) + 1),
                        NEW o \in ToSet(records'[i].dispatched),
                        Servable(o, seen[o])
                 PROVE  Servable(o, Epoch(records'[i].wave).start)
    <3>1. DOMAIN records' = 1..(Len(records) + 1)  BY <1>12, <1>9
    <3> QED BY <1>2, <3>1 DEF SentWhileServable, Servable
  <2>2. CASE i = Len(records) + 1
    <3>1. o \in ToSet(out) /\ records'[i].wave = wave
      BY <1>11, <1>12, <2>1, <2>2
    <3>2. o \in Orders  BY <1>6, <3>1 DEF ToSet
    <3>3. CASE o \in new  BY <2>1, <3>1, <3>2, <3>3 DEF seen, SeenNow, new
    <3>4. CASE o \notin new
      <4>1. o \in ToSet(carried)  BY <1>3, <1>6, <3>1, <3>4
      <4>2. carried # <<>>  BY <4>1 DEF ToSet
      <4> QED BY <3>1, <4>1, <4>2 DEF Inv, Waits
    <3> QED BY <3>3, <3>4
  <2>3. CASE i # Len(records) + 1
    <3>1. i \in 1..Len(records) /\ i \in DOMAIN records
          /\ records'[i] = records[i]
      BY <1>9, <1>12, <2>3
    <3>2. o \in Orders
      <4>1. records[i] \in Records  BY <1>9, <3>1
      <4>2. records[i].dispatched \in Seq(Orders)  BY <4>1 DEF Records
      <4> QED BY <2>1, <3>1, <4>2 DEF ToSet
    <3>3. o \in ToSet(Sent)  BY <1>9, <2>1, <3>1 DEF Inv, Accounted
    <3>4. seen[o] = firstSeen[o]  BY <1>4, <1>9, <3>2, <3>3
      DEF seen, SeenNow, new
    <3> QED BY <2>1, <3>1, <3>4 DEF Inv, SentWhileServable
  <2> QED BY <2>2, <2>3
<1>20. AllGone'
  <2>1. SUFFICES ASSUME wave = EpochCount PROVE ToSet(Sent') = Orders
    BY <1>2, <1>9 DEF AllGone, Over
  <2>2. LastWave /\ ToSet(kept) = {}
    BY <1>6, <2>1 DEF LastWave
  <2>3. ToSet(Sent') \subseteq Orders  BY <1>12 DEF ToSet
  <2> QED BY <1>3, <1>4, <1>6, <1>9, <1>12, <2>2, <2>3
<1> QED BY <1>16, <1>17, <1>18, <1>19, <1>20 DEF Inv

LEMMA NextInv == Inv /\ [Next]_vars => Inv'
<1> SUFFICES ASSUME Inv, [Next]_vars PROVE Inv'  OBVIOUS
<1>1. CASE SkipWave  BY <1>1, SkipInv
<1>2. CASE PlayWave  BY <1>2, PlayInv
<1>3. CASE RefuseWave  BY <1>3, RefuseInv
<1>4. CASE UNCHANGED vars
  <2> USE <1>4 DEF vars
  <2>1. Sent' = Sent  BY DEF Sent
  <2>2. Typed'  BY DEF Inv, Typed, TypeOK
  <2>3. Accounted'  BY <2>1 DEF Inv, Accounted, Visible
  <2>4. Waits'  BY DEF Inv, Waits, Servable
  <2>5. SentWhileServable'  BY DEF Inv, SentWhileServable, Servable
  <2>6. AllGone'  BY <2>1 DEF Inv, AllGone, Over
  <2> QED BY <2>2, <2>3, <2>4, <2>5, <2>6 DEF Inv
<1> QED BY <1>1, <1>2, <1>3, <1>4 DEF Next

(* replay() with decide() and must_go(): under any policy, with arrivals   *)
(* in any wave, no order is lost or sent twice, all are sent by the end of *)
(* the day, and an order that some vehicle could serve when it was first   *)
(* seen is sent while some vehicle still can.                              *)
THEOREM OrdersGoInTime == Spec => []EveryOrderGoesInTime
<1>1. Inv => EveryOrderGoesInTime
  BY DEF Inv, Typed, Accounted, AllGone, EveryOrderGoesInTime,
         SentExactlyOnce, Visible
<1> QED BY <1>1, InitInv, NextInv, PTL DEF Spec

-----------------------------------------------------------------------------
(* What holding costs.                                                     *)

LEMMA CountOf ==
    ASSUME NEW S, NEW s \in Seq(S), IsInjective(s)
    PROVE  IsFiniteSet(ToSet(s)) /\ Cardinality(ToSet(s)) = Len(s)
<1>1. Len(s) \in Nat /\ s \in [1..Len(s) -> ToSet(s)]  BY DEF ToSet
<1>2. s \in Injection(1..Len(s), ToSet(s))
  BY <1>1 DEF Injection, IsInjective
<1>3. s \in Surjection(1..Len(s), ToSet(s))
  BY <1>1 DEF Surjection, ToSet
<1>4. IsFiniteSet(1..Len(s)) /\ Cardinality(1..Len(s)) = Len(s)
  BY <1>1, FS_Interval
<1> QED BY <1>2, <1>3, <1>4, FS_Surjection

LEMMA SumSame ==
    ASSUME NEW S, IsFiniteSet(S), NEW f, NEW h,
           \A x \in S : f[x] \in Nat /\ h[x] = f[x]
    PROVE  SumFunctionOnSet(h, S) = SumFunctionOnSet(f, S)
<1>1. /\ SumFunctionOnSet(f, S) <= SumFunctionOnSet(h, S)
      /\ SumFunctionOnSet(h, S)
            <= SumFunctionOnSet(f, S) + Cardinality(S) * 0
  <2>1. \A x \in S : /\ f[x] \in Nat /\ h[x] \in Nat
                     /\ f[x] <= h[x] /\ h[x] <= f[x] + 0
    OBVIOUS
  <2> QED BY <2>1, SumBetween
<1>2. /\ SumFunctionOnSet(f, S) \in Nat /\ SumFunctionOnSet(h, S) \in Nat
      /\ Cardinality(S) \in Nat
  BY SumIsNat, FS_CardinalityType
<1> QED BY <1>1, <1>2

(* The one row that sent o.                                                *)
Sheets(rows) == [i \in DOMAIN rows |-> rows[i].dispatched]

WentIn(rows, o) ==
    Epoch(rows[CHOOSE i \in DOMAIN rows : o \in ToSet(rows[i].dispatched)].wave
         ).start

LEMMA SentByOne ==
    ASSUME NEW rows \in Seq(Records), IsInjective(FlattenSeq(Sheets(rows)))
    PROVE  /\ ToSet(FlattenSeq(Sheets(rows)))
                 = UNION {ToSet(rows[i].dispatched) : i \in 1..Len(rows)}
           /\ \A i \in 1..Len(rows) : \A o \in ToSet(rows[i].dispatched) :
                 WentIn(rows, o) = Epoch(rows[i].wave).start
<1>1. Len(rows) \in Nat /\ DOMAIN rows = 1..Len(rows)  OBVIOUS
<1> DEFINE sheets == Sheets(rows)
<1>2. /\ sheets \in Seq(Seq(Orders)) /\ Len(sheets) = Len(rows)
      /\ \A i \in 1..Len(rows) : sheets[i] = rows[i].dispatched
  <2>1. \A i \in 1..Len(rows) : rows[i].dispatched \in Seq(Orders)
    <3>1. \A r \in Records : r.dispatched \in Seq(Orders)  BY DEF Records
    <3> QED BY <1>1, <3>1
  <2> QED BY <1>1, <2>1 DEF Sheets
<1> HIDE DEF sheets
<1>3. CASE Len(rows) = 0
  <2>1. sheets = <<>>  BY <1>2, <1>3
  <2>2. ToSet(FlattenSeq(<<>>)) = {}  BY DEF FlattenSeq, ToSet
  <2> QED BY <1>3, <2>1, <2>2 DEF sheets
<1>4. CASE Len(rows) # 0
  <2>1. /\ ToSet(FlattenSeq(sheets))
              = UNION {ToSet(sheets[i]) : i \in 1..Len(sheets)}
        /\ IsInjective(FlattenSeq(sheets)) =>
              \A i, j \in 1..Len(sheets) :
                 i # j => ToSet(sheets[i]) \cap ToSet(sheets[j]) = {}
    BY <1>2, <1>4, FlattenParts
  <2>2. \A i, j \in 1..Len(rows) : i # j =>
           ToSet(rows[i].dispatched) \cap ToSet(rows[j].dispatched) = {}
    BY <1>2, <2>1 DEF sheets
  <2>3. ASSUME NEW i \in 1..Len(rows), NEW o \in ToSet(rows[i].dispatched)
        PROVE  WentIn(rows, o) = Epoch(rows[i].wave).start
    <3> DEFINE k == CHOOSE k \in DOMAIN rows :
                       o \in ToSet(rows[k].dispatched)
    <3>1. k \in DOMAIN rows /\ o \in ToSet(rows[k].dispatched)
      BY <1>1, <2>3
    <3>2. k = i
      <4> HIDE DEF k
      <4> QED BY <1>1, <2>2, <2>3, <3>1
    <3> QED BY <3>2 DEF WentIn
  <2>4. ToSet(FlattenSeq(sheets))
           = UNION {ToSet(rows[i].dispatched) : i \in 1..Len(rows)}
    BY <1>2, <2>1
  <2> QED BY <2>3, <2>4 DEF sheets
<1> QED BY <1>1, <1>3, <1>4

(* What is published is the first fit of what is carried.                  *)
Published ==
    /\ provisional = FirstFit(carried)
    /\ records # <<>> => carried = records[Len(records)].postponed

(* Work is noticed within an epoch of its arrival.                         *)
Noticed ==
    /\ \A o \in ToSet(carried) :
          /\ firstSeen[o] \in Nat /\ day[o] <= firstSeen[o]
          /\ firstSeen[o] <= day[o] + (EpochLength - 1)
    /\ wave <= EpochCount =>
          \A o \in Orders : firstSeen[o] = Unseen =>
             Epoch(wave).start <= day[o] + (EpochLength - 1)

Honest == Published /\ Noticed /\ HoldingIsHonest

LEMMA InitHonest == Init => Honest
<1> SUFFICES ASSUME Init PROVE Honest  OBVIOUS
<1> USE DEF Init
<1>1. Published
  <2>1. FirstFit(<<>>) = Nobody
    <3>1. <<>> \in Seq(Orders) /\ Len(<<>>) = 0  OBVIOUS
    <3>2. PICK g : Fits(g, <<>>, 0) /\ FirstFit(<<>>) = g[0]
      BY <3>1, FirstFitIs
    <3>3. 0 \in Nat /\ 0 \in 0..0  OBVIOUS
    <3>4. g[0] = Nobody  BY <3>2, <3>3, FitsStep
    <3> QED BY <3>2, <3>4
  <2> QED BY <2>1 DEF Published, Nobody
<1>2. Noticed
  <2>1. \A o \in Orders : day[o] \in Nat /\ Horizon.start <= day[o]
    <3>1. \A t \in Arrivals : t \in Nat /\ Horizon.start <= t
      BY Sets, MaxIs DEF Arrivals
    <3> QED BY <3>1
  <2>2. Epoch(wave).start = Horizon.start  BY Waves
  <2>3. ToSet(carried) = {}  BY DEF ToSet
  <2> QED BY <2>1, <2>2, <2>3, Sets DEF Noticed
<1>3. PublishedStaysPut  BY DEF PublishedStaysPut
<1>4. LonelyWorkGoes
  <2>1. ToSet(carried) = {}  BY DEF ToSet
  <2> QED BY <2>1 DEF LonelyWorkGoes
<1>5. DelayChargedOnce
  <2>1. Sheets(records) = <<>>  BY DEF Sheets
  <2>2. Sent = <<>>  BY <2>1 DEF Sent, Sheets, FlattenSeq
  <2>3. ToSet(Sent) = {}  BY <2>2 DEF ToSet
  <2>4. \A f : DOMAIN f = {} => SumFunction(f) = 0
    <3>1. \A f : SumFunctionOnSet(f, {}) = 0
      BY FS_EmptySet, SumUnfolds
    <3> QED BY <3>1 DEF SumFunction
  <2>5. SumFunction(HeldFor) = 0
    <3>1. DOMAIN HeldFor = {}  BY <2>3 DEF HeldFor
    <3> QED BY <2>4, <3>1
  <2>6. Charged = 0
    <3> DEFINE f == [i \in DOMAIN records |-> records[i].delay]
    <3>1. DOMAIN f = {}  OBVIOUS
    <3> HIDE DEF f
    <3>2. SumFunction(f) = 0  BY <2>4, <3>1
    <3> QED BY <3>2 DEF Charged, f
  <2>7. Len(Sent) = 0 /\ EpochLength - 1 \in Nat  BY <2>2, Sets
  <2> QED BY <2>5, <2>6, <2>7 DEF DelayChargedOnce
<1> QED BY <1>1, <1>2, <1>3, <1>4, <1>5 DEF Honest, HoldingIsHonest

LEMMA SkipHonest ==
    ASSUME Inv, Honest, SkipWave PROVE Honest'
<1> USE DEF SkipWave
<1>1. ToSet(carried) = {} /\ ToSet(Arrived) = {}
  <2>1. carried \in Seq(Orders) /\ Arrived \in Seq(Orders)
    BY ArrivedIs DEF Inv, Typed, TypeOK
  <2>2. Len(carried) + Len(Arrived) = 0
    BY <2>1 DEF Open
  <2> QED BY <2>1, <2>2 DEF ToSet
<1>2. wave \in 1..EpochCount /\ EpochCount \in Nat
  BY Waves DEF Playing, Inv, Typed, TypeOK
<1>3. Published'  BY DEF Honest, Published
<1>4. Noticed'
  <2>1. SUFFICES ASSUME wave + 1 <= EpochCount,
                        NEW o \in Orders, firstSeen[o] = Unseen
                 PROVE  Epoch(wave + 1).start <= day[o] + (EpochLength - 1)
    BY <1>1 DEF Noticed
  <2>2. ~LastWave /\ wave \in 1..(EpochCount - 1)
    BY <1>2, <2>1 DEF LastWave
  <2>3. o \notin Visible  BY <2>1 DEF Visible
  <2>4. o \notin dispatchedEver \cup ToSet(carried)
    BY <2>3, OpenIs DEF Inv, Accounted
  <2>5. ~(day[o] <= Epoch(wave).start)
    BY <1>1, <2>2, <2>4, ArrivedIs DEF Inv
  <2>6. Epoch(wave + 1).start = Epoch(wave).start + EpochLength
        /\ Epoch(wave).start \in Nat
    BY <1>2, <2>2, Waves
  <2>7. day[o] \in Nat  BY DEF Inv, Typed
  <2> QED BY <2>5, <2>6, <2>7, Sets
<1>5. PublishedStaysPut'
  BY DEF Honest, HoldingIsHonest, PublishedStaysPut
<1>6. LonelyWorkGoes'
  BY <1>1 DEF LonelyWorkGoes
<1>7. DelayChargedOnce'
  <2>1. Sent' = Sent /\ Charged' = Charged  BY DEF Sent, Charged
  <2>2. HeldFor' = HeldFor  BY <2>1 DEF HeldFor, WentAt
  <2> QED BY <2>1, <2>2 DEF Honest, HoldingIsHonest, DelayChargedOnce
<1> QED BY <1>3, <1>4, <1>5, <1>6, <1>7 DEF Honest, HoldingIsHonest

LEMMA StillHonest ==
    ASSUME Honest,
           UNCHANGED <<day, policy, wave, carried, firstSeen, provisional,
                       records>>
    PROVE  Honest'
<1>1. Published' /\ Noticed'  BY DEF Honest, Published, Noticed
<1>2. PublishedStaysPut' /\ LonelyWorkGoes'
  BY DEF Honest, HoldingIsHonest, PublishedStaysPut, LonelyWorkGoes
<1>3. DelayChargedOnce'
  <2>1. Sent' = Sent /\ Charged' = Charged  BY DEF Sent, Charged
  <2>2. HeldFor' = HeldFor  BY <2>1 DEF HeldFor, WentAt
  <2> QED BY <2>1, <2>2 DEF Honest, HoldingIsHonest, DelayChargedOnce
<1> QED BY <1>1, <1>2, <1>3 DEF Honest, HoldingIsHonest

(* A wave that sends none of the carried work moves none of it.            *)
LEMMA PlayPublishes ==
    ASSUME Inv, Honest, NEW chosen, NEW d, Turn(chosen, d)
    PROVE  Published' /\ PublishedStaysPut'
<1> DEFINE out == d.dispatched
           kept == d.postponed
<1>1. Divides(chosen, d) /\ Writes(d)  BY TurnDivides, TurnWrites
<1>2. /\ out \in Seq(Orders) /\ kept \in Seq(Orders) /\ IsInjective(kept)
      /\ ToSet(out) \cup ToSet(kept) = ToSet(Open)
      /\ ToSet(out) \cap ToSet(kept) = {}
  BY <1>1 DEF Divides
<1>3. /\ records \in Seq(Records) /\ Len(records) \in Nat
      /\ carried \in Seq(Orders) /\ Len(carried) \in Nat
      /\ Arrived \in Seq(Orders)
  BY ArrivedIs DEF Inv, Typed, TypeOK
<1>4. /\ records' \in Seq(Records) /\ Len(records') = Len(records) + 1
      /\ records'[Len(records) + 1] = Row(d)
      /\ \A i \in 1..Len(records) : records'[i] = records[i]
  BY <1>1 DEF Writes
<1>5. /\ Row(d).dispatched = out /\ Row(d).postponed = kept
      /\ Row(d).moves = Cardinality(Moved(provisional, FirstFit(kept),
                                          ToSet(kept)))
  BY DEF Row
<1>6. carried' = kept /\ provisional' = FirstFit(kept)  BY DEF Turn
<1>7. kept = Kept(Open, Orders \ (chosen \cup ToSet(d.forced)))
      /\ out = Kept(Open, chosen \cup ToSet(d.forced))
  BY DEF Turn, Decide
<1>8. provisional = FirstFit(carried)  BY DEF Honest, Published
<1> HIDE DEF out, kept
<1>9. ToSet(carried) \cap ToSet(out) = {} => Row(d).moves = 0
  <2>1. SUFFICES ASSUME ToSet(carried) \cap ToSet(out) = {}
                 PROVE  Row(d).moves = 0
    OBVIOUS
  <2> DEFINE go == chosen \cup ToSet(d.forced)
             m == Len(carried)
  <2>2. /\ Open \in Seq(Orders) /\ m \in 0..Len(Open)
        /\ \A i \in 1..m : Open[i] = carried[i] /\ Open[i] \in Orders
    <3>1. Len(Open) = m + Len(Arrived) /\ Len(Arrived) \in Nat
      BY <1>3 DEF Open
    <3>2. \A i \in 1..m : carried[i] \in Orders  BY <1>3
    <3>3. /\ Open \in Seq(Orders)
          /\ \A i \in 1..m : Open[i] = carried[i]
      BY <1>3, ConcatAt DEF Open
    <3> QED BY <1>3, <3>1, <3>2, <3>3
  <2>3. ToSet(out) = ToSet(Open) \cap go
    <3>1. out = Kept(Open, go) /\ Open \in Seq(Orders)  BY <1>7, <2>2
    <3> HIDE DEF go
    <3> QED BY <3>1, KeptSelects
  <2>4. \A i \in 1..m : Open[i] \in Orders \ go
    <3>1. \A i \in 1..m : Open[i] \in ToSet(Open) /\ Open[i] \in ToSet(carried)
      BY <1>3, <2>2 DEF ToSet
    <3> HIDE DEF go, m
    <3> QED BY <2>1, <2>2, <2>3, <3>1
  <2>5. m <= Len(kept) /\ \A i \in 1..m : kept[i] = carried[i]
    <3> DEFINE stay == Orders \ go
    <3>1. kept = Kept(Open, stay)  BY <1>7
    <3>2. \A i \in 1..m : Open[i] \in stay  BY <2>4
    <3>3. m \in 0..Len(Open) /\ Open \in Seq(Orders)  BY <2>2
    <3> HIDE DEF stay, m, go
    <3>4. /\ m <= Len(Kept(Open, stay))
          /\ \A i \in 1..m : Kept(Open, stay)[i] = Open[i]
      BY <3>2, <3>3, KeptBeginning
    <3> QED BY <2>2, <3>1, <3>4
  <2>6. \A p \in ToSet(carried) :
           p \in DOMAIN FirstFit(carried) =>
              /\ p \in DOMAIN FirstFit(kept)
              /\ FirstFit(kept)[p] = FirstFit(carried)[p]
    BY <1>2, <1>3, <2>5, FirstFitKeeps
  <2>7. DOMAIN FirstFit(carried) \subseteq ToSet(carried)
    BY <1>3, FirstFitPlaces
  <2>8. Moved(provisional, FirstFit(kept), ToSet(kept)) = {}
    BY <1>8, <2>6, <2>7 DEF Moved
  <2> QED BY <1>5, <2>8, FS_EmptySet
<1>10. Published'
  <2>1. records' # <<>>  BY <1>3, <1>4
  <2> QED BY <1>4, <1>5, <1>6 DEF Published
<1>11. PublishedStaysPut'
  <2>1. SUFFICES ASSUME NEW i \in 2..Len(records'), records'[i].moves > 0
                 PROVE  ToSet(records'[i - 1].postponed)
                           \cap ToSet(records'[i].dispatched) # {}
    BY DEF PublishedStaysPut
  <2>2. CASE i = Len(records) + 1
    <3>1. Len(records) \in 1..Len(records) /\ records # <<>>
          /\ i - 1 = Len(records)
      BY <1>3, <2>1, <2>2
    <3>2. records'[i - 1].postponed = carried
      BY <1>4, <3>1 DEF Honest, Published
    <3>3. records'[i] = Row(d)  BY <1>4, <2>2
    <3>4. Row(d).moves # 0  BY <2>1, <3>3
    <3> QED BY <1>5, <1>9, <3>2, <3>3, <3>4
  <2>3. CASE i # Len(records) + 1
    <3>1. i \in 2..Len(records) /\ i \in 1..Len(records)
          /\ i - 1 \in 1..Len(records)
      BY <1>3, <1>4, <2>1, <2>3
    <3>2. records'[i] = records[i] /\ records'[i - 1] = records[i - 1]
      BY <1>4, <3>1
    <3> QED BY <2>1, <3>1, <3>2
            DEF Honest, HoldingIsHonest, PublishedStaysPut
  <2> QED BY <2>2, <2>3
<1> QED BY <1>10, <1>11

(* What a wave holds was noticed within an epoch of its arrival, and what  *)
(* it does not see yet arrives after it starts.                            *)
LEMMA PlayNotices ==
    ASSUME Inv, Honest, NEW chosen, NEW d, Turn(chosen, d)
    PROVE  /\ Noticed'
           /\ \A o \in ToSet(Open) :
                 /\ SeenNow[o] <= day[o] + (EpochLength - 1)
                 /\ day[o] <= SeenNow[o] \/ SeenNow[o] = Epoch(wave).start
<1> DEFINE start == Epoch(wave).start
<1>1. Divides(chosen, d)  BY TurnDivides
<1>2. /\ ToSet(d.postponed) \subseteq ToSet(Open)
      /\ ToSet(Open) \subseteq Orders
      /\ LastWave => ToSet(d.postponed) = {}
  BY <1>1 DEF Divides
<1>3. /\ ToSet(Open) = ToSet(carried) \cup ToSet(Arrived)
      /\ ToSet(Sent) \cup ToSet(carried) = Visible
      /\ ToSet(Sent) = dispatchedEver
      /\ ToSet(Arrived) \cap Visible = {}
  <2>1. dispatchedEver = ToSet(Sent)  BY DEF Inv, Accounted
  <2>2. ToSet(Arrived) \cap (dispatchedEver \cup ToSet(carried)) = {}
    BY ArrivedIs DEF Inv
  <2> QED BY <2>1, <2>2, OpenIs
<1>4. /\ wave \in 1..EpochCount /\ EpochCount \in Nat /\ start \in Nat
      /\ EpochLength \in Nat /\ EpochLength > 0
  BY Waves, Sets DEF Turn, Playing, Inv, Typed, TypeOK
<1>5. /\ firstSeen' = SeenNow /\ wave' = wave + 1 /\ day' = day
      /\ carried' = d.postponed
  BY DEF Turn
<1>6. \A o \in Orders : day[o] \in Nat  BY DEF Inv, Typed
<1>7. ASSUME NEW o \in ToSet(carried)
      PROVE  /\ SeenNow[o] = firstSeen[o] /\ firstSeen[o] \in Nat
             /\ day[o] <= firstSeen[o]
             /\ firstSeen[o] <= day[o] + (EpochLength - 1)
  <2>1. o \in Orders /\ o \notin ToSet(Arrived)  BY <1>2, <1>3
  <2> QED BY <2>1 DEF SeenNow, Honest, Noticed
<1>8. ASSUME NEW o \in ToSet(Arrived)
      PROVE  /\ SeenNow[o] = start /\ start <= day[o] + (EpochLength - 1)
             /\ ~LastWave => day[o] <= start
  <2>1. o \in Orders /\ o \notin dispatchedEver \cup ToSet(carried)
        /\ o \notin Visible
    BY <1>2, <1>3
  <2>2. SeenNow[o] = start  BY <2>1 DEF SeenNow
  <2>3. firstSeen[o] = Unseen  BY <2>1 DEF Visible
  <2>4. wave <= EpochCount  BY <1>4
  <2>5. start <= day[o] + (EpochLength - 1)
    BY <2>1, <2>3, <2>4 DEF Honest, Noticed
  <2>6. ~LastWave => day[o] <= start
    BY <2>1, ArrivedIs DEF Inv
  <2> QED BY <2>2, <2>5, <2>6
<1> HIDE DEF start
<1>9. ASSUME NEW o \in ToSet(d.postponed)
      PROVE  /\ SeenNow[o] \in Nat /\ day[o] <= SeenNow[o]
             /\ SeenNow[o] <= day[o] + (EpochLength - 1)
  <2>1. o \in ToSet(carried) \/ o \in ToSet(Arrived)  BY <1>2, <1>3
  <2>2. ~LastWave  BY <1>2
  <2> QED BY <1>4, <1>7, <1>8, <2>1, <2>2
<1>10. ASSUME wave + 1 <= EpochCount,
              NEW o \in Orders, SeenNow[o] = Unseen
       PROVE  Epoch(wave + 1).start <= day[o] + (EpochLength - 1)
  <2>1. ~LastWave /\ wave \in 1..(EpochCount - 1)
    BY <1>4, <1>10 DEF LastWave
  <2>2. o \notin ToSet(Arrived)  BY <1>4, <1>8, <1>10, Sets
  <2>3. firstSeen[o] = Unseen  BY <1>10, <2>2 DEF SeenNow
  <2>4. o \notin dispatchedEver \cup ToSet(carried)
    BY <1>3, <2>3 DEF Visible
  <2>5. ~(day[o] <= start)
    BY <2>1, <2>2, <2>4, ArrivedIs DEF Inv, start
  <2>6. Epoch(wave + 1).start = start + EpochLength
    BY <2>1, Waves DEF start
  <2> QED BY <1>4, <1>6, <2>5, <2>6
<1>11. Noticed'
  <2>1. \A o \in ToSet(carried') :
           /\ firstSeen'[o] \in Nat /\ day'[o] <= firstSeen'[o]
           /\ firstSeen'[o] <= day'[o] + (EpochLength - 1)
    BY <1>5, <1>9
  <2>2. wave' <= EpochCount =>
           \A o \in Orders : firstSeen'[o] = Unseen =>
              Epoch(wave').start <= day'[o] + (EpochLength - 1)
    BY <1>5, <1>10
  <2> QED BY <2>1, <2>2 DEF Noticed
<1>12. ASSUME NEW o \in ToSet(Open)
       PROVE  /\ SeenNow[o] <= day[o] + (EpochLength - 1)
              /\ day[o] <= SeenNow[o] \/ SeenNow[o] = start
  <2>1. o \in ToSet(carried) \/ o \in ToSet(Arrived)  BY <1>3
  <2> QED BY <1>7, <1>8, <2>1
<1> QED BY <1>11, <1>12 DEF start

(* Under icd, deferred work without company is chosen.                     *)
LEMMA PlayLonely ==
    ASSUME Inv, NEW chosen, NEW d, Turn(chosen, d)
    PROVE  LonelyWorkGoes'
<1> DEFINE t == Epoch(wave).end
           must == {o \in Orders : MustGo(o, t)}
<1>0. Divides(chosen, d)  BY TurnDivides
<1>1. SUFFICES ASSUME policy = "icd", NEW o \in ToSet(d.postponed), Lonely(o)
               PROVE  FALSE
  <2>1. policy' = policy /\ carried' = d.postponed  BY DEF Turn
  <2>2. ToSet(d.postponed) \subseteq Orders  BY <1>0 DEF Divides
  <2>3. Reach \in Int
    <3>1. Longest \div 2 \in Int
      BY DispatchAssumption DEF DispatchAssumption
    <3> QED BY <3>1, MaxIs DEF Reach
  <2>4. \A o, p \in Orders : Gap[o][p] \in Nat
    BY DispatchAssumption DEF DispatchAssumption
  <2>5. \A o \in ToSet(d.postponed) :
           ~Lonely(o) => \E p \in Orders \ {o} : Gap[o][p] <= Reach
    BY <2>2, <2>3, <2>4 DEF Lonely
  <2> QED BY <2>1, <2>5 DEF LonelyWorkGoes
<1>3. /\ ToSet(d.postponed) \cap chosen = {}
      /\ ToSet(d.postponed) \subseteq ToSet(Open)
      /\ ToSet(Open) \subseteq Orders
      /\ LastWave => ToSet(d.postponed) = {}
      /\ Servable(o, t)
  BY <1>0, <1>1 DEF Divides
<1>4. ~LastWave  BY <1>1, <1>3
<1>5. chosen \in Icd(Split, Epoch(wave))
  <2>1. chosen \in Chosen(Open, Split)  BY DEF Turn
  <2>2. Chosen(Open, Split) = Answers("icd", Open, Split, Epoch(wave))
    BY Zenon, <1>1, <1>4 DEF Chosen
  <2>3. Answers("icd", Open, Split, Epoch(wave)) = Icd(Split, Epoch(wave))
    BY DEF Answers
  <2> QED BY Zenon, <2>1, <2>2, <2>3
<1>6. o \in ToSet(Split.defer)
  <2>1. o \in ToSet(Open) \cap (Orders \ must)
    BY <1>1, <1>3 DEF MustGo, Servable
  <2>2. Split.defer = Kept(Open, Orders \ must)
    BY DEF Split, Classify
  <2>3. Open \in Seq(Orders)  BY OpenIs
  <2> HIDE DEF must
  <2>4. ToSet(Kept(Open, Orders \ must)) = ToSet(Open) \cap (Orders \ must)
    BY <2>3, KeptSelects
  <2> QED BY <2>1, <2>2, <2>4
<1>7. o \in chosen  BY <1>1, <1>5, <1>6, LonelyGoes
<1> QED BY <1>1, <1>3, <1>7

(* A wave charges what it sends for the time since it was first seen.      *)
Delays(rows) == [i \in DOMAIN rows |-> rows[i].delay]

LEMMA PlayChargesRow ==
    ASSUME Inv, NEW chosen, NEW d, Turn(chosen, d)
    PROVE  Charged \in Nat /\ Charged' = Charged + Row(d).delay
<1> DEFINE n == Len(records)
<1>1. Divides(chosen, d) /\ Writes(d)  BY TurnDivides, TurnWrites
<1>2. /\ records \in Seq(Records) /\ n \in Nat /\ DOMAIN records = 1..n
      /\ records' \in Seq(Records) /\ Len(records') = n + 1
      /\ DOMAIN records' = 1..(n + 1)
      /\ records'[n + 1] = Row(d)
      /\ \A i \in 1..n : records'[i] = records[i]
  BY <1>1 DEF Writes, Inv, Typed
<1> DEFINE f == Delays(records)
           g == Delays(records')
<1>3. Charged = SumFunctionOnSet(f, 1..n)
      /\ Charged' = SumFunctionOnSet(g, 1..(n + 1))
  <2>1. DOMAIN f = 1..n /\ DOMAIN g = 1..(n + 1)  BY <1>2 DEF Delays
  <2>2. Charged = SumFunction(f)  BY DEF Charged, Delays
  <2>3. Charged' = SumFunction(g)  BY DEF Charged, Delays
  <2> HIDE DEF f, g, n
  <2> QED BY <2>1, <2>2, <2>3 DEF SumFunction
<1>4. /\ \A i \in 1..n : f[i] \in Nat /\ g[i] = f[i]
      /\ \A i \in 1..(n + 1) : g[i] \in Nat
      /\ g[n + 1] = Row(d).delay
  <2>1. \A r \in Records : r.delay \in Nat  BY DEF Records
  <2>2. /\ \A i \in 1..n : records[i] \in Records
        /\ \A i \in 1..(n + 1) : records'[i] \in Records
    BY <1>2
  <2>3. /\ \A i \in 1..n : f[i] = records[i].delay
        /\ \A i \in 1..(n + 1) : g[i] = records'[i].delay
    BY <1>2 DEF Delays
  <2>4. n + 1 \in 1..(n + 1) /\ \A i \in 1..n : i \in 1..(n + 1)
    BY <1>2
  <2> HIDE DEF f, g, n
  <2> QED BY <1>2, <2>1, <2>2, <2>3, <2>4
<1> HIDE DEF f, g, n
<1>5. /\ IsFiniteSet(1..n) /\ IsFiniteSet(1..(n + 1))
      /\ (1..(n + 1)) \ {n + 1} = 1..n /\ n + 1 \in 1..(n + 1)
  <2>1. n \in Nat  BY <1>2
  <2>2. IsFiniteSet(1..n) /\ IsFiniteSet(1..(n + 1))
    BY <2>1, FS_Interval
  <2>3. (1..(n + 1)) \ {n + 1} = 1..n /\ n + 1 \in 1..(n + 1)  BY <2>1
  <2> QED BY <2>2, <2>3
<1>6. SumFunctionOnSet(g, 1..(n + 1)) = g[n + 1] + SumFunctionOnSet(g, 1..n)
  <2>1. SumFunctionOnSet(g, 1..(n + 1))
           = g[n + 1] + SumFunctionOnSet(g, (1..(n + 1)) \ {n + 1})
    BY <1>4, <1>5, SumWithout
  <2> QED BY <1>5, <2>1
<1>7. SumFunctionOnSet(g, 1..n) = SumFunctionOnSet(f, 1..n)
  BY <1>4, <1>5, SumSame
<1>8. SumFunctionOnSet(f, 1..n) \in Nat  BY <1>4, <1>5, SumIsNat
<1>9. Row(d).delay \in Nat
  BY <1>2, <1>4, <1>5
<1> QED BY <1>3, <1>4, <1>6, <1>7, <1>8, <1>9

(* For each order it sends, that is the time since its arrival, to within  *)
(* an epoch.                                                               *)
LEMMA PlayChargesWaits ==
    ASSUME Inv, Honest, NEW chosen, NEW d, Turn(chosen, d),
           NEW w, w = [o \in ToSet(d.dispatched) |->
                         Max({Epoch(wave).start - day[o], 0})]
    PROVE  LET O == ToSet(d.dispatched)
           IN  /\ Row(d).delay \in Nat
               /\ \A o \in O : w[o] \in Nat
               /\ IsFiniteSet(O) /\ Cardinality(O) = Len(d.dispatched)
               /\ Row(d).delay <= SumFunctionOnSet(w, O)
               /\ SumFunctionOnSet(w, O)
                     <= Row(d).delay + Len(d.dispatched) * (EpochLength - 1)
<1> DEFINE O == ToSet(d.dispatched)
           start == Epoch(wave).start
           seen == SeenNow
           v == [o \in O |-> Waited(o, seen, start)]
<1>1. Divides(chosen, d)  BY TurnDivides
<1>2. /\ d.dispatched \in Seq(Orders) /\ IsInjective(d.dispatched)
      /\ O \subseteq ToSet(Open) /\ O \subseteq Orders
      /\ \A o \in O : seen[o] \in Nat
  BY <1>1 DEF Divides
<1>3. IsFiniteSet(O) /\ Cardinality(O) = Len(d.dispatched)
  BY <1>2, CountOf
<1>4. start \in Nat /\ EpochLength - 1 \in Nat
  BY Waves, Sets DEF Turn, Playing, Inv, Typed, TypeOK
<1>5. Row(d).delay = SumFunctionOnSet(v, O)
  <2>1. Row(d).delay = SumFunction(v)  BY DEF Row, Delay
  <2>2. DOMAIN v = O  OBVIOUS
  <2> HIDE DEF v, O
  <2> QED BY <2>1, <2>2 DEF SumFunction
<1>6. ASSUME NEW o \in O
      PROVE  /\ v[o] \in Nat /\ w[o] \in Nat
             /\ v[o] <= w[o] /\ w[o] <= v[o] + (EpochLength - 1)
  <2>1. /\ seen[o] \in Nat /\ day[o] \in Nat
        /\ seen[o] <= day[o] + (EpochLength - 1)
        /\ day[o] <= seen[o] \/ seen[o] = start
    BY <1>2, PlayNotices DEF Inv, Typed
  <2>2. v[o] = Max({start - seen[o], 0}) /\ w[o] = Max({start - day[o], 0})
    BY DEF Waited
  <2> HIDE DEF v, O, start, seen
  <2>3. /\ v[o] = IF start - seen[o] >= 0 THEN start - seen[o] ELSE 0
        /\ w[o] = IF start - day[o] >= 0 THEN start - day[o] ELSE 0
    BY <1>4, <2>1, <2>2, MaxIs
  <2> QED BY <1>4, <2>1, <2>3
<1> HIDE DEF v, O, start, seen
<1>7. /\ SumFunctionOnSet(v, O) <= SumFunctionOnSet(w, O)
      /\ SumFunctionOnSet(w, O)
            <= SumFunctionOnSet(v, O) + Cardinality(O) * (EpochLength - 1)
  BY <1>3, <1>4, <1>6, SumBetween
<1>8. SumFunctionOnSet(v, O) \in Nat  BY <1>3, <1>6, SumIsNat
<1> QED BY <1>3, <1>5, <1>6, <1>7, <1>8 DEF O

LEMMA PlayCharges ==
    ASSUME Inv, Honest, NEW chosen, NEW d, Turn(chosen, d)
    PROVE  DelayChargedOnce'
<1> DEFINE out == d.dispatched
           S == ToSet(Sent)
           O == ToSet(out)
           n == Len(records)
           w == [o \in O |-> Max({Epoch(wave).start - day[o], 0})]
           was == HeldFor
           now == HeldFor'
           L == EpochLength - 1
<1>1. Divides(chosen, d) /\ Writes(d)  BY TurnDivides, TurnWrites
<1>2. /\ records \in Seq(Records) /\ n \in Nat /\ DOMAIN records = 1..n
      /\ records' \in Seq(Records) /\ Len(records') = n + 1
      /\ DOMAIN records' = 1..(n + 1)
      /\ records'[n + 1] = Row(d)
      /\ \A i \in 1..n : records'[i] = records[i]
      /\ Row(d).wave = wave /\ Row(d).dispatched = out
      /\ day' = day
  BY <1>1 DEF Writes, Inv, Typed, Row, Turn
<1>3. /\ out \in Seq(Orders) /\ Sent \in Seq(Orders) /\ IsInjective(Sent)
      /\ Sent' = Sent \o out /\ IsInjective(Sent')
      /\ ToSet(Sent') = S \cup O /\ S \cap O = {}
  BY <1>1, OpenIs DEF Writes, Divides, Inv, Accounted
<1>4. Len(Sent') = Len(Sent) + Len(out) /\ Len(Sent) \in Nat /\ Len(out) \in Nat
  BY <1>3
<1>5. /\ Row(d).delay \in Nat
      /\ \A o \in O : w[o] \in Nat
      /\ IsFiniteSet(O)
      /\ Row(d).delay <= SumFunctionOnSet(w, O)
      /\ SumFunctionOnSet(w, O) <= Row(d).delay + Len(out) * L
  <2> HIDE DEF w, L
  <2>1. w = [o \in ToSet(d.dispatched) |->
               Max({Epoch(wave).start - day[o], 0})]
    BY DEF w
  <2> HIDE DEF out, O
  <2> QED BY <2>1, PlayChargesWaits DEF O, out, L
<1>6. Charged \in Nat /\ Charged' = Charged + Row(d).delay
  BY PlayChargesRow
<1>7. /\ Sent = FlattenSeq(Sheets(records))
      /\ Sent' = FlattenSeq(Sheets(records'))
  BY DEF Sent, Sheets
<1>8. /\ S = UNION {ToSet(records[i].dispatched) : i \in 1..n}
      /\ \A i \in 1..n : \A o \in ToSet(records[i].dispatched) :
            WentIn(records, o) = Epoch(records[i].wave).start
      /\ \A i \in 1..(n + 1) : \A o \in ToSet(records'[i].dispatched) :
            WentIn(records', o) = Epoch(records'[i].wave).start
  BY <1>2, <1>3, <1>7, SentByOne
<1>9. /\ was = [o \in S |-> Max({WentIn(records, o) - day[o], 0})]
      /\ now = [o \in S \cup O |-> Max({WentIn(records', o) - day[o], 0})]
  <2>1. was = [o \in S |-> Max({WentIn(records, o) - day[o], 0})]
    BY DEF HeldFor, WentAt, WentIn
  <2>2. now = [o \in ToSet(Sent') |->
                 Max({WentIn(records', o) - day'[o], 0})]
    BY DEF HeldFor, WentAt, WentIn
  <2> HIDE DEF was, now, S, O
  <2> QED BY <1>2, <1>3, <2>1, <2>2
<1>10. ASSUME NEW o \in S PROVE was[o] \in Nat /\ now[o] = was[o]
  <2>1. PICK i \in 1..n : o \in ToSet(records[i].dispatched)  BY <1>8
  <2>2. WentIn(records, o) = Epoch(records[i].wave).start
    BY <1>8, <2>1
  <2>3. i \in 1..(n + 1) /\ records'[i] = records[i]  BY <1>2, <2>1
  <2>4. WentIn(records', o) = Epoch(records[i].wave).start
    BY <1>8, <2>1, <2>3
  <2>5. records[i].wave \in 1..EpochCount
    <3>1. records[i] \in Records  BY <1>2, <2>1
    <3> QED BY <3>1 DEF Records
  <2>6. WentIn(records, o) \in Nat  BY <2>2, <2>5, Waves
  <2>7. o \in Orders  BY <1>3 DEF ToSet
  <2>8. day[o] \in Nat  BY <2>7 DEF Inv, Typed
  <2>9. Max({WentIn(records, o) - day[o], 0}) \in Nat
    BY <2>6, <2>8, MaxIs
  <2> HIDE DEF was, now, S, O
  <2> QED BY <1>9, <2>2, <2>4, <2>9
<1>11. ASSUME NEW o \in O PROVE now[o] = w[o]
  <2>1. n + 1 \in 1..(n + 1)  BY <1>2
  <2>2. WentIn(records', o) = Epoch(wave).start
    BY <1>2, <1>8, <2>1
  <2>3. w[o] = Max({Epoch(wave).start - day[o], 0})  OBVIOUS
  <2> HIDE DEF was, now, S, O, w
  <2> QED BY <1>9, <2>2, <2>3
<1>12. IsFiniteSet(S)  BY <1>3, CountOf
<1>13. DOMAIN was = S /\ DOMAIN now = S \cup O
  <2> HIDE DEF was, now, S, O
  <2> QED BY <1>9
<1>14. L \in Nat  BY Sets
<1>15. SumFunction(was) = SumFunctionOnSet(was, S)
       /\ SumFunction(now) = SumFunctionOnSet(now, S \cup O)
  <2> HIDE DEF was, now, S, O
  <2> QED BY <1>13 DEF SumFunction
<1>16. /\ Charged <= SumFunction(was)
       /\ SumFunction(was) <= Charged + Len(Sent) * L
  BY DEF Honest, HoldingIsHonest, DelayChargedOnce
<1>17. SUFFICES /\ Charged' <= SumFunction(now)
                /\ SumFunction(now) <= Charged' + Len(Sent') * L
  BY DEF DelayChargedOnce
<1> HIDE DEF was, now, S, O, w, L, out, n
<1>18. SumFunctionOnSet(now, S \cup O)
          = SumFunctionOnSet(now, S) + SumFunctionOnSet(now, O)
  BY <1>3, <1>5, <1>10, <1>11, <1>12, SumUnion
<1>19. SumFunctionOnSet(now, S) = SumFunctionOnSet(was, S)
  BY <1>10, <1>12, SumSame
<1>20. SumFunctionOnSet(now, O) = SumFunctionOnSet(w, O)
  BY <1>5, <1>11, SumSame
<1>21. SumFunctionOnSet(was, S) \in Nat /\ SumFunctionOnSet(w, O) \in Nat
  BY <1>5, <1>10, <1>12, SumIsNat
<1>22. /\ Len(Sent') * L = Len(Sent) * L + Len(out) * L
       /\ Len(Sent) * L \in Nat /\ Len(out) * L \in Nat
  <2>1. \A a, b, c \in Nat : /\ (a + b) * c = a * c + b * c
                             /\ a * c \in Nat
    OBVIOUS
  <2> QED BY <1>4, <1>14, <2>1
<1> DEFINE a == SumFunctionOnSet(was, S)
           b == SumFunctionOnSet(w, O)
           c == SumFunction(now)
           x == Len(Sent) * L
           y == Len(out) * L
           z == Len(Sent') * L
<1>23. /\ a \in Nat /\ b \in Nat /\ x \in Nat /\ y \in Nat /\ z = x + y
       /\ c = a + b
       /\ Charged \in Nat /\ Row(d).delay \in Nat
       /\ Charged' = Charged + Row(d).delay
       /\ Charged <= a /\ a <= Charged + x
       /\ Row(d).delay <= b /\ b <= Row(d).delay + y
  BY <1>5, <1>6, <1>15, <1>16, <1>18, <1>19, <1>20, <1>21, <1>22
<1> HIDE DEF a, b, c, x, y, z
<1>24. Charged' <= c /\ c <= Charged' + z  BY <1>23
<1> QED BY <1>24 DEF c, z

LEMMA NextHonest == Inv /\ Honest /\ [Next]_vars => Honest'
<1> SUFFICES ASSUME Inv, Honest, [Next]_vars PROVE Honest'  OBVIOUS
<1>1. CASE SkipWave  BY <1>1, SkipHonest
<1>2. CASE PlayWave
  <2>1. PICK chosen, d : Turn(chosen, d)  BY <1>2, TurnIs
  <2>2. Published' /\ PublishedStaysPut'  BY <2>1, PlayPublishes
  <2>3. Noticed'  BY <2>1, PlayNotices
  <2>4. LonelyWorkGoes'  BY <2>1, PlayLonely
  <2>5. DelayChargedOnce'  BY <2>1, PlayCharges
  <2> QED BY <2>2, <2>3, <2>4, <2>5 DEF Honest, HoldingIsHonest
<1>3. CASE RefuseWave  BY <1>3, StillHonest DEF RefuseWave
<1>4. CASE UNCHANGED vars  BY <1>4, StillHonest DEF vars
<1> QED BY <1>1, <1>2, <1>3, <1>4 DEF Next

(* replay() with _first_fit, moved_between and icd_policy: under any       *)
(* policy and any arrivals, a held order changes its published vehicle     *)
(* only in a wave that sends carried work out, the delay that is charged   *)
(* is the time the work was held, to within one epoch for each order, and  *)
(* icd_policy holds no order that has none in reach.                       *)
THEOREM HoldingCosts == Spec => []HoldingIsHonest
<1>1. Honest => HoldingIsHonest  BY DEF Honest
<1> QED BY <1>1, InitInv, NextInv, InitHonest, NextHonest, PTL DEF Spec
=============================================================================
