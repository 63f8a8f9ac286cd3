-------------------------- MODULE ReoptimiseProofs --------------------------
(***************************************************************************)
(* Proofs about Reoptimise: for every fleet, matrix and set of orders, the *)
(* answers to disruptions are legal, account for all work, drop and move   *)
(* only what they must, and keep what is committed.                        *)
(*                                                                         *)
(* The argument rests on three facts of the timeline.  A stop begins no    *)
(* earlier than those before it, so what is done is a beginning of the     *)
(* round.  Two rounds that begin alike are driven alike so far.  And a     *)
(* legal round stays legal when an order is taken out, for no detour is    *)
(* shorter than the way: so beginnings of legal rounds are legal, and an   *)
(* order a van has no place for has none after further insertions either.  *)
(* That last fact is what makes the loop of reoptimise honest: an order it *)
(* has left out once has no place in the plan it returns.                  *)
(*                                                                         *)
(* Timeline, PutBack and Centre are recursive functions; that each exists, *)
(* so that it may be unfolded, is shown by the least step at which no such *)
(* function would.                                                         *)
(***************************************************************************)
EXTENDS Reoptimise, SubsequencesProofs

-----------------------------------------------------------------------------
(* Insertion into a sequence.                                              *)

(* What t is once x is in s at place p, as one formula to cite.            *)
IsInsertion(S, s, p, x, t) ==
    /\ t \in Seq(S) /\ Len(t) = Len(s) + 1
    /\ \A i \in 1..(Len(s) + 1) :
          t[i] = IF i < p THEN s[i] ELSE IF i = p THEN x ELSE s[i - 1]

LEMMA InsertAtInserts ==
    ASSUME NEW S, NEW s \in Seq(S), NEW p \in 1..(Len(s) + 1), NEW x \in S
    PROVE  IsInsertion(S, s, p, x, InsertAt(s, p, x))
<1> DEFINE a == SubSeq(s, 1, p - 1)
           b == SubSeq(s, p, Len(s))
<1>1. /\ a \in Seq(S) /\ Len(a) = p - 1
      /\ \A i \in 1..(p - 1) : a[i] = s[i]
  OBVIOUS
<1>2. /\ b \in Seq(S) /\ Len(b) = Len(s) + 1 - p
      /\ \A i \in 1..(Len(s) + 1 - p) : b[i] = s[p + i - 1]
  OBVIOUS
<1>3. InsertAt(s, p, x) = a \o <<x>> \o b  BY DEF InsertAt
<1>4. <<x>> \in Seq(S) /\ Len(<<x>>) = 1 /\ <<x>>[1] = x  OBVIOUS
<1> HIDE DEF a, b
<1> DEFINE c == a \o <<x>>
<1>5. /\ c \in Seq(S) /\ Len(c) = p /\ c[p] = x
      /\ \A i \in 1..(p - 1) : c[i] = s[i]
  BY <1>1, <1>4
<1> HIDE DEF c
<1>6. /\ c \o b \in Seq(S) /\ Len(c \o b) = Len(s) + 1
      /\ \A i \in 1..p : (c \o b)[i] = c[i]
      /\ \A i \in 1..(Len(s) + 1 - p) : (c \o b)[p + i] = b[i]
  BY <1>2, <1>5
<1>7. InsertAt(s, p, x) = c \o b  BY <1>3 DEF c
<1>8. ASSUME NEW i \in 1..(Len(s) + 1)
      PROVE  (c \o b)[i] = IF i < p THEN s[i] ELSE IF i = p THEN x ELSE s[i - 1]
  <2>1. CASE i <= p  BY <2>1, <1>5, <1>6
  <2>2. CASE i > p
    <3>0. Len(s) \in Nat  OBVIOUS
    <3> DEFINE k == i - p
    <3>1. k \in 1..(Len(s) + 1 - p) /\ p + k = i /\ p + k - 1 = i - 1
      BY <2>2, <3>0
    <3> HIDE DEF k
    <3>2. (c \o b)[p + k] = b[k]  BY <3>1, <1>6
    <3>3. b[k] = s[p + k - 1]  BY <3>1, <1>2
    <3>4. ~(i < p) /\ i # p  BY <2>2, <3>0
    <3> DEFINE d == c \o b
    <3>5. d[i] = s[i - 1]  BY <3>1, <3>2, <3>3
    <3> HIDE DEF d
    <3>6. d[i] = IF i < p THEN s[i] ELSE IF i = p THEN x ELSE s[i - 1]
      BY <3>4, <3>5
    <3> QED BY <3>6 DEF d
  <2>3. i <= p \/ i > p  BY <1>1
  <2> QED BY <2>1, <2>2, <2>3
<1> DEFINE d == c \o b
<1>9. IsInsertion(S, s, p, x, d)  BY <1>6, <1>8 DEF IsInsertion
<1> QED BY <1>7, <1>9

LEMMA InsertAtSets ==
    ASSUME NEW S, NEW s \in Seq(S), NEW p \in 1..(Len(s) + 1), NEW x \in S
    PROVE  /\ ToSet(InsertAt(s, p, x)) = ToSet(s) \cup {x}
           /\ x \notin ToSet(s) /\ IsInjective(s)
                 => IsInjective(InsertAt(s, p, x))
<1> DEFINE t == InsertAt(s, p, x)
<1>1. /\ t \in Seq(S) /\ Len(t) = Len(s) + 1
      /\ \A i \in 1..(Len(s) + 1) :
            t[i] = IF i < p THEN s[i] ELSE IF i = p THEN x ELSE s[i - 1]
  <2>1. IsInsertion(S, s, p, x, t)  BY InsertAtInserts
  <2> HIDE DEF t
  <2> QED BY <2>1 DEF IsInsertion
<1> HIDE DEF t
<1>2. /\ t[p] = x /\ DOMAIN t = 1..(Len(s) + 1) /\ DOMAIN s = 1..Len(s)
      /\ \A i \in 1..(p - 1) : t[i] = s[i]
      /\ \A i \in p..Len(s) : t[i + 1] = s[i]
  BY <1>1
<1>3. ToSet(t) \subseteq ToSet(s) \cup {x}
  <2>1. ASSUME NEW i \in 1..(Len(s) + 1) PROVE t[i] \in ToSet(s) \cup {x}
    <3>1. CASE i < p  BY <3>1, <1>1 DEF ToSet
    <3>2. CASE i = p  BY <3>2, <1>1
    <3>3. CASE i > p
      <4>1. t[i] = s[i - 1] /\ i - 1 \in DOMAIN s  BY <3>3, <1>1
      <4> QED BY <4>1 DEF ToSet
    <3> QED BY <3>1, <3>2, <3>3
  <2> QED BY <2>1, <1>2 DEF ToSet
<1>4. ToSet(s) \subseteq ToSet(t)
  <2>1. ASSUME NEW i \in 1..Len(s) PROVE s[i] \in ToSet(t)
    <3>1. CASE i < p  BY <3>1, <1>2 DEF ToSet
    <3>2. CASE i >= p
      <4>1. t[i + 1] = s[i] /\ i + 1 \in DOMAIN t  BY <3>2, <1>2
      <4> QED BY <4>1 DEF ToSet
    <3> QED BY <3>1, <3>2
  <2> QED BY <2>1, <1>2 DEF ToSet
<1>5. x \in ToSet(t)  BY <1>2 DEF ToSet
<1>6. ASSUME x \notin ToSet(s), IsInjective(s) PROVE IsInjective(t)
  <2>1. \A i \in 1..Len(s) : s[i] # x  BY <1>6, <1>2 DEF ToSet
  <2>2. \A i, j \in 1..Len(s) : s[i] = s[j] => i = j
    BY <1>6, <1>2 DEF IsInjective
  <2>3. ASSUME NEW i \in 1..(Len(s) + 1), NEW j \in 1..(Len(s) + 1),
               t[i] = t[j], i < j
        PROVE  FALSE
    <3>1. CASE j < p  BY <3>1, <2>3, <1>1, <2>2
    <3>2. CASE j = p  BY <3>2, <2>3, <1>1, <2>1
    <3>3. CASE j > p /\ i < p  BY <3>3, <2>3, <1>1, <2>2
    <3>4. CASE j > p /\ i = p  BY <3>4, <2>3, <1>1, <2>1
    <3>5. CASE j > p /\ i > p  BY <3>5, <2>3, <1>1, <2>2
    <3> QED BY <3>1, <3>2, <3>3, <3>4, <3>5
  <2>4. \A i, j \in 1..(Len(s) + 1) : t[i] = t[j] => i = j  BY <2>3
  <2> QED BY <2>4, <1>2 DEF IsInjective
<1> QED BY <1>3, <1>4, <1>5, <1>6 DEF t

(* Of two insertions, either can come first.                               *)
LEMMA InsertTwice ==
    ASSUME NEW S, NEW s \in Seq(S), NEW p \in 1..(Len(s) + 1), NEW x \in S,
           NEW q \in 1..(Len(s) + 2), NEW o \in S
    PROVE  \E r \in 1..(Len(s) + 1), u \in 1..(Len(s) + 2) :
              /\ r <= q
              /\ InsertAt(InsertAt(s, p, x), q, o)
                    = InsertAt(InsertAt(s, r, o), u, x)
<1> DEFINE r == IF q <= p THEN q ELSE q - 1
           u == IF q <= p THEN p + 1 ELSE p
           t == InsertAt(s, p, x)
           w == InsertAt(s, r, o)
<1>1. r \in 1..(Len(s) + 1) /\ u \in 1..(Len(s) + 2) /\ r <= q  OBVIOUS
<1>2. /\ t \in Seq(S) /\ Len(t) = Len(s) + 1
      /\ \A i \in 1..(Len(s) + 1) :
            t[i] = IF i < p THEN s[i] ELSE IF i = p THEN x ELSE s[i - 1]
  <2>1. IsInsertion(S, s, p, x, t)  BY InsertAtInserts
  <2> HIDE DEF t
  <2> QED BY <2>1 DEF IsInsertion
<1> HIDE DEF r, u
<1>3. /\ w \in Seq(S) /\ Len(w) = Len(s) + 1
      /\ \A i \in 1..(Len(s) + 1) :
            w[i] = IF i < r THEN s[i] ELSE IF i = r THEN o ELSE s[i - 1]
  <2>1. IsInsertion(S, s, r, o, w)  BY <1>1, InsertAtInserts
  <2> HIDE DEF w
  <2> QED BY <2>1 DEF IsInsertion
<1> HIDE DEF t, w
<1>4. q \in 1..(Len(t) + 1) /\ u \in 1..(Len(w) + 1)  BY <1>1, <1>2, <1>3
<1> DEFINE n == Len(s)
           a == InsertAt(t, q, o)
           b == InsertAt(w, u, x)
<1>0. n \in Nat /\ Len(t) + 1 = n + 2 /\ Len(w) + 1 = n + 2
  BY <1>2, <1>3
<1>5. /\ a \in Seq(S) /\ Len(a) = Len(t) + 1
      /\ \A i \in 1..(Len(t) + 1) :
            a[i] = IF i < q THEN t[i] ELSE IF i = q THEN o ELSE t[i - 1]
  <2>1. t \in Seq(S) /\ q \in 1..(Len(t) + 1)  BY <1>2, <1>4
  <2>2. IsInsertion(S, t, q, o, a)  BY <2>1, InsertAtInserts
  <2> HIDE DEF a
  <2> QED BY <2>2 DEF IsInsertion
<1>6. /\ b \in Seq(S) /\ Len(b) = Len(w) + 1
      /\ \A i \in 1..(Len(w) + 1) :
            b[i] = IF i < u THEN w[i] ELSE IF i = u THEN x ELSE w[i - 1]
  <2>1. w \in Seq(S) /\ u \in 1..(Len(w) + 1)  BY <1>3, <1>4
  <2>2. IsInsertion(S, w, u, x, b)  BY <2>1, InsertAtInserts
  <2> HIDE DEF b
  <2> QED BY <2>2 DEF IsInsertion
<1> HIDE DEF a, b, n
<1>9. /\ n \in Nat /\ p \in 1..(n + 1) /\ q \in 1..(n + 2)
      /\ \A i \in 1..(n + 1) :
            t[i] = IF i < p THEN s[i] ELSE IF i = p THEN x ELSE s[i - 1]
      /\ \A i \in 1..(n + 1) :
            w[i] = IF i < r THEN s[i] ELSE IF i = r THEN o ELSE s[i - 1]
      /\ \A i \in 1..(n + 2) :
            a[i] = IF i < q THEN t[i] ELSE IF i = q THEN o ELSE t[i - 1]
      /\ \A i \in 1..(n + 2) :
            b[i] = IF i < u THEN w[i] ELSE IF i = u THEN x ELSE w[i - 1]
  <2>1. p \in 1..(n + 1) /\ q \in 1..(n + 2)  BY DEF n
  <2>2. /\ \A i \in 1..(n + 1) :
            t[i] = IF i < p THEN s[i] ELSE IF i = p THEN x ELSE s[i - 1]
        /\ \A i \in 1..(n + 1) :
            w[i] = IF i < r THEN s[i] ELSE IF i = r THEN o ELSE s[i - 1]
    BY <1>2, <1>3 DEF n
  <2> QED BY <1>0, <1>5, <1>6, <2>1, <2>2
<1>7. ASSUME NEW i \in 1..(n + 2) PROVE a[i] = b[i]
  <2>1. CASE q <= p
    <3>1. r = q /\ u = p + 1  BY <2>1 DEF r, u
    <3>2. CASE i < q  BY <1>9, <2>1, <3>1, <3>2
    <3>3. CASE i = q  BY <1>9, <2>1, <3>1, <3>3
    <3>4. CASE i > q /\ i < p + 1  BY <1>9, <2>1, <3>1, <3>4
    <3>5. CASE i > q /\ i = p + 1  BY <1>9, <2>1, <3>1, <3>5
    <3>6. CASE i > p + 1
      <4>1. a[i] = t[i - 1] /\ t[i - 1] = s[i - 2]
        <5>1. a[i] = t[i - 1]  BY <1>9, <2>1, <3>6
        <5>2. i - 1 \in 1..(n + 1) /\ ~(i - 1 < p) /\ i - 1 # p
          BY <1>9, <3>6
        <5>3. t[i - 1] = s[i - 1 - 1] /\ i - 1 - 1 = i - 2  BY <1>9, <5>2
        <5> QED BY <5>1, <5>3
      <4>2. b[i] = w[i - 1] /\ w[i - 1] = s[i - 2]
        <5>1. b[i] = w[i - 1]  BY <1>9, <2>1, <3>1, <3>6
        <5>2. i - 1 \in 1..(n + 1) /\ ~(i - 1 < r) /\ i - 1 # r
          BY <1>9, <2>1, <3>1, <3>6
        <5>3. w[i - 1] = s[i - 1 - 1] /\ i - 1 - 1 = i - 2  BY <1>9, <5>2
        <5> QED BY <5>1, <5>3
      <4> QED BY <4>1, <4>2
    <3> QED BY <3>2, <3>3, <3>4, <3>5, <3>6, <1>9
  <2>2. CASE q > p
    <3>1. r = q - 1 /\ u = p  BY <1>9, <2>2 DEF r, u
    <3>2. CASE i < p
      <4>1. i \in 1..(n + 1) /\ i < q /\ i < r /\ i < u
        BY <1>9, <2>2, <3>1, <3>2
      <4> QED BY <1>9, <3>2, <4>1
    <3>3. CASE i = p  BY <1>9, <2>2, <3>1, <3>3
    <3>4. CASE i > p /\ i < q  BY <1>9, <2>2, <3>1, <3>4
    <3>5. CASE i = q  BY <1>9, <2>2, <3>1, <3>5
    <3>6. CASE i > q
      <4>1. a[i] = t[i - 1] /\ t[i - 1] = s[i - 2]
        <5>1. a[i] = t[i - 1]  BY <1>9, <2>2, <3>6
        <5>2. i - 1 \in 1..(n + 1) /\ ~(i - 1 < p) /\ i - 1 # p
          BY <1>9, <2>2, <3>6
        <5>3. t[i - 1] = s[i - 1 - 1] /\ i - 1 - 1 = i - 2  BY <1>9, <5>2
        <5> QED BY <5>1, <5>3
      <4>2. b[i] = w[i - 1] /\ w[i - 1] = s[i - 2]
        <5>1. b[i] = w[i - 1]  BY <1>9, <2>2, <3>1, <3>6
        <5>2. i - 1 \in 1..(n + 1) /\ ~(i - 1 < r) /\ i - 1 # r
          BY <1>9, <2>2, <3>1, <3>6
        <5>3. w[i - 1] = s[i - 1 - 1] /\ i - 1 - 1 = i - 2  BY <1>9, <5>2
        <5> QED BY <5>1, <5>3
      <4> QED BY <4>1, <4>2
    <3> QED BY <3>2, <3>3, <3>4, <3>5, <3>6, <1>9
  <2> QED BY <2>1, <2>2, <1>9
<1>8. a = b
  <2>1. Len(a) = n + 2 /\ Len(b) = n + 2  BY <1>0, <1>5, <1>6
  <2> QED BY <1>5, <1>6, <1>7, <2>1, SameSeq
<1> QED BY <1>1, <1>8 DEF t, w, a, b

-----------------------------------------------------------------------------
(* The timeline.                                                           *)

Steps == [start : Nat, departure : Nat, dropped : Nat, metres : Nat]

LEMMA DataTyped ==
    /\ Vehicles \subseteq Nat /\ Orders \subseteq Nat
    /\ Depot \in Places /\ \A o \in Orders : At[o] \in Places /\ At[o] \in Nat
    /\ \A a, b \in Places : Duration[a][b] \in Nat /\ Distance[a][b] \in Nat
    /\ \A a, b, c \in Places :
          Duration[a][c] <= Duration[a][b] + Duration[b][c]
    /\ \A o \in Orders : /\ Window[o].start \in Nat /\ Window[o].end \in Nat
                         /\ Service[o] \in Nat /\ Quantity[o] \in Nat
    /\ Shift.start \in Nat /\ Shift.end \in Nat
    /\ \A v \in Vehicles : Capacity[v] \in Nat
<1>1. Depot \in Places /\ \A o \in Orders : At[o] \in Places  BY DEF Places
<1>2. \A o \in Orders : At[o] \in Nat
  BY TimelineAssumption DEF TimelineAssumption
<1>3. \A a, b \in Places : Duration[a][b] \in Nat /\ Distance[a][b] \in Nat
  BY TimelineAssumption DEF TimelineAssumption
<1>4. \A a, b, c \in Places :
          Duration[a][c] <= Duration[a][b] + Duration[b][c]
  BY TimelineAssumption DEF TimelineAssumption
<1>5. \A o \in Orders : /\ Window[o].start \in Nat /\ Window[o].end \in Nat
                        /\ Service[o] \in Nat /\ Quantity[o] \in Nat
  BY TimelineAssumption DEF TimelineAssumption
<1>6. /\ Shift.start \in Nat /\ Shift.end \in Nat
      /\ \A v \in Vehicles : Capacity[v] \in Nat
      /\ Vehicles \subseteq Nat /\ Orders \subseteq Nat
  BY TimelineAssumption DEF TimelineAssumption
<1> QED BY <1>1, <1>2, <1>3, <1>4, <1>5, <1>6

LEMMA NodeIsPlace ==
    ASSUME NEW seq \in Seq(Orders), NEW i \in 0..Len(seq)
    PROVE  NodeAfter(seq, i) \in Places
<1>1. CASE i = 0  BY <1>1, DataTyped DEF NodeAfter
<1>2. CASE i # 0
  <2>1. seq[i] \in Orders  BY <1>2
  <2> QED BY <1>2, <2>1, DataTyped DEF NodeAfter
<1> QED BY <1>1, <1>2

(* One more stop: it begins when the vehicle is there and the window open, *)
(* and ends no earlier.                                                    *)
LEMMA StopTyped ==
    ASSUME NEW prev \in Steps, NEW here \in Places, NEW o \in Orders
    PROVE  /\ StopAfter(prev, here, o) \in Steps
           /\ StopAfter(prev, here, o).start
                 >= prev.departure + Duration[here][At[o]]
           /\ StopAfter(prev, here, o).departure
                 = StopAfter(prev, here, o).start + Service[o]
           /\ StopAfter(prev, here, o).dropped = prev.dropped + Quantity[o]
           /\ StopAfter(prev, here, o).metres
                 = prev.metres + Distance[here][At[o]]
           /\ StopAfter(prev, here, o).start
                 = ServiceStart(prev.departure + Duration[here][At[o]],
                                Window[o])
<1> DEFINE d == Duration[here][At[o]]
           m == Distance[here][At[o]]
           arrival == prev.departure + d
           w == Window[o]
           begin == ServiceStart(arrival, w)
<1>1. d \in Nat /\ m \in Nat  BY DataTyped
<1>2. /\ w.start \in Nat /\ w.end \in Nat
      /\ Service[o] \in Nat /\ Quantity[o] \in Nat
  BY DataTyped
<1>3. /\ prev.departure \in Nat /\ prev.dropped \in Nat
      /\ prev.metres \in Nat
  BY DEF Steps
<1>4. arrival \in Nat  BY <1>1, <1>3
<1> HIDE DEF arrival, w
<1>5. begin \in Nat /\ begin >= arrival
  BY <1>2, <1>4 DEF ServiceStart
<1> HIDE DEF begin
<1>6. StopAfter(prev, here, o)
        = [start |-> begin, departure |-> begin + Service[o],
           dropped |-> prev.dropped + Quantity[o], metres |-> prev.metres + m]
  BY DEF StopAfter, begin, arrival, w
<1> HIDE DEF m
<1>7. begin + Service[o] \in Nat /\ prev.dropped + Quantity[o] \in Nat
      /\ prev.metres + m \in Nat
  BY <1>1, <1>2, <1>3, <1>5
<1>8. StopAfter(prev, here, o) \in Steps  BY <1>5, <1>6, <1>7 DEF Steps
<1> QED BY <1>5, <1>6, <1>8 DEF begin, arrival, w, m

(* f does what the recursive function of Timeline does, up to step k.      *)
Drives(f, seq, k) ==
    f = [i \in 0..k |-> IF i = 0 THEN StartOfDay
                        ELSE StopAfter(f[i - 1], NodeAfter(seq, i - 1), seq[i])]

LEMMA DrivesExists ==
    ASSUME NEW seq, NEW k \in Nat
    PROVE  \E f : Drives(f, seq, k)
<1> DEFINE Bad == {n \in Nat : ~\E f : Drives(f, seq, n)}
<1>1. SUFFICES ASSUME Bad # {} PROVE FALSE  OBVIOUS
<1>2. PICK n \in Bad : \A m \in Bad : n <= m
  <2>1. Bad \subseteq Nat  OBVIOUS
  <2> HIDE DEF Bad
  <2> QED BY <1>1, <2>1, LeastElement
<1>3. CASE n = 0
  <2>1. Drives([i \in 0..0 |-> StartOfDay], seq, 0)  BY DEF Drives
  <2> QED BY <1>2, <1>3, <2>1
<1>4. CASE n # 0
  <2>1. n - 1 \in Nat /\ n - 1 \notin Bad  BY <1>2, <1>4
  <2>2. PICK f : Drives(f, seq, n - 1)  BY <2>1
  <2> DEFINE last == StopAfter(f[n - 1], NodeAfter(seq, n - 1), seq[n])
             h == [i \in 0..n |-> IF i = n THEN last ELSE f[i]]
  <2>3. ASSUME NEW i \in 0..n
        PROVE  h[i] = IF i = 0 THEN StartOfDay
                      ELSE StopAfter(h[i - 1], NodeAfter(seq, i - 1), seq[i])
    <3>1. CASE i = n
      <4>1. h[i] = last /\ h[i - 1] = f[n - 1] /\ i # 0
        <5> HIDE DEF last
        <5> QED BY <3>1, <1>4
      <4> QED BY <4>1, <3>1
    <3>2. CASE i # n
      <4>1. h[i] = f[i] /\ (i # 0 => h[i - 1] = f[i - 1])
        <5> HIDE DEF last
        <5> QED BY <3>2
      <4>2. i \in 0..(n - 1)  BY <3>2
      <4> HIDE DEF h
      <4> QED BY <2>2, <4>1, <4>2 DEF Drives
    <3> QED BY <3>1, <3>2
  <2>4. Drives(h, seq, n)
    <3> HIDE DEF last
    <3>1. DOMAIN h = 0..n /\ h = [i \in 0..n |-> h[i]]  OBVIOUS
    <3> HIDE DEF h
    <3> QED BY <2>3, <3>1 DEF Drives
  <2> QED BY <2>4, <1>2
<1> QED BY <1>3, <1>4

(* The timeline, step by step.                                             *)
LEMMA TimelineUnfolds ==
    ASSUME NEW seq \in Seq(Orders)
    PROVE  /\ Timeline(seq)[0] = StartOfDay
           /\ \A i \in 1..Len(seq) : Timeline(seq)[i] =
                 StopAfter(Timeline(seq)[i - 1], NodeAfter(seq, i - 1), seq[i])
<1> DEFINE n == Len(seq)
<1>1. n \in Nat  OBVIOUS
<1>2. \E f : Drives(f, seq, n)  BY <1>1, DrivesExists
<1>3. Drives(Timeline(seq), seq, n)  BY Zenon, <1>2 DEF Timeline, Drives
<1> HIDE DEF n
<1> DEFINE t == Timeline(seq)
<1> HIDE DEF t
<1>4. \A i \in 0..n : t[i] = IF i = 0 THEN StartOfDay
                 ELSE StopAfter(t[i - 1], NodeAfter(seq, i - 1), seq[i])
  BY Zenon, <1>3 DEF Drives, t
<1>5. t[0] = StartOfDay  BY <1>1, <1>4
<1>6. \A i \in 1..n : i \in 0..n /\ i # 0  BY <1>1
<1>7. \A i \in 1..n :
         t[i] = StopAfter(t[i - 1], NodeAfter(seq, i - 1), seq[i])
  BY Zenon, <1>4, <1>6
<1> QED BY <1>5, <1>7 DEF t, n

LEMMA TimelineTyped ==
    ASSUME NEW seq \in Seq(Orders)
    PROVE  \A i \in 0..Len(seq) : Timeline(seq)[i] \in Steps
<1> DEFINE n == Len(seq)
           t == Timeline(seq)
           Bad == {i \in 0..n : t[i] \notin Steps}
<1>1. n \in Nat  OBVIOUS
<1>2. t[0] \in Steps
  <2>1. Shift.start \in Nat  BY DataTyped
  <2>2. StartOfDay \in Steps  BY <2>1 DEF StartOfDay, Steps
  <2> QED BY <2>2, TimelineUnfolds
<1>3. ASSUME NEW i \in 1..n, t[i - 1] \in Steps PROVE t[i] \in Steps
  <2>1. seq[i] \in Orders /\ i - 1 \in 0..n  BY <1>1
  <2>2. NodeAfter(seq, i - 1) \in Places  BY <2>1, NodeIsPlace
  <2>3. t[i] = StopAfter(t[i - 1], NodeAfter(seq, i - 1), seq[i])
    BY TimelineUnfolds
  <2> QED BY <1>3, <2>1, <2>2, <2>3, StopTyped
<1> HIDE DEF t, n
<1>4. Bad = {}
  <2>1. SUFFICES ASSUME Bad # {} PROVE FALSE  OBVIOUS
  <2>2. PICK i \in Bad : \A j \in Bad : i <= j
    <3>1. Bad \subseteq Nat  BY <1>1
    <3> HIDE DEF Bad
    <3> QED BY <2>1, <3>1, LeastElement
  <2>3. i # 0  BY <1>2, <2>2
  <2>4. i \in 1..n /\ i - 1 \in 0..n /\ i - 1 \notin Bad
    BY <1>1, <2>2, <2>3
  <2> QED BY <1>3, <2>2, <2>4
<1> QED BY <1>4 DEF t, n

(* What holds between a stop and the one before it.                        *)
LEMMA StopFacts ==
    ASSUME NEW seq \in Seq(Orders), NEW i \in 1..Len(seq)
    PROVE  LET prev == Timeline(seq)[i - 1]
               stop == Timeline(seq)[i]
               way == Duration[NodeAfter(seq, i - 1)][At[seq[i]]]
           IN  /\ seq[i] \in Orders /\ NodeAfter(seq, i) = At[seq[i]]
               /\ NodeAfter(seq, i - 1) \in Places /\ way \in Nat
               /\ prev.departure \in Nat /\ prev.dropped \in Nat
               /\ stop.start = ServiceStart(prev.departure + way,
                                            Window[seq[i]])
               /\ stop.start \in Nat
               /\ stop.start >= prev.departure + way
               /\ stop.departure = stop.start + Service[seq[i]]
               /\ stop.dropped = prev.dropped + Quantity[seq[i]]
<1>1. seq[i] \in Orders /\ i - 1 \in 0..Len(seq) /\ i \in 0..Len(seq)
      /\ i # 0
  OBVIOUS
<1>2. NodeAfter(seq, i - 1) \in Places /\ NodeAfter(seq, i) = At[seq[i]]
  BY <1>1, NodeIsPlace DEF NodeAfter
<1>3. /\ Timeline(seq)[i - 1] \in Steps /\ Timeline(seq)[i] \in Steps
      /\ Timeline(seq)[i] =
            StopAfter(Timeline(seq)[i - 1], NodeAfter(seq, i - 1), seq[i])
  BY <1>1, TimelineTyped, TimelineUnfolds
<1> DEFINE prev == Timeline(seq)[i - 1]
           stop == Timeline(seq)[i]
           here == NodeAfter(seq, i - 1)
           way == Duration[here][At[seq[i]]]
<1>4. way \in Nat  BY <1>1, <1>2, DataTyped
<1>5. /\ prev.departure \in Nat /\ prev.dropped \in Nat /\ stop.start \in Nat
  BY <1>3 DEF Steps
<1> HIDE DEF prev, stop, here
<1>6. /\ prev \in Steps /\ here \in Places /\ stop = StopAfter(prev, here, seq[i])
  BY <1>2, <1>3 DEF prev, stop, here
<1>7. /\ stop.start = ServiceStart(prev.departure + way, Window[seq[i]])
      /\ stop.start >= prev.departure + way
      /\ stop.departure = stop.start + Service[seq[i]]
      /\ stop.dropped = prev.dropped + Quantity[seq[i]]
  BY <1>1, <1>6, StopTyped
<1> QED BY <1>1, <1>2, <1>4, <1>5, <1>7 DEF prev, stop, here

(* Two rounds that begin alike are driven alike so far.                    *)
LEMMA SameBeginning ==
    ASSUME NEW s \in Seq(Orders), NEW t \in Seq(Orders),
           NEW k \in 0..Len(s), k <= Len(t), \A i \in 1..k : s[i] = t[i]
    PROVE  \A i \in 0..k : /\ Timeline(s)[i] = Timeline(t)[i]
                           /\ NodeAfter(s, i) = NodeAfter(t, i)
<1> DEFINE Bad == {i \in 0..k : Timeline(s)[i] # Timeline(t)[i]}
<1>0. /\ k \in Nat /\ \A i \in 1..k : i \in 1..Len(s) /\ i \in 1..Len(t)
      /\ Len(s) \in Nat /\ Len(t) \in Nat
  OBVIOUS
<1>1. \A i \in 0..k : NodeAfter(s, i) = NodeAfter(t, i)
  BY <1>0 DEF NodeAfter
<1>2. Bad = {}
  <2>1. SUFFICES ASSUME Bad # {} PROVE FALSE  OBVIOUS
  <2>2. PICK i \in Bad : \A j \in Bad : i <= j
    <3>1. Bad \subseteq Nat  OBVIOUS
    <3> HIDE DEF Bad
    <3> QED BY <2>1, <3>1, LeastElement
  <2>3. i # 0  BY <2>2, TimelineUnfolds
  <2>4. i \in 1..k /\ i - 1 \in 0..k /\ i - 1 \notin Bad
    BY <1>0, <2>2, <2>3
  <2>5. /\ Timeline(s)[i - 1] = Timeline(t)[i - 1]
        /\ NodeAfter(s, i - 1) = NodeAfter(t, i - 1) /\ s[i] = t[i]
    BY <1>1, <2>4
  <2>6. /\ Timeline(s)[i] =
              StopAfter(Timeline(s)[i - 1], NodeAfter(s, i - 1), s[i])
        /\ Timeline(t)[i] =
              StopAfter(Timeline(t)[i - 1], NodeAfter(t, i - 1), t[i])
    BY <1>0, <2>4, TimelineUnfolds
  <2> QED BY <2>2, <2>5, <2>6
<1> QED BY <1>1, <1>2

(* A stop begins no earlier than those before it.                          *)
LEMMA StartsGrow ==
    ASSUME NEW seq \in Seq(Orders), NEW j \in 1..Len(seq)
    PROVE  \A i \in 1..j : Timeline(seq)[i].start <= Timeline(seq)[j].start
<1> DEFINE t == Timeline(seq)
           Bad == {k \in 1..Len(seq) :
                      ~\A i \in 1..k : t[i].start <= t[k].start}
<1>1. Bad = {}
  <2>1. SUFFICES ASSUME Bad # {} PROVE FALSE  OBVIOUS
  <2>2. PICK k \in Bad : \A m \in Bad : k <= m
    <3>1. Bad \subseteq Nat  OBVIOUS
    <3> HIDE DEF Bad
    <3> QED BY <2>1, <3>1, LeastElement
  <2>3. t[k].start \in Nat  BY <2>2, StopFacts
  <2>4. CASE k = 1
    <3>1. \A i \in 1..1 : i = 1  OBVIOUS
    <3> QED BY <2>2, <2>3, <2>4, <3>1
  <2>5. CASE k # 1
    <3>1. k - 1 \in 1..Len(seq) /\ k - 1 \notin Bad  BY <2>2, <2>5
    <3>2. \A i \in 1..(k - 1) : t[i].start <= t[k - 1].start  BY <3>1
    <3>3. /\ t[k - 1].start \in Nat
          /\ t[k - 1].departure = t[k - 1].start + Service[seq[k - 1]]
          /\ seq[k - 1] \in Orders
      BY <3>1, StopFacts
    <3>4. \E w \in Nat : t[k].start >= t[k - 1].departure + w
      BY <2>2, StopFacts
    <3>5. Service[seq[k - 1]] \in Nat  BY <3>3, DataTyped
    <3>6. t[k - 1].start <= t[k].start  BY <2>3, <3>3, <3>4, <3>5
    <3>7. \A i \in 1..k : i \in 1..(k - 1) \/ i = k  BY <2>2
    <3>8. \A i \in 1..(k - 1) : t[i].start \in Nat
      <4>1. \A i \in 1..(k - 1) : i \in 1..Len(seq)  BY <2>2
      <4> QED BY <4>1, StopFacts
    <3>9. ASSUME NEW i \in 1..k PROVE t[i].start <= t[k].start
      <4> HIDE DEF t
      <4> QED BY <2>3, <3>2, <3>3, <3>6, <3>7, <3>8
    <3> QED BY <2>2, <3>9
  <2> QED BY <2>4, <2>5
<1> QED BY <1>1

(* A vehicle that comes no later begins no later, if the later one is in   *)
(* time.                                                                   *)
LEMMA EarlierIsEarlier ==
    ASSUME NEW a \in Nat, NEW b \in Nat, a <= b, NEW w,
           w.start \in Nat, w.end \in Nat,
           ServiceStart(b, w) \in w.start..w.end
    PROVE  /\ ServiceStart(a, w) \in w.start..w.end
           /\ ServiceStart(a, w) <= ServiceStart(b, w)
BY DEF ServiceStart

(* RouteIsLegal, with its parts named.                                     *)
InTime(seq, i) ==
    Timeline(seq)[i].start \in Window[seq[i]].start..Window[seq[i]].end

LEMMA LegalIs ==
    ASSUME NEW v, NEW seq \in Seq(Orders)
    PROVE  RouteIsLegal(v, seq) <=>
              /\ Timeline(seq)[Len(seq)].dropped <= Capacity[v]
              /\ \A i \in 1..Len(seq) : InTime(seq, i)
              /\ Timeline(seq)[Len(seq)].departure
                    + Duration[NodeAfter(seq, Len(seq))][Depot] <= Shift.end
<1>1. DOMAIN seq = 1..Len(seq)  OBVIOUS
<1> QED BY <1>1 DEF RouteIsLegal, InTime

(* Sums that the lemma below compares.                                     *)
LEMMA LaterStays ==
    ASSUME NEW a \in Nat, NEW b \in Nat, NEW c \in Nat, NEW d \in Nat,
           NEW z \in Nat, NEW s \in Nat, s >= a + b, z <= b + c
    PROVE  a + z <= (s + d) + c
OBVIOUS

LEMMA SumsCompare ==
    ASSUME NEW a \in Nat, NEW b \in Nat, NEW c \in Nat, a <= b
    PROVE  a + c \in Nat /\ b + c \in Nat /\ a + c <= b + c
OBVIOUS

LEMMA SumIsNat ==
    ASSUME NEW a \in Nat, NEW b \in Nat PROVE a + b \in Nat
OBVIOUS

(* A stop less: a legal route stays legal when an order is taken out, for  *)
(* no detour is shorter than the way.                                      *)
LEMMA LegalWithout ==
    ASSUME NEW v \in Vehicles, NEW s \in Seq(Orders),
           NEW p \in 1..(Len(s) + 1), NEW x \in Orders,
           RouteIsLegal(v, InsertAt(s, p, x))
    PROVE  RouteIsLegal(v, s)
<1> DEFINE n == Len(s)
           t == InsertAt(s, p, x)
           L == Timeline(s)
           M == Timeline(t)
           Ahead(j) ==
              /\ \A y \in Places : L[j].departure + Duration[NodeAfter(s, j)][y]
                    <= M[j + 1].departure + Duration[NodeAfter(t, j + 1)][y]
              /\ L[j].dropped <= M[j + 1].dropped
<1>1. /\ t \in Seq(Orders) /\ Len(t) = n + 1
      /\ \A i \in 1..(n + 1) :
            t[i] = IF i < p THEN s[i] ELSE IF i = p THEN x ELSE s[i - 1]
  <2>1. IsInsertion(Orders, s, p, x, t)  BY InsertAtInserts
  <2> HIDE DEF t
  <2> QED BY <2>1 DEF IsInsertion
<1>2. n \in Nat /\ p \in 1..(n + 1) /\ DOMAIN s = 1..n  OBVIOUS
<1>3. RouteIsLegal(v, t)  OBVIOUS
<1> HIDE DEF t, n
<1>4. /\ p - 1 \in 0..n /\ p - 1 <= Len(t)
      /\ \A i \in 1..(p - 1) : s[i] = t[i]
  BY <1>1, <1>2
<1>5. \A i \in 0..(p - 1) : L[i] = M[i] /\ NodeAfter(s, i) = NodeAfter(t, i)
  <2>1. p - 1 \in 0..Len(s)  BY <1>4 DEF n
  <2> QED BY <1>1, <1>4, <2>1, SameBeginning
<1>6. /\ M[n + 1].dropped <= Capacity[v]
      /\ \A i \in 1..(n + 1) : InTime(t, i)
      /\ M[n + 1].departure + Duration[NodeAfter(t, n + 1)][Depot] <= Shift.end
  BY <1>1, <1>3, LegalIs
<1>7. \A i \in 0..n : /\ L[i].departure \in Nat /\ L[i].dropped \in Nat
                      /\ NodeAfter(s, i) \in Places
  <2>1. ASSUME NEW i \in 0..Len(s)
        PROVE  /\ L[i].departure \in Nat /\ L[i].dropped \in Nat
               /\ NodeAfter(s, i) \in Places
    BY TimelineTyped, NodeIsPlace DEF Steps
  <2> QED BY <2>1 DEF n
<1>8. \A i \in 0..(n + 1) : /\ M[i].departure \in Nat /\ M[i].dropped \in Nat
                            /\ NodeAfter(t, i) \in Places
  <2>1. ASSUME NEW i \in 0..Len(t)
        PROVE  /\ M[i].departure \in Nat /\ M[i].dropped \in Nat
               /\ NodeAfter(t, i) \in Places
    BY <1>1, TimelineTyped, NodeIsPlace DEF Steps
  <2> QED BY <2>1, <1>1
<1>9. Ahead(p - 1)
  <2> DEFINE here == NodeAfter(t, p - 1)
  <2>0. p \in 1..Len(t) /\ t[p] = x /\ p - 1 + 1 = p /\ p - 1 \in 0..(p - 1)
        /\ p \in 0..(n + 1) /\ p - 1 \in 0..(n + 1) /\ p - 1 \in 0..n
    BY <1>1, <1>2
  <2>1. /\ NodeAfter(t, p) = At[x] /\ here \in Places /\ At[x] \in Places
        /\ M[p].start >= M[p - 1].departure + Duration[here][At[x]]
        /\ M[p].departure = M[p].start + Service[x]
        /\ M[p].dropped = M[p - 1].dropped + Quantity[x]
        /\ M[p].start \in Nat
    BY <1>1, <2>0, StopFacts, DataTyped
  <2>2. L[p - 1] = M[p - 1] /\ NodeAfter(s, p - 1) = here  BY <1>5, <2>0
  <2>3. Service[x] \in Nat /\ Quantity[x] \in Nat  BY DataTyped
  <2>4. M[p - 1].departure \in Nat /\ M[p - 1].dropped \in Nat
    BY <1>8, <2>0
  <2> HIDE DEF L, M, here
  <2>5. ASSUME NEW y \in Places
        PROVE  L[p - 1].departure + Duration[here][y]
                  <= M[p].departure + Duration[At[x]][y]
    <3>1. /\ Duration[here][y] <= Duration[here][At[x]] + Duration[At[x]][y]
          /\ Duration[here][y] \in Nat /\ Duration[here][At[x]] \in Nat
          /\ Duration[At[x]][y] \in Nat
      BY <2>1, DataTyped
    <3>2. M[p - 1].departure + Duration[here][y]
             <= (M[p].start + Service[x]) + Duration[At[x]][y]
      BY <2>1, <2>3, <2>4, <3>1, LaterStays
    <3> QED BY <2>1, <2>2, <3>2
  <2>6. L[p - 1].dropped <= M[p].dropped  BY <2>1, <2>2, <2>3, <2>4
  <2> QED BY <2>0, <2>1, <2>2, <2>5, <2>6
<1>10. ASSUME NEW j \in p..n, Ahead(j - 1) PROVE Ahead(j) /\ InTime(s, j)
  <2> DEFINE from == NodeAfter(s, j - 1)
             by == NodeAfter(t, j)
             o == s[j]
             a == L[j - 1].departure + Duration[from][At[o]]
             b == M[j].departure + Duration[by][At[o]]
             w == Window[o]
  <2>0. /\ j \in 1..Len(s) /\ j + 1 \in 1..Len(t) /\ j + 1 \in 1..(n + 1)
        /\ j + 1 - 1 = j /\ j - 1 + 1 = j /\ j \in 0..n /\ j - 1 \in 0..n
        /\ j \in 0..(n + 1)
    BY <1>1, <1>2 DEF n
  <2>1. t[j + 1] = o
    <3>1. ~(j + 1 < p) /\ j + 1 # p  BY <1>2
    <3> QED BY <1>1, <2>0, <3>1
  <2>2. /\ o \in Orders /\ NodeAfter(s, j) = At[o]
        /\ L[j].start = ServiceStart(a, w)
        /\ L[j].departure = L[j].start + Service[o]
        /\ L[j].dropped = L[j - 1].dropped + Quantity[o]
        /\ L[j].start \in Nat
    BY <2>0, StopFacts
  <2>3. /\ NodeAfter(t, j + 1) = At[o]
        /\ M[j + 1].start = ServiceStart(b, w)
        /\ M[j + 1].departure = M[j + 1].start + Service[o]
        /\ M[j + 1].dropped = M[j].dropped + Quantity[o]
        /\ M[j + 1].start \in Nat
    BY <1>1, <2>0, <2>1, StopFacts
  <2>4. InTime(t, j + 1)  BY <1>6, <2>0
  <2>5. M[j + 1].start \in w.start..w.end  BY <2>1, <2>4 DEF InTime
  <2>6. /\ w.start \in Nat /\ w.end \in Nat /\ Service[o] \in Nat
        /\ Quantity[o] \in Nat /\ At[o] \in Places
    BY <2>2, DataTyped
  <2>7. a <= b /\ L[j - 1].dropped <= M[j].dropped
    <3> HIDE DEF L, M
    <3>1. M[j - 1 + 1] = M[j] /\ NodeAfter(t, j - 1 + 1) = by  BY <2>0
    <3>2. /\ \A y \in Places : L[j - 1].departure + Duration[from][y]
                 <= M[j - 1 + 1].departure
                       + Duration[NodeAfter(t, j - 1 + 1)][y]
          /\ L[j - 1].dropped <= M[j - 1 + 1].dropped
      BY <1>10
    <3> HIDE DEF from, by, o
    <3>3. /\ \A y \in Places : L[j - 1].departure + Duration[from][y]
                 <= M[j].departure + Duration[by][y]
          /\ L[j - 1].dropped <= M[j].dropped
      BY <3>1, <3>2
    <3> QED BY <2>6, <3>3
  <2>8. a \in Nat /\ b \in Nat /\ L[j - 1].dropped \in Nat
        /\ M[j].dropped \in Nat
    <3>1. L[j - 1].departure \in Nat /\ from \in Places
          /\ L[j - 1].dropped \in Nat
      BY <1>7, <2>0
    <3>2. M[j].departure \in Nat /\ by \in Places /\ M[j].dropped \in Nat
      BY <1>8, <2>0
    <3>3. Duration[from][At[o]] \in Nat /\ Duration[by][At[o]] \in Nat
      BY <2>6, <3>1, <3>2, DataTyped
    <3> HIDE DEF L, M, from, by, o
    <3>4. a \in Nat /\ b \in Nat  BY <3>1, <3>2, <3>3, SumIsNat
    <3> QED BY <3>1, <3>2, <3>4
  <2> HIDE DEF L, M, a, b, w
  <2>9. L[j].start \in w.start..w.end /\ L[j].start <= M[j + 1].start
    <3>1. ServiceStart(b, w) \in w.start..w.end  BY <2>3, <2>5
    <3>2. /\ ServiceStart(a, w) \in w.start..w.end
          /\ ServiceStart(a, w) <= ServiceStart(b, w)
      BY <2>6, <2>7, <2>8, <3>1, EarlierIsEarlier
    <3> QED BY <2>2, <2>3, <3>2
  <2>10. InTime(s, j)  BY <2>9 DEF InTime, L, w
  <2>11. L[j].departure <= M[j + 1].departure
         /\ L[j].dropped <= M[j + 1].dropped
         /\ L[j].departure \in Nat /\ M[j + 1].departure \in Nat
    <3>1. L[j].start + Service[o] <= M[j + 1].start + Service[o]
          /\ L[j].start + Service[o] \in Nat
          /\ M[j + 1].start + Service[o] \in Nat
      BY <2>2, <2>3, <2>6, <2>9, SumsCompare
    <3>2. L[j - 1].dropped + Quantity[o] <= M[j].dropped + Quantity[o]
      BY <2>6, <2>7, <2>8, SumsCompare
    <3> QED BY <2>2, <2>3, <3>1, <3>2
  <2>12. ASSUME NEW y \in Places
         PROVE  L[j].departure + Duration[NodeAfter(s, j)][y]
                   <= M[j + 1].departure + Duration[NodeAfter(t, j + 1)][y]
    <3>1. Duration[At[o]][y] \in Nat  BY <2>6, DataTyped
    <3>2. L[j].departure + Duration[At[o]][y]
             <= M[j + 1].departure + Duration[At[o]][y]
      BY <2>11, <3>1, SumsCompare
    <3> QED BY <2>2, <2>3, <3>2
  <2> QED BY <2>10, <2>11, <2>12
<1> HIDE DEF Ahead, L, M
<1> DEFINE Bad == {j \in (p - 1)..n : ~Ahead(j)}
<1>11. Bad = {}
  <2>1. SUFFICES ASSUME Bad # {} PROVE FALSE  OBVIOUS
  <2>2. PICK j \in Bad : \A m \in Bad : j <= m
    <3>1. Bad \subseteq Nat  BY <1>2
    <3> HIDE DEF Bad
    <3> QED BY <2>1, <3>1, LeastElement
  <2>3. j # p - 1  BY <1>9, <2>2
  <2>4. j \in p..n /\ j - 1 \in (p - 1)..n /\ j - 1 \notin Bad
    BY <1>2, <2>2, <2>3
  <2> QED BY <1>10, <2>2, <2>4
<1>12. \A j \in p..n : InTime(s, j)
  <2>1. ASSUME NEW j \in p..n PROVE Ahead(j - 1)
    <3>1. j - 1 \in (p - 1)..n  BY <1>2
    <3> QED BY <1>11, <3>1
  <2> QED BY <1>10, <2>1
<1>13. \A j \in 1..(p - 1) : InTime(s, j)
  <2>1. ASSUME NEW j \in 1..(p - 1) PROVE InTime(s, j)
    <3>1. j \in 0..(p - 1) /\ j \in 1..(n + 1)  BY <1>2
    <3>2. L[j] = M[j] /\ s[j] = t[j] /\ InTime(t, j)
      BY <1>4, <1>5, <1>6, <3>1
    <3> QED BY <3>2 DEF InTime, L, M
  <2> QED BY <2>1
<1>14. \A j \in 1..n : InTime(s, j)
  <2>1. \A j \in 1..n : j \in 1..(p - 1) \/ j \in p..n  BY <1>2
  <2> QED BY <1>12, <1>13, <2>1
<1>15. Ahead(n)
  <2>1. n \in (p - 1)..n  BY <1>2
  <2> QED BY <1>11, <2>1
<1>16. L[n].dropped <= M[n + 1].dropped
       /\ L[n].departure + Duration[NodeAfter(s, n)][Depot]
             <= M[n + 1].departure + Duration[NodeAfter(t, n + 1)][Depot]
  BY <1>15, DataTyped DEF Ahead
<1>17. /\ L[n].dropped \in Nat /\ M[n + 1].dropped \in Nat
       /\ Capacity[v] \in Nat /\ Shift.end \in Nat
       /\ L[n].departure + Duration[NodeAfter(s, n)][Depot] \in Nat
       /\ M[n + 1].departure + Duration[NodeAfter(t, n + 1)][Depot] \in Nat
  <2>1. n \in 0..n /\ n + 1 \in 0..(n + 1)  BY <1>2
  <2>2. /\ Duration[NodeAfter(s, n)][Depot] \in Nat
        /\ Duration[NodeAfter(t, n + 1)][Depot] \in Nat
    BY <1>7, <1>8, <2>1, DataTyped
  <2>3. /\ L[n].departure \in Nat /\ L[n].dropped \in Nat
        /\ M[n + 1].departure \in Nat /\ M[n + 1].dropped \in Nat
    BY <1>7, <1>8, <2>1
  <2>4. Capacity[v] \in Nat /\ Shift.end \in Nat  BY DataTyped
  <2> QED BY <2>2, <2>3, <2>4, SumIsNat
<1>18. L[n].dropped <= Capacity[v]
       /\ L[n].departure + Duration[NodeAfter(s, n)][Depot] <= Shift.end
  BY <1>6, <1>16, <1>17
<1> QED BY <1>14, <1>18, LegalIs DEF n, L

(* Every beginning of a legal route is legal.                              *)
LEMMA BeginningIs ==
    ASSUME NEW S, NEW s \in Seq(S), NEW k \in 0..Len(s)
    PROVE  /\ SubSeq(s, 1, k) \in Seq(S) /\ Len(SubSeq(s, 1, k)) = k
           /\ \A i \in 1..k : SubSeq(s, 1, k)[i] = s[i]
OBVIOUS

LEMMA OneMore ==
    ASSUME NEW S, NEW s \in Seq(S), NEW k \in 1..Len(s)
    PROVE  InsertAt(SubSeq(s, 1, k - 1), k, s[k]) = SubSeq(s, 1, k)
<1> DEFINE a == SubSeq(s, 1, k - 1)
           b == SubSeq(s, 1, k)
           o == s[k]
           c == InsertAt(a, k, o)
<1>1. k - 1 \in 0..Len(s) /\ k \in 0..Len(s) /\ o \in S  OBVIOUS
<1>2. a \in Seq(S) /\ Len(a) = k - 1 /\ \A i \in 1..(k - 1) : a[i] = s[i]
  BY <1>1, BeginningIs
<1>3. b \in Seq(S) /\ Len(b) = k /\ \A i \in 1..k : b[i] = s[i]
  BY <1>1, BeginningIs
<1> HIDE DEF a, b
<1>4. k \in 1..(Len(a) + 1)  BY <1>2
<1> HIDE DEF o
<1>5. /\ c \in Seq(S) /\ Len(c) = Len(a) + 1
      /\ \A i \in 1..(Len(a) + 1) :
            c[i] = IF i < k THEN a[i] ELSE IF i = k THEN o ELSE a[i - 1]
  <2>1. a \in Seq(S) /\ k \in 1..(Len(a) + 1)  BY <1>2, <1>4
  <2>2. o \in S  BY DEF o
  <2>3. IsInsertion(S, a, k, o, c)  BY <2>1, <2>2, InsertAtInserts
  <2> HIDE DEF c
  <2> QED BY <2>3 DEF IsInsertion
<1> HIDE DEF c
<1>6. ASSUME NEW i \in 1..k PROVE c[i] = b[i]
  <2>1. CASE i < k  BY <2>1, <1>2, <1>3, <1>5
  <2>2. CASE i = k  BY <2>2, <1>2, <1>3, <1>5 DEF o
  <2> QED BY <2>1, <2>2
<1>7. Len(c) = k  BY <1>2, <1>5
<1>8. c = b  BY <1>3, <1>5, <1>6, <1>7, SameSeq
<1> QED BY <1>8 DEF a, b, c, o

LEMMA PrefixLegal ==
    ASSUME NEW v \in Vehicles, NEW s \in Seq(Orders), RouteIsLegal(v, s),
           NEW k \in 0..Len(s)
    PROVE  RouteIsLegal(v, SubSeq(s, 1, k))
<1> DEFINE n == Len(s)
           Bad == {j \in 0..n : ~RouteIsLegal(v, SubSeq(s, 1, n - j))}
<1>0. n \in Nat  OBVIOUS
<1>1. Bad = {}
  <2>1. SUFFICES ASSUME Bad # {} PROVE FALSE  OBVIOUS
  <2>2. PICK j \in Bad : \A m \in Bad : j <= m
    <3>1. Bad \subseteq Nat  BY <1>0
    <3> HIDE DEF Bad
    <3> QED BY <2>1, <3>1, LeastElement
  <2>3. CASE j = 0
    <3>1. n - 0 = n /\ SubSeq(s, 1, n) = s  OBVIOUS
    <3> QED BY <2>2, <2>3, <3>1
  <2>4. CASE j # 0
    <3>1. j - 1 \in 0..n /\ j - 1 \notin Bad  BY <1>0, <2>2, <2>4
    <3> DEFINE m == n - (j - 1)
    <3>2. RouteIsLegal(v, SubSeq(s, 1, m))  BY <3>1
    <3>3. m \in 1..n /\ m - 1 = n - j /\ m \in 1..Len(s)
      BY <1>0, <2>2, <2>4
    <3> HIDE DEF m
    <3> DEFINE a == SubSeq(s, 1, m - 1)
               o == s[m]
    <3>4. m - 1 \in 0..Len(s) /\ o \in Orders  BY <3>3
    <3>5. a \in Seq(Orders) /\ Len(a) = m - 1  BY <3>4, BeginningIs
    <3>6. InsertAt(a, m, o) = SubSeq(s, 1, m)  BY <3>3, OneMore
    <3> HIDE DEF a, o
    <3>7. m \in 1..(Len(a) + 1)  BY <3>3, <3>5
    <3>8. RouteIsLegal(v, InsertAt(a, m, o))  BY <3>2, <3>6
    <3>9. RouteIsLegal(v, a)  BY <3>4, <3>5, <3>7, <3>8, LegalWithout
    <3> QED BY <2>2, <3>3, <3>9 DEF a
  <2> QED BY <2>3, <2>4
<1>2. n - k \in 0..n /\ n - (n - k) = k  BY <1>0
<1> HIDE DEF n
<1>3. n - k \notin Bad  BY <1>1
<1>4. RouteIsLegal(v, SubSeq(s, 1, n - (n - k)))  BY <1>2, <1>3
<1> QED BY <1>2, <1>4

-----------------------------------------------------------------------------
(* Plans.                                                                  *)

RoundPlans == [Vehicles -> Rounds]

(* No round is longer than there are orders.                               *)
LEMMA RoundIs ==
    ASSUME NEW s
    PROVE  s \in Rounds <=> s \in Seq(Orders) /\ IsInjective(s)
<1> DEFINE n == Cardinality(Orders)
<1>1. IsFiniteSet(Orders) /\ n \in Nat
  BY ReoptimiseAssumption, FS_CardinalityType DEF ReoptimiseAssumption
<1> HIDE DEF n
<1>2. ASSUME s \in Rounds PROVE s \in Seq(Orders) /\ IsInjective(s)
  <2>1. s \in SeqOf(Orders, n) /\ IsInjective(s)  BY <1>2 DEF Rounds, n
  <2>2. PICK m \in 0..n : s \in [1..m -> Orders]  BY <2>1 DEF SeqOf
  <2>3. m \in Nat  BY <1>1
  <2>4. s \in Seq(Orders)  BY <2>2, <2>3
  <2> QED BY <2>1, <2>4
<1>3. ASSUME s \in Seq(Orders), IsInjective(s) PROVE s \in Rounds
  <2> DEFINE m == Len(s)
  <2>1. m \in Nat /\ s \in [1..m -> Orders]  BY <1>3
  <2> HIDE DEF m
  <2>2. s \in Injection(1..m, Orders)
    BY <1>3, <2>1 DEF Injection, IsInjective
  <2>3. Cardinality(1..m) <= n  BY <1>1, <2>2, FS_Injection DEF n
  <2>4. Cardinality(1..m) = m
    <3>1. Cardinality(1..m) = IF 1 > m THEN 0 ELSE m - 1 + 1
      BY <2>1, FS_Interval
    <3> QED BY <2>1, <3>1
  <2>5. m \in 0..n  BY <1>1, <2>1, <2>3, <2>4
  <2>6. s \in SeqOf(Orders, n)  BY <2>1, <2>5 DEF SeqOf
  <2> QED BY <1>3, <2>6 DEF Rounds, n
<1> QED BY <1>2, <1>3

LEMMA RoundLength ==
    ASSUME NEW s \in Rounds
    PROVE  s \in Seq(Orders) /\ Len(s) \in 0..Cardinality(Orders)
<1> DEFINE n == Cardinality(Orders)
<1>1. s \in Seq(Orders)  BY RoundIs
<1>2. PICK m \in 0..n : s \in [1..m -> Orders]  BY DEF Rounds, SeqOf
<1>3. n \in Nat
  BY ReoptimiseAssumption, FS_CardinalityType DEF ReoptimiseAssumption
<1> HIDE DEF n
<1>4. DOMAIN s = 1..m /\ DOMAIN s = 1..Len(s) /\ Len(s) \in Nat
  BY <1>1, <1>2
<1>5. Len(s) = m  BY <1>2, <1>3, <1>4
<1> QED BY <1>1, <1>2, <1>5 DEF n

LEMMA VehiclesFinite ==
    /\ IsFiniteSet(Vehicles) /\ Cardinality(Vehicles) \in Nat
    /\ Vehicles = 1..Cardinality(Vehicles)
BY ReoptimiseAssumption, FS_CardinalityType DEF ReoptimiseAssumption

(* Whether a van can take an order at any place of its round.              *)
CanTake(a, o, v) ==
    \E p \in 1..(Len(a[v]) + 1) : RouteIsLegal(v, InsertAt(a[v], p, o))

LEMMA NoPlace ==
    ASSUME NEW a \in RoundPlans, NEW o, NEW W, W \subseteq Vehicles
    PROVE  LegalPlaces(a, o, W) = {} <=> \A v \in W : ~CanTake(a, o, v)
<1> DEFINE n == Cardinality(Orders)
<1>1. n \in Nat
  BY ReoptimiseAssumption, FS_CardinalityType DEF ReoptimiseAssumption
<1>2. \A v \in Vehicles : Len(a[v]) \in 0..n
  BY RoundLength DEF RoundPlans
<1> HIDE DEF n
<1>3. LegalPlaces(a, o, W) = {c \in W \X (1..n + 1) :
        /\ c[2] <= Len(a[c[1]]) + 1
        /\ RouteIsLegal(c[1], InsertAt(a[c[1]], c[2], o))}
  BY DEF LegalPlaces, n
<1>4. ASSUME NEW v \in W, NEW p \in 1..(Len(a[v]) + 1),
             RouteIsLegal(v, InsertAt(a[v], p, o))
      PROVE  LegalPlaces(a, o, W) # {}
  <2>1. p \in 1..n + 1 /\ p <= Len(a[v]) + 1  BY <1>1, <1>2
  <2>2. <<v, p>> \in LegalPlaces(a, o, W)  BY <1>3, <1>4, <2>1
  <2> QED BY <2>2
<1>5. ASSUME NEW c \in LegalPlaces(a, o, W)
      PROVE  c[1] \in W /\ CanTake(a, o, c[1])
  <2>1. /\ c[1] \in W /\ c[2] \in 1..n + 1 /\ c[2] <= Len(a[c[1]]) + 1
        /\ RouteIsLegal(c[1], InsertAt(a[c[1]], c[2], o))
    BY <1>3
  <2>2. c[2] \in 1..(Len(a[c[1]]) + 1)  BY <1>1, <1>2, <2>1
  <2> QED BY <2>1, <2>2 DEF CanTake
<1> QED BY <1>4, <1>5 DEF CanTake

(* An order some van has no room for has none once that van has taken      *)
(* another: insertions never make room.                                    *)
LEMMA InsertionsTakeRoom ==
    ASSUME NEW v \in Vehicles, NEW s \in Seq(Orders),
           NEW p \in 1..(Len(s) + 1), NEW x \in Orders, NEW o \in Orders,
           NEW q \in 1..(Len(s) + 2),
           RouteIsLegal(v, InsertAt(InsertAt(s, p, x), q, o))
    PROVE  \E r \in 1..(Len(s) + 1) : RouteIsLegal(v, InsertAt(s, r, o))
<1>1. PICK r \in 1..(Len(s) + 1), u \in 1..(Len(s) + 2) :
         InsertAt(InsertAt(s, p, x), q, o) = InsertAt(InsertAt(s, r, o), u, x)
  BY InsertTwice
<1> DEFINE w == InsertAt(s, r, o)
<1>2. w \in Seq(Orders) /\ Len(w) = Len(s) + 1
  <2>1. IsInsertion(Orders, s, r, o, w)  BY InsertAtInserts
  <2> HIDE DEF w
  <2> QED BY <2>1 DEF IsInsertion
<1>3. RouteIsLegal(v, InsertAt(w, u, x))  BY <1>1
<1> HIDE DEF w
<1>4. u \in 1..(Len(w) + 1)  BY <1>2
<1>5. RouteIsLegal(v, w)  BY <1>2, <1>3, <1>4, LegalWithout
<1> QED BY <1>5 DEF w

(* What an insertion does to a plan.                                       *)
Inserted(a, x, v, p) == [a EXCEPT ![v] = InsertAt(@, p, x)]

LEMMA SubsequenceInserted ==
    ASSUME NEW s \in Seq(Orders), IsInjective(s),
           NEW p \in 1..(Len(s) + 1), NEW x \in Orders, x \notin ToSet(s)
    PROVE  IsSubsequence(s, InsertAt(s, p, x))
<1> DEFINE t == InsertAt(s, p, x)
           n == Len(s)
<1>1. /\ t \in Seq(Orders) /\ Len(t) = n + 1
      /\ \A i \in 1..(n + 1) :
            t[i] = IF i < p THEN s[i] ELSE IF i = p THEN x ELSE s[i - 1]
  <2>1. IsInsertion(Orders, s, p, x, t)  BY InsertAtInserts
  <2> HIDE DEF t
  <2> QED BY <2>1 DEF IsInsertion
<1>2. ToSet(s) \subseteq ToSet(t)  BY InsertAtSets
<1>3. n \in Nat /\ DOMAIN s = 1..n /\ p \in 1..(n + 1)  OBVIOUS
<1> HIDE DEF t, n
<1>4. DOMAIN t = 1..(n + 1)  BY <1>1
<1>5. \A k \in 1..n : s[k] # x  BY <1>3 DEF ToSet
<1>6. \A k, l \in 1..n : s[k] = s[l] => k = l  BY <1>3 DEF IsInjective
<1>7. ASSUME NEW i \in 1..(n + 1), NEW k \in 1..n, t[i] = s[k]
      PROVE  i = IF k < p THEN k ELSE k + 1
  <2>1. CASE i < p  BY <2>1, <1>1, <1>3, <1>6, <1>7
  <2>2. CASE i = p  BY <2>2, <1>1, <1>5, <1>7
  <2>3. CASE i > p
    <3>1. i - 1 \in 1..n /\ t[i] = s[i - 1]  BY <2>3, <1>1, <1>3
    <3>2. i - 1 = k  BY <3>1, <1>6, <1>7
    <3> QED BY <2>3, <3>2, <1>3
  <2> QED BY <2>1, <2>2, <2>3, <1>3
<1>8. ASSUME NEW i \in 1..(n + 1), NEW j \in 1..(n + 1), NEW k \in 1..n,
             NEW l \in 1..n, t[i] = s[k], t[j] = s[l], k < l
      PROVE  i < j
  <2>1. i = (IF k < p THEN k ELSE k + 1) /\ j = IF l < p THEN l ELSE l + 1
    BY <1>7, <1>8
  <2> QED BY <1>3, <1>8, <2>1
<1>9. IsSubsequence(s, t)  BY <1>2, <1>3, <1>4, <1>8 DEF IsSubsequence
<1> QED BY <1>9 DEF t

LEMMA SubsequenceSelf ==
    ASSUME NEW s \in Seq(Orders), IsInjective(s)
    PROVE  IsSubsequence(s, s)
<1>1. \A i, j, k, l \in DOMAIN s : s[i] = s[k] /\ s[j] = s[l] /\ k < l
                                        => i < j
  BY DEF IsInjective
<1> QED BY <1>1 DEF IsSubsequence

LEMMA SubsequenceOf ==
    ASSUME NEW r \in Seq(Orders), NEW s \in Seq(Orders), NEW t \in Seq(Orders),
           IsSubsequence(r, s), IsSubsequence(s, t)
    PROVE  IsSubsequence(r, t)
<1>1. ToSet(r) \subseteq ToSet(t)  BY DEF IsSubsequence
<1>2. ASSUME NEW i \in DOMAIN t, NEW j \in DOMAIN t, NEW k \in DOMAIN r,
             NEW l \in DOMAIN r, t[i] = r[k], t[j] = r[l], k < l
      PROVE  i < j
  <2>1. r[k] \in ToSet(s) /\ r[l] \in ToSet(s)
    BY DEF IsSubsequence, ToSet
  <2>2. PICK m \in DOMAIN s : s[m] = r[k]  BY <2>1 DEF ToSet
  <2>3. PICK n \in DOMAIN s : s[n] = r[l]  BY <2>1 DEF ToSet
  <2>4. m < n  BY <1>2, <2>2, <2>3 DEF IsSubsequence
  <2> QED BY <1>2, <2>2, <2>3, <2>4 DEF IsSubsequence
<1> QED BY <1>1, <1>2 DEF IsSubsequence

LEMMA InsertedKeeps ==
    ASSUME NEW a \in RoundPlans, Disjoint(a),
           NEW x \in Orders, x \notin Served(a), NEW v \in Vehicles,
           NEW p \in 1..(Len(a[v]) + 1), RouteIsLegal(v, InsertAt(a[v], p, x))
    PROVE  LET b == Inserted(a, x, v, p)
           IN  /\ b \in RoundPlans /\ Disjoint(b)
               /\ RouteIsLegal(v, b[v]) /\ x \in ToSet(b[v])
               /\ \A w \in Vehicles \ {v} : b[w] = a[w]
               /\ Served(b) = Served(a) \cup {x}
               /\ \A w \in Vehicles : IsSubsequence(a[w], b[w])
               /\ \A o \in Orders, w \in Vehicles :
                     CanTake(b, o, w) => CanTake(a, o, w)
<1> DEFINE b == Inserted(a, x, v, p)
           s == a[v]
           t == InsertAt(s, p, x)
<1>1. /\ \A w \in Vehicles : a[w] \in Seq(Orders) /\ IsInjective(a[w])
      /\ DOMAIN a = Vehicles
  BY RoundIs DEF RoundPlans
<1>2. /\ t \in Seq(Orders) /\ Len(t) = Len(s) + 1 /\ s \in Seq(Orders)
  <2>1. s \in Seq(Orders)  BY <1>1
  <2>2. IsInsertion(Orders, s, p, x, t)  BY <2>1, InsertAtInserts
  <2> HIDE DEF t
  <2> QED BY <2>1, <2>2 DEF IsInsertion
<1>3. x \notin ToSet(s)  BY DEF Served
<1>4. ToSet(t) = ToSet(s) \cup {x} /\ IsInjective(t)
  BY <1>1, <1>3, InsertAtSets
<1>5. IsSubsequence(s, t)  BY <1>1, <1>2, <1>3, SubsequenceInserted
<1>6. t \in Rounds  BY <1>2, <1>4, RoundIs
<1>7. RouteIsLegal(v, t)  OBVIOUS
<1>8. b = [a EXCEPT ![v] = t]  BY DEF Inserted
<1> HIDE DEF t, b
<1>9. b[v] = t /\ \A w \in Vehicles \ {v} : b[w] = a[w]
  BY <1>1, <1>8
<1>10. b \in RoundPlans  BY <1>6, <1>8 DEF RoundPlans
<1>11. \A w \in Vehicles : x \notin ToSet(a[w])  BY DEF Served
<1>12. Disjoint(b)
  <2>1. ASSUME NEW y \in Vehicles, NEW z \in Vehicles, y # z
        PROVE  ToSet(b[y]) \cap ToSet(b[z]) = {}
    <3>1. ToSet(a[y]) \cap ToSet(a[z]) = {}  BY <2>1 DEF Disjoint
    <3>2. ToSet(b[y]) = ToSet(a[y]) \cup (IF y = v THEN {x} ELSE {})
      BY <1>4, <1>9
    <3>3. ToSet(b[z]) = ToSet(a[z]) \cup (IF z = v THEN {x} ELSE {})
      BY <1>4, <1>9
    <3> QED BY <2>1, <3>1, <3>2, <3>3, <1>11
  <2> QED BY <2>1 DEF Disjoint
<1>13. Served(b) = Served(a) \cup {x}
  <2>1. \A w \in Vehicles :
           ToSet(b[w]) = ToSet(a[w]) \cup (IF w = v THEN {x} ELSE {})
    BY <1>4, <1>9
  <2>2. ASSUME NEW o, o \in Served(b) PROVE o \in Served(a) \cup {x}
    <3>1. PICK w \in Vehicles : o \in ToSet(b[w])  BY <2>2 DEF Served
    <3>2. o \in ToSet(a[w]) \/ o = x  BY <2>1, <3>1
    <3> QED BY <3>2 DEF Served
  <2>3. ASSUME NEW o, o \in Served(a) PROVE o \in Served(b)
    <3>1. PICK w \in Vehicles : o \in ToSet(a[w])  BY <2>3 DEF Served
    <3>2. o \in ToSet(b[w])  BY <2>1, <3>1
    <3> QED BY <3>2 DEF Served
  <2>4. x \in ToSet(b[v])  BY <2>1
  <2>5. x \in Served(b)  BY <2>4 DEF Served
  <2> QED BY <2>2, <2>3, <2>5
<1>14. \A w \in Vehicles : IsSubsequence(a[w], b[w])
  BY <1>1, <1>5, <1>9, SubsequenceSelf
<1>15. ASSUME NEW o \in Orders, NEW w \in Vehicles, CanTake(b, o, w)
       PROVE  CanTake(a, o, w)
  <2>1. CASE w # v  BY <2>1, <1>9, <1>15 DEF CanTake
  <2>2. CASE w = v
    <3>1. PICK q \in 1..(Len(t) + 1) : RouteIsLegal(v, InsertAt(t, q, o))
      BY <2>2, <1>9, <1>15 DEF CanTake
    <3>2. q \in 1..(Len(s) + 2)  BY <3>1, <1>2
    <3>3. RouteIsLegal(v, InsertAt(InsertAt(s, p, x), q, o))
      BY <3>1 DEF t
    <3>4. \E r \in 1..(Len(s) + 1) : RouteIsLegal(v, InsertAt(s, r, o))
      BY <1>2, <3>2, <3>3, InsertionsTakeRoom
    <3> QED BY <2>2, <3>4 DEF CanTake
  <2> QED BY <2>1, <2>2
<1>16. RouteIsLegal(v, b[v]) /\ x \in ToSet(b[v])  BY <1>4, <1>7, <1>9
<1> QED BY <1>9, <1>10, <1>12, <1>13, <1>14, <1>15, <1>16 DEF b

-----------------------------------------------------------------------------
(* The length of a round.                                                  *)

LEMMA Bounded ==
    ASSUME NEW S, IsFiniteSet(S), NEW f \in [S -> Nat]
    PROVE  \E b \in Nat : \A x \in S : f[x] <= b
<1> DEFINE n == Cardinality(S)
<1>1. n \in Nat /\ ExistsBijection(1..n, S)
  BY FS_CardinalityType, FS_NatBijection
<1>2. PICK g : g \in Bijection(1..n, S)  BY <1>1 DEF ExistsBijection
<1>3. \A k \in 1..n : g[k] \in S
  BY <1>2 DEF Bijection, Injection
<1>4. \A x \in S : \E k \in 1..n : g[k] = x
  BY <1>2 DEF Bijection, Surjection
<1> HIDE DEF n
<1> DEFINE Bad == {k \in 0..n : ~\E b \in Nat : \A i \in 1..k : f[g[i]] <= b}
<1>5. Bad = {}
  <2>1. SUFFICES ASSUME Bad # {} PROVE FALSE  OBVIOUS
  <2>2. PICK k \in Bad : \A m \in Bad : k <= m
    <3>1. Bad \subseteq Nat  OBVIOUS
    <3> HIDE DEF Bad
    <3> QED BY <2>1, <3>1, LeastElement
  <2>3. k # 0
    <3>1. \A i \in 1..0 : f[g[i]] <= 0  OBVIOUS
    <3> QED BY <2>2, <3>1
  <2>4. k \in 1..n /\ k - 1 \in 0..n /\ ~(k <= k - 1)  BY <1>1, <2>2, <2>3
  <2>5. k - 1 \notin Bad  BY <2>2, <2>4
  <2>6. PICK b \in Nat : \A i \in 1..(k - 1) : f[g[i]] <= b  BY <2>4, <2>5
  <2>7. f[g[k]] \in Nat  BY <1>3, <2>4
  <2> DEFINE c == IF f[g[k]] <= b THEN b ELSE f[g[k]]
  <2>8. c \in Nat /\ b <= c /\ f[g[k]] <= c  BY <2>7
  <2>9. \A i \in 1..k : f[g[i]] <= c
    <3>1. ASSUME NEW i \in 1..k PROVE f[g[i]] <= c
      <4>1. i = k \/ i \in 1..(k - 1)  BY <2>4
      <4>2. i \in 1..n  BY <1>1, <2>4
      <4>3. f[g[i]] \in Nat  BY <1>3, <4>2
      <4> QED BY <2>6, <2>8, <4>1, <4>3
    <3> QED BY <3>1
  <2> QED BY <2>2, <2>8, <2>9
<1>6. n \in 0..n  BY <1>1
<1>7. PICK b \in Nat : \A i \in 1..n : f[g[i]] <= b  BY <1>5, <1>6
<1> QED BY <1>4, <1>7

(* Distances are bounded, for there are finitely many places.              *)
LEMMA DistancesBounded ==
    \E d \in Nat : \A a, b \in Places : Distance[a][b] <= d
<1> DEFINE S == {At[o] : o \in Orders}
           f == [o \in Orders |-> At[o]]
<1>1. IsFiniteSet(Orders)  BY ReoptimiseAssumption DEF ReoptimiseAssumption
<1>2. f \in Surjection(Orders, S)  BY DEF Surjection
<1>3. IsFiniteSet(S)  BY <1>1, <1>2, FS_Surjection
<1>4. IsFiniteSet({Depot})  BY FS_Singleton
<1>5. IsFiniteSet({Depot} \cup S)  BY <1>3, <1>4, FS_Union
<1>6. IsFiniteSet(Places)  BY <1>5 DEF Places
<1> DEFINE P == Places \X Places
           g == [p \in P |-> Distance[p[1]][p[2]]]
<1>7. IsFiniteSet(P)  BY <1>6, FS_Product
<1>8. \A a, b \in Places : Distance[a][b] \in Nat  BY DataTyped
<1>9. g \in [P -> Nat]  BY <1>8
<1> HIDE DEF P, g
<1>10. PICK d \in Nat : \A p \in P : g[p] <= d  BY <1>7, <1>9, Bounded
<1>11. \A a, b \in Places : <<a, b>> \in P /\ g[<<a, b>>] = Distance[a][b]
  BY DEF P, g
<1> QED BY <1>10, <1>11

LEMMA LengthTyped ==
    ASSUME NEW seq \in Seq(Orders) PROVE Length(seq) \in Nat
<1> DEFINE n == Len(seq)
<1>1. n \in 0..n  OBVIOUS
<1>2. Timeline(seq)[n].metres \in Nat  BY <1>1, TimelineTyped DEF Steps
<1>3. Distance[NodeAfter(seq, n)][Depot] \in Nat
  BY <1>1, NodeIsPlace, DataTyped
<1> QED BY <1>2, <1>3, SumIsNat DEF Length

(* Rounds of a bounded number of stops have bounded lengths.               *)
LEMMA LengthsBounded ==
    \E b \in Nat : \A s \in Rounds : Length(s) <= b
<1> DEFINE n == Cardinality(Orders)
<1>1. n \in Nat
  BY ReoptimiseAssumption, FS_CardinalityType DEF ReoptimiseAssumption
<1>2. PICK d \in Nat : \A a, b \in Places : Distance[a][b] <= d
  BY DistancesBounded
<1>3. \A s \in Rounds : s \in Seq(Orders) /\ Len(s) \in 0..n  BY RoundLength
<1> HIDE DEF n
<1> DEFINE Far(k, b) == \A s \in Rounds : \A i \in 0..k :
                           i <= Len(s) => Timeline(s)[i].metres <= b
           Bad == {k \in 0..n : ~\E b \in Nat : Far(k, b)}
<1>4. \A s \in Rounds : \A i \in 0..Len(s) : Timeline(s)[i].metres \in Nat
  BY <1>3, TimelineTyped DEF Steps
<1>5. Bad = {}
  <2>1. SUFFICES ASSUME Bad # {} PROVE FALSE  OBVIOUS
  <2>2. PICK k \in Bad : \A m \in Bad : k <= m
    <3>1. Bad \subseteq Nat  BY <1>1
    <3> HIDE DEF Bad
    <3> QED BY <2>1, <3>1, LeastElement
  <2>3. k # 0
    <3>1. ASSUME NEW s \in Rounds PROVE Timeline(s)[0].metres = 0
      <4>1. s \in Seq(Orders)  BY <1>3
      <4>2. Timeline(s)[0] = StartOfDay  BY <4>1, TimelineUnfolds
      <4> QED BY <4>2 DEF StartOfDay
    <3>2. Far(0, 0)
      <4>1. \A i \in 0..0 : i = 0  OBVIOUS
      <4>2. ASSUME NEW s \in Rounds, NEW i \in 0..0
            PROVE  Timeline(s)[i].metres <= 0
        <5>1. i = 0  BY <4>1
        <5>2. Timeline(s)[0].metres = 0  BY <3>1
        <5> QED BY <5>1, <5>2
      <4> QED BY <4>2
    <3> HIDE DEF Far
    <3> QED BY <2>2, <3>2
  <2>4. k \in 1..n /\ k - 1 \in 0..n /\ ~(k <= k - 1)  BY <1>1, <2>2, <2>3
  <2>5. k - 1 \notin Bad  BY <2>2, <2>4
  <2>6. PICK b \in Nat : Far(k - 1, b)
    <3> HIDE DEF Far
    <3> QED BY <2>4, <2>5
  <2> DEFINE c == b + d
  <2>7. b \in Nat /\ d \in Nat /\ c \in Nat /\ b <= c
    <3>1. b \in Nat /\ d \in Nat  BY <1>2, <2>6
    <3> QED BY <3>1
  <2>8. ASSUME NEW s \in Rounds, NEW i \in 0..k, i <= Len(s)
        PROVE  Timeline(s)[i].metres <= c
    <3>1. CASE i \in 0..(k - 1)
      <4>1. Timeline(s)[i].metres <= b  BY <2>6, <2>8, <3>1
      <4>2. i \in 0..Len(s)
        <5>1. Len(s) \in Nat /\ i \in Nat  BY <1>1, <1>3, <2>4, <2>8
        <5> QED BY <2>8, <5>1
      <4>3. Timeline(s)[i].metres \in Nat  BY <1>4, <4>2
      <4> DEFINE x == Timeline(s)[i].metres
      <4>4. x \in Nat /\ x <= b  BY <4>1, <4>3
      <4> HIDE DEF x
      <4>5. x <= c  BY <2>7, <4>4
      <4> QED BY <4>5 DEF x
    <3>2. CASE i = k
      <4>1. k \in 1..Len(s) /\ k - 1 \in 0..Len(s) /\ k - 1 \in 0..(k - 1)
            /\ k - 1 <= Len(s) /\ s \in Seq(Orders)
        BY <1>1, <1>3, <2>4, <2>8, <3>2
      <4>2. Timeline(s)[k - 1].metres <= b /\ Timeline(s)[k - 1].metres \in Nat
        BY <1>4, <2>6, <4>1
      <4>3. s[k] \in Orders /\ NodeAfter(s, k - 1) \in Places
        <5>1. NodeAfter(s, k - 1) \in Places  BY <4>1, NodeIsPlace
        <5>2. s[k] \in Orders  BY <4>1
        <5> QED BY <5>1, <5>2
      <4>4. Timeline(s)[k]
              = StopAfter(Timeline(s)[k - 1], NodeAfter(s, k - 1), s[k])
        BY <4>1, TimelineUnfolds
      <4>5. Timeline(s)[k - 1] \in Steps  BY <4>1, TimelineTyped
      <4> DEFINE m == Distance[NodeAfter(s, k - 1)][At[s[k]]]
      <4>6. m \in Nat /\ m <= d  BY <1>2, <4>3, DataTyped
      <4>7. StopAfter(Timeline(s)[k - 1], NodeAfter(s, k - 1), s[k]).metres
              = Timeline(s)[k - 1].metres + Distance[NodeAfter(s, k - 1)][At[s[k]]]
        <5> DEFINE prev == Timeline(s)[k - 1]
                   here == NodeAfter(s, k - 1)
                   o == s[k]
        <5>1. prev \in Steps /\ here \in Places /\ o \in Orders
          BY <4>3, <4>5
        <5> HIDE DEF prev, here, o
        <5>2. StopAfter(prev, here, o).metres
                = prev.metres + Distance[here][At[o]]
          BY <5>1, StopTyped
        <5> QED BY <5>2 DEF prev, here, o
      <4>8. Timeline(s)[k].metres = Timeline(s)[k - 1].metres + m
        BY <4>4, <4>7
      <4> HIDE DEF m
      <4> DEFINE x == Timeline(s)[k - 1].metres
      <4>9. x \in Nat /\ x <= b /\ Timeline(s)[i].metres = x + m
        BY <3>2, <4>2, <4>8
      <4> HIDE DEF x
      <4> QED BY <4>6, <4>9, <2>7
    <3> QED BY <2>4, <2>8, <3>1, <3>2
  <2>9. Far(k, c)  BY <2>8
  <2> HIDE DEF Far, c
  <2> QED BY <2>2, <2>7, <2>9
<1>6. n \in 0..n  BY <1>1
<1>7. PICK b \in Nat : Far(n, b)
  <2> HIDE DEF Far
  <2> QED BY <1>5, <1>6
<1>8. ASSUME NEW s \in Rounds PROVE Length(s) <= b + d
  <2> DEFINE l == Len(s)
  <2>1. l \in 0..n /\ l \in 0..l /\ l <= l /\ s \in Seq(Orders)  BY <1>3
  <2>2. Timeline(s)[l].metres <= b /\ Timeline(s)[l].metres \in Nat
    BY <1>4, <1>7, <2>1
  <2>3. /\ Distance[NodeAfter(s, l)][Depot] \in Nat
        /\ Distance[NodeAfter(s, l)][Depot] <= d
    BY <1>2, <2>1, NodeIsPlace, DataTyped
  <2> QED BY <2>2, <2>3 DEF Length
<1>9. b + d \in Nat  BY SumIsNat
<1> QED BY <1>8, <1>9

LEMMA LongestIs ==
    /\ LongestRoute \in Nat
    /\ \A s \in Rounds : Length(s) <= LongestRoute
<1> DEFINE S == {Length(s) : s \in Rounds}
<1>1. S \subseteq Nat  BY RoundIs, LengthTyped
<1>2. S # {}
  <2>1. <<>> \in Seq(Orders) /\ IsInjective(<<>>)  BY DEF IsInjective
  <2> QED BY <2>1, RoundIs
<1>3. PICK b \in Nat : \A n \in S : n <= b  BY LengthsBounded
<1> HIDE DEF S
<1> DEFINE T == {b - n : n \in S}
<1>4. T \subseteq Nat /\ T # {}
  <2>1. \A n \in S : b - n \in Nat  BY <1>1, <1>3
  <2> QED BY <1>2, <2>1
<1>5. PICK t \in T : \A u \in T : t <= u
  <2> HIDE DEF T
  <2> QED BY <1>4, LeastElement
<1>6. PICK m \in S : t = b - m  BY <1>5
<1>7. \A n \in S : m >= n  BY <1>1, <1>5, <1>6
<1>8. Max(S) \in S /\ \A n \in S : Max(S) >= n  BY Zenon, <1>7 DEF Max
<1>9. LongestRoute \in S /\ \A n \in S : LongestRoute >= n
  BY <1>8 DEF LongestRoute, S
<1>10. ASSUME NEW s \in Rounds PROVE Length(s) <= LongestRoute
  <2>1. Length(s) \in S  BY DEF S
  <2> QED BY <1>1, <1>9, <2>1
<1> QED BY <1>1, <1>9, <1>10

-----------------------------------------------------------------------------
(* Cheapest insertion.                                                     *)

(* Of finitely or infinitely many choices one is first in lexical order.   *)
Before(f, g, h, c, d) ==
    \/ f[c] < f[d]
    \/ /\ f[c] = f[d]
       /\ g[c] < g[d] \/ (g[c] = g[d] /\ h[c] <= h[d])

LEMMA FirstExists ==
    ASSUME NEW S, S # {}, NEW f \in [S -> Nat], NEW g \in [S -> Nat],
           NEW h \in [S -> Nat]
    PROVE  \E c \in S : \A d \in S : Before(f, g, h, c, d)
<1> DEFINE F == {f[c] : c \in S}
<1>1. PICK x \in F : \A y \in F : x <= y
  <2>1. F \subseteq Nat /\ F # {}  OBVIOUS
  <2> HIDE DEF F
  <2> QED BY <2>1, LeastElement
<1> DEFINE T == {c \in S : f[c] = x}
           G == {g[c] : c \in T}
<1>2. T \subseteq S /\ T # {}  BY <1>1
<1>3. PICK y \in G : \A z \in G : y <= z
  <2>1. G \subseteq Nat /\ G # {}  BY <1>2
  <2> HIDE DEF G
  <2> QED BY <2>1, LeastElement
<1> DEFINE U == {c \in T : g[c] = y}
           H == {h[c] : c \in U}
<1>4. U \subseteq T /\ U # {}  BY <1>3
<1>5. PICK z \in H : \A t \in H : z <= t
  <2>1. H \subseteq Nat /\ H # {}  BY <1>2, <1>4
  <2> HIDE DEF H
  <2> QED BY <2>1, LeastElement
<1>6. PICK c \in U : h[c] = z  BY <1>5
<1>7. c \in S /\ f[c] = x /\ g[c] = y  BY <1>6
<1>8. ASSUME NEW d \in S PROVE Before(f, g, h, c, d)
  <2>0. f[c] \in Nat /\ f[d] \in Nat /\ g[c] \in Nat /\ g[d] \in Nat
    BY <1>7
  <2>1. f[c] <= f[d]  BY <1>1, <1>7
  <2>2. CASE f[c] < f[d]  BY <2>2 DEF Before
  <2>3. CASE f[c] = f[d]
    <3>1. d \in T  BY <2>3, <1>7
    <3>2. g[c] <= g[d]  BY <3>1, <1>3, <1>7
    <3>3. CASE g[c] < g[d]  BY <2>3, <3>3 DEF Before
    <3>4. CASE g[c] = g[d]
      <4>1. d \in U  BY <3>1, <3>4, <1>7
      <4>2. h[c] <= h[d]  BY <4>1, <1>5, <1>6
      <4> QED BY <2>3, <3>4, <4>2 DEF Before
    <3> QED BY <2>0, <3>2, <3>3, <3>4
  <2> QED BY <2>0, <2>1, <2>2, <2>3
<1> QED BY <1>7, <1>8

(* A route with an order more is still a round.                            *)
LEMMA PlaceIsRound ==
    ASSUME NEW a \in RoundPlans, NEW o \in Orders, o \notin Served(a),
           NEW W, W \subseteq Vehicles, NEW c \in LegalPlaces(a, o, W)
    PROVE  /\ c[1] \in W /\ c[1] \in Vehicles /\ c[1] \in Nat
           /\ c[2] \in 1..(Len(a[c[1]]) + 1) /\ c[2] \in Nat
           /\ RouteIsLegal(c[1], InsertAt(a[c[1]], c[2], o))
           /\ InsertAt(a[c[1]], c[2], o) \in Rounds
<1> DEFINE n == Cardinality(Orders)
<1>1. n \in Nat
  BY ReoptimiseAssumption, FS_CardinalityType DEF ReoptimiseAssumption
<1> HIDE DEF n
<1>2. /\ c \in W \X (1..n + 1) /\ c[2] <= Len(a[c[1]]) + 1
      /\ RouteIsLegal(c[1], InsertAt(a[c[1]], c[2], o))
  BY DEF LegalPlaces, n
<1> DEFINE v == c[1]
           p == c[2]
           s == a[v]
<1>3. v \in W /\ v \in Vehicles /\ v \in Nat /\ p \in 1..n + 1
  BY <1>2, DataTyped
<1>4. s \in Seq(Orders) /\ IsInjective(s) /\ o \notin ToSet(s)
  BY <1>3, RoundIs DEF RoundPlans, Served
<1>5. p \in Nat /\ 1 <= p  BY <1>1, <1>3
<1>6. p \in 1..(Len(s) + 1)  BY <1>2, <1>4, <1>5
<1> HIDE DEF s, p, v
<1>7. InsertAt(s, p, o) \in Seq(Orders) /\ IsInjective(InsertAt(s, p, o))
  <2>1. IsInsertion(Orders, s, p, o, InsertAt(s, p, o))
    BY <1>4, <1>6, InsertAtInserts
  <2>2. IsInjective(InsertAt(s, p, o))  BY <1>4, <1>6, InsertAtSets
  <2> QED BY <2>1, <2>2 DEF IsInsertion
<1>8. InsertAt(s, p, o) \in Rounds  BY <1>7, RoundIs
<1> QED BY <1>2, <1>3, <1>5, <1>6, <1>8 DEF s, p, v

(* _insert takes a legal place when there is one; with a heavy weight that *)
(* is a place of the order's own vehicle when it has one.                  *)
Tried(b, a, o, W, weight, home) ==
    \/ LegalPlaces(a, o, W) = {} /\ b = a
    \/ \E v \in W, p \in Nat :
          /\ p \in 1..(Len(a[v]) + 1)
          /\ RouteIsLegal(v, InsertAt(a[v], p, o))
          /\ b = Inserted(a, o, v, p)
          /\ weight > LongestRoute =>
                v = home \/ LegalPlaces(a, o, W \cap {home}) = {}

LEMMA InsertIs ==
    ASSUME NEW a \in RoundPlans, NEW o \in Orders, o \notin Served(a),
           NEW W, W \subseteq Vehicles, NEW weight \in Nat, NEW home
    PROVE  Tried(Insert(a, o, W, weight, home), a, o, W, weight, home)
<1> DEFINE places == LegalPlaces(a, o, W)
           cost(c) == InsertCost(a, o, c, weight, home)
           Best(c) == \A d \in places :
                         \/ cost(c) < cost(d)
                         \/ /\ cost(c) = cost(d)
                            /\ c[1] < d[1] \/ (c[1] = d[1] /\ c[2] <= d[2])
           best == CHOOSE c \in places : Best(c)
<1>1. CASE places = {}  BY <1>1 DEF Insert, Tried
<1>2. CASE places # {}
  <2>1. \A c \in places :
          /\ c[1] \in Nat /\ c[2] \in Nat
          /\ InsertAt(a[c[1]], c[2], o) \in Rounds
    BY PlaceIsRound
  <2>2. ASSUME NEW c \in places
        PROVE  /\ Length(InsertAt(a[c[1]], c[2], o)) \in Nat
               /\ Length(InsertAt(a[c[1]], c[2], o)) <= LongestRoute
    <3>1. InsertAt(a[c[1]], c[2], o) \in Rounds  BY <2>1
    <3>2. InsertAt(a[c[1]], c[2], o) \in Seq(Orders)  BY <3>1, RoundIs
    <3> QED BY <3>1, <3>2, LengthTyped, LongestIs
  <2>3. ASSUME NEW c \in places PROVE cost(c) \in Nat
    BY <2>2 DEF InsertCost
  <2> DEFINE f == [c \in places |-> cost(c)]
             g == [c \in places |-> c[1]]
             h == [c \in places |-> c[2]]
  <2>4. f \in [places -> Nat] /\ g \in [places -> Nat] /\ h \in [places -> Nat]
    BY <2>1, <2>3
  <2>5. \A c, d \in places : Before(f, g, h, c, d) <=>
              \/ cost(c) < cost(d)
              \/ /\ cost(c) = cost(d)
                 /\ c[1] < d[1] \/ (c[1] = d[1] /\ c[2] <= d[2])
    BY DEF Before
  <2>6. \E c \in places : \A d \in places : Before(f, g, h, c, d)
    <3> HIDE DEF f, g, h, places
    <3> QED BY <1>2, <2>4, FirstExists
  <2>7. \E c \in places : Best(c)  BY <2>5, <2>6
  <2>8. best \in places /\ Best(best)
    <3> HIDE DEF places, Best
    <3> QED BY <2>7
  <2>9. Insert(a, o, W, weight, home)
          = [a EXCEPT ![best[1]] = InsertAt(@, best[2], o)]
    BY <1>2 DEF Insert
  <2> DEFINE v == best[1]
             p == best[2]
  <2>10. /\ v \in W /\ p \in 1..(Len(a[v]) + 1) /\ p \in Nat
         /\ RouteIsLegal(v, InsertAt(a[v], p, o))
    <3> HIDE DEF best
    <3> QED BY <2>8, PlaceIsRound
  <2>11. Insert(a, o, W, weight, home) = Inserted(a, o, v, p)
    BY <2>9 DEF Inserted
  <2>12. ASSUME weight > LongestRoute, v # home,
                NEW d \in LegalPlaces(a, o, W \cap {home})
         PROVE  FALSE
    <3>1. d \in places /\ d[1] = home
      BY <2>12 DEF LegalPlaces
    <3> HIDE DEF places, best, cost
    <3>2. cost(best) <= cost(d)
      <4>1. cost(best) \in Nat /\ cost(d) \in Nat  BY <2>3, <2>8, <3>1
      <4> QED BY <2>8, <3>1, <4>1
    <3>3. /\ Length(InsertAt(a[d[1]], d[2], o)) \in Nat
          /\ Length(InsertAt(a[d[1]], d[2], o)) <= LongestRoute
      BY <2>2, <3>1
    <3>4. Length(InsertAt(a[v], p, o)) \in Nat
      BY <2>2, <2>8
    <3>5. cost(d) = Length(InsertAt(a[d[1]], d[2], o)) + 0
      BY <3>1 DEF cost, InsertCost
    <3>6. cost(best) = Length(InsertAt(a[v], p, o)) + weight
      BY <2>12 DEF cost, InsertCost
    <3> QED BY <2>12, <3>2, <3>3, <3>4, <3>5, <3>6, LongestIs
  <2> HIDE DEF v, p
  <2> QED BY <2>10, <2>11, <2>12 DEF Tried
<1> QED BY <1>1, <1>2

-----------------------------------------------------------------------------
(* Putting the loose work back.                                            *)

(* What is true of the plan a after k of the loose orders.                 *)
PutBackSoFar(a, held, loose, usable, weight, k) ==
    /\ a \in RoundPlans /\ Disjoint(a)
    /\ \A v \in Vehicles : RouteIsLegal(v, a[v])
    /\ Served(a) \subseteq Served(held) \cup {loose[j] : j \in 1..k}
    /\ \A v \in Vehicles : IsSubsequence(held[v], a[v])
    /\ \A v \in Vehicles \ usable : a[v] = held[v]
    /\ \A j \in 1..k : \/ loose[j] \in Served(a)
                       \/ \A v \in usable : ~CanTake(a, loose[j], v)
    /\ weight > LongestRoute =>
          \A j \in 1..k : \A v \in usable \cap {Owner(plan, loose[j])} :
             loose[j] \in ToSet(a[v]) \/ ~CanTake(a, loose[j], v)

LEMMA PutBackStep ==
    ASSUME NEW a, NEW held \in RoundPlans, NEW loose \in Seq(Orders),
           NEW usable, usable \subseteq Vehicles, NEW weight \in Nat,
           NEW k \in 1..Len(loose), IsInjective(loose),
           loose[k] \notin Served(held),
           PutBackSoFar(a, held, loose, usable, weight, k - 1),
           NEW b, b = Insert(a, loose[k], usable, weight,
                             Owner(plan, loose[k]))
    PROVE  PutBackSoFar(b, held, loose, usable, weight, k)
<1> DEFINE o == loose[k]
           home == Owner(plan, o)
<1>1. /\ a \in RoundPlans /\ Disjoint(a)
      /\ \A v \in Vehicles : RouteIsLegal(v, a[v])
  BY DEF PutBackSoFar
<1>2. o \in Orders /\ k \in Nat /\ 1..k = 1..(k - 1) \cup {k}  OBVIOUS
<1>3. o \notin Served(a)
  <2>1. \A j \in 1..(k - 1) : loose[j] # o
    <3>1. DOMAIN loose = 1..Len(loose) /\ Len(loose) \in Nat  OBVIOUS
    <3> QED BY <3>1 DEF IsInjective
  <2>2. Served(a) \subseteq Served(held) \cup {loose[j] : j \in 1..(k - 1)}
    BY DEF PutBackSoFar
  <2> QED BY <2>1, <2>2
<1>4. \A j \in 1..k : loose[j] \in Orders
  BY <1>2
<1>5. \A W : W \subseteq Vehicles =>
         (LegalPlaces(a, o, W) = {} <=> \A v \in W : ~CanTake(a, o, v))
  BY <1>1, NoPlace
<1>6. \A v \in Vehicles : a[v] \in Seq(Orders) /\ held[v] \in Seq(Orders)
  BY <1>1, RoundIs DEF RoundPlans
<1>7. CASE LegalPlaces(a, o, usable) = {} /\ b = a
  <2>1. \A v \in usable : ~CanTake(a, o, v)  BY <1>5, <1>7
  <2>2. Served(b) \subseteq Served(held) \cup {loose[j] : j \in 1..k}
    BY <1>2, <1>7 DEF PutBackSoFar
  <2>3. \A j \in 1..k : \/ loose[j] \in Served(b)
                        \/ \A v \in usable : ~CanTake(b, loose[j], v)
    BY <1>2, <1>7, <2>1 DEF PutBackSoFar
  <2>4. weight > LongestRoute =>
          \A j \in 1..k : \A v \in usable \cap {Owner(plan, loose[j])} :
             loose[j] \in ToSet(b[v]) \/ ~CanTake(b, loose[j], v)
    BY <1>2, <1>7, <2>1 DEF PutBackSoFar
  <2>5. /\ \A v \in Vehicles : IsSubsequence(held[v], b[v])
        /\ \A v \in Vehicles \ usable : b[v] = held[v]
    BY <1>7 DEF PutBackSoFar
  <2> QED BY <1>1, <1>7, <2>2, <2>3, <2>4, <2>5 DEF PutBackSoFar
<1>8. CASE \E v \in usable, p \in Nat :
              /\ p \in 1..(Len(a[v]) + 1)
              /\ RouteIsLegal(v, InsertAt(a[v], p, o))
              /\ b = Inserted(a, o, v, p)
              /\ weight > LongestRoute =>
                    v = home \/ LegalPlaces(a, o, usable \cap {home}) = {}
  <2>1. PICK v \in usable, p \in Nat :
              /\ p \in 1..(Len(a[v]) + 1)
              /\ RouteIsLegal(v, InsertAt(a[v], p, o))
              /\ b = Inserted(a, o, v, p)
              /\ weight > LongestRoute =>
                    \/ v = home
                    \/ LegalPlaces(a, o, usable \cap {home}) = {}
    BY <1>8
  <2>2. v \in Vehicles /\ p \in 1..(Len(a[v]) + 1)
        /\ RouteIsLegal(v, InsertAt(a[v], p, o))
    BY <2>1
  <2>3. /\ b \in RoundPlans /\ Disjoint(b)
        /\ RouteIsLegal(v, b[v]) /\ o \in ToSet(b[v])
        /\ \A w \in Vehicles \ {v} : b[w] = a[w]
        /\ Served(b) = Served(a) \cup {o}
        /\ \A w \in Vehicles : IsSubsequence(a[w], b[w])
        /\ \A x \in Orders, w \in Vehicles :
              CanTake(b, x, w) => CanTake(a, x, w)
    <3> HIDE DEF o
    <3>1. /\ Inserted(a, o, v, p) \in RoundPlans
          /\ Disjoint(Inserted(a, o, v, p))
          /\ RouteIsLegal(v, Inserted(a, o, v, p)[v])
          /\ o \in ToSet(Inserted(a, o, v, p)[v])
          /\ \A w \in Vehicles \ {v} : Inserted(a, o, v, p)[w] = a[w]
          /\ Served(Inserted(a, o, v, p)) = Served(a) \cup {o}
          /\ \A w \in Vehicles : IsSubsequence(a[w], Inserted(a, o, v, p)[w])
          /\ \A x \in Orders, w \in Vehicles :
                CanTake(Inserted(a, o, v, p), x, w) => CanTake(a, x, w)
      BY <1>1, <1>2, <1>3, <2>2, InsertedKeeps
    <3> QED BY <2>1, <3>1
  <2>4. \A w \in Vehicles : RouteIsLegal(w, b[w])  BY <1>1, <2>3
  <2>5. Served(b) \subseteq Served(held) \cup {loose[j] : j \in 1..k}
    BY <1>2, <2>3 DEF PutBackSoFar
  <2>6. \A w \in Vehicles : IsSubsequence(held[w], b[w])
    <3>1. ASSUME NEW w \in Vehicles PROVE IsSubsequence(held[w], b[w])
      <4>1. /\ held[w] \in Seq(Orders) /\ a[w] \in Seq(Orders)
            /\ b[w] \in Seq(Orders)
            /\ IsSubsequence(held[w], a[w]) /\ IsSubsequence(a[w], b[w])
        BY <1>6, <2>3, RoundIs DEF PutBackSoFar, RoundPlans
      <4> QED BY <4>1, SubsequenceOf
    <3> QED BY <3>1
  <2>7. \A w \in Vehicles \ usable : b[w] = held[w]
    BY <2>1, <2>3 DEF PutBackSoFar
  <2>8. \A j \in 1..k : \/ loose[j] \in Served(b)
                        \/ \A w \in usable : ~CanTake(b, loose[j], w)
    <3>1. ASSUME NEW j \in 1..(k - 1)
          PROVE  \/ loose[j] \in Served(b)
                 \/ \A w \in usable : ~CanTake(b, loose[j], w)
      <4>1. \/ loose[j] \in Served(a)
            \/ \A w \in usable : ~CanTake(a, loose[j], w)
        BY DEF PutBackSoFar
      <4>2. loose[j] \in Orders  BY <1>2, <1>4
      <4> QED BY <4>1, <4>2, <2>3
    <3> QED BY <3>1, <1>2, <2>3
  <2>9. ASSUME weight > LongestRoute, NEW j \in 1..k,
               NEW w \in usable \cap {Owner(plan, loose[j])}
        PROVE  loose[j] \in ToSet(b[w]) \/ ~CanTake(b, loose[j], w)
    <3>0. w \in Vehicles  OBVIOUS
    <3>1. CASE j \in 1..(k - 1)
      <4>1. loose[j] \in ToSet(a[w]) \/ ~CanTake(a, loose[j], w)
        BY <2>9, <3>1 DEF PutBackSoFar
      <4>2. ToSet(a[w]) \subseteq ToSet(b[w])
        BY <2>3, <3>0 DEF IsSubsequence
      <4> QED BY <1>4, <2>3, <3>0, <4>1, <4>2
    <3>2. CASE j = k
      <4>1. w = home  BY <3>2
      <4>2. CASE v = home  BY <4>1, <4>2, <2>3, <3>2
      <4>3. CASE LegalPlaces(a, o, usable \cap {home}) = {}
        <5>1. ~CanTake(a, o, w)  BY <1>5, <4>1, <4>3
        <5> QED BY <5>1, <2>3, <1>2, <3>0, <3>2
      <4> QED BY <2>1, <2>9, <4>2, <4>3
    <3> QED BY <1>2, <3>1, <3>2
  <2> QED BY <2>3, <2>4, <2>5, <2>6, <2>7, <2>8, <2>9 DEF PutBackSoFar
<1>9. /\ o \in Orders /\ a \in RoundPlans /\ o \notin Served(a)
      /\ usable \subseteq Vehicles /\ weight \in Nat
  BY <1>1, <1>2, <1>3
<1> HIDE DEF o, home
<1>10. Tried(Insert(a, o, usable, weight, home), a, o, usable, weight, home)
  BY <1>9, InsertIs
<1>11. Insert(a, o, usable, weight, home) = b  BY DEF o, home
<1>12. Tried(b, a, o, usable, weight, home)  BY <1>10, <1>11
<1> QED BY <1>7, <1>8, <1>12 DEF Tried

(* The loop of reoptimise, step by step.                                   *)
Puts(f, held, loose, usable, weight, k) ==
    f = [i \in 0..k |-> IF i = 0 THEN held
                        ELSE Insert(f[i - 1], loose[i], usable, weight,
                                    Owner(plan, loose[i]))]

LEMMA PutsExists ==
    ASSUME NEW held, NEW loose, NEW usable, NEW weight, NEW k \in Nat
    PROVE  \E f : Puts(f, held, loose, usable, weight, k)
<1> DEFINE P(f, n) == Puts(f, held, loose, usable, weight, n)
           Bad == {n \in Nat : ~\E f : P(f, n)}
<1>1. SUFFICES ASSUME Bad # {} PROVE FALSE  OBVIOUS
<1>2. PICK n \in Bad : \A m \in Bad : n <= m
  <2>1. Bad \subseteq Nat  OBVIOUS
  <2> HIDE DEF Bad
  <2> QED BY <1>1, <2>1, LeastElement
<1>3. CASE n = 0
  <2>1. P([i \in 0..0 |-> held], 0)  BY DEF Puts
  <2> QED BY <1>2, <1>3, <2>1
<1>4. CASE n # 0
  <2>1. n - 1 \in Nat /\ n - 1 \notin Bad  BY <1>2, <1>4
  <2>2. PICK f : P(f, n - 1)  BY <2>1
  <2> DEFINE last == Insert(f[n - 1], loose[n], usable, weight,
                            Owner(plan, loose[n]))
             h == [i \in 0..n |-> IF i = n THEN last ELSE f[i]]
  <2>3. ASSUME NEW i \in 0..n
        PROVE  h[i] = IF i = 0 THEN held
                      ELSE Insert(h[i - 1], loose[i], usable, weight,
                                  Owner(plan, loose[i]))
    <3>1. CASE i = n
      <4>1. h[i] = last /\ h[i - 1] = f[n - 1] /\ i # 0
        <5> HIDE DEF last
        <5> QED BY <3>1, <1>4
      <4> QED BY <4>1, <3>1
    <3>2. CASE i # n
      <4>1. h[i] = f[i] /\ (i # 0 => h[i - 1] = f[i - 1])
        <5> HIDE DEF last
        <5> QED BY <3>2
      <4>2. i \in 0..(n - 1)  BY <3>2
      <4> HIDE DEF h
      <4> QED BY <2>2, <4>1, <4>2 DEF Puts
    <3> QED BY <3>1, <3>2
  <2>4. P(h, n)
    <3> HIDE DEF last
    <3>1. DOMAIN h = 0..n /\ h = [i \in 0..n |-> h[i]]  OBVIOUS
    <3> HIDE DEF h
    <3> QED BY <2>3, <3>1 DEF Puts
  <2> QED BY <2>4, <1>2
<1> QED BY <1>3, <1>4

LEMMA PutBackUnfolds ==
    ASSUME NEW held, NEW loose \in Seq(Orders), NEW usable, NEW weight
    PROVE  LET placed == PutBack(held, loose, usable, weight)
           IN  /\ placed[0] = held
               /\ \A i \in 1..Len(loose) :
                     placed[i] = Insert(placed[i - 1], loose[i], usable, weight,
                                        Owner(plan, loose[i]))
<1> DEFINE n == Len(loose)
           t == PutBack(held, loose, usable, weight)
<1>1. n \in Nat  OBVIOUS
<1>2. \E f : Puts(f, held, loose, usable, weight, n)  BY <1>1, PutsExists
<1>3. Puts(t, held, loose, usable, weight, n)
  BY Zenon, <1>2 DEF PutBack, Puts
<1> HIDE DEF n, t
<1>4. \A i \in 0..n : t[i] = IF i = 0 THEN held
                 ELSE Insert(t[i - 1], loose[i], usable, weight,
                             Owner(plan, loose[i]))
  BY Zenon, <1>3 DEF Puts
<1>5. t[0] = held  BY <1>1, <1>4
<1>6. \A i \in 1..n : i \in 0..n /\ i # 0  BY <1>1
<1>7. \A i \in 1..n : t[i] = Insert(t[i - 1], loose[i], usable, weight,
                                    Owner(plan, loose[i]))
  BY Zenon, <1>4, <1>6
<1> QED BY <1>5, <1>7 DEF t, n

LEMMA PutBackKeeps ==
    ASSUME NEW held \in RoundPlans, Disjoint(held),
           \A v \in Vehicles : RouteIsLegal(v, held[v]),
           NEW loose \in Seq(Orders), IsInjective(loose),
           ToSet(loose) \cap Served(held) = {},
           NEW usable, usable \subseteq Vehicles, NEW weight \in Nat
    PROVE  PutBackSoFar(PutBack(held, loose, usable, weight)[Len(loose)],
                        held, loose, usable, weight, Len(loose))
<1> DEFINE n == Len(loose)
           t == PutBack(held, loose, usable, weight)
           Bad == {i \in 0..n :
                     ~PutBackSoFar(t[i], held, loose, usable, weight, i)}
<1>1. n \in Nat  OBVIOUS
<1>2. /\ t[0] = held
      /\ \A i \in 1..n : t[i] = Insert(t[i - 1], loose[i], usable, weight,
                                       Owner(plan, loose[i]))
  BY PutBackUnfolds
<1>3. \A i \in 1..n : loose[i] \notin Served(held)  BY DEF ToSet
<1>4. PutBackSoFar(held, held, loose, usable, weight, 0)
  <2>1. \A v \in Vehicles : IsSubsequence(held[v], held[v])
    BY SubsequenceSelf, RoundIs DEF RoundPlans
  <2>2. 1..0 = {}  OBVIOUS
  <2> QED BY <2>1, <2>2 DEF PutBackSoFar
<1> HIDE DEF t, n
<1>5. Bad = {}
  <2>1. SUFFICES ASSUME Bad # {} PROVE FALSE  OBVIOUS
  <2>2. PICK k \in Bad : \A m \in Bad : k <= m
    <3>1. Bad \subseteq Nat  BY <1>1
    <3> HIDE DEF Bad
    <3> QED BY <2>1, <3>1, LeastElement
  <2>3. k # 0  BY <1>2, <1>4, <2>2
  <2>4. k \in 1..n /\ k - 1 \in 0..n /\ ~(k <= k - 1)  BY <1>1, <2>2, <2>3
  <2>5. k - 1 \notin Bad  BY <2>2, <2>4
  <2>6. PutBackSoFar(t[k - 1], held, loose, usable, weight, k - 1)
    BY <2>4, <2>5
  <2>7. /\ k \in 1..Len(loose) /\ loose[k] \notin Served(held)
        /\ t[k] = Insert(t[k - 1], loose[k], usable, weight,
                         Owner(plan, loose[k]))
    BY <1>2, <1>3, <2>4 DEF n
  <2>8. PutBackSoFar(t[k], held, loose, usable, weight, k)
    BY <2>6, <2>7, PutBackStep
  <2> QED BY <2>2, <2>8
<1>6. n \in 0..n  BY <1>1
<1>7. PutBackSoFar(t[n], held, loose, usable, weight, n)  BY <1>5, <1>6
<1> QED BY <1>7 DEF t, n

-----------------------------------------------------------------------------
(* The committed state.                                                    *)

(* The stops in or past service are the first ones.                        *)
LEMMA DoneIs ==
    ASSUME NEW seq \in Seq(Orders), NEW t \in Nat
    PROVE  /\ Done(seq, t) \in 0..Len(seq)
           /\ \A i \in 1..Len(seq) :
                 Timeline(seq)[i].start <= t <=> i <= Done(seq, t)
<1> DEFINE n == Len(seq)
           L == Timeline(seq)
           T == {j \in 0..n : j = n \/ L[n - j].start <= t}
<1>1. n \in Nat /\ DOMAIN seq = 1..n  OBVIOUS
<1>2. \A i \in 1..n : L[i].start \in Nat  BY StopFacts
<1>3. \A i, j \in 1..n : i <= j => L[i].start <= L[j].start
  <2>1. ASSUME NEW i \in 1..n, NEW j \in 1..n, i <= j
        PROVE  L[i].start <= L[j].start
    <3>1. i \in 1..j  BY <1>1, <2>1
    <3> QED BY <3>1, StartsGrow
  <2> QED BY <2>1
<1> HIDE DEF n, L
<1>4. PICK j \in T : \A m \in T : j <= m
  <2>1. T \subseteq Nat /\ n \in T  BY <1>1
  <2> HIDE DEF T
  <2> QED BY <2>1, LeastElement
<1> DEFINE k == n - j
<1>5. k \in 0..n /\ j = n - k /\ (k = 0 \/ L[k].start <= t)
  BY <1>1, <1>4
<1> HIDE DEF k
<1>6. ASSUME NEW i \in 1..n PROVE L[i].start <= t <=> i <= k
  <2>0. i \in Nat /\ k \in Nat /\ n \in Nat  BY <1>1, <1>5
  <2>1. ASSUME L[i].start <= t PROVE i <= k
    <3>1. n - (n - i) = i /\ n - i \in 0..n  BY <1>1
    <3>2. n - i \in T  BY <2>1, <3>1
    <3>3. j <= n - i  BY <1>4, <3>2
    <3> QED BY <1>5, <2>0, <3>3
  <2>2. ASSUME i <= k PROVE L[i].start <= t
    <3>1. k \in 1..n /\ k # 0  BY <1>5, <2>0, <2>2
    <3>2. L[i].start <= L[k].start /\ L[k].start <= t
      BY <1>3, <1>5, <2>2, <3>1
    <3>3. L[i].start \in Nat /\ L[k].start \in Nat  BY <1>2, <3>1
    <3> QED BY <3>2, <3>3
  <2> QED BY <2>1, <2>2
<1>7. {i \in DOMAIN seq : L[i].start <= t} = 1..k
  BY <1>1, <1>5, <1>6
<1>8. Cardinality(1..k) = k
  <2>1. k \in Int /\ 1 \in Int  BY <1>1, <1>5
  <2>2. Cardinality(1..k) = IF 1 > k THEN 0 ELSE k - 1 + 1
    BY <2>1, FS_Interval
  <2> QED BY <1>1, <1>5, <2>2
<1>9. Done(seq, t) = k  BY <1>7, <1>8 DEF Done, L
<1> QED BY <1>5, <1>6, <1>9 DEF n, L

LEMMA CommittedIs ==
    ASSUME NEW seq \in Seq(Orders), NEW t \in Nat
    PROVE  LET d == Done(seq, t)
               k == Committed(seq, t)
           IN  /\ k \in 0..Len(seq) /\ d <= k /\ k <= d + 1
               /\ k = d + 1 <=> d < Len(seq) /\ Timeline(seq)[d].departure < t
<1>1. Done(seq, t) \in 0..Len(seq) /\ Len(seq) \in Nat  BY DoneIs
<1> QED BY <1>1 DEF Committed

LEMMA CommittedRound ==
    ASSUME NEW s \in Rounds, NEW t \in Nat
    PROVE  /\ CommittedPrefix(s, t) \in Rounds
           /\ IsSubsequence(CommittedPrefix(s, t), s)
           /\ ToSet(CommittedPrefix(s, t)) \subseteq ToSet(s)
<1> DEFINE k == Committed(s, t)
           r == SubSeq(s, 1, k)
<1>1. s \in Seq(Orders) /\ IsInjective(s)  BY RoundIs
<1>2. k \in 0..Len(s)  BY <1>1, CommittedIs
<1> HIDE DEF k
<1>3. r \in Seq(Orders) /\ Len(r) = k /\ \A i \in 1..k : r[i] = s[i]
  BY <1>1, <1>2, BeginningIs
<1> HIDE DEF r
<1>4. /\ DOMAIN r = 1..k /\ DOMAIN s = 1..Len(s) /\ Len(s) \in Nat
      /\ 1..k \subseteq 1..Len(s) /\ k \in Nat
  BY <1>1, <1>2, <1>3
<1>5. \A i, j \in 1..Len(s) : s[i] = s[j] => i = j
  BY <1>1, <1>4 DEF IsInjective
<1>6. IsInjective(r)  BY <1>3, <1>4, <1>5 DEF IsInjective
<1>7. r \in Rounds  BY <1>3, <1>6, RoundIs
<1>8. ToSet(r) \subseteq ToSet(s)  BY <1>3, <1>4 DEF ToSet
<1>9. ASSUME NEW i \in DOMAIN s, NEW j \in DOMAIN s, NEW m \in DOMAIN r,
             NEW l \in DOMAIN r, s[i] = r[m], s[j] = r[l], m < l
      PROVE  i < j
  <2>1. s[i] = s[m] /\ s[j] = s[l]  BY <1>3, <1>4, <1>9
  <2>2. i = m /\ j = l  BY <1>4, <1>5, <2>1
  <2> QED BY <1>9, <2>2
<1>10. IsSubsequence(r, s)  BY <1>8, <1>9 DEF IsSubsequence
<1> QED BY <1>7, <1>8, <1>10 DEF CommittedPrefix, r, k

(* A plan that begins with what is committed of another at one instant has *)
(* at least that committed at a later one.                                 *)
LEMMA CommittedGrows ==
    ASSUME NEW s \in Seq(Orders), NEW r \in Seq(Orders),
           NEW t \in Nat, NEW u \in Nat, t <= u,
           IsPrefix(CommittedPrefix(s, t), r)
    PROVE  IsPrefix(CommittedPrefix(s, t), CommittedPrefix(r, u))
<1> DEFINE k == Committed(s, t)
           d == Done(s, t)
           m == Committed(r, u)
           e == Done(r, u)
           a == SubSeq(s, 1, k)
           b == SubSeq(r, 1, m)
<1>1. k \in 0..Len(s) /\ d <= k /\ k <= d + 1 /\ d \in 0..Len(s)
      /\ (k = d + 1 => Timeline(s)[d].departure < t)
  BY CommittedIs, DoneIs
<1>2. m \in 0..Len(r) /\ e <= m /\ m <= e + 1 /\ e \in 0..Len(r)
      /\ (e < Len(r) /\ Timeline(r)[e].departure < u => m = e + 1)
  BY CommittedIs, DoneIs
<1>3. \A i \in 1..Len(s) : Timeline(s)[i].start <= t <=> i <= d
  BY DoneIs
<1>4. \A i \in 1..Len(r) : Timeline(r)[i].start <= u <=> i <= e
  BY DoneIs
<1>5. Len(s) \in Nat /\ Len(r) \in Nat  OBVIOUS
<1> HIDE DEF k, d, m, e
<1>6. a \in Seq(Orders) /\ Len(a) = k /\ \A i \in 1..k : a[i] = s[i]
  BY <1>1, BeginningIs
<1>7. b \in Seq(Orders) /\ Len(b) = m /\ \A i \in 1..m : b[i] = r[i]
  BY <1>2, BeginningIs
<1>8. k <= Len(r) /\ SubSeq(a, 1, k) = SubSeq(r, 1, k)
  <2>1. IsPrefix(a, r)  BY DEF CommittedPrefix, a, k
  <2> HIDE DEF a
  <2> QED BY <1>6, <2>1 DEF IsPrefix
<1> HIDE DEF a, b
<1>9. \A i \in 1..k : s[i] = r[i]
  <2>1. k \in 0..Len(a) /\ k \in 0..Len(r)  BY <1>1, <1>5, <1>6, <1>8
  <2>2. \A i \in 1..k : SubSeq(a, 1, k)[i] = a[i]
    BY <1>6, <2>1, BeginningIs
  <2>3. \A i \in 1..k : SubSeq(r, 1, k)[i] = r[i]
    BY <2>1, BeginningIs
  <2> QED BY <1>6, <1>8, <2>2, <2>3
<1>10. \A i \in 0..k : Timeline(s)[i] = Timeline(r)[i]
  BY <1>1, <1>8, <1>9, SameBeginning
<1>11. d <= e
  <2>1. CASE d = 0  BY <2>1, <1>2, <1>5
  <2>2. CASE d # 0
    <3>1. d \in 1..Len(s) /\ d \in 0..k /\ d \in 1..Len(r)
      BY <2>2, <1>1, <1>5, <1>8
    <3>2. Timeline(s)[d].start <= t  BY <1>3, <1>1, <1>5, <3>1
    <3>3. Timeline(s)[d].start \in Nat  BY <3>1, StopFacts
    <3>4. Timeline(r)[d].start = Timeline(s)[d].start  BY <1>10, <3>1
    <3>5. Timeline(r)[d].start <= u  BY <3>2, <3>3, <3>4
    <3> QED BY <1>4, <3>1, <3>5
  <2> QED BY <2>1, <2>2
<1>12. k <= m
  <2>1. CASE k = d  BY <2>1, <1>1, <1>2, <1>5, <1>11
  <2>2. CASE k = d + 1 /\ e = d
    <3>1. d \in 0..Len(s) /\ d \in 0..k  BY <2>2, <1>1, <1>5
    <3>2. Timeline(s)[d].departure \in Nat
      BY <3>1, TimelineTyped DEF Steps
    <3>3. Timeline(r)[d].departure = Timeline(s)[d].departure  BY <1>10, <3>1
    <3>4. Timeline(r)[e].departure < u  BY <1>1, <2>2, <3>2, <3>3
    <3>5. e < Len(r)  BY <2>2, <1>1, <1>5, <1>8
    <3> QED BY <1>2, <2>2, <3>4, <3>5
  <2>3. CASE k = d + 1 /\ e # d  BY <2>3, <1>1, <1>2, <1>5, <1>11
  <2> QED BY <2>1, <2>2, <2>3, <1>1, <1>5
<1>13. IsPrefix(a, b)
  <2>0. k \in Nat /\ m \in Nat  BY <1>1, <1>2, <1>5
  <2>1. k \in 0..Len(a) /\ k \in 0..Len(b)  BY <1>6, <1>7, <1>12, <2>0
  <2> DEFINE x == SubSeq(a, 1, k)
             y == SubSeq(b, 1, k)
  <2>2. x \in Seq(Orders) /\ Len(x) = k /\ \A i \in 1..k : x[i] = a[i]
    BY <1>6, <2>1, BeginningIs
  <2>3. y \in Seq(Orders) /\ Len(y) = k /\ \A i \in 1..k : y[i] = b[i]
    BY <1>7, <2>1, BeginningIs
  <2> HIDE DEF x, y
  <2>4. ASSUME NEW i \in 1..k PROVE x[i] = y[i]
    <3>1. i \in 1..m  BY <1>12, <2>0
    <3>2. x[i] = a[i] /\ a[i] = s[i]  BY <1>6, <2>2
    <3>3. y[i] = b[i] /\ b[i] = r[i]  BY <1>7, <2>3, <3>1
    <3> QED BY <1>9, <3>2, <3>3
  <2>5. x = y  BY <2>2, <2>3, <2>4, SameSeq
  <2>6. Len(a) <= Len(b) /\ SubSeq(a, 1, Len(a)) = SubSeq(b, 1, Len(a))
    BY <1>6, <1>7, <1>12, <2>5 DEF x, y
  <2> QED BY <2>6 DEF IsPrefix
<1> QED BY <1>13 DEF CommittedPrefix, a, b, k, m

LEMMA PrefixSelf ==
    ASSUME NEW s \in Seq(Orders), NEW t \in Nat
    PROVE  IsPrefix(CommittedPrefix(s, t), s)
<1> DEFINE k == Committed(s, t)
           a == SubSeq(s, 1, k)
<1>1. k \in 0..Len(s)  BY CommittedIs
<1> HIDE DEF k
<1>2. a \in Seq(Orders) /\ Len(a) = k  BY <1>1, BeginningIs
<1>3. SubSeq(a, 1, k) = a
  <2> HIDE DEF a
  <2> QED BY <1>2
<1>4. IsPrefix(a, s)  BY <1>1, <1>2, <1>3 DEF IsPrefix, a
<1> QED BY <1>4 DEF CommittedPrefix, a, k

(* At shift start nothing is committed then.                               *)
LEMMA NothingAtShiftStart ==
    ASSUME NothingBeginsAtOnce, NEW s \in Seq(Orders)
    PROVE  CommittedPrefix(s, Shift.start) = <<>>
<1> DEFINE t == Shift.start
           d == Done(s, t)
<1>1. t \in Nat  BY DataTyped
<1>2. d \in 0..Len(s)
      /\ \A i \in 1..Len(s) : Timeline(s)[i].start <= t <=> i <= d
  BY <1>1, DoneIs
<1>3. Timeline(s)[0] = StartOfDay /\ StartOfDay.departure = t
  BY TimelineUnfolds DEF StartOfDay
<1>4. d = 0
  <2>1. SUFFICES ASSUME d # 0 PROVE FALSE  OBVIOUS
  <2>2. 1 \in 1..Len(s) /\ 1 <= d  BY <1>2, <2>1
  <2>3. Timeline(s)[1].start <= t  BY <1>2, <2>2
  <2> DEFINE way == Duration[NodeAfter(s, 1 - 1)][At[s[1]]]
  <2>4. Timeline(s)[1].start
          = ServiceStart(Timeline(s)[1 - 1].departure + way, Window[s[1]])
        /\ s[1] \in Orders /\ Timeline(s)[1].start \in Nat
    BY <2>2, StopFacts
  <2>5. 1 - 1 = 0  OBVIOUS
  <2>6. NodeAfter(s, 0) = Depot  BY DEF NodeAfter
  <2>7. Timeline(s)[1].start
          = ServiceStart(t + Duration[Depot][At[s[1]]], Window[s[1]])
    BY <1>3, <2>4, <2>5, <2>6
  <2>8. Timeline(s)[1].start > t  BY <2>4, <2>7 DEF NothingBeginsAtOnce
  <2> QED BY <1>1, <2>3, <2>4, <2>8
<1>5. Committed(s, t) = 0
  <2>1. ~(Timeline(s)[0].departure < t)  BY <1>1, <1>3
  <2> QED BY <1>4, <2>1 DEF Committed
<1> QED BY <1>5 DEF CommittedPrefix

-----------------------------------------------------------------------------
(* What a trigger opens.                                                   *)

(* f adds up the matrix indices, up to stop k.                             *)
IndexSums(f, seq, k) ==
    f = [i \in 0..k |-> IF i = 0 THEN 0 ELSE f[i - 1] + At[seq[i]]]

LEMMA IndexSumsExist ==
    ASSUME NEW seq, NEW k \in Nat
    PROVE  \E f : IndexSums(f, seq, k)
<1> DEFINE Bad == {n \in Nat : ~\E f : IndexSums(f, seq, n)}
<1>1. SUFFICES ASSUME Bad # {} PROVE FALSE  OBVIOUS
<1>2. PICK n \in Bad : \A m \in Bad : n <= m
  <2>1. Bad \subseteq Nat  OBVIOUS
  <2> HIDE DEF Bad
  <2> QED BY <1>1, <2>1, LeastElement
<1>3. CASE n = 0
  <2>1. IndexSums([i \in 0..0 |-> 0], seq, 0)  BY DEF IndexSums
  <2> QED BY <1>2, <1>3, <2>1
<1>4. CASE n # 0
  <2>1. n - 1 \in Nat /\ n - 1 \notin Bad  BY <1>2, <1>4
  <2>2. PICK f : IndexSums(f, seq, n - 1)  BY <2>1
  <2> DEFINE last == f[n - 1] + At[seq[n]]
             h == [i \in 0..n |-> IF i = n THEN last ELSE f[i]]
  <2>3. ASSUME NEW i \in 0..n
        PROVE  h[i] = IF i = 0 THEN 0 ELSE h[i - 1] + At[seq[i]]
    <3>1. CASE i = n
      <4>1. h[i] = last /\ h[i - 1] = f[n - 1] /\ i # 0
        <5> HIDE DEF last
        <5> QED BY <3>1, <1>4
      <4> QED BY <4>1, <3>1
    <3>2. CASE i # n
      <4>1. h[i] = f[i] /\ (i # 0 => h[i - 1] = f[i - 1])
        <5> HIDE DEF last
        <5> QED BY <3>2
      <4>2. i \in 0..(n - 1)  BY <3>2
      <4> HIDE DEF h
      <4> QED BY <2>2, <4>1, <4>2 DEF IndexSums
    <3> QED BY <3>1, <3>2
  <2>4. IndexSums(h, seq, n)
    <3> HIDE DEF last
    <3>1. DOMAIN h = 0..n /\ h = [i \in 0..n |-> h[i]]  OBVIOUS
    <3> HIDE DEF h
    <3> QED BY <2>3, <3>1 DEF IndexSums
  <2> QED BY <2>4, <1>2
<1> QED BY <1>3, <1>4

LEMMA CentreTyped ==
    ASSUME NEW p \in RoundPlans, NEW v \in Vehicles
    PROVE  /\ Centre(p, v)[1] \in Nat
           /\ Centre(p, v)[2] \in Nat /\ Centre(p, v)[2] >= 1
<1> DEFINE seq == p[v]
           n == Len(seq)
           total[i \in 0..n] == IF i = 0 THEN 0
                                ELSE total[i - 1] + At[seq[i]]
<1>1. seq \in Seq(Orders) /\ n \in Nat  BY RoundIs DEF RoundPlans
<1>2. \E f : IndexSums(f, seq, n)  BY <1>1, IndexSumsExist
<1>3. IndexSums(total, seq, n)  BY Zenon, <1>2 DEF IndexSums
<1>4. Centre(p, v) = <<total[n], IF seq = <<>> THEN 1 ELSE n>>
  BY DEF Centre
<1>5. \A i \in 1..n : At[seq[i]] \in Nat
  <2>1. \A i \in 1..n : seq[i] \in Orders  BY <1>1
  <2> QED BY <2>1, DataTyped
<1>6. seq = <<>> \/ n >= 1  BY <1>1
<1> HIDE DEF total, n, seq
<1> DEFINE Bad == {i \in 0..n : total[i] \notin Nat}
<1>7. \A i \in 0..n : total[i] = IF i = 0 THEN 0
                                 ELSE total[i - 1] + At[seq[i]]
  BY Zenon, <1>3 DEF IndexSums
<1>8. Bad = {}
  <2>1. SUFFICES ASSUME Bad # {} PROVE FALSE  OBVIOUS
  <2>2. PICK k \in Bad : \A m \in Bad : k <= m
    <3>1. Bad \subseteq Nat  BY <1>1
    <3> HIDE DEF Bad
    <3> QED BY <2>1, <3>1, LeastElement
  <2>3. k # 0  BY <1>7, <2>2
  <2>4. k \in 1..n /\ k - 1 \in 0..n /\ ~(k <= k - 1)  BY <1>1, <2>2, <2>3
  <2>5. total[k - 1] \in Nat  BY <2>2, <2>4
  <2>6. total[k] = total[k - 1] + At[seq[k]]  BY <1>7, <2>2, <2>3
  <2>7. total[k] \in Nat  BY <1>5, <2>4, <2>5, <2>6
  <2> QED BY <2>2, <2>7
<1>9. n \in 0..n  BY <1>1
<1>10. total[n] \in Nat  BY <1>8, <1>9
<1> QED BY <1>1, <1>4, <1>6, <1>10

(* Fractions are ordered: a/b < c/d and c/d < e/f give a/b < e/f, and the  *)
(* same with equality.                                                     *)
LEMMA Cancel ==
    ASSUME NEW x \in Nat, NEW y \in Nat, NEW d \in Nat, d >= 1
    PROVE  /\ x < y <=> x * d < y * d
           /\ x = y <=> x * d = y * d
           /\ x <= y <=> x * d <= y * d
<1>1. ASSUME NEW a \in Nat, NEW b \in Nat, a < b PROVE a * d < b * d
  <2> DEFINE c == b - a
  <2>1. c \in Nat /\ c >= 1 /\ b = a + c  BY <1>1
  <2> HIDE DEF c
  <2>2. (a + c) * d = a * d + c * d  BY <2>1
  <2>3. c * d >= 1 /\ a * d \in Nat /\ c * d \in Nat  BY <2>1
  <2> QED BY <2>1, <2>2, <2>3
<1>2. x < y => x * d < y * d  BY <1>1
<1>3. y < x => y * d < x * d  BY <1>1
<1>4. x * d \in Nat /\ y * d \in Nat  OBVIOUS
<1>5. x < y \/ y < x \/ x = y  OBVIOUS
<1> QED BY <1>2, <1>3, <1>4, <1>5

LEMMA FractionsOrdered ==
    ASSUME NEW a \in Nat, NEW b \in Nat, NEW c \in Nat, NEW d \in Nat,
           NEW e \in Nat, NEW f \in Nat, b >= 1, d >= 1, f >= 1,
           a * d <= c * b, c * f <= e * d
    PROVE  /\ a * f <= e * b
           /\ a * f = e * b => a * d = c * b /\ c * f = e * d
<1>1. /\ a * d \in Nat /\ c * b \in Nat /\ c * f \in Nat /\ e * d \in Nat
      /\ a * f \in Nat /\ e * b \in Nat
  OBVIOUS
<1>2. (a * d) * f <= (c * b) * f  BY <1>1, Cancel
<1>3. (c * f) * b <= (e * d) * b  BY <1>1, Cancel
<1>4. (a * d) * f = (a * f) * d  OBVIOUS
<1>5. (c * b) * f = (c * f) * b  OBVIOUS
<1>6. (e * d) * b = (e * b) * d  OBVIOUS
<1> DEFINE l == a * f
           r == e * b
           m == (c * b) * f
<1>7. l * d <= m /\ m <= r * d  BY <1>2, <1>3, <1>4, <1>5, <1>6
<1>8. m \in Nat /\ l \in Nat /\ r \in Nat  BY <1>1
<1> HIDE DEF l, r, m
<1>9. l * d \in Nat /\ r * d \in Nat  BY <1>8
<1>10. l * d <= r * d  BY <1>7, <1>8, <1>9
<1>11. l <= r  BY <1>8, <1>10, Cancel
<1>12. ASSUME l = r PROVE a * d = c * b /\ c * f = e * d
  <2>1. l * d = m /\ m = r * d  BY <1>7, <1>8, <1>9, <1>12
  <2>2. (a * d) * f = (c * b) * f  BY <2>1, <1>4 DEF l, m
  <2>3. (c * f) * b = (e * d) * b  BY <2>1, <1>5, <1>6 DEF r, m
  <2>4. a * d = c * b  BY <1>1, <2>2, Cancel
  <2>5. c * f = e * d  BY <1>1, <2>3, Cancel
  <2> QED BY <2>4, <2>5
<1> QED BY <1>11, <1>12 DEF l, r

(* How far the centre of v is from the anchor, times both counts.          *)
Gap(p, anchor, v) ==
    Abs(Centre(p, v)[1] * anchor[2] - anchor[1] * Centre(p, v)[2])

LEMMA NearerIs ==
    ASSUME NEW p \in RoundPlans, NEW x \in Nat, NEW y \in Nat, NEW anchor,
           anchor[1] = x, anchor[2] = y, NEW v \in Vehicles, NEW w \in Vehicles
    PROVE  /\ Gap(p, anchor, v) \in Nat
           /\ Nearer(p, anchor, v, w) <=>
                \/ Gap(p, anchor, v) * Centre(p, w)[2]
                      < Gap(p, anchor, w) * Centre(p, v)[2]
                \/ /\ Gap(p, anchor, v) * Centre(p, w)[2]
                         = Gap(p, anchor, w) * Centre(p, v)[2]
                   /\ v < w
<1> DEFINE a == Centre(p, v)[1]
           b == Centre(p, v)[2]
<1>1. a \in Nat /\ b \in Nat  BY CentreTyped
<1>2. Gap(p, anchor, v) = Abs(a * y - x * b)  BY DEF Gap
<1> HIDE DEF a, b
<1>3. a * y \in Int /\ x * b \in Int  BY <1>1
<1>4. \A i \in Int, j \in Int : Abs(i - j) \in Nat  BY DEF Abs
<1>5. Gap(p, anchor, v) \in Nat  BY <1>2, <1>3, <1>4
<1> QED BY <1>5 DEF Nearer, Gap

LEMMA NearerOrders ==
    ASSUME NEW p \in RoundPlans, NEW x \in Nat, NEW y \in Nat, NEW anchor,
           anchor[1] = x, anchor[2] = y
    PROVE  /\ \A v \in Vehicles : ~Nearer(p, anchor, v, v)
           /\ \A v, w \in Vehicles :
                 v # w => Nearer(p, anchor, v, w) \/ Nearer(p, anchor, w, v)
           /\ \A u, v, w \in Vehicles :
                 Nearer(p, anchor, u, v) /\ Nearer(p, anchor, v, w)
                    => Nearer(p, anchor, u, w)
<1> DEFINE g(v) == Gap(p, anchor, v)
           c(v) == Centre(p, v)[2]
<1>1. \A v \in Vehicles : /\ v \in Nat /\ g(v) \in Nat
                          /\ c(v) \in Nat /\ c(v) >= 1
  BY NearerIs, CentreTyped, DataTyped
<1>2. \A v, w \in Vehicles : Nearer(p, anchor, v, w) <=>
         g(v) * c(w) < g(w) * c(v) \/ (g(v) * c(w) = g(w) * c(v) /\ v < w)
  BY NearerIs
<1> HIDE DEF g, c
<1>3. \A v, w \in Vehicles : g(v) * c(w) \in Nat  BY <1>1
<1>4. ASSUME NEW v \in Vehicles PROVE ~Nearer(p, anchor, v, v)
  BY <1>1, <1>2, <1>3
<1>5. ASSUME NEW v \in Vehicles, NEW w \in Vehicles, v # w
      PROVE  Nearer(p, anchor, v, w) \/ Nearer(p, anchor, w, v)
  <2> DEFINE l == g(v) * c(w)
             r == g(w) * c(v)
  <2>1. l \in Nat /\ r \in Nat /\ v \in Nat /\ w \in Nat  BY <1>1, <1>3
  <2> HIDE DEF l, r
  <2>2. l < r \/ r < l \/ (l = r /\ (v < w \/ w < v))  BY <1>5, <2>1
  <2> QED BY <1>2, <2>2 DEF l, r
<1>6. ASSUME NEW u \in Vehicles, NEW v \in Vehicles, NEW w \in Vehicles,
             Nearer(p, anchor, u, v), Nearer(p, anchor, v, w)
      PROVE  Nearer(p, anchor, u, w)
  <2> DEFINE uv == g(u) * c(v)
             vu == g(v) * c(u)
             vw == g(v) * c(w)
             wv == g(w) * c(v)
             uw == g(u) * c(w)
             wu == g(w) * c(u)
  <2>1. /\ uv \in Nat /\ vu \in Nat /\ vw \in Nat /\ wv \in Nat
        /\ uw \in Nat /\ wu \in Nat /\ u \in Nat /\ v \in Nat /\ w \in Nat
    BY <1>1, <1>3
  <2>2. uv < vu \/ (uv = vu /\ u < v)  BY <1>2, <1>6
  <2>3. vw < wv \/ (vw = wv /\ v < w)  BY <1>2, <1>6
  <2>4. uv <= vu /\ vw <= wv
    <3> HIDE DEF uv, vu, vw, wv, uw, wu
    <3> QED BY <2>1, <2>2, <2>3
  <2>5. /\ g(u) \in Nat /\ c(u) \in Nat /\ g(v) \in Nat /\ c(v) \in Nat
        /\ g(w) \in Nat /\ c(w) \in Nat /\ c(u) >= 1 /\ c(v) >= 1 /\ c(w) >= 1
        /\ g(u) * c(v) <= g(v) * c(u) /\ g(v) * c(w) <= g(w) * c(v)
    BY <1>1, <2>4
  <2>6. uw <= wu /\ (uw = wu => uv = vu /\ vw = wv)
    BY <2>5, FractionsOrdered
  <2> HIDE DEF uv, vu, vw, wv
  <2>7. uw < wu \/ (uw = wu /\ u < w)
    <3> HIDE DEF uw, wu
    <3> QED BY <2>1, <2>2, <2>3, <2>6
  <2> QED BY <1>2, <2>7
<1> QED BY <1>4, <1>5, <1>6

(* A trigger opens the route it hits and at most Neighbours more.          *)
LEMMA OpenedFew ==
    ASSUME NEW p \in RoundPlans, Disjoint(p), NEW trigger \in Triggers
    PROVE  /\ AffectedRoutes(p, trigger) \subseteq Vehicles
           /\ IsFiniteSet(AffectedRoutes(p, trigger))
           /\ Cardinality(AffectedRoutes(p, trigger)) <= Neighbours + 1
           /\ \A v \in Vehicles : Breaks(trigger, v)
                                    => v \in AffectedRoutes(p, trigger)
<1> DEFINE hit == DirectlyHit(p, trigger)
           others == {v \in Vehicles : v \notin hit /\ p[v] # <<>>}
           anchor == Centre(p, CHOOSE v \in hit : TRUE)
           Ahead(v) == {w \in others : Nearer(p, anchor, w, v)}
           rank(v) == Cardinality(Ahead(v))
           near == {v \in others : rank(v) < Neighbours}
<1>1. AffectedRoutes(p, trigger) = IF hit = {} THEN {} ELSE hit \cup near
  BY DEF AffectedRoutes
<1>2. hit \subseteq Vehicles /\ \A v, w \in hit : v = w
  <2>1. CASE trigger.kind \in {"BREAKDOWN", "ETA_DRIFT"}
    BY <2>1 DEF DirectlyHit, Triggers
  <2>2. CASE trigger.kind \notin {"BREAKDOWN", "ETA_DRIFT"}
    BY <2>2 DEF DirectlyHit, Disjoint
  <2> QED BY <2>1, <2>2
<1>3. \A v \in Vehicles : Breaks(trigger, v) => v \in hit
  BY DEF Breaks, DirectlyHit
<1>4. Neighbours \in Nat /\ IsFiniteSet(Vehicles)
  BY ReoptimiseAssumption DEF ReoptimiseAssumption
<1>5. CASE hit = {}
  <2>1. AffectedRoutes(p, trigger) = {}  BY <1>1, <1>5
  <2>2. IsFiniteSet({}) /\ Cardinality({}) = 0  BY FS_EmptySet
  <2>3. \A v \in Vehicles : ~Breaks(trigger, v)  BY <1>3, <1>5
  <2> QED BY <1>4, <2>1, <2>2, <2>3
<1>6. CASE hit # {}
  <2>1. PICK h \in hit : hit = {h}  BY <1>2, <1>6
  <2>2. (CHOOSE v \in hit : TRUE) \in Vehicles  BY <1>2, <1>6
  <2>3. anchor[1] \in Nat /\ anchor[2] \in Nat  BY <2>2, CentreTyped
  <2>4. others \subseteq Vehicles /\ near \subseteq others  OBVIOUS
  <2> HIDE DEF hit, others, anchor
  <2>5. \A v : Ahead(v) \subseteq Vehicles  BY <2>4
  <2>6. \A v : IsFiniteSet(Ahead(v)) /\ rank(v) \in Nat
    <3>1. ASSUME NEW v PROVE IsFiniteSet(Ahead(v)) /\ rank(v) \in Nat
      <4>1. Ahead(v) \in SUBSET Vehicles  BY <2>5
      <4> HIDE DEF Ahead
      <4>2. IsFiniteSet(Ahead(v))  BY <1>4, <4>1, FS_Subset
      <4> QED BY <4>2, FS_CardinalityType
    <3> QED BY <3>1
  <2>7. /\ \A v \in Vehicles : ~Nearer(p, anchor, v, v)
        /\ \A v, w \in Vehicles :
              v # w => Nearer(p, anchor, v, w) \/ Nearer(p, anchor, w, v)
        /\ \A u, v, w \in Vehicles :
              Nearer(p, anchor, u, v) /\ Nearer(p, anchor, v, w)
                 => Nearer(p, anchor, u, w)
    BY <2>3, NearerOrders
  <2>8. ASSUME NEW v \in others, NEW w \in others, Nearer(p, anchor, v, w)
        PROVE  rank(v) < rank(w)
    <3>1. v \in Vehicles /\ w \in Vehicles  BY <2>4
    <3>2. Ahead(v) \subseteq Ahead(w)  BY <2>4, <2>7, <2>8, <3>1
    <3>3. v \in Ahead(w) /\ v \notin Ahead(v)  BY <2>7, <2>8, <3>1
    <3>4. Ahead(v) \in SUBSET Ahead(w) /\ Ahead(v) # Ahead(w)
      BY <3>2, <3>3
    <3>5. IsFiniteSet(Ahead(w))  BY <2>6
    <3>6. rank(v) \in Nat /\ rank(w) \in Nat  BY <2>6
    <3> DEFINE A == Ahead(v)
               B == Ahead(w)
    <3>7. A \in SUBSET B /\ A # B /\ IsFiniteSet(B)  BY <3>4, <3>5
    <3> HIDE DEF A, B
    <3>8. Cardinality(A) <= Cardinality(B) /\ Cardinality(A) # Cardinality(B)
      BY <3>7, FS_Subset
    <3>9. rank(v) = Cardinality(A) /\ rank(w) = Cardinality(B)  BY DEF A, B
    <3> QED BY <3>6, <3>8, <3>9
  <2>9. \A v, w \in near : rank(v) = rank(w) => v = w
    <3>1. ASSUME NEW v \in near, NEW w \in near, rank(v) = rank(w), v # w
          PROVE  FALSE
      <4>1. v \in others /\ w \in others /\ v \in Vehicles /\ w \in Vehicles
        BY <2>4
      <4>2. Nearer(p, anchor, v, w) \/ Nearer(p, anchor, w, v)
        BY <2>7, <3>1, <4>1
      <4>3. rank(v) \in Nat /\ rank(w) \in Nat  BY <2>6
      <4>4. rank(v) < rank(w) \/ rank(w) < rank(v)  BY <2>8, <4>1, <4>2
      <4> HIDE DEF rank
      <4> QED BY <3>1, <4>3, <4>4
    <3> QED BY <3>1
  <2>10. \A v \in near : rank(v) \in 0..(Neighbours - 1)
    <3>1. ASSUME NEW v \in near PROVE rank(v) \in 0..(Neighbours - 1)
      <4>1. rank(v) \in Nat /\ rank(v) < Neighbours  BY <2>6
      <4> HIDE DEF rank
      <4> QED BY <1>4, <4>1
    <3> QED BY <3>1
  <2> HIDE DEF rank, near
  <2> DEFINE f == [v \in near |-> rank(v)]
             N == 0..(Neighbours - 1)
  <2>11. f \in Injection(near, N)  BY <2>9, <2>10 DEF Injection, IsInjective
  <2>12. IsFiniteSet(N) /\ Cardinality(N) = Neighbours
    <3>1. /\ IsFiniteSet(0..(Neighbours - 1))
          /\ Cardinality(0..(Neighbours - 1))
               = IF 0 > Neighbours - 1 THEN 0 ELSE (Neighbours - 1) - 0 + 1
      <4>1. 0 \in Int /\ Neighbours - 1 \in Int  BY <1>4
      <4> QED BY <4>1, FS_Interval
    <3> QED BY <1>4, <3>1
  <2> HIDE DEF f, N
  <2>13. IsFiniteSet(near) /\ Cardinality(near) <= Cardinality(N)
    BY <2>11, <2>12, FS_Injection
  <2>14. Cardinality(near) \in Nat  BY <2>13, FS_CardinalityType
  <2>15. near \cup hit = hit \cup near /\ hit = {h}  BY <2>1
  <2>16. /\ IsFiniteSet(near \cup {h})
         /\ Cardinality(near \cup {h}) <= Cardinality(near) + 1
    <3>1. /\ IsFiniteSet(near \cup {h})
          /\ Cardinality(near \cup {h})
                = IF h \in near THEN Cardinality(near)
                  ELSE Cardinality(near) + 1
      BY <2>13, FS_AddElement
    <3> QED BY <2>14, <3>1
  <2>17. Cardinality(near \cup {h}) \in Nat  BY <2>16, FS_CardinalityType
  <2>18. Cardinality(near \cup {h}) <= Neighbours + 1
    BY <1>4, <2>12, <2>13, <2>14, <2>16, <2>17
  <2>19. AffectedRoutes(p, trigger) = near \cup {h}
    BY <1>1, <1>6, <2>15
  <2>20. near \cup {h} \subseteq Vehicles  BY <1>2, <2>1, <2>4 DEF near
  <2> QED BY <1>3, <2>15, <2>16, <2>18, <2>19, <2>20
<1> QED BY <1>5, <1>6

-----------------------------------------------------------------------------
(* The three answers.                                                      *)

LEMMA OwnerIs ==
    ASSUME NEW p \in RoundPlans, Disjoint(p), NEW v \in Vehicles,
           NEW o, o \in ToSet(p[v])
    PROVE  /\ Owner(p, o) = v /\ o \in Served(p) /\ OwnerOrNone(p, o) = v
           /\ o \in Orders
<1>1. \A w \in Vehicles : o \in ToSet(p[w]) => w = v  BY DEF Disjoint
<1>2. Owner(p, o) = v  BY <1>1 DEF Owner
<1>3. o \in Served(p)  BY DEF Served
<1>4. p[v] \in Seq(Orders)  BY RoundIs DEF RoundPlans
<1>5. o \in Orders  BY <1>4 DEF ToSet
<1> QED BY <1>2, <1>3, <1>5 DEF OwnerOrNone

LEMMA PrefixSubsequence ==
    ASSUME NEW r \in Seq(Orders), NEW s \in Rounds, IsPrefix(r, s)
    PROVE  IsSubsequence(r, s)
<1> DEFINE k == Len(r)
           n == Len(s)
<1>1. s \in Seq(Orders) /\ IsInjective(s) /\ n \in Nat /\ k \in Nat
  BY RoundIs
<1>2. k <= n /\ SubSeq(r, 1, k) = SubSeq(s, 1, k)  BY DEF IsPrefix
<1>3. \A i \in 1..k : r[i] = s[i]
  <2>1. k \in 0..Len(r) /\ k \in 0..Len(s)  BY <1>1, <1>2
  <2>2. \A i \in 1..k : SubSeq(r, 1, k)[i] = r[i]  BY <2>1, BeginningIs
  <2>3. \A i \in 1..k : SubSeq(s, 1, k)[i] = s[i]
    BY <1>1, <2>1, BeginningIs
  <2> QED BY <1>2, <2>2, <2>3
<1>4. DOMAIN r = 1..k /\ DOMAIN s = 1..n /\ 1..k \subseteq 1..n
  BY <1>1, <1>2
<1>5. \A i, j \in 1..n : s[i] = s[j] => i = j
  BY <1>1, <1>4 DEF IsInjective
<1> HIDE DEF k, n
<1>6. ToSet(r) \subseteq ToSet(s)  BY <1>3, <1>4 DEF ToSet
<1>7. ASSUME NEW i \in DOMAIN s, NEW j \in DOMAIN s, NEW m \in DOMAIN r,
             NEW l \in DOMAIN r, s[i] = r[m], s[j] = r[l], m < l
      PROVE  i < j
  <2>1. s[i] = s[m] /\ s[j] = s[l]  BY <1>3, <1>4, <1>7
  <2>2. i = m /\ j = l  BY <1>4, <1>5, <2>1
  <2> QED BY <1>7, <2>2
<1> QED BY <1>6, <1>7 DEF IsSubsequence

(* A plan the system is in, at an instant of its day.                      *)
Sound(p, t) ==
    /\ t \in Nat /\ t <= MaxTime /\ Shift.start <= t
    /\ p \in RoundPlans /\ LegalPlan(p)

(* What reoptimise holds in place is a legal plan with less work.          *)
LEMMA FrozenKeeps ==
    ASSUME Sound(plan, now), NEW opened, opened \subseteq Vehicles
    PROVE  /\ Frozen(opened) \in RoundPlans /\ Disjoint(Frozen(opened))
           /\ \A v \in Vehicles :
                 /\ RouteIsLegal(v, Frozen(opened)[v])
                 /\ ToSet(Frozen(opened)[v]) \subseteq ToSet(plan[v])
                 /\ IsSubsequence(CommittedPrefix(plan[v], now),
                                  Frozen(opened)[v])
                 /\ v \in opened =>
                       Frozen(opened)[v] = CommittedPrefix(plan[v], now)
                 /\ v \notin opened => Frozen(opened)[v] = plan[v]
<1> DEFINE held == Frozen(opened)
<1>1. /\ now \in Nat /\ plan \in RoundPlans /\ Disjoint(plan)
      /\ \A v \in Vehicles : RouteIsLegal(v, plan[v])
  BY DEF Sound, LegalPlan
<1>2. /\ DOMAIN held = Vehicles
      /\ held = [v \in Vehicles |-> held[v]]
      /\ \A v \in Vehicles :
            held[v] = IF v \in opened THEN CommittedPrefix(plan[v], now)
                      ELSE plan[v]
  BY DEF Frozen
<1> HIDE DEF held
<1>3. ASSUME NEW v \in Vehicles
      PROVE  /\ held[v] \in Rounds /\ RouteIsLegal(v, held[v])
             /\ ToSet(held[v]) \subseteq ToSet(plan[v])
             /\ IsSubsequence(CommittedPrefix(plan[v], now), held[v])
  <2>1. /\ plan[v] \in Rounds /\ plan[v] \in Seq(Orders)
        /\ IsInjective(plan[v])
    BY <1>1, RoundIs DEF RoundPlans
  <2>2. /\ CommittedPrefix(plan[v], now) \in Rounds
        /\ IsSubsequence(CommittedPrefix(plan[v], now), plan[v])
        /\ ToSet(CommittedPrefix(plan[v], now)) \subseteq ToSet(plan[v])
    BY <1>1, <2>1, CommittedRound
  <2>3. CASE v \in opened
    <3>1. held[v] = CommittedPrefix(plan[v], now)  BY <1>2, <2>3
    <3>2. RouteIsLegal(v, CommittedPrefix(plan[v], now))
      <4>1. Committed(plan[v], now) \in 0..Len(plan[v])
        BY <1>1, <2>1, CommittedIs
      <4>2. RouteIsLegal(v, plan[v])  BY <1>1
      <4> QED BY <2>1, <4>1, <4>2, PrefixLegal DEF CommittedPrefix
    <3>3. /\ CommittedPrefix(plan[v], now) \in Seq(Orders)
          /\ IsInjective(CommittedPrefix(plan[v], now))
      BY <2>2, RoundIs
    <3>4. IsSubsequence(CommittedPrefix(plan[v], now),
                        CommittedPrefix(plan[v], now))
      BY <3>3, SubsequenceSelf
    <3> QED BY <2>2, <3>1, <3>2, <3>4
  <2>4. CASE v \notin opened
    <3>1. held[v] = plan[v]  BY <1>2, <2>4
    <3> QED BY <1>1, <2>1, <2>2, <3>1
  <2> QED BY <2>3, <2>4
<1>4. held \in RoundPlans  BY <1>2, <1>3 DEF RoundPlans
<1>5. Disjoint(held)
  <2>1. ASSUME NEW v \in Vehicles, NEW w \in Vehicles, v # w
        PROVE  ToSet(held[v]) \cap ToSet(held[w]) = {}
    <3>1. ToSet(plan[v]) \cap ToSet(plan[w]) = {}
      BY <1>1, <2>1 DEF Disjoint
    <3> QED BY <1>3, <3>1
  <2> QED BY <2>1 DEF Disjoint
<1> QED BY <1>2, <1>3, <1>4, <1>5 DEF held

(* The loose work is what is planned and neither held nor cancelled, each  *)
(* order once.                                                             *)
LEMMA LooseIs ==
    ASSUME Sound(plan, now), NEW held, NEW trigger
    PROVE  /\ Loose(held, trigger) \in Seq(Orders)
           /\ IsInjective(Loose(held, trigger))
           /\ ToSet(Loose(held, trigger))
                = Served(plan) \cap
                    {o \in Orders \ Served(held) :
                        ~(trigger.kind = "CANCELLATION" /\ trigger.order = o)}
<1> DEFINE N == Cardinality(Vehicles)
           flat == FlattenSeq(plan)
           wanted == {o \in Orders \ Served(held) :
                        ~(trigger.kind = "CANCELLATION" /\ trigger.order = o)}
<1>1. /\ plan \in RoundPlans /\ Disjoint(plan)
      /\ \A v \in Vehicles : plan[v] \in Seq(Orders) /\ IsInjective(plan[v])
  BY RoundIs DEF Sound, LegalPlan, RoundPlans
<1>2. N \in Nat /\ Vehicles = 1..N  BY VehiclesFinite
<1>3. plan \in Seq(Seq(Orders)) /\ Len(plan) = N
  <2>1. plan = [v \in 1..N |-> plan[v]]  BY <1>1, <1>2 DEF RoundPlans
  <2> HIDE DEF N
  <2>2. plan \in [1..N -> Seq(Orders)]  BY <1>1, <1>2, <2>1
  <2> QED BY <1>2, <2>2
<1> HIDE DEF N
<1>4. flat \in Seq(Orders) /\ IsInjective(flat) /\ ToSet(flat) = Served(plan)
  <2>1. CASE N = 0
    <3>1. flat = plan /\ plan = <<>> /\ Vehicles = {}
      BY <1>2, <1>3, <2>1 DEF FlattenSeq
    <3>2. Served(plan) = {}  BY <3>1 DEF Served
    <3> QED BY <3>1, <3>2 DEF IsInjective, ToSet
  <2>2. CASE N # 0
    <3>1. /\ ToSet(flat) = UNION {ToSet(plan[i]) : i \in 1..Len(plan)}
          /\ flat \in Seq(Orders)
          /\ IsInjective(flat) <=>
                /\ \A i \in 1..Len(plan) : IsInjective(plan[i])
                /\ \A i, j \in 1..Len(plan) :
                      i # j => ToSet(plan[i]) \cap ToSet(plan[j]) = {}
      BY <1>3, <2>2, FlattenParts
    <3>2. IsInjective(flat)  BY <1>1, <1>2, <1>3, <3>1 DEF Disjoint
    <3>3. ToSet(flat) = Served(plan)  BY <1>2, <1>3, <3>1 DEF Served
    <3> QED BY <3>1, <3>2, <3>3
  <2> QED BY <2>1, <2>2
<1>5. Loose(held, trigger) = Kept(flat, wanted)  BY DEF Loose
<1> HIDE DEF flat, wanted
<1>6. /\ Kept(flat, wanted) \in Seq(Orders)
      /\ ToSet(Kept(flat, wanted)) = ToSet(flat) \cap wanted
      /\ IsInjective(flat) => IsInjective(Kept(flat, wanted))
  BY <1>4, KeptSelects
<1> QED BY <1>4, <1>5, <1>6 DEF wanted

(* What is true of an answer r to a disruption of the plan p at instant t. *)
KeptByReoptimise(p, t, r) ==
    /\ \A o \in Served(p) \ (Served(r.plan) \cup Cancelled(r)) :
          LegalPlaces(r.plan, o, r.usable) = {}
    /\ r.weight > LongestRoute =>
          \A o \in DOMAIN r.moved \ Cancelled(r) :
             LegalPlaces(r.plan, o, r.usable \cap {Owner(p, o)}) = {}
    /\ \A v \in Vehicles :
          IsSubsequence(CommittedPrefix(p[v], t), r.plan[v])
    /\ Cardinality({v \in Vehicles : r.plan[v] # p[v]}) <= Neighbours + 1
    /\ \A v \in Vehicles : Breaks(r.trigger, v) =>
          r.plan[v] = CommittedPrefix(p[v], t)

Answered(p, t, r) ==
    /\ r.plan \in RoundPlans /\ LegalPlan(r.plan)
    /\ r.rows \in [Orders \ Served(r.plan) -> Reasons]
    /\ r.op \in {"reoptimise", "preempt", "recover"}
    /\ r.op = "reoptimise" => KeptByReoptimise(p, t, r)
    /\ r.op = "preempt" =>
          \A v \in Vehicles : IsPrefix(CommittedPrefix(p[v], t), r.plan[v])
    /\ r.op = "recover" =>
          /\ t = Shift.start
          /\ \A o \in DOMAIN r.moved : Owner(p, o) \in r.absent

LEMMA ReoptimiseAnswers ==
    ASSUME Sound(plan, now), NEW trigger \in Triggers,
           NEW weight \in ChurnWeights, ReoptimiseFor(trigger, weight)
    PROVE  \E r : r = response' /\ Answered(plan, now, r)
<1> DEFINE opened == AffectedRoutes(plan, trigger)
           usable == Usable(opened, trigger)
           held == Frozen(opened)
           loose == Loose(held, trigger)
           k == Len(loose)
           after == PutBack(held, loose, usable, weight)[k]
           r == [op |-> "reoptimise", trigger |-> trigger,
                 weight |-> weight, usable |-> usable,
                 plan |-> after, rows |-> Rows(after),
                 moved |-> MovedSince(plan, after)]
<1>1. response' = r  BY DEF ReoptimiseFor
<1>2. /\ plan \in RoundPlans /\ Disjoint(plan) /\ now \in Nat
  BY DEF Sound, LegalPlan
<1>3. /\ opened \subseteq Vehicles /\ IsFiniteSet(opened)
      /\ Cardinality(opened) <= Neighbours + 1
      /\ \A v \in Vehicles : Breaks(trigger, v) => v \in opened
  BY <1>2, OpenedFew
<1> HIDE DEF opened
<1>4. usable \subseteq opened /\ usable \subseteq Vehicles
      /\ \A v \in usable : ~Breaks(trigger, v)
  BY <1>3 DEF Usable
<1>5. /\ held \in RoundPlans /\ Disjoint(held)
      /\ \A v \in Vehicles :
            /\ RouteIsLegal(v, held[v])
            /\ ToSet(held[v]) \subseteq ToSet(plan[v])
            /\ IsSubsequence(CommittedPrefix(plan[v], now), held[v])
            /\ v \in opened => held[v] = CommittedPrefix(plan[v], now)
            /\ v \notin opened => held[v] = plan[v]
  BY <1>3, FrozenKeeps
<1> HIDE DEF usable, held
<1>6. /\ loose \in Seq(Orders) /\ IsInjective(loose)
      /\ ToSet(loose) = Served(plan) \cap
            {o \in Orders \ Served(held) :
                ~(trigger.kind = "CANCELLATION" /\ trigger.order = o)}
  BY LooseIs
<1>7. ToSet(loose) \cap Served(held) = {} /\ weight \in Nat
  BY <1>6, ReoptimiseAssumption DEF ReoptimiseAssumption
<1> HIDE DEF loose
<1>8. /\ held \in RoundPlans /\ Disjoint(held)
      /\ \A v \in Vehicles : RouteIsLegal(v, held[v])
      /\ loose \in Seq(Orders) /\ IsInjective(loose)
      /\ ToSet(loose) \cap Served(held) = {}
      /\ usable \subseteq Vehicles /\ weight \in Nat
  BY <1>4, <1>5, <1>6, <1>7
<1>9. PutBackSoFar(after, held, loose, usable, weight, k)
  <2>1. PutBackSoFar(PutBack(held, loose, usable, weight)[Len(loose)],
                     held, loose, usable, weight, Len(loose))
    BY <1>8, PutBackKeeps
  <2> QED BY <2>1
<1> HIDE DEF after
<1>10. /\ after \in RoundPlans /\ Disjoint(after)
       /\ \A v \in Vehicles : RouteIsLegal(v, after[v])
       /\ \A v \in Vehicles : IsSubsequence(held[v], after[v])
       /\ \A v \in Vehicles \ usable : after[v] = held[v]
       /\ \A j \in 1..k : \/ loose[j] \in Served(after)
                          \/ \A v \in usable : ~CanTake(after, loose[j], v)
       /\ weight > LongestRoute =>
             \A j \in 1..k : \A v \in usable \cap {Owner(plan, loose[j])} :
                loose[j] \in ToSet(after[v]) \/ ~CanTake(after, loose[j], v)
  BY <1>9 DEF PutBackSoFar
<1>11. \A o \in ToSet(loose) : \E j \in 1..k : loose[j] = o
  BY <1>6 DEF ToSet
<1>12. \A v \in Vehicles : /\ plan[v] \in Seq(Orders)
                           /\ held[v] \in Seq(Orders)
                           /\ after[v] \in Seq(Orders)
  BY <1>2, <1>5, <1>10, RoundIs DEF RoundPlans
<1>13. Served(plan) \subseteq Orders
  BY <1>12 DEF Served, ToSet
<1>14. \A v \in Vehicles : ToSet(held[v]) \subseteq ToSet(after[v])
  BY <1>10 DEF IsSubsequence
<1>15. Served(held) \subseteq Served(after)
  <2>1. ASSUME NEW o \in Served(held) PROVE o \in Served(after)
    <3>1. PICK v \in Vehicles : o \in ToSet(held[v])  BY DEF Served
    <3>2. o \in ToSet(after[v])  BY <1>14, <3>1
    <3> QED BY <3>2 DEF Served
  <2> QED BY <2>1
<1>16. Cancelled(r) = IF trigger.kind = "CANCELLATION"
                      THEN {trigger.order} ELSE {}
  BY DEF Cancelled
<1>17. ASSUME NEW o \in Served(plan), o \notin Served(held),
              o \notin Cancelled(r)
       PROVE  \E j \in 1..k : loose[j] = o
  <2>1. o \in ToSet(loose)  BY <1>6, <1>13, <1>16, <1>17
  <2> QED BY <1>11, <2>1
<1>18. \A o, W : W \subseteq Vehicles =>
          (LegalPlaces(after, o, W) = {} <=> \A v \in W : ~CanTake(after, o, v))
  BY <1>10, NoPlace
<1>19. /\ r.plan = after /\ r.usable = usable /\ r.weight = weight
       /\ r.trigger = trigger /\ r.rows = Rows(after) /\ r.op = "reoptimise"
       /\ r.moved = MovedSince(plan, after)
  OBVIOUS
<1> HIDE DEF r
<1>20. ASSUME NEW o \in Served(plan) \ (Served(after) \cup Cancelled(r))
       PROVE  LegalPlaces(after, o, usable) = {}
  <2>1. PICK j \in 1..k : loose[j] = o  BY <1>15, <1>17, <1>20
  <2>2. \A v \in usable : ~CanTake(after, o, v)  BY <1>10, <1>20, <2>1
  <2> QED BY <1>4, <1>18, <2>2
<1>21. ASSUME weight > LongestRoute,
              NEW o \in DOMAIN MovedSince(plan, after), o \notin Cancelled(r)
       PROVE  LegalPlaces(after, o, usable \cap {Owner(plan, o)}) = {}
  <2>1. o \in Served(plan) /\ OwnerOrNone(after, o) # Owner(plan, o)
    BY <1>21 DEF MovedSince
  <2>2. PICK u \in Vehicles : o \in ToSet(plan[u])  BY <2>1 DEF Served
  <2>3. Owner(plan, o) = u /\ o \in Orders  BY <1>2, <2>2, OwnerIs
  <2>4. o \notin ToSet(after[u])
    <3>1. SUFFICES ASSUME o \in ToSet(after[u]) PROVE FALSE  OBVIOUS
    <3>2. OwnerOrNone(after, o) = u  BY <1>10, <3>1, OwnerIs
    <3> QED BY <2>1, <2>3, <3>2
  <2>5. o \notin Served(held)
    <3>1. SUFFICES ASSUME o \in Served(held) PROVE FALSE  OBVIOUS
    <3>2. PICK w \in Vehicles : o \in ToSet(held[w])  BY <3>1 DEF Served
    <3>3. o \in ToSet(plan[w])  BY <1>5, <3>2
    <3>4. w = u  BY <1>2, <2>2, <3>3 DEF Disjoint
    <3> QED BY <1>14, <2>4, <3>2, <3>4
  <2>6. PICK j \in 1..k : loose[j] = o  BY <1>17, <1>21, <2>1, <2>5
  <2>7. \A v \in usable \cap {Owner(plan, o)} : ~CanTake(after, o, v)
    BY <1>10, <1>21, <2>3, <2>4, <2>6
  <2>8. usable \cap {Owner(plan, o)} \subseteq Vehicles  BY <1>4
  <2> QED BY <1>18, <2>7, <2>8
<1>22. ASSUME NEW v \in Vehicles
       PROVE  IsSubsequence(CommittedPrefix(plan[v], now), after[v])
  <2>1. CommittedPrefix(plan[v], now) \in Seq(Orders)
    <3>1. plan[v] \in Rounds  BY <1>2 DEF RoundPlans
    <3>2. CommittedPrefix(plan[v], now) \in Rounds
      BY <1>2, <3>1, CommittedRound
    <3> QED BY <3>2, RoundIs
  <2>2. /\ held[v] \in Seq(Orders) /\ after[v] \in Seq(Orders)
        /\ IsSubsequence(CommittedPrefix(plan[v], now), held[v])
        /\ IsSubsequence(held[v], after[v])
    BY <1>5, <1>10, <1>12
  <2> QED BY <2>1, <2>2, SubsequenceOf
<1>23. Cardinality({v \in Vehicles : after[v] # plan[v]}) <= Neighbours + 1
  <2> DEFINE D == {v \in Vehicles : after[v] # plan[v]}
  <2>1. D \in SUBSET opened
    <3>1. ASSUME NEW v \in Vehicles, v \notin opened
          PROVE  after[v] = plan[v]
      BY <1>4, <1>5, <1>10, <3>1
    <3> QED BY <3>1
  <2> HIDE DEF D
  <2>2. IsFiniteSet(D) /\ Cardinality(D) <= Cardinality(opened)
    BY <1>3, <2>1, FS_Subset
  <2>3. Cardinality(D) \in Nat /\ Cardinality(opened) \in Nat
        /\ Neighbours \in Nat
    BY <1>3, <2>2, FS_CardinalityType, ReoptimiseAssumption
       DEF ReoptimiseAssumption
  <2>4. Cardinality(D) <= Neighbours + 1  BY <1>3, <2>2, <2>3
  <2> QED BY <2>4 DEF D
<1>24. ASSUME NEW v \in Vehicles, Breaks(trigger, v)
       PROVE  after[v] = CommittedPrefix(plan[v], now)
  BY <1>3, <1>4, <1>5, <1>10, <1>24
<1>25. KeptByReoptimise(plan, now, r)
  BY <1>19, <1>20, <1>21, <1>22, <1>23, <1>24 DEF KeptByReoptimise
<1>26. LegalPlan(after)  BY <1>10 DEF LegalPlan
<1>27. Rows(after) \in [Orders \ Served(after) -> Reasons]
  BY DEF Rows, Reasons
<1>28. Answered(plan, now, r)
  BY <1>10, <1>19, <1>25, <1>26, <1>27 DEF Answered
<1> QED BY <1>1, <1>28

LEMMA PreemptAnswers ==
    ASSUME Sound(plan, now), NEW o \in Orders, Preempt(o)
    PROVE  \E r : r = response' /\ Answered(plan, now, r)
<1>1. PICK after \in LegalPlans :
        /\ HonoursCommitLocks(after, CommitLocks(plan, now))
        /\ response' = [op |-> "preempt", plan |-> after,
                        rows |-> ReportDisplaced(plan, after),
                        moved |-> MovedSince(plan, after)]
  BY DEF Preempt
<1> DEFINE r == [op |-> "preempt", plan |-> after,
                 rows |-> ReportDisplaced(plan, after),
                 moved |-> MovedSince(plan, after)]
<1>2. after \in RoundPlans /\ LegalPlan(after)  BY DEF LegalPlans, RoundPlans
<1>3. DOMAIN Rows(after) = Orders \ Served(after)  BY DEF Rows
<1>4. ReportDisplaced(plan, after) \in [Orders \ Served(after) -> Reasons]
  BY <1>3 DEF ReportDisplaced, Reasons
<1>5. \A v \in Vehicles : IsPrefix(CommittedPrefix(plan[v], now), after[v])
  BY <1>1 DEF HonoursCommitLocks, CommitLocks
<1>6. /\ r.plan = after /\ r.rows = ReportDisplaced(plan, after)
      /\ r.op = "preempt"
  OBVIOUS
<1>7. response' = r  BY <1>1
<1> HIDE DEF r
<1>8. Answered(plan, now, r)
  BY <1>2, <1>4, <1>5, <1>6 DEF Answered
<1> QED BY <1>7, <1>8

LEMMA RecoverAnswers ==
    ASSUME Sound(plan, now), NEW absent \in SUBSET Vehicles,
           RecoverFromAbsence(absent)
    PROVE  \E r : r = response' /\ Answered(plan, now, r)
<1>1. PICK after \in LegalPlans :
        /\ HonoursLoading(after, absent)
        /\ response' = [op |-> "recover", absent |-> absent, plan |-> after,
                        rows |-> Rows(after),
                        moved |-> MovedSince(plan, after)]
  BY DEF RecoverFromAbsence
<1> DEFINE r == [op |-> "recover", absent |-> absent, plan |-> after,
                 rows |-> Rows(after), moved |-> MovedSince(plan, after)]
<1>2. after \in RoundPlans /\ LegalPlan(after)  BY DEF LegalPlans, RoundPlans
<1>3. Rows(after) \in [Orders \ Served(after) -> Reasons]
  BY DEF Rows, Reasons
<1>4. now = Shift.start  BY DEF RecoverFromAbsence
<1>5. ASSUME NEW o \in DOMAIN MovedSince(plan, after)
      PROVE  Owner(plan, o) \in absent
  <2>1. o \in Served(plan) /\ OwnerOrNone(after, o) # Owner(plan, o)
    BY DEF MovedSince
  <2>2. PICK u \in Vehicles : o \in ToSet(plan[u])  BY <2>1 DEF Served
  <2>3. plan \in RoundPlans /\ Disjoint(plan)  BY DEF Sound, LegalPlan
  <2>4. Owner(plan, o) = u  BY <2>2, <2>3, OwnerIs
  <2>5. u \in absent
    <3>1. SUFFICES ASSUME u \notin absent PROVE FALSE  OBVIOUS
    <3>2. o \in ToSet(after[u])  BY <1>1, <2>2, <3>1 DEF HonoursLoading
    <3>3. OwnerOrNone(after, o) = u  BY <1>2, <3>2, OwnerIs DEF LegalPlan
    <3> QED BY <2>1, <2>4, <3>3
  <2> QED BY <2>4, <2>5
<1>6. /\ r.plan = after /\ r.rows = Rows(after) /\ r.op = "recover"
      /\ r.absent = absent /\ r.moved = MovedSince(plan, after)
  OBVIOUS
<1>7. response' = r  BY <1>1
<1> HIDE DEF r
<1>8. Answered(plan, now, r)
  BY <1>2, <1>3, <1>4, <1>5, <1>6 DEF Answered
<1> QED BY <1>7, <1>8

-----------------------------------------------------------------------------
(* The invariant and the theorems.                                         *)

Inv ==
    /\ Sound(plan, now)
    /\ ~Idle => Answered(plan, now, response)

(* What the checked properties say follows.                                *)
LEMMA InvHolds ==
    ASSUME Inv
    PROVE  /\ TypeOK /\ PlanStaysLegal /\ DroppedOnlyWithoutRoom
           /\ HeavyChurnStays /\ DisruptionIsLocal
           /\ NothingBeginsAtOnce => CommittedWorkKept
<1>1. /\ now \in Nat /\ now <= MaxTime /\ Shift.start <= now
      /\ plan \in RoundPlans /\ Disjoint(plan)
      /\ \A v \in Vehicles : RouteIsLegal(v, plan[v])
  BY DEF Inv, Sound, LegalPlan
<1>2. now \in 0..MaxTime
  BY <1>1, ReoptimiseAssumption DEF ReoptimiseAssumption
<1>3. ASSUME NEW p \in RoundPlans, Disjoint(p)
      PROVE  p \in [Vehicles -> Rounds] /\ Accounted(p)
  BY <1>3, RoundIs DEF RoundPlans, Accounted
<1>4. \A v \in Vehicles : plan[v] \in Seq(Orders)
  BY <1>1, RoundIs DEF RoundPlans
<1>5. CASE Idle
  <2>1. response.op = "none" /\ ~(response.op \in {"reoptimise", "recover"})
    BY <1>5 DEF Idle, NoResponse
  <2>2. TypeOK  BY <1>1, <1>2, <1>3, <1>5 DEF TypeOK
  <2>3. PlanStaysLegal  BY <1>1, <1>5 DEF PlanStaysLegal
  <2>4. DroppedOnlyWithoutRoom  BY <2>1 DEF DroppedOnlyWithoutRoom
  <2>5. HeavyChurnStays  BY <2>1 DEF HeavyChurnStays
  <2>6. DisruptionIsLocal  BY <2>1 DEF DisruptionIsLocal
  <2>7. CommittedWorkKept  BY <1>5 DEF CommittedWorkKept
  <2> QED BY <2>2, <2>3, <2>4, <2>5, <2>6, <2>7
<1>6. CASE ~Idle
  <2>1. Answered(plan, now, response)  BY <1>6 DEF Inv
  <2>2. /\ response.plan \in RoundPlans /\ Disjoint(response.plan)
        /\ \A v \in Vehicles : RouteIsLegal(v, response.plan[v])
        /\ response.rows \in [Orders \ Served(response.plan) -> Reasons]
    BY <2>1 DEF Answered, LegalPlan
  <2>3. response.op = "reoptimise" => KeptByReoptimise(plan, now, response)
    BY <2>1 DEF Answered
  <2>4. TypeOK  BY <1>1, <1>2, <1>3, <2>2 DEF TypeOK
  <2>5. PlanStaysLegal  BY <1>1, <2>2 DEF PlanStaysLegal
  <2>6. DroppedOnlyWithoutRoom
    BY <2>3 DEF DroppedOnlyWithoutRoom, KeptByReoptimise
  <2>7. HeavyChurnStays  BY <2>3 DEF HeavyChurnStays, KeptByReoptimise
  <2>8. DisruptionIsLocal
    <3>1. response.op = "recover" =>
             \A o \in DOMAIN response.moved : Owner(plan, o) \in response.absent
      BY <2>1 DEF Answered
    <3> QED BY <2>3, <3>1 DEF DisruptionIsLocal, KeptByReoptimise
  <2>9. ASSUME NothingBeginsAtOnce, NEW v \in Vehicles
        PROVE  IsSubsequence(CommittedPrefix(plan[v], now), response.plan[v])
    <3>1. response.op \in {"reoptimise", "preempt", "recover"}
      BY <2>1 DEF Answered
    <3>2. CASE response.op = "reoptimise"
      BY <2>3, <3>2 DEF KeptByReoptimise
    <3>3. plan[v] \in Rounds /\ response.plan[v] \in Rounds
      BY <1>1, <2>2 DEF RoundPlans
    <3>4. CommittedPrefix(plan[v], now) \in Seq(Orders)
      BY <1>1, <3>3, CommittedRound, RoundIs
    <3>5. CASE response.op = "preempt"
      <4>1. IsPrefix(CommittedPrefix(plan[v], now), response.plan[v])
        BY <2>1, <3>5 DEF Answered
      <4> QED BY <3>3, <3>4, <4>1, PrefixSubsequence
    <3>6. CASE response.op = "recover"
      <4>1. now = Shift.start  BY <2>1, <3>6 DEF Answered
      <4>2. CommittedPrefix(plan[v], now) = <<>>
        BY <1>4, <2>9, <4>1, NothingAtShiftStart
      <4> QED BY <4>2 DEF IsSubsequence, ToSet
    <3> QED BY <3>1, <3>2, <3>5, <3>6
  <2>10. NothingBeginsAtOnce => CommittedWorkKept
    BY <2>9 DEF CommittedWorkKept
  <2> QED BY <2>4, <2>5, <2>6, <2>7, <2>8, <2>10
<1> QED BY <1>5, <1>6

LEMMA InvStarts == Init => Inv
<1>1. SUFFICES ASSUME Init PROVE Inv  OBVIOUS
<1>2. plan \in RoundPlans /\ LegalPlan(plan) /\ now = Shift.start /\ Idle
  BY <1>1 DEF Init, LegalPlans, RoundPlans, Idle
<1>3. Shift.start \in Nat /\ Shift.start <= MaxTime
  BY DataTyped, ReoptimiseAssumption DEF ReoptimiseAssumption
<1> QED BY <1>2, <1>3 DEF Inv, Sound

(* An answer stands until it is adopted or discarded, and the caller makes *)
(* up its mind before the clock moves.                                     *)
LEMMA InvKept == Inv /\ [Next]_vars => Inv'
<1>1. SUFFICES ASSUME Inv, [Next]_vars PROVE Inv'  OBVIOUS
<1>2. Sound(plan, now) /\ (~Idle => Answered(plan, now, response))
  BY <1>1 DEF Inv
<1>3. CASE Advance
  <2>1. response' = NoResponse /\ plan' = plan /\ now' = now + 1
        /\ now < MaxTime
    BY <1>3 DEF Advance, Idle
  <2>2. Shift.start \in Nat /\ MaxTime \in Nat
    BY DataTyped, ReoptimiseAssumption DEF ReoptimiseAssumption
  <2>3. Sound(plan', now')  BY <1>2, <2>1, <2>2 DEF Sound
  <2> QED BY <2>1, <2>3 DEF Inv, Idle
<1>4. CASE Adopt
  <2>1. plan' = response.plan /\ response' = NoResponse /\ now' = now
        /\ Answered(plan, now, response)
    BY <1>2, <1>4 DEF Adopt
  <2>2. Sound(plan', now')  BY <1>2, <2>1 DEF Sound, Answered
  <2> QED BY <2>1, <2>2 DEF Inv, Idle
<1>5. CASE Discard
  BY <1>2, <1>5 DEF Discard, Inv, Idle
<1>6. ASSUME NEW r, r = response', Answered(plan, now, r),
             UNCHANGED <<now, plan>>
      PROVE  Inv'
  <2>1. Answered(plan', now', response')  BY <1>6
  <2>2. Sound(plan', now')  BY <1>2, <1>6
  <2> QED BY <2>1, <2>2 DEF Inv
<1>7. ASSUME NEW t \in Triggers, NEW w \in ChurnWeights, ReoptimiseFor(t, w)
      PROVE  Inv'
  <2>1. PICK r : r = response' /\ Answered(plan, now, r)
    BY <1>2, <1>7, ReoptimiseAnswers
  <2> QED BY <1>6, <1>7, <2>1 DEF ReoptimiseFor
<1>8. ASSUME NEW o \in Orders, Preempt(o) PROVE Inv'
  <2>1. PICK r : r = response' /\ Answered(plan, now, r)
    BY <1>2, <1>8, PreemptAnswers
  <2> QED BY <1>6, <1>8, <2>1 DEF Preempt
<1>9. ASSUME NEW a \in SUBSET Vehicles, RecoverFromAbsence(a) PROVE Inv'
  <2>1. PICK r : r = response' /\ Answered(plan, now, r)
    BY <1>2, <1>9, RecoverAnswers
  <2> QED BY <1>6, <1>9, <2>1 DEF RecoverFromAbsence
<1>10. CASE UNCHANGED vars
  BY <1>2, <1>10 DEF vars, Inv, Idle
<1> QED BY <1>1, <1>3, <1>4, <1>5, <1>7, <1>8, <1>9, <1>10 DEF Next

(* triggers.py: whatever the fleet, the matrix and the orders, through any *)
(* sequence of disruptions the plan stays one the code accepts and         *)
(* accounts for all work; reoptimise drops only what has no place and      *)
(* moves with a heavy churn weight only what it must, and touches only the *)
(* route that is hit and its neighbours.                                   *)
THEOREM PlansSurvive ==
    Spec => [](/\ TypeOK /\ PlanStaysLegal /\ DroppedOnlyWithoutRoom
               /\ HeavyChurnStays /\ DisruptionIsLocal)
<1>1. Inv => /\ TypeOK /\ PlanStaysLegal /\ DroppedOnlyWithoutRoom
             /\ HeavyChurnStays /\ DisruptionIsLocal
  BY InvHolds
<1> QED BY <1>1, InvStarts, InvKept, PTL DEF Spec

(* Where no service can begin the instant the shift does, no answer takes  *)
(* committed work off its vehicle or reorders it either, so all of         *)
(* DisruptionsAreAbsorbed holds.  recover_from_absence needs this: it runs *)
(* before the shift and takes nothing to be executed then.                 *)
THEOREM DisruptionsAbsorbed ==
    ASSUME NothingBeginsAtOnce
    PROVE  Spec => []DisruptionsAreAbsorbed
<1>1. Inv => DisruptionsAreAbsorbed  BY InvHolds DEF DisruptionsAreAbsorbed
<1> QED BY <1>1, InvStarts, InvKept, PTL DEF Spec

(* commit_locks: under the same condition what is committed only grows, as *)
(* time passes and as plans of an engine that honours the locks are        *)
(* adopted.                                                                *)
THEOREM CommitmentsGrow ==
    ASSUME NothingBeginsAtOnce
    PROVE  Spec => CommittedOnlyGrows
<1>1. ASSUME Inv, [Next]_vars, NEW v \in Vehicles,
             response.op # "reoptimise"
      PROVE  IsPrefix(CommittedPrefix(plan[v], now),
                      CommittedPrefix(plan'[v], now'))
  <2>1. Inv'  BY <1>1, InvKept
  <2>2. /\ plan[v] \in Seq(Orders) /\ now \in Nat
    BY <1>1, RoundIs DEF Inv, Sound, RoundPlans
  <2>3. Sound(plan', now')  BY <2>1 DEF Inv
  <2>4. plan'[v] \in Seq(Orders) /\ now' \in Nat
    BY <2>3, RoundIs DEF Sound, RoundPlans
  <2>5. IsPrefix(CommittedPrefix(plan[v], now), plan[v])
    BY <2>2, PrefixSelf
  <2>6. CASE plan' = plan /\ now <= now'
    BY <2>2, <2>4, <2>5, <2>6, CommittedGrows
  <2>7. CASE Adopt
    <3>1. /\ Answered(plan, now, response)
          /\ plan' = response.plan /\ now' = now
      BY <1>1, <2>7 DEF Adopt, Inv
    <3>2. CASE response.op = "preempt"
      <4>1. IsPrefix(CommittedPrefix(plan[v], now), plan'[v])
        BY <3>1, <3>2 DEF Answered
      <4>2. now <= now'  BY <2>2, <3>1
      <4> QED BY <2>2, <2>4, <4>1, <4>2, CommittedGrows
    <3>3. CASE response.op = "recover"
      <4>1. now = Shift.start  BY <3>1, <3>3 DEF Answered
      <4>2. /\ CommittedPrefix(plan[v], now) = <<>>
            /\ CommittedPrefix(plan'[v], now') = <<>>
        BY <2>2, <2>4, <3>1, <4>1, NothingAtShiftStart
      <4>3. IsPrefix(<<>>, <<>>)  BY DEF IsPrefix
      <4> QED BY <4>2, <4>3
    <3> QED BY <1>1, <3>1, <3>2, <3>3 DEF Answered
  <2>8. Adopt \/ (plan' = plan /\ now <= now')
    <3>1. now <= now /\ now <= now + 1  BY <2>2
    <3> QED BY <1>1, <3>1 DEF Next, vars, Advance, Discard, ReoptimiseFor,
                              Preempt, RecoverFromAbsence
  <2> QED BY <2>6, <2>7, <2>8
<1>2. Inv /\ [Next]_vars =>
        [\A v \in Vehicles :
            \/ response.op = "reoptimise"
            \/ IsPrefix(CommittedPrefix(plan[v], now),
                        CommittedPrefix(plan'[v], now'))]_vars
  BY <1>1
<1> QED BY <1>2, InvStarts, InvKept, PTL DEF Spec, CommittedOnlyGrows
=============================================================================
