------------------------- MODULE SubsequencesProofs -------------------------
(***************************************************************************)
(* Facts about finite data that the proofs of the components rest on.      *)
(*                                                                         *)
(* Induction over data is by least counterexample: the naturals are        *)
(* well-founded, so a set of them that is not empty has a least element,   *)
(* and the least counterexample is shown to be none.                       *)
(***************************************************************************)
EXTENDS Subsequences, SequencesExt, FiniteSetTheorems, TLAPS

Less == {p \in Nat \X Nat : p[1] < p[2]}

LEMMA LessIsWellFounded == IsWellFoundedOn(Less, Nat)
<1>1. OpToRel(<, Nat) = Less  BY DEF OpToRel, Less
<1> QED BY <1>1, NatLessThanWellFounded

(* A set of naturals has a least element.                                  *)
LEMMA LeastElement ==
    ASSUME NEW S, S \subseteq Nat, S # {}
    PROVE  \E n \in S : \A m \in S : n <= m
<1>1. PICK n \in S : \A m \in S : <<m, n>> \notin Less
  BY LessIsWellFounded, WFMin
<1>2. ASSUME NEW m \in S, m < n PROVE <<m, n>> \in Less
  <2>1. <<m, n>> \in Nat \X Nat  OBVIOUS
  <2> QED BY <2>1, <1>2 DEF Less
<1>3. \A m \in S : ~(m < n)  BY <1>1, <1>2
<1> QED BY <1>3

-----------------------------------------------------------------------------
(* Kept.                                                                   *)

(* g does what the recursive function of Kept does, up to the k-th entry.  *)
Keeps(g, seq, wanted, k) ==
    g = [n \in 0..k |->
            IF n = 0 THEN <<>>
            ELSE IF seq[n] \in wanted THEN Append(g[n - 1], seq[n])
            ELSE g[n - 1]]

LEMMA KeepsExists ==
    ASSUME NEW S, NEW seq \in Seq(S), NEW wanted, NEW k \in 0..Len(seq)
    PROVE  \E g : Keeps(g, seq, wanted, k)
<1> DEFINE Bad == {n \in 0..Len(seq) : ~\E g : Keeps(g, seq, wanted, n)}
<1>1. SUFFICES ASSUME Bad # {} PROVE FALSE  OBVIOUS
<1>2. PICK n \in Bad : \A m \in Bad : n <= m
  <2>1. Bad \subseteq Nat  OBVIOUS
  <2> HIDE DEF Bad
  <2> QED BY <1>1, <2>1, LeastElement
<1>3. CASE n = 0
  <2>1. Keeps([i \in 0..0 |-> <<>>], seq, wanted, 0)  BY DEF Keeps
  <2> QED BY <1>2, <1>3, <2>1
<1>4. CASE n # 0
  <2>1. n - 1 \in 0..Len(seq) /\ n - 1 \notin Bad  BY <1>2, <1>4
  <2>2. PICK g : Keeps(g, seq, wanted, n - 1)  BY <2>1
  <2> DEFINE last == IF seq[n] \in wanted THEN Append(g[n - 1], seq[n])
                     ELSE g[n - 1]
             h == [i \in 0..n |-> IF i = n THEN last ELSE g[i]]
  <2>3. ASSUME NEW i \in 0..n
        PROVE  h[i] = IF i = 0 THEN <<>>
                      ELSE IF seq[i] \in wanted THEN Append(h[i - 1], seq[i])
                      ELSE h[i - 1]
    <3>1. CASE i = n  BY <3>1, <1>4
    <3>2. CASE i # n
      <4>1. h[i] = g[i] /\ (i # 0 => h[i - 1] = g[i - 1])  BY <3>2
      <4>2. i \in 0..(n - 1)  BY <3>2
      <4> HIDE DEF h
      <4> QED BY <2>2, <4>1, <4>2 DEF Keeps
    <3> QED BY <3>1, <3>2
  <2>4. Keeps(h, seq, wanted, n)
    <3> HIDE DEF last
    <3> QED BY <2>3 DEF Keeps
  <2> QED BY <2>4, <1>2
<1> QED BY <1>3, <1>4

(* What is kept of the first k entries: those that are wanted, each as     *)
(* often as it was there.                                                  *)
Selects(kept, seq, wanted, k, S) ==
    /\ kept \in Seq(S)
    /\ ToSet(kept) = {seq[i] : i \in 1..k} \cap wanted
    /\ IsInjective(seq) => IsInjective(kept)

LEMMA KeepsSelects ==
    ASSUME NEW S, NEW seq \in Seq(S), NEW wanted, NEW g,
           Keeps(g, seq, wanted, Len(seq)), NEW k \in 0..Len(seq)
    PROVE  Selects(g[k], seq, wanted, k, S)
<1> DEFINE Bad == {n \in 0..Len(seq) : ~Selects(g[n], seq, wanted, n, S)}
<1>1. SUFFICES ASSUME Bad # {} PROVE FALSE  OBVIOUS
<1>2. PICK n \in Bad : \A m \in Bad : n <= m
  <2>1. Bad \subseteq Nat  OBVIOUS
  <2> HIDE DEF Bad
  <2> QED BY <1>1, <2>1, LeastElement
<1>3. CASE n = 0
  <2>1. g[n] = <<>>  BY <1>3 DEF Keeps
  <2>2. Selects(<<>>, seq, wanted, 0, S)
    BY DEF Selects, ToSet, IsInjective
  <2> QED BY <1>2, <1>3, <2>1, <2>2
<1>4. CASE n # 0
  <2>1. n - 1 \in 0..Len(seq) /\ n - 1 \notin Bad  BY <1>2, <1>4
  <2>2. Selects(g[n - 1], seq, wanted, n - 1, S)  BY <2>1
  <2>3. n \in 1..Len(seq) /\ seq[n] \in S  BY <1>4
  <2>4. g[n] = IF seq[n] \in wanted THEN Append(g[n - 1], seq[n])
               ELSE g[n - 1]
    BY <1>4 DEF Keeps
  <2>5. {seq[i] : i \in 1..n} = {seq[i] : i \in 1..(n - 1)} \cup {seq[n]}
    BY <2>3
  <2>6. CASE seq[n] \notin wanted
    BY <2>2, <2>4, <2>5, <2>6, <1>2 DEF Selects
  <2>7. CASE seq[n] \in wanted
    <3> DEFINE old == g[n - 1]
    <3>1. g[n] = Append(old, seq[n]) /\ old \in Seq(S)
      BY <2>2, <2>4, <2>7 DEF Selects
    <3> HIDE DEF old
    <3>2. g[n] \in Seq(S) /\ DOMAIN g[n] = 1..(Len(old) + 1)
          /\ g[n][Len(old) + 1] = seq[n]
          /\ \A i \in 1..Len(old) : g[n][i] = old[i]
      BY <3>1, <2>3
    <3>3. ToSet(g[n]) = ToSet(old) \cup {seq[n]}
      <4>1. Len(old) \in Nat /\ DOMAIN old = 1..Len(old)  BY <3>1
      <4>2. \A y : y \in ToSet(g[n]) <=> y \in ToSet(old) \/ y = seq[n]
        BY <4>1, <3>2 DEF ToSet
      <4> QED BY <4>2
    <3>4. ToSet(g[n]) = {seq[i] : i \in 1..n} \cap wanted
      BY <3>3, <2>2, <2>5, <2>7 DEF Selects, old
    <3>5. ASSUME IsInjective(seq) PROVE IsInjective(g[n])
      <4>1. seq[n] \notin ToSet(old)
        BY <3>5, <2>2, <2>3 DEF Selects, old, IsInjective
      <4>2. IsInjective(old)  BY <3>5, <2>2 DEF Selects, old
      <4> QED BY <4>1, <4>2, <3>1, <3>2 DEF IsInjective, ToSet
    <3> QED BY <3>2, <3>4, <3>5, <1>2 DEF Selects
  <2> QED BY <2>6, <2>7
<1> QED BY <1>3, <1>4

(* Kept returns the wanted entries, no others, and none twice that seq has *)
(* once.                                                                   *)
LEMMA KeptSelects ==
    ASSUME NEW S, NEW seq \in Seq(S), NEW wanted
    PROVE  /\ Kept(seq, wanted) \in Seq(S)
           /\ ToSet(Kept(seq, wanted)) = ToSet(seq) \cap wanted
           /\ IsInjective(seq) => IsInjective(Kept(seq, wanted))
<1>1. PICK g : Keeps(g, seq, wanted, Len(seq))
               /\ Kept(seq, wanted) = g[Len(seq)]
  <2>1. Len(seq) \in 0..Len(seq)  OBVIOUS
  <2>2. \E g : Keeps(g, seq, wanted, Len(seq))  BY <2>1, KeepsExists
  <2> QED BY <2>2 DEF Kept, Keeps
<1>2. Selects(g[Len(seq)], seq, wanted, Len(seq), S)
  <2>1. Len(seq) \in 0..Len(seq)  OBVIOUS
  <2> QED BY <1>1, <2>1, KeepsSelects
<1>3. ToSet(seq) = {seq[i] : i \in 1..Len(seq)}  BY DEF ToSet
<1> QED BY <1>1, <1>2, <1>3 DEF Selects

-----------------------------------------------------------------------------
(* Sequences one after the other.                                          *)

LEMMA ConcatAt ==
    ASSUME NEW S, NEW s \in Seq(S), NEW t \in Seq(S)
    PROVE  /\ s \o t \in Seq(S) /\ DOMAIN (s \o t) = 1..(Len(s) + Len(t))
           /\ \A i \in 1..(Len(s) + Len(t)) : (s \o t)[i] \in S
           /\ \A i \in 1..Len(s) : (s \o t)[i] = s[i]
           /\ \A i \in 1..Len(t) : (s \o t)[Len(s) + i] = t[i]
OBVIOUS

LEMMA ConcatSets ==
    ASSUME NEW S, NEW s \in Seq(S), NEW t \in Seq(S)
    PROVE  /\ s \o t \in Seq(S)
           /\ ToSet(s \o t) = ToSet(s) \cup ToSet(t)
           /\ IsInjective(s \o t) <=>
                 /\ IsInjective(s) /\ IsInjective(t)
                 /\ ToSet(s) \cap ToSet(t) = {}
<1> DEFINE m == Len(s)
           n == Len(t)
           u == s \o t
<1>1. /\ m \in Nat /\ n \in Nat /\ u \in Seq(S) /\ DOMAIN u = 1..(m + n)
      /\ DOMAIN s = 1..m /\ DOMAIN t = 1..n
  OBVIOUS
<1>2. \A i \in 1..m : u[i] = s[i]  OBVIOUS
<1>3. \A i \in 1..n : u[m + i] = t[i]  OBVIOUS
<1>4. \A i \in 1..(m + n) : i \in 1..m \/ \E j \in 1..n : i = m + j
  <2> SUFFICES ASSUME NEW i \in 1..(m + n), i \notin 1..m
               PROVE  \E j \in 1..n : i = m + j
    OBVIOUS
  <2>1. i - m \in 1..n /\ i = m + (i - m)  BY <1>1
  <2> QED BY <2>1
<1> HIDE DEF m, n, u
<1>5. ToSet(u) = ToSet(s) \cup ToSet(t)
  <2>1. ASSUME NEW i \in 1..(m + n) PROVE u[i] \in ToSet(s) \cup ToSet(t)
    <3>1. CASE i \in 1..m  BY <3>1, <1>1, <1>2 DEF ToSet
    <3>2. CASE \E j \in 1..n : i = m + j  BY <3>2, <1>1, <1>3 DEF ToSet
    <3> QED BY <3>1, <3>2, <1>4
  <2>2. \A i \in 1..m : i \in 1..(m + n)  BY <1>1
  <2>3. \A i \in 1..n : m + i \in 1..(m + n)  BY <1>1
  <2>4. ToSet(s) \subseteq ToSet(u)  BY <1>1, <1>2, <2>2 DEF ToSet
  <2>5. ToSet(t) \subseteq ToSet(u)  BY <1>1, <1>3, <2>3 DEF ToSet
  <2>6. ToSet(u) \subseteq ToSet(s) \cup ToSet(t)
    <3>1. \A x \in ToSet(u) : \E i \in 1..(m + n) : x = u[i]
      BY <1>1 DEF ToSet
    <3> QED BY <2>1, <3>1
  <2> QED BY <2>4, <2>5, <2>6
<1>6. ASSUME IsInjective(u)
      PROVE  IsInjective(s) /\ IsInjective(t) /\ ToSet(s) \cap ToSet(t) = {}
  <2>1. \A i \in 1..m : i \in 1..(m + n)  BY <1>1
  <2>2. \A i \in 1..n : m + i \in 1..(m + n)  BY <1>1
  <2>3. IsInjective(s)  BY <1>1, <1>2, <1>6, <2>1 DEF IsInjective
  <2>4. ASSUME NEW i \in 1..n, NEW j \in 1..n, t[i] = t[j] PROVE i = j
    <3>1. u[m + i] = u[m + j]  BY <1>3, <2>4
    <3>2. m + i = m + j  BY <3>1, <1>1, <1>6, <2>2 DEF IsInjective
    <3> QED BY <3>2, <1>1
  <2>5. IsInjective(t)  BY <1>1, <2>4 DEF IsInjective
  <2>6. ASSUME NEW i \in 1..m, NEW j \in 1..n PROVE s[i] # t[j]
    <3>1. i # m + j  BY <1>1
    <3> QED BY <3>1, <1>1, <1>2, <1>3, <1>6, <2>1, <2>2 DEF IsInjective
  <2>7. ToSet(s) \cap ToSet(t) = {}  BY <1>1, <2>6 DEF ToSet
  <2> QED BY <2>3, <2>5, <2>7
<1>7. ASSUME IsInjective(s), IsInjective(t), ToSet(s) \cap ToSet(t) = {}
      PROVE  IsInjective(u)
  <2>1. \A i \in 1..m, j \in 1..n : s[i] # t[j]
    BY <1>1, <1>7 DEF ToSet
  <2>2. SUFFICES ASSUME NEW i \in 1..(m + n), NEW j \in 1..(m + n),
                        u[i] = u[j]
                 PROVE  i = j
    BY <1>1 DEF IsInjective
  <2>3. CASE i \in 1..m /\ j \in 1..m
    BY <2>2, <2>3, <1>1, <1>2, <1>7 DEF IsInjective
  <2>4. CASE i \notin 1..m /\ j \notin 1..m
    <3>1. PICK k \in 1..n, l \in 1..n : i = m + k /\ j = m + l
      BY <2>4, <1>4
    <3>2. t[k] = t[l]  BY <2>2, <3>1, <1>3
    <3>3. k = l  BY <3>2, <1>1, <1>7 DEF IsInjective
    <3> QED BY <3>1, <3>3
  <2>5. CASE i \in 1..m /\ j \notin 1..m
    BY <2>1, <2>2, <2>5, <1>2, <1>3, <1>4
  <2>6. CASE i \notin 1..m /\ j \in 1..m
    BY <2>1, <2>2, <2>6, <1>2, <1>3, <1>4
  <2> QED BY <2>3, <2>4, <2>5, <2>6
<1> QED BY <1>1, <1>5, <1>6, <1>7 DEF u

(* g does what the recursive function of FlattenSeq does.                  *)
Flattens(g, seqs, k) ==
    g = [i \in 1..k |-> IF i = 1 THEN seqs[i] ELSE g[i - 1] \o seqs[i]]

LEMMA FlattensExists ==
    ASSUME NEW S, NEW seqs \in Seq(S), NEW k \in 1..Len(seqs)
    PROVE  \E g : Flattens(g, seqs, k)
<1> DEFINE Bad == {n \in 1..Len(seqs) : ~\E g : Flattens(g, seqs, n)}
<1>1. SUFFICES ASSUME Bad # {} PROVE FALSE  OBVIOUS
<1>2. PICK n \in Bad : \A m \in Bad : n <= m
  <2>1. Bad \subseteq Nat  OBVIOUS
  <2> HIDE DEF Bad
  <2> QED BY <1>1, <2>1, LeastElement
<1>3. CASE n = 1
  <2>1. Flattens([i \in 1..1 |-> seqs[i]], seqs, 1)  BY DEF Flattens
  <2> QED BY <1>2, <1>3, <2>1
<1>4. CASE n # 1
  <2>1. n - 1 \in 1..Len(seqs) /\ n - 1 \notin Bad  BY <1>2, <1>4
  <2>2. PICK g : Flattens(g, seqs, n - 1)  BY <2>1
  <2> DEFINE last == g[n - 1] \o seqs[n]
             h == [i \in 1..n |-> IF i = n THEN last ELSE g[i]]
  <2>3. ASSUME NEW i \in 1..n
        PROVE  h[i] = IF i = 1 THEN seqs[i] ELSE h[i - 1] \o seqs[i]
    <3>1. CASE i = n
      <4> HIDE DEF last
      <4>1. h[i] = last /\ h[i - 1] = g[i - 1]  BY <3>1, <1>4
      <4> HIDE DEF h
      <4> QED BY <3>1, <4>1, <1>4 DEF last
    <3>2. CASE i # n
      <4>1. h[i] = g[i] /\ (i # 1 => h[i - 1] = g[i - 1])  BY <3>2
      <4>2. i \in 1..(n - 1)  BY <3>2
      <4> HIDE DEF h
      <4> QED BY <2>2, <4>1, <4>2 DEF Flattens
    <3> QED BY <3>1, <3>2
  <2>4. Flattens(h, seqs, n)
    <3> HIDE DEF last
    <3> QED BY <2>3 DEF Flattens
  <2> QED BY <2>4, <1>2
<1> QED BY <1>3, <1>4

LEMMA FlattensStep ==
    ASSUME NEW g, NEW seqs, NEW k \in Nat, Flattens(g, seqs, k), NEW i \in 1..k
    PROVE  g[i] = IF i = 1 THEN seqs[i] ELSE g[i - 1] \o seqs[i]
BY Zenon DEF Flattens

LEMMA FlattenSeqUnfolds ==
    ASSUME NEW S, NEW seqs \in Seq(S), Len(seqs) # 0
    PROVE  \E g : Flattens(g, seqs, Len(seqs))
                  /\ FlattenSeq(seqs) = g[Len(seqs)]
<1>1. Len(seqs) \in 1..Len(seqs)  OBVIOUS
<1>2. \E g : Flattens(g, seqs, Len(seqs))  BY <1>1, FlattensExists
<1> QED BY Zenon, <1>2 DEF FlattenSeq, Flattens

(* What is appended to a list of sequences comes last in the flat one.     *)
LEMMA FlattenAppend ==
    ASSUME NEW S, NEW seqs \in Seq(Seq(S)), NEW e \in Seq(S)
    PROVE  FlattenSeq(Append(seqs, e)) = FlattenSeq(seqs) \o e
<1> DEFINE n == Len(seqs)
           more == Append(seqs, e)
<1>1. /\ n \in Nat /\ more \in Seq(Seq(S)) /\ Len(more) = n + 1
      /\ more[n + 1] = e /\ \A i \in 1..n : more[i] = seqs[i]
  OBVIOUS
<1>2. seqs \in Seq(Seq(S)) /\ (n = 0 => seqs = <<>>)  OBVIOUS
<1> HIDE DEF n, more
<1>3. PICK h : Flattens(h, more, n + 1) /\ FlattenSeq(more) = h[n + 1]
  <2>1. Len(more) # 0  BY <1>1
  <2>2. \E h : Flattens(h, more, Len(more)) /\ FlattenSeq(more) = h[Len(more)]
    BY <1>1, <2>1, FlattenSeqUnfolds
  <2> QED BY <1>1, <2>2
<1>4. CASE n = 0
  <2>1. FlattenSeq(seqs) = <<>>  BY <1>2, <1>4 DEF FlattenSeq, n
  <2>2. h[n + 1] = e  BY <1>1, <1>3, <1>4 DEF Flattens
  <2>3. <<>> \o e = e  OBVIOUS
  <2> QED BY <1>3, <2>1, <2>2, <2>3 DEF more
<1>5. CASE n # 0
  <2>3. PICK g : Flattens(g, seqs, n) /\ FlattenSeq(seqs) = g[n]
    BY <1>2, <1>5, FlattenSeqUnfolds DEF n
  <2>4. \A i \in 1..n : g[i] = h[i]
    <3> DEFINE Bad == {i \in 1..n : g[i] # h[i]}
    <3>1. SUFFICES ASSUME Bad # {} PROVE FALSE  OBVIOUS
    <3>2. PICK i \in Bad : \A m \in Bad : i <= m
      <4>1. Bad \subseteq Nat  BY <1>1
      <4> HIDE DEF Bad
      <4> QED BY <3>1, <4>1, LeastElement
    <3>3. i \in 1..n /\ i \in 1..(n + 1) /\ n + 1 \in Nat /\ seqs[i] = more[i]
      BY <1>1, <3>2
    <3>4. g[i] = IF i = 1 THEN seqs[i] ELSE g[i - 1] \o seqs[i]
      BY <1>1, <2>3, <3>3, FlattensStep
    <3>5. h[i] = IF i = 1 THEN more[i] ELSE h[i - 1] \o more[i]
      BY <1>3, <3>3, FlattensStep
    <3>6. CASE i = 1  BY <3>2, <3>3, <3>4, <3>5, <3>6
    <3>7. CASE i # 1
      <4>1. i - 1 \in 1..n /\ i - 1 \notin Bad  BY <1>1, <3>2, <3>7
      <4>2. g[i - 1] = h[i - 1]  BY <4>1
      <4>3. g[i - 1] \o seqs[i] = h[i - 1] \o more[i]  BY <3>3, <4>2
      <4> QED BY <3>2, <3>4, <3>5, <3>7, <4>3
    <3> QED BY <3>6, <3>7
  <2>5. h[n + 1] = h[n] \o more[n + 1]
    <3>1. n + 1 \in Nat /\ n + 1 \in 1..(n + 1) /\ n + 1 # 1
          /\ (n + 1) - 1 = n
      BY <1>1, <1>5
    <3>2. h[n + 1] = h[(n + 1) - 1] \o more[n + 1]
      BY <1>3, <3>1, FlattensStep
    <3> QED BY <3>1, <3>2
  <2>6. n \in 1..n  BY <1>1, <1>5
  <2> QED BY <1>1, <1>3, <2>3, <2>4, <2>5, <2>6 DEF more
<1> QED BY <1>4, <1>5

(* What a flat sequence says of its parts.                                 *)
LEMMA FlattenParts ==
    ASSUME NEW S, NEW seqs \in Seq(Seq(S)), Len(seqs) # 0
    PROVE  /\ FlattenSeq(seqs) \in Seq(S)
           /\ ToSet(FlattenSeq(seqs))
                 = UNION {ToSet(seqs[i]) : i \in 1..Len(seqs)}
           /\ IsInjective(FlattenSeq(seqs)) <=>
                 /\ \A i \in 1..Len(seqs) : IsInjective(seqs[i])
                 /\ \A i, j \in 1..Len(seqs) :
                       i # j => ToSet(seqs[i]) \cap ToSet(seqs[j]) = {}
<1> DEFINE n == Len(seqs)
           Whole(s, k) == ToSet(s) = UNION {ToSet(seqs[i]) : i \in 1..k}
           Apart(s, k) == IsInjective(s) <=>
                 /\ \A i \in 1..k : IsInjective(seqs[i])
                 /\ \A i, j \in 1..k :
                       i # j => ToSet(seqs[i]) \cap ToSet(seqs[j]) = {}
           Good(s, k) == s \in Seq(S) /\ Whole(s, k) /\ Apart(s, k)
<1>1. n \in Nat \ {0} /\ \A i \in 1..n : seqs[i] \in Seq(S)  OBVIOUS
<1>2. PICK g : Flattens(g, seqs, n) /\ FlattenSeq(seqs) = g[n]
  BY FlattenSeqUnfolds
<1> HIDE DEF n
<1> DEFINE Bad == {k \in 1..n : ~Good(g[k], k)}
<1>3. Bad = {}
  <2>1. SUFFICES ASSUME Bad # {} PROVE FALSE  OBVIOUS
  <2>2. PICK k \in Bad : \A m \in Bad : k <= m
    <3>1. Bad \subseteq Nat  BY <1>1
    <3> HIDE DEF Bad
    <3> QED BY <2>1, <3>1, LeastElement
  <2>3. g[k] = IF k = 1 THEN seqs[k] ELSE g[k - 1] \o seqs[k]
    BY <1>1, <1>2, <2>2, FlattensStep
  <2>4. CASE k = 1
    <3>1. g[k] = seqs[1] /\ seqs[1] \in Seq(S)  BY <1>1, <2>3, <2>4
    <3>2. \A i : i \in 1..1 <=> i = 1  OBVIOUS
    <3>3. Good(seqs[1], 1)  BY <3>1, <3>2
    <3> QED BY <2>2, <2>4, <3>1, <3>3
  <2>5. CASE k # 1
    <3>1. k - 1 \in 1..n /\ k - 1 \notin Bad /\ k \in 1..n
      <4> HIDE DEF Good
      <4> QED BY <1>1, <2>2, <2>5
    <3> DEFINE old == g[k - 1]
    <3>2. Good(old, k - 1)  BY <3>1
    <3>3. g[k] = old \o seqs[k] /\ old \in Seq(S) /\ seqs[k] \in Seq(S)
      BY <1>1, <2>3, <2>5, <3>1, <3>2
    <3> HIDE DEF old
    <3>4. /\ g[k] \in Seq(S)
          /\ ToSet(g[k]) = ToSet(old) \cup ToSet(seqs[k])
          /\ IsInjective(g[k]) <=>
                /\ IsInjective(old) /\ IsInjective(seqs[k])
                /\ ToSet(old) \cap ToSet(seqs[k]) = {}
      BY <3>3, ConcatSets
    <3>5. \A i : i \in 1..k <=> i \in 1..(k - 1) \/ i = k  BY <3>1
    <3>6. Whole(g[k], k)
      <4>1. ToSet(old) = UNION {ToSet(seqs[i]) : i \in 1..(k - 1)}
        BY <3>2
      <4>2. UNION {ToSet(seqs[i]) : i \in 1..k}
               = (UNION {ToSet(seqs[i]) : i \in 1..(k - 1)}) \cup ToSet(seqs[k])
        BY <3>5
      <4> QED BY <3>4, <4>1, <4>2
    <3>7. ASSUME IsInjective(g[k])
          PROVE  /\ \A i \in 1..k : IsInjective(seqs[i])
                 /\ \A i, j \in 1..k : i # j =>
                       ToSet(seqs[i]) \cap ToSet(seqs[j]) = {}
      <4>2. \A i \in 1..k : IsInjective(seqs[i])
        BY <3>2, <3>4, <3>5, <3>7
      <4>3. \A i \in 1..(k - 1) : ToSet(seqs[i]) \subseteq ToSet(old)
        BY <3>2
      <4>4. \A i \in 1..(k - 1) : ToSet(seqs[i]) \cap ToSet(seqs[k]) = {}
        BY <3>4, <3>7, <4>3
      <4>5. \A i, j \in 1..(k - 1) :
               i # j => ToSet(seqs[i]) \cap ToSet(seqs[j]) = {}
        BY <3>2, <3>4, <3>7
      <4>6. ASSUME NEW i \in 1..k, NEW j \in 1..k, i # j
            PROVE  ToSet(seqs[i]) \cap ToSet(seqs[j]) = {}
        <5>1. CASE i = k  BY <3>5, <4>4, <4>6, <5>1
        <5>2. CASE j = k  BY <3>5, <4>4, <4>6, <5>2
        <5>3. CASE i # k /\ j # k  BY <3>5, <4>5, <4>6, <5>3
        <5> QED BY <5>1, <5>2, <5>3
      <4> QED BY <4>2, <4>6
    <3>8. ASSUME /\ \A i \in 1..k : IsInjective(seqs[i])
                 /\ \A i, j \in 1..k : i # j =>
                       ToSet(seqs[i]) \cap ToSet(seqs[j]) = {}
          PROVE  IsInjective(g[k])
      <4>1. IsInjective(old)  BY <3>2, <3>5, <3>8
      <4>2. IsInjective(seqs[k]) /\ \A i \in 1..(k - 1) : i # k
        BY <3>5, <3>8
      <4>3. \A i \in 1..(k - 1) : ToSet(seqs[i]) \cap ToSet(seqs[k]) = {}
        BY <3>5, <3>8, <4>2
      <4>4. ToSet(old) \cap ToSet(seqs[k]) = {}  BY <3>2, <4>3
      <4> QED BY <3>4, <4>1, <4>2, <4>4
    <3>9. Apart(g[k], k)  BY <3>7, <3>8
    <3> QED BY <2>2, <3>4, <3>6, <3>9
  <2> QED BY <2>4, <2>5
<1>4. Good(g[n], n)
  <2>1. n \in 1..n  BY <1>1
  <2> HIDE DEF Good
  <2> QED BY <1>3, <2>1
<1> QED BY <1>2, <1>4 DEF n

(* A set put in any order.                                                 *)
LEMMA SeqsOfSet ==
    ASSUME NEW S, IsFiniteSet(S), NEW seq \in SetToSeqs(S)
    PROVE  /\ seq \in Seq(S) /\ Len(seq) = Cardinality(S)
           /\ IsInjective(seq) /\ ToSet(seq) = S
<1> DEFINE n == Cardinality(S)
<1>1. n \in Nat  BY FS_CardinalityType
<1>2. seq \in [1..n -> S] /\ \A i, j \in 1..n : i # j => seq[i] # seq[j]
  BY DEF SetToSeqs
<1> HIDE DEF n
<1>3. DOMAIN seq = 1..n /\ seq \in Seq(S) /\ Len(seq) = n  BY <1>1, <1>2
<1>4. IsInjective(seq)  BY <1>2, <1>3 DEF IsInjective
<1>5. seq \in Surjection(1..n, S)
  <2>1. IsFiniteSet(1..n) /\ Cardinality(1..n) = n  BY <1>1, FS_Interval
  <2>2. seq \in Injection(1..n, S)  BY <1>2, <1>4 DEF Injection
  <2> QED BY <2>1, <2>2, FS_Injection DEF n
<1>6. ToSet(seq) = S  BY <1>3, <1>5 DEF ToSet, Surjection
<1> QED BY <1>3, <1>4, <1>6 DEF n

(* What Append does, of a sequence by any name.                            *)
LEMMA AppendAt ==
    ASSUME NEW S, NEW s \in Seq(S), NEW x \in S, NEW t, t = Append(s, x)
    PROVE  /\ t \in Seq(S) /\ DOMAIN t = 1..(Len(s) + 1)
           /\ t[Len(s) + 1] = x
           /\ \A k \in 1..Len(s) : t[k] = s[k]
OBVIOUS

LEMMA SecondOf ==
    ASSUME NEW r, NEW s PROVE Append(<<r>>, s) = <<r, s>>
<1> DEFINE S == {r, s}
           t == Append(<<r>>, s)
<1>1. <<r>> \in Seq(S) /\ s \in S  OBVIOUS
<1> HIDE DEF S, t
<1>2. t \in Seq(S) /\ DOMAIN t = 1..2 /\ t[2] = s /\ t[1] = r
  BY <1>1, AppendAt DEF t
<1>3. t = <<r, s>>  BY <1>2
<1> QED BY <1>3 DEF t

(* A sequence without repetitions is its head and the rest.                *)
LEMMA HeadAndTail ==
    ASSUME NEW S, NEW s \in Seq(S), s # <<>>, IsInjective(s)
    PROVE  /\ Head(s) \in S /\ Tail(s) \in Seq(S) /\ IsInjective(Tail(s))
           /\ ToSet(s) = {Head(s)} \cup ToSet(Tail(s))
           /\ Head(s) \notin ToSet(Tail(s))
<1> DEFINE n == Len(s)
           t == Tail(s)
<1>1. /\ n \in Nat \ {0} /\ DOMAIN s = 1..n /\ Head(s) = s[1] /\ s[1] \in S
      /\ t \in Seq(S) /\ DOMAIN t = 1..(n - 1)
      /\ \A i \in 1..(n - 1) : t[i] = s[i + 1]
  OBVIOUS
<1> HIDE DEF n, t
<1>2. \A i \in 1..(n - 1) : i + 1 \in 1..n /\ i + 1 # 1  BY <1>1
<1>3. \A i \in 1..n : i = 1 \/ (i - 1 \in 1..(n - 1) /\ i = (i - 1) + 1)
  BY <1>1
<1>4. \A i, j \in 1..n : s[i] = s[j] => i = j  BY <1>1 DEF IsInjective
<1>5. s[1] \notin ToSet(t)
  <2>1. 1 \in 1..n  BY <1>1
  <2> QED BY <2>1, <1>1, <1>2, <1>4 DEF ToSet
<1>6. IsInjective(t)
  <2> SUFFICES ASSUME NEW i \in 1..(n - 1), NEW j \in 1..(n - 1), t[i] = t[j]
               PROVE  i = j
    BY <1>1 DEF IsInjective
  <2>1. i + 1 = j + 1  BY <1>1, <1>2, <1>4
  <2> QED BY <2>1
<1>7. ToSet(s) = {s[1]} \cup ToSet(t)
  <2>1. 1 \in 1..n  BY <1>1
  <2>2. ToSet(t) \subseteq ToSet(s)  BY <1>1, <1>2 DEF ToSet
  <2>3. ASSUME NEW i \in 1..n PROVE s[i] \in {s[1]} \cup ToSet(t)
    <3>1. CASE i = 1  BY <3>1
    <3>2. CASE i # 1
      <4>1. i - 1 \in 1..(n - 1) /\ t[i - 1] = s[i]  BY <3>2, <1>1, <1>3
      <4> QED BY <4>1, <1>1 DEF ToSet
    <3> QED BY <3>1, <3>2
  <2> QED BY <2>1, <2>2, <2>3, <1>1 DEF ToSet
<1> QED BY <1>1, <1>5, <1>6, <1>7 DEF t

-----------------------------------------------------------------------------
(* Finite sets of numbers.                                                 *)

(* Among finite sets, one has no smaller.                                  *)
LEMMA SmallestSet ==
    ASSUME NEW S, IsFiniteSet(S), NEW Bad \in SUBSET SUBSET S, Bad # {}
    PROVE  \E T \in Bad :
              /\ IsFiniteSet(T)
              /\ \A x \in T : IsFiniteSet(T \ {x}) /\ T \ {x} \notin Bad
<1> DEFINE sizes == {Cardinality(T) : T \in Bad}
<1>1. \A T \in Bad : IsFiniteSet(T) /\ Cardinality(T) \in Nat
  BY FS_Subset, FS_CardinalityType
<1>2. PICK n \in sizes : \A m \in sizes : n <= m
  <2>1. sizes \subseteq Nat /\ sizes # {}  BY <1>1
  <2> HIDE DEF sizes
  <2> QED BY <2>1, LeastElement
<1>3. PICK T \in Bad : Cardinality(T) = n  OBVIOUS
<1>4. ASSUME NEW x \in T PROVE IsFiniteSet(T \ {x}) /\ T \ {x} \notin Bad
  <2>1. IsFiniteSet(T \ {x}) /\ Cardinality(T \ {x}) = n - 1 /\ n \in Nat
    BY <1>1, <1>3, FS_RemoveElement
  <2>2. T \ {x} \in Bad => n <= n - 1  BY <1>2, <2>1
  <2> QED BY <2>1, <2>2
<1> QED BY <1>1, <1>4

(* A finite set of numbers has a greatest.                                 *)
LEMMA GreatestElement ==
    ASSUME NEW S \in SUBSET Int, IsFiniteSet(S), S # {}
    PROVE  \E x \in S : \A y \in S : y <= x
<1> DEFINE HasMax(T) == \E x \in T : \A y \in T : y <= x
           Bad == {T \in SUBSET S : T # {} /\ ~HasMax(T)}
<1>1. SUFFICES ASSUME Bad # {} PROVE FALSE
  <2>1. S \in SUBSET S  OBVIOUS
  <2> QED BY <2>1
<1>2. PICK T \in Bad : /\ IsFiniteSet(T)
                       /\ \A x \in T : IsFiniteSet(T \ {x}) /\ T \ {x} \notin Bad
  <2>1. Bad \in SUBSET SUBSET S  OBVIOUS
  <2> HIDE DEF Bad
  <2> QED BY <1>1, <2>1, SmallestSet
<1>3. T # {} /\ T \subseteq Int /\ ~HasMax(T)  BY <1>2
<1>4. PICK x : x \in T  BY <1>3
<1>5. CASE T \ {x} = {}
  <2>1. T = {x} /\ x <= x  BY <1>3, <1>4, <1>5
  <2> QED BY <2>1, <1>3
<1>6. CASE T \ {x} # {}
  <2>1. HasMax(T \ {x})  BY <1>2, <1>4, <1>6
  <2>2. PICK m \in T \ {x} : \A y \in T \ {x} : y <= m  BY <2>1
  <2>3. m \in Int /\ x \in Int  BY <1>3, <1>4
  <2>4. CASE x <= m
    <3>1. \A y \in T : y <= m  BY <2>2, <2>4
    <3> QED BY <3>1, <1>3
  <2>5. CASE m <= x
    <3>1. \A y \in T : y <= x  BY <2>2, <2>3, <2>5, <1>3
    <3> QED BY <3>1, <1>3, <1>4
  <2> QED BY <2>3, <2>4, <2>5
<1> QED BY <1>5, <1>6

Increases(f, S) ==
    /\ f \in [1..Cardinality(S) -> S]
    /\ \A i, j \in DOMAIN f : i < j => f[i] < f[j]

LEMMA IncreasesExists ==
    ASSUME NEW S \in SUBSET Int, IsFiniteSet(S)
    PROVE  \E f : Increases(f, S)
<1> DEFINE Bad == {T \in SUBSET S : ~\E f : Increases(f, T)}
<1>1. SUFFICES ASSUME Bad # {} PROVE FALSE
  <2>1. S \in SUBSET S  OBVIOUS
  <2> QED BY <2>1
<1>2. PICK T \in Bad : /\ IsFiniteSet(T)
                       /\ \A x \in T : IsFiniteSet(T \ {x}) /\ T \ {x} \notin Bad
  <2>1. Bad \in SUBSET SUBSET S  OBVIOUS
  <2> HIDE DEF Bad
  <2> QED BY <1>1, <2>1, SmallestSet
<1>3. T \subseteq Int /\ T \in SUBSET S  BY <1>2
<1>4. CASE T = {}
  <2>1. Increases([i \in 1..0 |-> 0], T)  BY <1>4, FS_EmptySet DEF Increases
  <2> QED BY <2>1, <1>2
<1>5. CASE T # {}
  <2>1. PICK m \in T : \A y \in T : y <= m
    BY <1>2, <1>3, <1>5, GreatestElement
  <2> DEFINE R == T \ {m}
             n == Cardinality(T)
  <2>2. R \in SUBSET S /\ R \notin Bad  BY <1>2, <1>3, <2>1
  <2>3. PICK f : Increases(f, R)  BY <2>2
  <2>4. Cardinality(R) = n - 1 /\ n \in Nat
    BY <1>2, <2>1, FS_RemoveElement, FS_CardinalityType
  <2> DEFINE h == [i \in 1..n |-> IF i = n THEN m ELSE f[i]]
  <2>5. n \in Nat \ {0}  BY <1>2, <1>5, <2>4, FS_EmptySet
  <2> HIDE DEF n
  <2>6. f \in [1..(n - 1) -> R]  BY <2>3, <2>4 DEF Increases
  <2>7. h \in [1..n -> T]
    <3>1. ASSUME NEW i \in 1..n, i # n PROVE f[i] \in R
      <4>1. i \in 1..(n - 1)  BY <2>5, <3>1
      <4> QED BY <4>1, <2>6
    <3> QED BY <3>1
  <2>8. ASSUME NEW i \in 1..n, NEW j \in 1..n, i < j PROVE h[i] < h[j]
    <3>1. i \in 1..(n - 1) /\ h[i] = f[i] /\ f[i] \in R  BY <2>5, <2>6, <2>8
    <3>2. CASE j = n
      <4>1. h[j] = m /\ f[i] # m /\ f[i] <= m /\ f[i] \in Int /\ m \in Int
        BY <3>1, <3>2, <2>1, <1>3
      <4> HIDE DEF h
      <4> QED BY <4>1, <3>1
    <3>3. CASE j # n
      <4>1. j \in 1..(n - 1) /\ h[j] = f[j]  BY <2>5, <3>3
      <4> HIDE DEF h
      <4> QED BY <4>1, <3>1, <2>3, <2>6, <2>8 DEF Increases
    <3> QED BY <3>2, <3>3
  <2> HIDE DEF h
  <2>9. Increases(h, T)  BY <2>7, <2>8 DEF Increases, n
  <2> QED BY <2>9, <1>2
<1> QED BY <1>4, <1>5

(* Ascending names every element of a finite set once, smallest first.     *)
LEMMA AscendingLists ==
    ASSUME NEW S \in SUBSET Int, IsFiniteSet(S)
    PROVE  /\ Ascending(S) \in Seq(S) /\ Len(Ascending(S)) = Cardinality(S)
           /\ ToSet(Ascending(S)) = S /\ IsInjective(Ascending(S))
           /\ \A i, j \in 1..Cardinality(S) :
                    i < j => Ascending(S)[i] < Ascending(S)[j]
<1> DEFINE f == Ascending(S)
           n == Cardinality(S)
<1>1. Increases(f, S)  BY IncreasesExists DEF Increases, Ascending
<1>2. n \in Nat  BY FS_CardinalityType
<1>3. f \in [1..n -> S] /\ \A i, j \in 1..n : i < j => f[i] < f[j]
  BY <1>1 DEF Increases
<1> HIDE DEF f, n
<1>4. f \in Seq(S) /\ Len(f) = n /\ DOMAIN f = 1..n  BY <1>2, <1>3
<1>5. ASSUME NEW i \in 1..n, NEW j \in 1..n, f[i] = f[j] PROVE i = j
  <2>1. f[i] \in Int /\ f[j] \in Int  BY <1>3
  <2>2. ~(f[i] < f[j]) /\ ~(f[j] < f[i])  BY <2>1, <1>5
  <2> QED BY <2>2, <1>2, <1>3
<1>6. IsInjective(f)  BY <1>4, <1>5 DEF IsInjective
<1>7. f \in Injection(1..n, S)  BY <1>3, <1>5 DEF Injection, IsInjective
<1>8. Cardinality(1..n) = n  BY <1>2, FS_Interval
<1>9. f \in Surjection(1..n, S)  BY <1>7, <1>8, FS_Injection DEF n
<1>10. ToSet(f) = S
  <2>1. \A x \in S : \E i \in 1..n : f[i] = x  BY <1>9 DEF Surjection
  <2> QED BY <2>1, <1>3, <1>4 DEF ToSet
<1> QED BY <1>3, <1>4, <1>6, <1>10 DEF f, n

(* Min is what it says, of numbers.                                        *)
LEMMA LeastIsMin ==
    ASSUME NEW S \in SUBSET Int, NEW best \in S, \A y \in S : best <= y
    PROVE  best = Min(S)
<1>1. Min(S) \in S /\ \A y \in S : Min(S) <= y BY DEF Min
<1>2. best <= Min(S) /\ Min(S) <= best BY <1>1
<1>3. best \in Int /\ Min(S) \in Int  BY <1>1
<1> HIDE DEF Min
<1> QED BY <1>2, <1>3

-----------------------------------------------------------------------------
(* The order of tuples.                                                    *)

Keys(n) == [1..n -> Int]

LEMMA PrecedesOneWay ==
    ASSUME NEW n \in Nat, NEW a \in Keys(n) PROVE ~Precedes(a, a)
<1>1. \A i \in 1..n : a[i] \in Int  BY DEF Keys
<1> QED BY <1>1 DEF Precedes, Keys

LEMMA PrecedesTotal ==
    ASSUME NEW n \in Nat, NEW a \in Keys(n), NEW b \in Keys(n), a # b
    PROVE  Precedes(a, b) \/ Precedes(b, a)
<1> DEFINE D == {i \in 1..n : a[i] # b[i]}
<1>1. D # {} /\ D \subseteq Nat  BY DEF Keys
<1>2. PICK i \in D : \A j \in D : i <= j
  <2> HIDE DEF D
  <2> QED BY <1>1, LeastElement
<1>3. \A j \in 1..(i - 1) : a[j] = b[j]
  <2> TAKE j \in 1..(i - 1)
  <2>1. j \in 1..n /\ ~(i <= j)  BY <1>2
  <2> QED BY <1>2, <2>1
<1>4. i \in DOMAIN a /\ i \in DOMAIN b /\ a[i] \in Int /\ b[i] \in Int
  BY <1>2 DEF Keys
<1>5. a[i] < b[i] \/ b[i] < a[i]  BY <1>2, <1>4
<1>6. \A j \in 1..(i - 1) : b[j] = a[j]  BY <1>3
<1> QED BY <1>3, <1>4, <1>5, <1>6 DEF Precedes

LEMMA PrecedesTransitive ==
    ASSUME NEW n \in Nat, NEW a \in Keys(n), NEW b \in Keys(n), NEW c \in Keys(n),
           Precedes(a, b), Precedes(b, c)
    PROVE  Precedes(a, c)
<1>1. PICK i \in 1..n : a[i] < b[i] /\ \A k \in 1..(i - 1) : a[k] = b[k]
  BY DEF Precedes, Keys
<1>2. PICK j \in 1..n : b[j] < c[j] /\ \A k \in 1..(j - 1) : b[k] = c[k]
  BY DEF Precedes, Keys
<1>3. \A k \in 1..n : a[k] \in Int /\ b[k] \in Int /\ c[k] \in Int  BY DEF Keys
<1>4. CASE i <= j
  <2>1. a[i] < c[i]
    <3>1. CASE i = j  BY <3>1, <1>1, <1>2, <1>3
    <3>2. CASE i < j
      <4>1. b[i] = c[i]  BY <3>2, <1>2
      <4> QED BY <4>1, <1>1
    <3> QED BY <3>1, <3>2, <1>4
  <2>2. \A k \in 1..(i - 1) : a[k] = c[k]  BY <1>1, <1>2, <1>4
  <2> QED BY <2>1, <2>2 DEF Precedes, Keys
<1>5. CASE j < i
  <2>1. a[j] < c[j]
    <3>1. a[j] = b[j]  BY <1>1, <1>5
    <3> QED BY <3>1, <1>2
  <2>2. \A k \in 1..(j - 1) : a[k] = c[k]  BY <1>1, <1>2, <1>5
  <2> QED BY <2>1, <2>2 DEF Precedes, Keys
<1> QED BY <1>4, <1>5

TellsApart(key, S, n) ==
    /\ key \in [S -> Keys(n)]
    /\ \A x, y \in S : x # y => key[x] # key[y]

(* min() finds one.                                                        *)
LEMMA FirstOf ==
    ASSUME NEW S, IsFiniteSet(S), S # {}, NEW n \in Nat, NEW key,
           TellsApart(key, S, n)
    PROVE  /\ FirstBy(S, key) \in S
           /\ \A y \in S \ {FirstBy(S, key)} :
                    Precedes(key[FirstBy(S, key)], key[y])
<1> DEFINE Leads(x, T) == \A y \in T \ {x} : Precedes(key[x], key[y])
           Bad == {T \in SUBSET S : T # {} /\ ~\E x \in T : Leads(x, T)}
<1>1. Bad = {}
  <2>1. SUFFICES ASSUME Bad # {} PROVE FALSE  OBVIOUS
  <2>2. Bad \in SUBSET SUBSET S  OBVIOUS
  <2>3. PICK T \in Bad : \A x \in T : T \ {x} \notin Bad
    <3> HIDE DEF Bad
    <3> QED BY <2>1, <2>2, SmallestSet
  <2>4. T \in SUBSET S /\ T # {} /\ ~\E x \in T : Leads(x, T)  OBVIOUS
  <2>5. PICK x \in T : TRUE  BY <2>4
  <2>6. CASE T \ {x} = {}
    <3>1. Leads(x, T)  BY <2>6
    <3> QED BY <3>1, <2>4, <2>5
  <2>7. CASE T \ {x} # {}
    <3>1. PICK y \in T \ {x} : Leads(y, T \ {x})
      <4>1. T \ {x} \in SUBSET S  BY <2>4
      <4> QED BY <4>1, <2>3, <2>7
    <3>2. /\ x \in S /\ y \in S /\ x # y
          /\ \A z \in T : key[z] \in Keys(n)
      BY <2>4, <3>1 DEF TellsApart
    <3>3. Precedes(key[x], key[y]) \/ Precedes(key[y], key[x])
      BY <3>2, <3>1, PrecedesTotal DEF TellsApart
    <3>4. CASE Precedes(key[y], key[x])
      <4>1. Leads(y, T)  BY <3>1, <3>4
      <4> QED BY <4>1, <2>4
    <3>5. CASE Precedes(key[x], key[y])
      <4>1. ASSUME NEW z \in T \ {x} PROVE Precedes(key[x], key[z])
        <5>1. CASE z = y  BY <5>1, <3>5
        <5>2. CASE z # y
          <6>1. Precedes(key[y], key[z])  BY <3>1, <5>2
          <6> QED BY <6>1, <3>5, <3>2, <3>1, PrecedesTransitive
        <5> QED BY <5>1, <5>2
      <4> QED BY <4>1, <2>4
    <3> QED BY <3>3, <3>4, <3>5
  <2> QED BY <2>6, <2>7
<1>2. \E x \in S : Leads(x, S)
  <2>1. S \in SUBSET S  OBVIOUS
  <2> QED BY <1>1, <2>1
<1> QED BY <1>2 DEF FirstBy

(* sorted() finds the one of each rank.                                    *)
LEMMA RankedLists ==
    ASSUME NEW S, IsFiniteSet(S), NEW n \in Nat, NEW key, TellsApart(key, S, n)
    PROVE  /\ Ranked(S, key) \in Seq(S) /\ Len(Ranked(S, key)) = Cardinality(S)
<1> DEFINE below == [x \in S |-> {y \in S : Precedes(key[y], key[x])}]
           rank == [x \in S |-> Cardinality(below[x])]
           size == Cardinality(S)
<1>1. size \in Nat /\ IsFiniteSet(0..(size - 1)) /\ Cardinality(0..(size - 1)) = size
  <2>1. size \in Nat  BY FS_CardinalityType
  <2> HIDE DEF size
  <2> QED BY <2>1, FS_Interval
<1>2. \A x \in S : key[x] \in Keys(n)  BY DEF TellsApart
<1>3. ASSUME NEW x \in S
      PROVE  /\ IsFiniteSet(below[x]) /\ rank[x] \in 0..(size - 1)
  <2>1. x \notin below[x]  BY <1>2, PrecedesOneWay
  <2>2. below[x] \in SUBSET (S \ {x})  BY <2>1
  <2>3. IsFiniteSet(S \ {x}) /\ Cardinality(S \ {x}) = size - 1
    BY FS_RemoveElement
  <2>4. IsFiniteSet(below[x]) /\ Cardinality(below[x]) <= size - 1
    <3> HIDE DEF below, size
    <3> QED BY <2>2, <2>3, FS_Subset
  <2>5. Cardinality(below[x]) \in Nat  BY <2>4, FS_CardinalityType
  <2>6. rank[x] = Cardinality(below[x])  OBVIOUS
  <2> HIDE DEF below, rank, size
  <2> QED BY <1>1, <2>4, <2>5, <2>6
<1>4. ASSUME NEW x \in S, NEW y \in S, Precedes(key[x], key[y])
      PROVE  rank[x] # rank[y]
  <2>1. below[x] \in SUBSET below[y]  BY <1>2, <1>4, PrecedesTransitive
  <2>2. x \in below[y] /\ x \notin below[x]  BY <1>2, <1>4, PrecedesOneWay
  <2>3. Cardinality(below[x]) # Cardinality(below[y])
    <3>1. below[x] # below[y]  BY <2>2
    <3>2. IsFiniteSet(below[y])  BY <1>3
    <3> HIDE DEF below
    <3> QED BY <2>1, <3>1, <3>2, FS_Subset
  <2> QED BY <2>3
<1>5. rank \in Injection(S, 0..(size - 1))
  <2>1. rank \in [S -> 0..(size - 1)]
    <3>1. rank = [x \in S |-> rank[x]]  OBVIOUS
    <3> HIDE DEF rank
    <3> QED BY <3>1, <1>3
  <2>2. ASSUME NEW x \in S, NEW y \in S, rank[x] = rank[y] PROVE x = y
    <3>1. SUFFICES ASSUME x # y PROVE FALSE  OBVIOUS
    <3>2. Precedes(key[x], key[y]) \/ Precedes(key[y], key[x])
      BY <1>2, <3>1, PrecedesTotal DEF TellsApart
    <3> HIDE DEF rank
    <3> QED BY <2>2, <3>2, <1>4
  <2> HIDE DEF rank
  <2> QED BY <2>1, <2>2 DEF Injection, IsInjective
<1>6. rank \in Surjection(S, 0..(size - 1))
  <2> HIDE DEF rank
  <2> QED BY <1>1, <1>5, FS_Injection
<1> DEFINE Nth(k) == CHOOSE x \in S :
                    Cardinality({y \in S : Precedes(key[y], key[x])}) = k - 1
<1>7. ASSUME NEW k \in 1..size
      PROVE  Nth(k) \in S
  <2>1. k - 1 \in 0..(size - 1)
    <3> HIDE DEF size
    <3> QED BY <1>1
  <2>2. \E x \in S : rank[x] = k - 1
    <3> HIDE DEF rank
    <3> QED BY <1>6, <2>1 DEF Surjection
  <2>3. \E x \in S : Cardinality({y \in S : Precedes(key[y], key[x])}) = k - 1
    BY <2>2
  <2> QED BY <2>3
<1>8. Ranked(S, key) \in [1..size -> S]
  <2>1. Ranked(S, key) = [k \in 1..size |-> Nth(k)]  BY DEF Ranked
  <2> HIDE DEF Nth, size
  <2> QED BY <2>1, <1>7
<1> HIDE DEF size
<1>9. Ranked(S, key) \in Seq(S) /\ Len(Ranked(S, key)) = size  BY <1>1, <1>8
<1> QED BY <1>9 DEF size

(* A list of each member of a set once is as long as the set is large.     *)
LEMMA LengthOfOnce ==
    ASSUME NEW S, NEW s \in Seq(S), IsInjective(s), ToSet(s) = S
    PROVE  IsFiniteSet(S) /\ Len(s) = Cardinality(S)
<1> DEFINE n == Len(s)
<1>1. n \in Nat /\ s \in [1..n -> S] /\ DOMAIN s = 1..n  OBVIOUS
<1> HIDE DEF n
<1>2. s \in Surjection(1..n, S)
  <2>1. ASSUME NEW x \in S PROVE \E i \in 1..n : s[i] = x
    BY <1>1 DEF ToSet
  <2> QED BY <1>1, <2>1 DEF Surjection
<1>3. s \in Injection(1..n, S)  BY <1>1 DEF Injection
<1>4. IsFiniteSet(1..n) /\ Cardinality(1..n) = n  BY <1>1, FS_Interval
<1>5. IsFiniteSet(S) /\ Cardinality(S) = Cardinality(1..n)
  BY <1>2, <1>3, <1>4, FS_Surjection
<1> QED BY <1>4, <1>5 DEF n

-----------------------------------------------------------------------------
(* Parts of a sequence.                                                    *)

LEMMA RangeIsSet == \A f : Range(f) = ToSet(f)
BY DEF Range, ToSet

Taken(s, b, l) == SubSeq(s, b + 1, b + l)

LEMMA TakenIs ==
    ASSUME NEW S, NEW s \in Seq(S), NEW b \in Nat, NEW l \in Nat,
           b + l <= Len(s)
    PROVE  /\ Taken(s, b, l) \in Seq(S) /\ Len(Taken(s, b, l)) = l
           /\ DOMAIN Taken(s, b, l) = 1..l
           /\ \A i \in 1..l : Taken(s, b, l)[i] = s[b + i]
BY DEF Taken

Upto(s, b) == SubSeq(s, 1, b)
Beyond(s, b) == SubSeq(s, b + 1, Len(s))

LEMMA UptoIs ==
    ASSUME NEW S, NEW s \in Seq(S), NEW b \in 0..Len(s)
    PROVE  /\ Upto(s, b) \in Seq(S) /\ Len(Upto(s, b)) = b
           /\ \A i \in 1..b : Upto(s, b)[i] = s[i]
BY DEF Upto

LEMMA BeyondIs ==
    ASSUME NEW S, NEW s \in Seq(S), NEW b \in 0..Len(s)
    PROVE  /\ Beyond(s, b) \in Seq(S) /\ Len(Beyond(s, b)) = Len(s) - b
           /\ \A i \in 1..(Len(s) - b) : Beyond(s, b)[i] = s[b + i]
<1>1. PICK n \in Nat : n = Len(s)  OBVIOUS
<1>2. b \in Nat /\ n - b \in Nat /\ b + (n - b) = n  BY <1>1
<1>3. PICK l \in Nat : l = n - b  BY <1>2
<1>4. b \in Nat /\ b + l = n /\ b + l <= Len(s)  BY <1>1, <1>2, <1>3
<1>5. Beyond(s, b) = Taken(s, b, l)  BY <1>1, <1>4 DEF Beyond, Taken
<1>6. /\ Taken(s, b, l) \in Seq(S) /\ Len(Taken(s, b, l)) = l
      /\ \A i \in 1..l : Taken(s, b, l)[i] = s[b + i]
  BY <1>4, TakenIs
<1> QED BY <1>1, <1>3, <1>5, <1>6

LEMMA ConcatLength ==
    ASSUME NEW S, NEW s \in Seq(S), NEW t \in Seq(S)
    PROVE  Len(s \o t) = Len(s) + Len(t)
OBVIOUS

(* Two sequences of the same length and entries are the same.              *)
LEMMA SameSeq ==
    ASSUME NEW S, NEW s \in Seq(S), NEW t \in Seq(S), Len(s) = Len(t),
           \A i \in 1..Len(s) : s[i] = t[i]
    PROVE  s = t
OBVIOUS

(* A sequence is its parts, one after the other.                           *)
LEMMA CutInTwo ==
    ASSUME NEW S, NEW s \in Seq(S), NEW b \in 0..Len(s)
    PROVE  s = Upto(s, b) \o Beyond(s, b)
<1>1. PICK n \in Nat : n = Len(s)  OBVIOUS
<1>2. b \in Nat /\ b <= n /\ n - b \in Nat /\ b + (n - b) = n  BY <1>1
<1>3. PICK head : head = Upto(s, b)  OBVIOUS
<1>4. PICK tail : tail = Beyond(s, b)  OBVIOUS
<1>5. head \in Seq(S) /\ Len(head) = b /\ \A i \in 1..b : head[i] = s[i]
  BY <1>3, UptoIs
<1>6. tail \in Seq(S) /\ Len(tail) = n - b
      /\ \A i \in 1..(n - b) : tail[i] = s[b + i]
  BY <1>1, <1>4, BeyondIs
<1>7. PICK u : u = head \o tail  OBVIOUS
<1>8. /\ u \in Seq(S) /\ DOMAIN u = 1..(Len(head) + Len(tail))
      /\ \A i \in 1..Len(head) : u[i] = head[i]
      /\ \A i \in 1..Len(tail) : u[Len(head) + i] = tail[i]
  <2>1. head \in Seq(S) /\ tail \in Seq(S)  BY <1>5, <1>6
  <2> QED BY <2>1, <1>7, ConcatAt
<1>9. /\ DOMAIN u = 1..n
      /\ \A i \in 1..b : u[i] = head[i]
      /\ \A i \in 1..(n - b) : u[b + i] = tail[i]
  BY <1>8, <1>2, <1>5, <1>6
<1>10. \A i \in 1..n : u[i] = s[i]
  <2> TAKE i \in 1..n
  <2>1. CASE i <= b  BY <2>1, <1>2, <1>5, <1>9
  <2>2. CASE ~(i <= b)
    <3>1. i - b \in 1..(n - b) /\ i = b + (i - b)  BY <2>2, <1>2
    <3>2. u[b + (i - b)] = s[b + (i - b)]  BY <3>1, <1>6, <1>9
    <3> QED BY <3>1, <3>2
  <2> QED BY <2>1, <2>2
<1>11. Len(u) = n  BY <1>8, <1>9
<1>12. u = s  BY <1>1, <1>8, <1>10, <1>11, SameSeq
<1> QED BY <1>3, <1>4, <1>7, <1>12

(* A string taken out of a list of different things: what is left and what *)
(* was taken share nothing and are all there was.                          *)
Rest(s, b, l) == SubSeq(s, 1, b) \o SubSeq(s, b + l + 1, Len(s))

LEMMA CutOut ==
    ASSUME NEW S, NEW s \in Seq(S), IsInjective(s),
           NEW b \in Nat, NEW l \in Nat, b + l <= Len(s)
    PROVE  /\ Taken(s, b, l) \in Seq(S) /\ IsInjective(Taken(s, b, l))
           /\ Len(Taken(s, b, l)) = l
           /\ Rest(s, b, l) \in Seq(S) /\ IsInjective(Rest(s, b, l))
           /\ Len(Rest(s, b, l)) = Len(s) - l
           /\ ToSet(Taken(s, b, l)) \cap ToSet(Rest(s, b, l)) = {}
           /\ ToSet(Taken(s, b, l)) \cup ToSet(Rest(s, b, l)) = ToSet(s)
<1>1. PICK n \in Nat : n = Len(s)  OBVIOUS
<1>2. PICK head : head = Upto(s, b)  OBVIOUS
<1>3. PICK tail : tail = Beyond(s, b + l)  OBVIOUS
<1>4. PICK both : both = Upto(s, b + l)  OBVIOUS
<1>5. PICK taken : taken = Taken(s, b, l)  OBVIOUS
<1>6. b + l \in 0..Len(s) /\ b \in 0..Len(s) /\ b + l \in Nat  BY <1>1
<1>7. /\ both \in Seq(S) /\ Len(both) = b + l
      /\ \A i \in 1..(b + l) : both[i] = s[i]
  BY <1>4, <1>6, UptoIs
<1>8. tail \in Seq(S) /\ Len(tail) = Len(s) - (b + l)  BY <1>3, <1>6, BeyondIs
<1>9. s = both \o tail  BY <1>3, <1>4, <1>6, CutInTwo
<1>10. head \in Seq(S) /\ Len(head) = b /\ \A i \in 1..b : head[i] = s[i]
  BY <1>2, <1>6, UptoIs
<1>11. taken \in Seq(S) /\ Len(taken) = l
       /\ \A i \in 1..l : taken[i] = s[b + i]
  BY <1>5, TakenIs
<1>12. both = head \o taken
  <2>1. b \in 0..Len(both)  BY <1>7
  <2>2. both = Upto(both, b) \o Beyond(both, b)  BY <2>1, <1>7, CutInTwo
  <2>3. Upto(both, b) = head
    <3>1. Upto(both, b) \in Seq(S) /\ Len(Upto(both, b)) = b
          /\ \A i \in 1..b : Upto(both, b)[i] = both[i]
      BY <2>1, <1>7, UptoIs
    <3>2. \A i \in 1..b : i \in 1..(b + l)  OBVIOUS
    <3>3. \A i \in 1..b : Upto(both, b)[i] = head[i]
      BY <3>1, <3>2, <1>7, <1>10
    <3> QED BY <3>1, <3>3, <1>10, SameSeq
  <2>4. Beyond(both, b) = taken
    <3>1. Beyond(both, b) \in Seq(S) /\ Len(Beyond(both, b)) = Len(both) - b
          /\ \A i \in 1..(Len(both) - b) : Beyond(both, b)[i] = both[b + i]
      BY <2>1, <1>7, BeyondIs
    <3>2. Len(both) - b = l  BY <1>7
    <3>3. \A i \in 1..l : b + i \in 1..(b + l)  OBVIOUS
    <3>4. \A i \in 1..l : Beyond(both, b)[i] = taken[i]
      BY <3>1, <3>2, <3>3, <1>7, <1>11
    <3> QED BY <3>1, <3>2, <3>4, <1>11, SameSeq
  <2> QED BY <2>2, <2>3, <2>4
<1>13. /\ ToSet(s) = ToSet(both) \cup ToSet(tail)
       /\ IsInjective(both) /\ IsInjective(tail)
       /\ ToSet(both) \cap ToSet(tail) = {}
  BY <1>7, <1>8, <1>9, ConcatSets
<1>14. /\ ToSet(both) = ToSet(head) \cup ToSet(taken)
       /\ IsInjective(head) /\ IsInjective(taken)
       /\ ToSet(head) \cap ToSet(taken) = {}
  BY <1>10, <1>11, <1>12, <1>13, ConcatSets
<1>15. PICK rest : rest = head \o tail  OBVIOUS
<1>16. rest = Rest(s, b, l)  BY <1>2, <1>3, <1>15 DEF Rest, Upto, Beyond
<1>17. /\ rest \in Seq(S) /\ ToSet(rest) = ToSet(head) \cup ToSet(tail)
       /\ IsInjective(rest)
  <2>1. ToSet(head) \cap ToSet(tail) = {}  BY <1>13, <1>14
  <2> QED BY <2>1, <1>8, <1>10, <1>13, <1>14, <1>15, ConcatSets
<1>18. Len(rest) = Len(s) - l
  <2>1. Len(rest) = Len(head) + Len(tail)
    BY <1>8, <1>10, <1>15, ConcatLength
  <2>2. Len(head) + Len(tail) = Len(s) - l  BY <1>1, <1>8, <1>10
  <2> QED BY <2>1, <2>2
<1>19. ToSet(taken) \cup ToSet(rest) = ToSet(s)
       /\ ToSet(taken) \cap ToSet(rest) = {}
  BY <1>13, <1>14, <1>17
<1> QED BY <1>5, <1>11, <1>14, <1>16, <1>17, <1>18, <1>19

LEMMA Single ==
    ASSUME NEW S, NEW e \in S
    PROVE  /\ <<e>> \in Seq(S) /\ Len(<<e>>) = 1 /\ <<e>>[1] = e
           /\ ToSet(<<e>>) = {e} /\ IsInjective(<<e>>)
BY DEF ToSet, IsInjective

(* What is put in at a position is there, and the rest is what it was.     *)
LEMMA InsertedAt ==
    ASSUME NEW S, NEW s \in Seq(S), NEW e \in S, NEW i \in 1..(Len(s) + 1)
    PROVE  /\ InsertAt(s, i, e) \in Seq(S)
           /\ Len(InsertAt(s, i, e)) = Len(s) + 1
           /\ \A j \in 1..(i - 1) : InsertAt(s, i, e)[j] = s[j]
           /\ InsertAt(s, i, e)[i] = e
           /\ \A j \in i..Len(s) : InsertAt(s, i, e)[j + 1] = s[j]
           /\ ToSet(InsertAt(s, i, e)) = ToSet(s) \cup {e}
           /\ (IsInjective(s) /\ e \notin ToSet(s))
                    => IsInjective(InsertAt(s, i, e))
<1>1. PICK n \in Nat : n = Len(s)  OBVIOUS
<1>2. PICK b \in Nat : b = i - 1 /\ b \in 0..Len(s) /\ i = b + 1  BY <1>1
<1>3. PICK head : head = Upto(s, b)  OBVIOUS
<1>4. PICK tail : tail = Beyond(s, b)  OBVIOUS
<1>5. PICK one : one = <<e>>  OBVIOUS
<1>6. PICK whole : whole = InsertAt(s, i, e)  OBVIOUS
<1>7. head \in Seq(S) /\ Len(head) = b /\ \A j \in 1..b : head[j] = s[j]
  BY <1>2, <1>3, UptoIs
<1>8. tail \in Seq(S) /\ Len(tail) = n - b
      /\ \A j \in 1..(n - b) : tail[j] = s[b + j]
  <2>1. b \in 0..Len(s)  BY <1>2
  <2>2. tail \in Seq(S) /\ Len(tail) = Len(s) - b
        /\ \A j \in 1..(Len(s) - b) : tail[j] = s[b + j]
    BY <2>1, <1>4, BeyondIs
  <2> QED BY <2>2, <1>1
<1>9. s = head \o tail  BY <1>2, <1>3, <1>4, CutInTwo
<1>10. one \in Seq(S) /\ Len(one) = 1 /\ one[1] = e /\ ToSet(one) = {e}
       /\ IsInjective(one)
  BY <1>5, Single
<1>11. whole = (head \o one) \o tail
  <2>1. whole = SubSeq(s, 1, i - 1) \o <<e>> \o SubSeq(s, i, Len(s))
    BY <1>6 DEF InsertAt
  <2>2. head = SubSeq(s, 1, i - 1)  BY <1>2, <1>3 DEF Upto
  <2>3. tail = SubSeq(s, i, Len(s))  BY <1>2, <1>4 DEF Beyond
  <2> QED BY <2>1, <2>2, <2>3, <1>5
<1>12. PICK part : part = head \o one  OBVIOUS
<1>13. /\ part \in Seq(S) /\ ToSet(part) = ToSet(head) \cup {e}
       /\ IsInjective(part) <=> IsInjective(head) /\ e \notin ToSet(head)
  <2>1. /\ part \in Seq(S) /\ ToSet(part) = ToSet(head) \cup ToSet(one)
        /\ IsInjective(part) <=> /\ IsInjective(head) /\ IsInjective(one)
                                 /\ ToSet(head) \cap ToSet(one) = {}
    BY <1>7, <1>10, <1>12, ConcatSets
  <2> QED BY <2>1, <1>10
<1>14. Len(part) = b + 1 /\ part[b + 1] = e /\ \A j \in 1..b : part[j] = s[j]
  <2>1. Len(part) = Len(head) + Len(one)  BY <1>7, <1>10, <1>12, ConcatLength
  <2>2. /\ \A j \in 1..Len(head) : part[j] = head[j]
        /\ \A j \in 1..Len(one) : part[Len(head) + j] = one[j]
    BY <1>7, <1>10, <1>12, ConcatAt
  <2> QED BY <2>1, <2>2, <1>7, <1>10
<1>15. /\ whole \in Seq(S) /\ ToSet(whole) = ToSet(part) \cup ToSet(tail)
       /\ IsInjective(whole) <=> /\ IsInjective(part) /\ IsInjective(tail)
                                 /\ ToSet(part) \cap ToSet(tail) = {}
  BY <1>8, <1>11, <1>12, <1>13, ConcatSets
<1>16. /\ ToSet(s) = ToSet(head) \cup ToSet(tail)
       /\ IsInjective(s) <=> /\ IsInjective(head) /\ IsInjective(tail)
                             /\ ToSet(head) \cap ToSet(tail) = {}
  BY <1>7, <1>8, <1>9, ConcatSets
<1>17. Len(whole) = n + 1
  <2>1. Len(whole) = Len(part) + Len(tail)
    BY <1>8, <1>11, <1>12, <1>13, ConcatLength
  <2> QED BY <2>1, <1>8, <1>14
<1>18. /\ \A j \in 1..b : whole[j] = s[j]
       /\ \A j \in 1..(n - b) : whole[b + 1 + j] = s[b + j]
  <2>1. /\ \A j \in 1..Len(part) : whole[j] = part[j]
        /\ \A j \in 1..Len(tail) : whole[Len(part) + j] = tail[j]
    BY <1>8, <1>11, <1>12, <1>13, ConcatAt
  <2>2. \A j \in 1..b : j \in 1..Len(part)  BY <1>14
  <2>3. \A j \in 1..b : whole[j] = s[j]  BY <2>1, <2>2, <1>14
  <2>4. \A j \in 1..(n - b) : whole[b + 1 + j] = tail[j]
    BY <2>1, <1>8, <1>14
  <2> QED BY <2>3, <2>4, <1>8
<1>19. whole[i] = e
  <2>1. /\ \A j \in 1..Len(part) : whole[j] = part[j]
    BY <1>8, <1>11, <1>12, <1>13, ConcatAt
  <2> QED BY <2>1, <1>2, <1>14
<1>20. \A j \in i..n : whole[j + 1] = s[j]
  <2> TAKE j \in i..n
  <2>1. j - b \in 1..(n - b) /\ b + 1 + (j - b) = j + 1 /\ b + (j - b) = j
    BY <1>2
  <2>2. whole[b + 1 + (j - b)] = s[b + (j - b)]  BY <2>1, <1>18
  <2> QED BY <2>1, <2>2
<1>21. ToSet(whole) = ToSet(s) \cup {e}  BY <1>13, <1>15, <1>16
<1>22. ASSUME IsInjective(s), e \notin ToSet(s) PROVE IsInjective(whole)
  BY <1>22, <1>13, <1>15, <1>16
<1> QED BY <1>1, <1>2, <1>6, <1>15, <1>17, <1>18, <1>19, <1>20, <1>21, <1>22

(* What is taken out of a list of different things is gone from it.        *)
LEMMA Removed ==
    ASSUME NEW S, NEW s \in Seq(S), NEW i \in 1..Len(s)
    PROVE  /\ RemoveAt(s, i) \in Seq(S) /\ Len(RemoveAt(s, i)) = Len(s) - 1
           /\ \A j \in 1..(i - 1) : RemoveAt(s, i)[j] = s[j]
           /\ \A j \in i..(Len(s) - 1) : RemoveAt(s, i)[j] = s[j + 1]
<1>1. PICK n \in Nat : n = Len(s)  OBVIOUS
<1>2. PICK b \in Nat : b = i - 1 /\ b \in 0..Len(s) /\ i = b + 1
  BY <1>1
<1>3. PICK head : head = Upto(s, b)  OBVIOUS
<1>4. PICK tail : tail = Beyond(s, i)  OBVIOUS
<1>5. PICK whole : whole = RemoveAt(s, i)  OBVIOUS
<1>6. head \in Seq(S) /\ Len(head) = b /\ \A j \in 1..b : head[j] = s[j]
  BY <1>2, <1>3, UptoIs
<1>7. tail \in Seq(S) /\ Len(tail) = n - i
      /\ \A j \in 1..(n - i) : tail[j] = s[i + j]
  <2>1. i \in 0..Len(s)  OBVIOUS
  <2> QED BY <2>1, <1>1, <1>4, BeyondIs
<1>8. whole = head \o tail
  BY <1>2, <1>3, <1>4, <1>5 DEF RemoveAt, Upto, Beyond
<1>9. whole \in Seq(S) /\ Len(whole) = n - 1
  <2>1. whole \in Seq(S)  BY <1>6, <1>7, <1>8, ConcatAt
  <2>2. Len(whole) = Len(head) + Len(tail)
    BY <1>6, <1>7, <1>8, ConcatLength
  <2> QED BY <2>1, <2>2, <1>2, <1>6, <1>7
<1>10. /\ \A j \in 1..b : whole[j] = s[j]
       /\ \A j \in 1..(n - i) : whole[b + j] = s[i + j]
  <2>1. /\ \A j \in 1..Len(head) : whole[j] = head[j]
        /\ \A j \in 1..Len(tail) : whole[Len(head) + j] = tail[j]
    BY <1>6, <1>7, <1>8, ConcatAt
  <2> QED BY <2>1, <1>6, <1>7
<1>11. \A j \in i..(n - 1) : whole[j] = s[j + 1]
  <2> TAKE j \in i..(n - 1)
  <2>1. j - b \in 1..(n - i) /\ b + (j - b) = j /\ i + (j - b) = j + 1
    BY <1>2
  <2>2. whole[b + (j - b)] = s[i + (j - b)]  BY <2>1, <1>10
  <2> QED BY <2>1, <2>2
<1> QED BY <1>1, <1>2, <1>5, <1>9, <1>10, <1>11

(* Taking out what was put in gives back what there was.                   *)
LEMMA InsertedAndRemoved ==
    ASSUME NEW S, NEW s \in Seq(S), NEW e \in S, NEW i \in 1..(Len(s) + 1)
    PROVE  RemoveAt(InsertAt(s, i, e), i) = s
<1>1. PICK n \in Nat : n = Len(s)  OBVIOUS
<1>2. PICK more : more = InsertAt(s, i, e)  OBVIOUS
<1>3. /\ more \in Seq(S) /\ Len(more) = n + 1
      /\ \A j \in 1..(i - 1) : more[j] = s[j]
      /\ \A j \in i..n : more[j + 1] = s[j]
  <2>1. /\ more \in Seq(S) /\ Len(more) = Len(s) + 1
        /\ \A j \in 1..(i - 1) : more[j] = s[j]
        /\ \A j \in i..Len(s) : more[j + 1] = s[j]
    BY <1>2, InsertedAt
  <2> QED BY <2>1, <1>1
<1>4. PICK again : again = RemoveAt(more, i)  OBVIOUS
<1>5. /\ again \in Seq(S) /\ Len(again) = Len(more) - 1
      /\ \A j \in 1..(i - 1) : again[j] = more[j]
      /\ \A j \in i..(Len(more) - 1) : again[j] = more[j + 1]
  <2>1. i \in 1..Len(more)  BY <1>1, <1>3
  <2> QED BY <2>1, <1>3, <1>4, Removed
<1>6. Len(again) = n  BY <1>3, <1>5
<1>7. \A j \in 1..n : again[j] = s[j]
  <2> TAKE j \in 1..n
  <2>1. CASE j < i
    <3>1. j \in 1..(i - 1)  BY <2>1
    <3> QED BY <3>1, <1>3, <1>5
  <2>2. CASE ~(j < i)
    <3>1. j \in i..n /\ j \in i..(Len(more) - 1)  BY <2>2, <1>1, <1>3
    <3> QED BY <3>1, <1>3, <1>5
  <2> QED BY <2>1, <2>2
<1>8. again = s  BY <1>1, <1>5, <1>6, <1>7, SameSeq
<1> QED BY <1>2, <1>4, <1>8

-----------------------------------------------------------------------------
(* Lists that hold each member of a set once between them.                 *)

OnceEach(lists, S) ==
    /\ \A i \in DOMAIN lists : IsInjective(lists[i])
    /\ \A i, j \in DOMAIN lists :
            i # j => ToSet(lists[i]) \cap ToSet(lists[j]) = {}
    /\ S = UNION {ToSet(lists[i]) : i \in DOMAIN lists}

(* Laid end to end they are one such list.                                 *)
LEMMA OnceFlat ==
    ASSUME NEW T, NEW p \in Seq(Seq(T)), NEW S, OnceEach(p, S)
    PROVE  /\ FlattenSeq(p) \in Seq(T) /\ ToSet(FlattenSeq(p)) = S
           /\ IsInjective(FlattenSeq(p))
<1>1. DOMAIN p = 1..Len(p) /\ Len(p) \in Nat  OBVIOUS
<1>2. CASE Len(p) = 0
  <2>1. p = <<>> /\ DOMAIN p = {}  BY <1>1, <1>2
  <2>2. S = {}  BY <2>1 DEF OnceEach
  <2>3. FlattenSeq(p) = <<>>  BY <2>1 DEF FlattenSeq
  <2>4. <<>> \in Seq(T) /\ ToSet(<<>>) = {} /\ IsInjective(<<>>)
    BY DEF ToSet, IsInjective
  <2> QED BY <2>2, <2>3, <2>4
<1>3. CASE Len(p) # 0
  <2>1. /\ FlattenSeq(p) \in Seq(T)
        /\ ToSet(FlattenSeq(p)) = UNION {ToSet(p[i]) : i \in 1..Len(p)}
        /\ IsInjective(FlattenSeq(p)) <=>
              /\ \A i \in 1..Len(p) : IsInjective(p[i])
              /\ \A i, j \in 1..Len(p) :
                    i # j => ToSet(p[i]) \cap ToSet(p[j]) = {}
    BY <1>3, FlattenParts
  <2>2. S = UNION {ToSet(p[i]) : i \in 1..Len(p)}  BY <1>1 DEF OnceEach
  <2>3. \A i \in 1..Len(p) : IsInjective(p[i])  BY <1>1 DEF OnceEach
  <2>4. \A i, j \in 1..Len(p) : i # j => ToSet(p[i]) \cap ToSet(p[j]) = {}
    BY <1>1 DEF OnceEach
  <2> QED BY <2>1, <2>2, <2>3, <2>4
<1> QED BY <1>2, <1>3

LEMMA FlatIsOnce ==
    ASSUME NEW T, NEW p \in Seq(Seq(T)), IsInjective(FlattenSeq(p))
    PROVE  OnceEach(p, ToSet(FlattenSeq(p)))
<1>1. DOMAIN p = 1..Len(p) /\ Len(p) \in Nat  OBVIOUS
<1>2. CASE Len(p) = 0
  <2>1. p = <<>> /\ DOMAIN p = {}  BY <1>1, <1>2
  <2>2. FlattenSeq(p) = <<>>  BY <2>1 DEF FlattenSeq
  <2>3. ToSet(FlattenSeq(p)) = {}  BY <2>2 DEF ToSet
  <2> QED BY <2>1, <2>3 DEF OnceEach
<1>3. CASE Len(p) # 0
  <2>1. /\ ToSet(FlattenSeq(p)) = UNION {ToSet(p[i]) : i \in 1..Len(p)}
        /\ IsInjective(FlattenSeq(p)) <=>
              /\ \A i \in 1..Len(p) : IsInjective(p[i])
              /\ \A i, j \in 1..Len(p) :
                    i # j => ToSet(p[i]) \cap ToSet(p[j]) = {}
    BY <1>3, FlattenParts
  <2> QED BY <1>1, <2>1 DEF OnceEach
<1> QED BY <1>2, <1>3

(* One of the lists is replaced by one that has nothing of the others.     *)
Changed(p, i, r) == [p EXCEPT ![i] = r]

FitsIn(r, p, i, S, T) ==
    /\ p \in Seq(Seq(T)) /\ OnceEach(p, S) /\ i \in DOMAIN p
    /\ r \in Seq(T) /\ IsInjective(r) /\ ToSet(r) \cap (S \ ToSet(p[i])) = {}

LEMMA OnceChanged ==
    ASSUME NEW T, NEW p, NEW S, NEW i, NEW r, FitsIn(r, p, i, S, T)
    PROVE  /\ Changed(p, i, r) \in Seq(Seq(T))
           /\ Len(Changed(p, i, r)) = Len(p)
           /\ DOMAIN Changed(p, i, r) = DOMAIN p
           /\ OnceEach(Changed(p, i, r), (S \ ToSet(p[i])) \cup ToSet(r))
<1> USE DEF FitsIn
<1>0. PICK q : q = Changed(p, i, r)  OBVIOUS
<1>1. q = [p EXCEPT ![i] = r]  BY <1>0 DEF Changed
<1>2. /\ q \in Seq(Seq(T)) /\ DOMAIN q = DOMAIN p /\ Len(q) = Len(p)
      /\ q[i] = r /\ \A j \in DOMAIN p : j # i => q[j] = p[j]
  BY <1>1
<1>3. \A j \in DOMAIN p : j # i =>
            ToSet(p[j]) \subseteq S /\ ToSet(p[j]) \cap ToSet(p[i]) = {}
  BY DEF OnceEach
<1>4. \A j \in DOMAIN q : IsInjective(q[j])  BY <1>2 DEF OnceEach
<1>5. ASSUME NEW j \in DOMAIN q, NEW k \in DOMAIN q, j # k
      PROVE  ToSet(q[j]) \cap ToSet(q[k]) = {}
  <2>1. CASE j = i
    <3>1. q[k] = p[k] /\ ToSet(p[k]) \subseteq S \ ToSet(p[i])
      BY <1>2, <1>3, <1>5, <2>1
    <3> QED BY <3>1, <2>1, <1>2
  <2>2. CASE k = i
    <3>1. q[j] = p[j] /\ ToSet(p[j]) \subseteq S \ ToSet(p[i])
      BY <1>2, <1>3, <1>5, <2>2
    <3> QED BY <3>1, <2>2, <1>2
  <2>3. CASE j # i /\ k # i
    <3>1. q[j] = p[j] /\ q[k] = p[k]  BY <1>2, <2>3
    <3> QED BY <3>1, <1>2, <1>5 DEF OnceEach
  <2> QED BY <2>1, <2>2, <2>3
<1>6. UNION {ToSet(q[j]) : j \in DOMAIN q} = (S \ ToSet(p[i])) \cup ToSet(r)
  <2>1. ASSUME NEW x \in UNION {ToSet(q[j]) : j \in DOMAIN q}
        PROVE  x \in (S \ ToSet(p[i])) \cup ToSet(r)
    <3>1. PICK j \in DOMAIN q : x \in ToSet(q[j])  OBVIOUS
    <3> QED BY <3>1, <1>2, <1>3
  <2>2. ASSUME NEW x \in (S \ ToSet(p[i])) \cup ToSet(r)
        PROVE  x \in UNION {ToSet(q[j]) : j \in DOMAIN q}
    <3>1. CASE x \in ToSet(r)  BY <3>1, <1>2
    <3>2. CASE x \in S \ ToSet(p[i])
      <4>1. PICK j \in DOMAIN p : x \in ToSet(p[j])  BY <3>2 DEF OnceEach
      <4>2. j # i  BY <4>1, <3>2
      <4> QED BY <4>1, <4>2, <1>2
    <3> QED BY <3>1, <3>2
  <2> QED BY <2>1, <2>2
<1>7. OnceEach(q, (S \ ToSet(p[i])) \cup ToSet(r))  BY <1>4, <1>5, <1>6 DEF OnceEach
<1> QED BY <1>0, <1>2, <1>7

(* Only some members are kept of each list.                                *)
Lists(p, S, T) == p \in Seq(Seq(T)) /\ OnceEach(p, S)
KeptOfEach(p, wanted) == [i \in DOMAIN p |-> Kept(p[i], wanted)]

LEMMA OnceKept ==
    ASSUME NEW T, NEW p, NEW S, Lists(p, S, T), NEW wanted
    PROVE  /\ Lists(KeptOfEach(p, wanted), S \cap wanted, T)
           /\ Len(KeptOfEach(p, wanted)) = Len(p)
<1> USE DEF Lists
<1>0. PICK q : q = KeptOfEach(p, wanted)  OBVIOUS
<1>1. DOMAIN p = 1..Len(p) /\ Len(p) \in Nat /\ \A i \in 1..Len(p) : p[i] \in Seq(T)
  OBVIOUS
<1>2. \A i \in DOMAIN p :
        /\ q[i] \in Seq(T) /\ ToSet(q[i]) = ToSet(p[i]) \cap wanted
        /\ IsInjective(p[i]) => IsInjective(q[i])
  <2> TAKE i \in DOMAIN p
  <2>1. p[i] \in Seq(T)  OBVIOUS
  <2>2. q[i] = Kept(p[i], wanted)  BY <1>0 DEF KeptOfEach
  <2> QED BY <2>1, <2>2, KeptSelects
<1>3. q \in Seq(Seq(T)) /\ Len(q) = Len(p) /\ DOMAIN q = DOMAIN p
  <2>1. DOMAIN q = 1..Len(p)  BY <1>0, <1>1 DEF KeptOfEach
  <2>2. q = [i \in 1..Len(p) |-> q[i]]  BY <1>0, <1>1 DEF KeptOfEach
  <2>3. q \in [1..Len(p) -> Seq(T)]  BY <1>1, <1>2, <2>2
  <2>4. PICK n \in Nat : n = Len(p)  BY <1>1
  <2>5. q \in Seq(Seq(T))
    <3>1. PICK A : A = Seq(T)  OBVIOUS
    <3>2. q \in [1..n -> A]  BY <2>3, <2>4, <3>1
    <3> HIDE DEF Lists
    <3>3. q \in Seq(A)  BY ONLY <2>4, <3>2
    <3> QED BY <3>1, <3>3
  <2>6. Len(q) = n  BY <2>1, <2>4, <2>5
  <2> QED BY <1>1, <2>1, <2>4, <2>5, <2>6
<1>4. \A i \in DOMAIN q : IsInjective(q[i])  BY <1>2, <1>3 DEF OnceEach
<1>5. \A i, j \in DOMAIN q : i # j => ToSet(q[i]) \cap ToSet(q[j]) = {}
  BY <1>2, <1>3 DEF OnceEach
<1>6. UNION {ToSet(q[j]) : j \in DOMAIN q} = S \cap wanted
  BY <1>2, <1>3 DEF OnceEach
<1>7. OnceEach(q, S \cap wanted)  BY <1>4, <1>5, <1>6 DEF OnceEach
<1> QED BY <1>0, <1>3, <1>7

(* The lists in another order, or some of them.                            *)
Picks(q, p, m) ==
    /\ m \in [DOMAIN q -> DOMAIN p] /\ IsInjective(m)
    /\ \A i \in DOMAIN q : q[i] = p[m[i]]
LEMMA OncePicked ==
    ASSUME NEW p, NEW S, OnceEach(p, S), NEW q, NEW m, Picks(q, p, m)
    PROVE  OnceEach(q, UNION {ToSet(p[m[i]]) : i \in DOMAIN q})
<1> USE DEF Picks
<1>1. \A i \in DOMAIN q : IsInjective(q[i])  BY DEF OnceEach
<1>2. \A i, j \in DOMAIN q : i # j => m[i] # m[j]  BY DEF IsInjective
<1>3. \A i, j \in DOMAIN q : i # j => ToSet(q[i]) \cap ToSet(q[j]) = {}
  BY <1>2 DEF OnceEach
<1>4. {ToSet(q[i]) : i \in DOMAIN q} = {ToSet(p[m[i]]) : i \in DOMAIN q}
  OBVIOUS
<1> QED BY <1>1, <1>3, <1>4 DEF OnceEach

(* All the lists but one.                                                  *)
ButOneList(p, v, S, T) ==
    /\ Lists(RemoveAt(p, v), S \ ToSet(p[v]), T)
    /\ Len(RemoveAt(p, v)) = Len(p) - 1
    /\ \A i \in DOMAIN RemoveAt(p, v) : \E j \in DOMAIN p :
            RemoveAt(p, v)[i] = p[j]

LEMMA OnceRemoved ==
    ASSUME NEW T, NEW p, NEW S, Lists(p, S, T), NEW v \in DOMAIN p
    PROVE  ButOneList(p, v, S, T)
<1>0. p \in Seq(Seq(T)) /\ OnceEach(p, S)  BY DEF Lists
<1>1. PICK n \in Nat : n = Len(p)  BY <1>0
<1>2. DOMAIN p = 1..n /\ v \in 1..n  BY <1>0, <1>1
<1>3. PICK q : q = RemoveAt(p, v)  OBVIOUS
<1>4. /\ q \in Seq(Seq(T)) /\ Len(q) = n - 1
      /\ \A j \in 1..(v - 1) : q[j] = p[j]
      /\ \A j \in v..(n - 1) : q[j] = p[j + 1]
  <2>1. /\ q \in Seq(Seq(T)) /\ Len(q) = Len(p) - 1
        /\ \A j \in 1..(v - 1) : q[j] = p[j]
        /\ \A j \in v..(Len(p) - 1) : q[j] = p[j + 1]
    BY <1>0, <1>1, <1>2, <1>3, Removed
  <2> QED BY <2>1, <1>1
<1>5. DOMAIN q = 1..(n - 1) /\ n - 1 \in Nat  BY <1>2, <1>4
<1> DEFINE m == [i \in 1..(n - 1) |-> IF i < v THEN i ELSE i + 1]
<1>6. /\ m \in [DOMAIN q -> DOMAIN p] /\ IsInjective(m)
      /\ \A i \in DOMAIN q : m[i] # v
  BY <1>2, <1>5 DEF IsInjective
<1>7. \A i \in DOMAIN q : q[i] = p[m[i]]
  <2> TAKE i \in DOMAIN q
  <2>1. CASE i < v
    <3>1. i \in 1..(v - 1) /\ m[i] = i  BY <2>1, <1>2, <1>5
    <3> HIDE DEF m
    <3> QED BY <3>1, <1>4
  <2>2. CASE ~(i < v)
    <3>1. i \in v..(n - 1) /\ m[i] = i + 1  BY <2>2, <1>2, <1>5
    <3> HIDE DEF m
    <3> QED BY <3>1, <1>4
  <2> QED BY <2>1, <2>2
<1>8. \A j \in DOMAIN p : j # v => \E i \in DOMAIN q : m[i] = j
  <2> TAKE j \in DOMAIN p
  <2>1. CASE j < v
    <3>1. j \in DOMAIN q /\ m[j] = j  BY <2>1, <1>2, <1>5
    <3> QED BY <3>1
  <2>2. CASE j > v
    <3>1. j - 1 \in DOMAIN q /\ m[j - 1] = j  BY <2>2, <1>2, <1>5
    <3> QED BY <3>1
  <2>3. j < v \/ j = v \/ j > v  BY <1>2
  <2> HIDE DEF m
  <2> QED BY <2>1, <2>2, <2>3
<1> HIDE DEF m
<1>9. OnceEach(q, UNION {ToSet(p[m[i]]) : i \in DOMAIN q})
  <2>1. Picks(q, p, m)  BY <1>6, <1>7 DEF Picks
  <2> QED BY <2>1, <1>0, OncePicked
<1>10. UNION {ToSet(p[m[i]]) : i \in DOMAIN q} = S \ ToSet(p[v])
  <2>1. ASSUME NEW x \in UNION {ToSet(p[m[i]]) : i \in DOMAIN q}
        PROVE  x \in S \ ToSet(p[v])
    <3>1. PICK i \in DOMAIN q : x \in ToSet(p[m[i]])  OBVIOUS
    <3>2. m[i] \in DOMAIN p /\ m[i] # v  BY <1>6
    <3> QED BY <3>1, <3>2, <1>0, <1>2 DEF OnceEach
  <2>2. ASSUME NEW x \in S \ ToSet(p[v])
        PROVE  x \in UNION {ToSet(p[m[i]]) : i \in DOMAIN q}
    <3>1. PICK j \in DOMAIN p : x \in ToSet(p[j])  BY <1>0 DEF OnceEach
    <3>2. j # v  BY <3>1
    <3> QED BY <3>1, <3>2, <1>8
  <2> QED BY <2>1, <2>2
<1>11. \A i \in DOMAIN q : \E j \in DOMAIN p : q[i] = p[j]
  BY <1>6, <1>7
<1> QED BY <1>1, <1>3, <1>4, <1>9, <1>10, <1>11 DEF Lists, ButOneList

-----------------------------------------------------------------------------
(* Sums over finite sets.  SumFunctionOnSet is a fold, defined by a        *)
(* recursive function over the subsets; what such a function g gives each  *)
(* of them:                                                                *)
SumsTo(g, f, T) ==
    g[T] = IF T = {} THEN 0
           ELSE LET x == CHOOSE x \in T : TRUE IN f[x] + g[T \ {x}]

Sums(g, f, S) ==
    g = [T \in SUBSET S |->
            IF T = {} THEN 0
            ELSE LET x == CHOOSE x \in T : TRUE IN f[x] + g[T \ {x}]]

LEMMA SumsStep ==
    ASSUME NEW g, NEW f, NEW S, Sums(g, f, S), NEW T \in SUBSET S
    PROVE  SumsTo(g, f, T)
BY Zenon DEF Sums, SumsTo

(* Such a function exists for every finite set.                            *)
LEMMA SumsExists ==
    ASSUME NEW S, IsFiniteSet(S), NEW f
    PROVE  \E g : Sums(g, f, S)
<1> DEFINE UpTo(g, n) == /\ DOMAIN g = SUBSET S
                         /\ \A T \in SUBSET S :
                               Cardinality(T) <= n => SumsTo(g, f, T)
           Bad == {n \in Nat : ~\E g : UpTo(g, n)}
<1>1. \A T \in SUBSET S : IsFiniteSet(T) /\ Cardinality(T) \in Nat
  BY FS_Subset, FS_CardinalityType
<1>2. Bad = {}
  <2>1. SUFFICES ASSUME Bad # {} PROVE FALSE  OBVIOUS
  <2>2. PICK n \in Bad : \A m \in Bad : n <= m
    <3>1. Bad \subseteq Nat  OBVIOUS
    <3> HIDE DEF Bad
    <3> QED BY <2>1, <3>1, LeastElement
  <2>3. CASE n = 0
    <3> DEFINE g == [T \in SUBSET S |-> 0]
    <3>1. ASSUME NEW T \in SUBSET S, Cardinality(T) <= 0
          PROVE  SumsTo(g, f, T)
      <4>1. T = {}  BY <1>1, <3>1, FS_EmptySet
      <4> QED BY <4>1 DEF SumsTo
    <3>2. UpTo(g, n)  BY <2>3, <3>1
    <3> QED BY <3>2
  <2>4. CASE n # 0
    <3>1. n - 1 \in Nat /\ n - 1 \notin Bad
      <4>1. n \in Nat  OBVIOUS
      <4> HIDE DEF Bad
      <4> QED BY <4>1, <2>2, <2>4
    <3>2. PICK g : UpTo(g, n - 1)  BY <3>1
    <3> DEFINE h == [T \in SUBSET S |->
                        IF Cardinality(T) <= n - 1 THEN g[T]
                        ELSE LET x == CHOOSE x \in T : TRUE
                             IN  f[x] + g[T \ {x}]]
    <3>3. ASSUME NEW T \in SUBSET S, Cardinality(T) <= n
          PROVE  SumsTo(h, f, T)
      <4> DEFINE x == CHOOSE x \in T : TRUE
      <4>1. CASE T = {}
        <5>1. Cardinality(T) <= n - 1  BY <3>1, <4>1, FS_EmptySet
        <5>2. h[T] = g[T] /\ SumsTo(g, f, T)  BY <3>2, <5>1
        <5> QED BY <4>1, <5>2 DEF SumsTo
      <4>2. CASE T # {}
        <5>1. x \in T  BY <4>2
        <5>2. T \ {x} \in SUBSET S /\ Cardinality(T \ {x}) <= n - 1
          <6>1. IsFiniteSet(T) /\ Cardinality(T) \in Nat  BY <1>1
          <6>2. Cardinality(T \ {x}) = Cardinality(T) - 1
            BY <5>1, <6>1, FS_RemoveElement
          <6>3. n \in Nat  BY <3>1
          <6> HIDE DEF x
          <6> QED BY <3>3, <6>1, <6>2, <6>3
        <5>3. h[T \ {x}] = g[T \ {x}]  BY <5>2
        <5>4. h[T] = f[x] + g[T \ {x}]
          <6>1. CASE Cardinality(T) <= n - 1
            <7>1. h[T] = g[T] /\ SumsTo(g, f, T)  BY <3>2, <6>1
            <7> QED BY <4>2, <7>1 DEF SumsTo
          <6>2. CASE ~(Cardinality(T) <= n - 1)  BY <6>2
          <6> QED BY <6>1, <6>2
        <5> HIDE DEF h
        <5> QED BY <4>2, <5>3, <5>4 DEF SumsTo
      <4> QED BY <4>1, <4>2
    <3>4. UpTo(h, n)
      <4>1. DOMAIN h = SUBSET S  OBVIOUS
      <4> HIDE DEF h
      <4> QED BY <3>3, <4>1
    <3> QED BY <3>4
  <2> QED BY <2>3, <2>4
<1>3. Cardinality(S) \in Nat  BY FS_CardinalityType
<1>4. PICK f0 : UpTo(f0, Cardinality(S))  BY <1>2, <1>3
<1> DEFINE g == [T \in SUBSET S |-> f0[T]]
<1>5. ASSUME NEW T \in SUBSET S PROVE SumsTo(g, f, T)
  <2>1. Cardinality(T) <= Cardinality(S)  BY FS_Subset
  <2>2. SumsTo(f0, f, T)  BY <1>4, <2>1
  <2>3. T # {} => T \ {CHOOSE x \in T : TRUE} \in SUBSET S  OBVIOUS
  <2> QED BY <2>2, <2>3 DEF SumsTo
<1>6. g = [T \in SUBSET S |-> g[T]]  OBVIOUS
<1> HIDE DEF g
<1>7. Sums(g, f, S)  BY Zenon, <1>5, <1>6 DEF Sums, SumsTo
<1> QED BY <1>7
LEMMA SumIs ==
    ASSUME NEW S, IsFiniteSet(S), NEW f
    PROVE  \E g : Sums(g, f, S) /\ SumFunctionOnSet(f, S) = g[S]
<1>1. \E g : Sums(g, f, S)  BY SumsExists
<1> QED BY Zenon, <1>1
        DEF SumFunctionOnSet, FoldFunctionOnSet, MapThenFoldSet, Sums

(* The sum over a part of the set is what the whole's function gives it.   *)
LEMMA SumsAgree ==
    ASSUME NEW S, IsFiniteSet(S), NEW f, NEW g, Sums(g, f, S),
           NEW R \in SUBSET S, NEW h, Sums(h, f, R)
    PROVE  h[R] = g[R]
<1> DEFINE Bad == {T \in SUBSET R : h[T] # g[T]}
<1>1. SUFFICES ASSUME Bad # {} PROVE FALSE  OBVIOUS
<1>2. IsFiniteSet(R) /\ Bad \in SUBSET SUBSET R  BY FS_Subset
<1>3. PICK T \in Bad : \A x \in T : T \ {x} \notin Bad
  <2> HIDE DEF Bad
  <2> QED BY <1>1, <1>2, SmallestSet
<1>4. T \in SUBSET R /\ T \in SUBSET S  BY <1>2
<1>5. SumsTo(g, f, T) /\ SumsTo(h, f, T)  BY <1>4, SumsStep
<1>6. CASE T = {}  BY <1>3, <1>5, <1>6 DEF SumsTo
<1>7. CASE T # {}
  <2> DEFINE x == CHOOSE x \in T : TRUE
  <2>1. x \in T  BY <1>7
  <2>2. h[T \ {x}] = g[T \ {x}]  BY <1>3, <1>4, <2>1
  <2> QED BY <1>3, <1>5, <1>7, <2>2 DEF SumsTo
<1> QED BY <1>6, <1>7

(* A sum is an element's entry and the sum over the rest.                  *)
LEMMA SumUnfolds ==
    ASSUME NEW S, IsFiniteSet(S), NEW f
    PROVE  /\ S = {} => SumFunctionOnSet(f, S) = 0
           /\ S # {} => \E x \in S :
                 SumFunctionOnSet(f, S) = f[x] + SumFunctionOnSet(f, S \ {x})
<1>1. PICK g : Sums(g, f, S) /\ SumFunctionOnSet(f, S) = g[S]  BY SumIs
<1>2. SumsTo(g, f, S)
  <2>1. S \in SUBSET S  OBVIOUS
  <2> QED BY <1>1, <2>1, SumsStep
<1>3. CASE S = {}  BY <1>1, <1>2, <1>3 DEF SumsTo
<1>4. CASE S # {}
  <2> DEFINE x == CHOOSE x \in S : TRUE
  <2>1. x \in S  BY <1>4
  <2>2. g[S] = f[x] + g[S \ {x}]  BY <1>2, <1>4 DEF SumsTo
  <2>3. IsFiniteSet(S \ {x}) /\ S \ {x} \in SUBSET S  BY FS_Subset
  <2> HIDE DEF x
  <2>4. PICK h : Sums(h, f, S \ {x})
                 /\ SumFunctionOnSet(f, S \ {x}) = h[S \ {x}]
    BY <2>3, SumIs
  <2>5. h[S \ {x}] = g[S \ {x}]  BY <1>1, <2>3, <2>4, SumsAgree
  <2> QED BY <1>1, <1>4, <2>1, <2>2, <2>4, <2>5
<1> QED BY <1>3, <1>4

LEMMA SumIsInt ==
    ASSUME NEW S, IsFiniteSet(S), NEW f, \A x \in S : f[x] \in Int
    PROVE  SumFunctionOnSet(f, S) \in Int
<1> DEFINE Bad == {T \in SUBSET S : SumFunctionOnSet(f, T) \notin Int}
<1>1. Bad = {}
  <2>1. SUFFICES ASSUME Bad # {} PROVE FALSE  OBVIOUS
  <2>2. Bad \in SUBSET SUBSET S  OBVIOUS
  <2>3. PICK T \in Bad : /\ IsFiniteSet(T)
                         /\ \A x \in T : T \ {x} \notin Bad
    <3> HIDE DEF Bad
    <3> QED BY <2>1, <2>2, SmallestSet
  <2>4. CASE T = {}
    <3>1. SumFunctionOnSet(f, T) = 0  BY <2>3, <2>4, SumUnfolds
    <3> QED BY <2>3, <3>1
  <2>5. CASE T # {}
    <3>1. PICK x \in T :
             SumFunctionOnSet(f, T) = f[x] + SumFunctionOnSet(f, T \ {x})
      BY <2>3, <2>5, SumUnfolds
    <3>2. T \in SUBSET S  BY <2>2
    <3>3. SumFunctionOnSet(f, T \ {x}) \in Int /\ f[x] \in Int
      BY <2>3, <3>2
    <3> QED BY <2>3, <3>1, <3>3
  <2> QED BY <2>4, <2>5
<1> QED BY <1>1

LEMMA SequenceSumIsInt ==
    ASSUME NEW n \in Nat, NEW f, DOMAIN f = 1..n, \A i \in 1..n : f[i] \in Int
    PROVE  SumFunction(f) \in Int
<1>1. IsFiniteSet(1..n)  BY FS_Interval
<1> QED BY <1>1, SumIsInt DEF SumFunction

(* Which element is taken first does not matter.                           *)
LEMMA SumWithout ==
    ASSUME NEW S, IsFiniteSet(S), NEW f, \A x \in S : f[x] \in Int, NEW y \in S
    PROVE  SumFunctionOnSet(f, S) = f[y] + SumFunctionOnSet(f, S \ {y})
<1> DEFINE Sum(T) == SumFunctionOnSet(f, T)
           Takes(T, x) == Sum(T) = f[x] + Sum(T \ {x})
           Bad == {T \in SUBSET S : \E x \in T : ~Takes(T, x)}
<1>1. Bad = {}
  <2>1. SUFFICES ASSUME Bad # {} PROVE FALSE  OBVIOUS
  <2>2. Bad \in SUBSET SUBSET S  OBVIOUS
  <2>3. PICK T \in Bad :
           /\ IsFiniteSet(T)
           /\ \A x \in T : IsFiniteSet(T \ {x}) /\ T \ {x} \notin Bad
    <3> HIDE DEF Bad
    <3> QED BY <2>1, <2>2, SmallestSet
  <2>4. T \in SUBSET S  BY <2>2
  <2>5. PICK z \in T : ~Takes(T, z)
    <3> HIDE DEF Takes
    <3> QED OBVIOUS
  <2>6. PICK x \in T : Takes(T, x)  BY <2>3, <2>5, SumUnfolds
  <2>7. x # z  BY <2>5, <2>6
  <2>8. Takes(T \ {x}, z) /\ Takes(T \ {z}, x)
    <3>1. z \in T \ {x} /\ x \in T \ {z}  BY <2>5, <2>6, <2>7
    <3>2. T \ {x} \notin Bad /\ T \ {z} \notin Bad  BY <2>3, <2>5, <2>6
    <3>3. T \ {x} \in SUBSET S /\ T \ {z} \in SUBSET S  BY <2>4
    <3> QED BY <3>1, <3>2, <3>3
  <2>9. (T \ {x}) \ {z} = (T \ {z}) \ {x}  OBVIOUS
  <2>10. Sum((T \ {x}) \ {z}) \in Int /\ f[x] \in Int /\ f[z] \in Int
    <3>1. IsFiniteSet((T \ {x}) \ {z})  BY <2>3, FS_Subset
    <3>2. \A w \in (T \ {x}) \ {z} : f[w] \in Int  BY <2>4
    <3> QED BY <2>4, <2>5, <2>6, <3>1, <3>2, SumIsInt
  <2>11. /\ Sum(T) = f[x] + Sum(T \ {x})
         /\ Sum(T \ {x}) = f[z] + Sum((T \ {x}) \ {z})
         /\ Sum(T \ {z}) = f[x] + Sum((T \ {z}) \ {x})
    BY <2>6, <2>8
  <2>12. Sum(T) # f[z] + Sum(T \ {z})  BY <2>5
  <2> HIDE DEF Sum
  <2> QED BY <2>9, <2>10, <2>11, <2>12
<1> QED BY <1>1

(* The same terms in another order have the same sum.                      *)
Renumbers(m, S, T) ==
    /\ m \in [S -> T]
    /\ \A x, y \in S : m[x] = m[y] => x = y
    /\ \A z \in T : \E x \in S : m[x] = z

Through(m, R) == {m[x] : x \in R}

LEMMA SumRenumbered ==
    ASSUME NEW S, IsFiniteSet(S), NEW T, IsFiniteSet(T), NEW m, Renumbers(m, S, T),
           NEW f, \A z \in T : f[z] \in Int,
           NEW g, \A x \in S : g[x] = f[m[x]]
    PROVE  SumFunctionOnSet(g, S) = SumFunctionOnSet(f, T)
<1> DEFINE Bad == {R \in SUBSET S : SumFunctionOnSet(g, R)
                                     # SumFunctionOnSet(f, Through(m, R))}
<1>0. /\ m \in [S -> T] /\ \A x, y \in S : m[x] = m[y] => x = y
      /\ \A z \in T : \E x \in S : m[x] = z
  BY DEF Renumbers
<1>1. Bad = {}
  <2>1. SUFFICES ASSUME Bad # {} PROVE FALSE  OBVIOUS
  <2>2. Bad \in SUBSET SUBSET S  OBVIOUS
  <2>3. PICK R \in Bad :
           /\ IsFiniteSet(R)
           /\ \A x \in R : IsFiniteSet(R \ {x}) /\ R \ {x} \notin Bad
    <3> HIDE DEF Bad
    <3> QED BY <2>1, <2>2, SmallestSet
  <2>4. R \in SUBSET S  BY <2>2
  <2>5. PICK image : image = Through(m, R)  OBVIOUS
  <2>6. image \subseteq T /\ IsFiniteSet(image)
    <3>1. image \subseteq T  BY <1>0, <2>4, <2>5 DEF Through
    <3> QED BY <3>1, FS_Subset
  <2>7. SumFunctionOnSet(g, R) # SumFunctionOnSet(f, image)  BY <2>3, <2>5
  <2>8. R # {}
    <3>1. SUFFICES ASSUME R = {} PROVE FALSE  OBVIOUS
    <3>2. image = {}  BY <3>1, <2>5 DEF Through
    <3>3. SumFunctionOnSet(g, R) = 0 /\ SumFunctionOnSet(f, image) = 0
      BY <3>1, <3>2, <2>3, <2>6, SumUnfolds
    <3> QED BY <3>3, <2>7
  <2>9. PICK x \in R :
            SumFunctionOnSet(g, R) = g[x] + SumFunctionOnSet(g, R \ {x})
    BY <2>3, <2>8, SumUnfolds
  <2>10. x \in S /\ m[x] \in image  BY <2>4, <2>5 DEF Through
  <2>11. SumFunctionOnSet(f, image)
            = f[m[x]] + SumFunctionOnSet(f, image \ {m[x]})
    <3>1. \A z \in image : f[z] \in Int  BY <2>6
    <3> QED BY <3>1, <2>6, <2>10, SumWithout
  <2>12. image \ {m[x]} = Through(m, R \ {x})
    BY <1>0, <2>4, <2>5, <2>10 DEF Through
  <2>13. SumFunctionOnSet(g, R \ {x})
            = SumFunctionOnSet(f, Through(m, R \ {x}))
    BY <2>3, <2>4
  <2>14. g[x] = f[m[x]]  BY <2>10
  <2> QED BY <2>7, <2>9, <2>11, <2>12, <2>13, <2>14
<1>2. Through(m, S) = T  BY <1>0 DEF Through
<1>3. S \notin Bad  BY <1>1
<1> HIDE DEF Bad
<1>4. SumFunctionOnSet(g, S) = SumFunctionOnSet(f, Through(m, S))
  BY <1>3 DEF Bad
<1> QED BY <1>2, <1>4

(* Sums of the same terms.                                                 *)
LEMMA SumOfSame ==
    ASSUME NEW S, IsFiniteSet(S), NEW f, \A x \in S : f[x] \in Int,
           NEW g, \A x \in S : g[x] = f[x]
    PROVE  SumFunctionOnSet(g, S) = SumFunctionOnSet(f, S)
<1> DEFINE m == [x \in S |-> x]
<1>1. Renumbers(m, S, S)  BY DEF Renumbers
<1>2. \A x \in S : g[x] = f[m[x]]  OBVIOUS
<1> HIDE DEF m
<1> QED BY <1>1, <1>2, SumRenumbered

(* A sum of which two terms change.                                        *)
LEMMA SumTwoChange ==
    ASSUME NEW S, IsFiniteSet(S), NEW f, \A x \in S : f[x] \in Int,
           NEW g, \A x \in S : g[x] \in Int, NEW a \in S, NEW b \in S \ {a},
           \A x \in S \ {a, b} : g[x] = f[x]
    PROVE  SumFunctionOnSet(g, S)
              = SumFunctionOnSet(f, S) + (g[a] - f[a]) + (g[b] - f[b])
<1>1. PICK most : most = S \ {a}  OBVIOUS
<1>2. PICK rest : rest = most \ {b}  OBVIOUS
<1>3. IsFiniteSet(most) /\ IsFiniteSet(rest) /\ rest \subseteq S /\ most \subseteq S
  BY <1>1, <1>2, FS_Subset
<1>4. b \in most  BY <1>1
<1>5. SumFunctionOnSet(f, S) = f[a] + SumFunctionOnSet(f, most)
  BY <1>1, SumWithout
<1>6. SumFunctionOnSet(g, S) = g[a] + SumFunctionOnSet(g, most)
  BY <1>1, SumWithout
<1>7. (\A x \in most : f[x] \in Int) /\ (\A x \in most : g[x] \in Int)  BY <1>3
<1>8. SumFunctionOnSet(f, most) = f[b] + SumFunctionOnSet(f, rest)
  BY <1>2, <1>3, <1>4, <1>7, SumWithout
<1>9. SumFunctionOnSet(g, most) = g[b] + SumFunctionOnSet(g, rest)
  BY <1>2, <1>3, <1>4, <1>7, SumWithout
<1>10. \A x \in rest : f[x] \in Int /\ g[x] = f[x]  BY <1>1, <1>2, <1>3
<1>11. SumFunctionOnSet(g, rest) = SumFunctionOnSet(f, rest)
  BY <1>3, <1>10, SumOfSame
<1>12. SumFunctionOnSet(f, rest) \in Int  BY <1>3, <1>10, SumIsInt
<1>13. f[a] \in Int /\ f[b] \in Int /\ g[a] \in Int /\ g[b] \in Int  OBVIOUS
<1> QED BY <1>5, <1>6, <1>8, <1>9, <1>11, <1>12, <1>13

(* A sum of which three terms change.                                      *)
LEMMA SumThreeChange ==
    ASSUME NEW S, IsFiniteSet(S), NEW f, \A x \in S : f[x] \in Int,
           NEW g, \A x \in S : g[x] \in Int,
           NEW a \in S, NEW b \in S \ {a}, NEW c \in S \ {a, b},
           \A x \in S \ {a, b, c} : g[x] = f[x]
    PROVE  SumFunctionOnSet(g, S)
              = SumFunctionOnSet(f, S) + (g[a] - f[a]) + (g[b] - f[b])
                    + (g[c] - f[c])
<1>1. PICK most : most = S \ {c}  OBVIOUS
<1>2. IsFiniteSet(most) /\ most \subseteq S  BY <1>1, FS_Subset
<1>3. SumFunctionOnSet(f, S) = f[c] + SumFunctionOnSet(f, most)
  BY <1>1, SumWithout
<1>4. SumFunctionOnSet(g, S) = g[c] + SumFunctionOnSet(g, most)
  BY <1>1, SumWithout
<1>5. (\A x \in most : f[x] \in Int) /\ (\A x \in most : g[x] \in Int)  BY <1>2
<1>6. a \in most /\ b \in most \ {a}  BY <1>1
<1>7. \A x \in most \ {a, b} : g[x] = f[x]  BY <1>1
<1>8. SumFunctionOnSet(g, most)
        = SumFunctionOnSet(f, most) + (g[a] - f[a]) + (g[b] - f[b])
  BY <1>2, <1>5, <1>6, <1>7, SumTwoChange
<1>9. SumFunctionOnSet(f, most) \in Int  BY <1>2, <1>5, SumIsInt
<1>10. /\ f[a] \in Int /\ f[b] \in Int /\ f[c] \in Int
       /\ g[a] \in Int /\ g[b] \in Int /\ g[c] \in Int
  OBVIOUS
<1> QED BY <1>3, <1>4, <1>8, <1>9, <1>10

(* Kept that drops one entry closes the gap.                               *)
ButOne(kept, seq, i, k) ==
    /\ Len(kept) = IF k < i THEN k ELSE k - 1
    /\ \A j \in 1..Len(kept) : kept[j] = IF j < i THEN seq[j] ELSE seq[j + 1]

LEMMA KeptButOne ==
    ASSUME NEW S, NEW seq \in Seq(S), NEW wanted, NEW i \in 1..Len(seq),
           \A j \in 1..Len(seq) : seq[j] \in wanted <=> j # i
    PROVE  ButOne(Kept(seq, wanted), seq, i, Len(seq))
<1>1. PICK n \in Nat : n = Len(seq) /\ i \in 1..n  OBVIOUS
<1>2. PICK g : Keeps(g, seq, wanted, Len(seq))
               /\ Kept(seq, wanted) = g[Len(seq)]
  <2>1. Len(seq) \in 0..Len(seq)  OBVIOUS
  <2>2. \E g : Keeps(g, seq, wanted, Len(seq))  BY <2>1, KeepsExists
  <2> QED BY <2>2 DEF Kept, Keeps
<1>3. \A k \in 0..n : Selects(g[k], seq, wanted, k, S)
  BY <1>1, <1>2, KeepsSelects
<1>4. \A k \in 0..n : g[k] \in Seq(S)  BY <1>3 DEF Selects
<1>5. g[0] = <<>>  BY <1>1, <1>2 DEF Keeps
<1>6. ASSUME NEW k \in 1..n
      PROVE  g[k] = IF k # i THEN Append(g[k - 1], seq[k]) ELSE g[k - 1]
  <2>1. g[k] = IF seq[k] \in wanted THEN Append(g[k - 1], seq[k]) ELSE g[k - 1]
    <3>1. k \in 0..Len(seq) /\ k # 0  BY <1>1
    <3>2. Keeps(g, seq, wanted, Len(seq))  BY <1>2
    <3> QED BY <3>1, <3>2 DEF Keeps
  <2> QED BY <2>1, <1>1
<1> DEFINE Bad == {k \in 0..n : ~ButOne(g[k], seq, i, k)}
<1>7. Bad = {}
  <2>1. SUFFICES ASSUME Bad # {} PROVE FALSE  OBVIOUS
  <2>2. PICK k \in Bad : \A b \in Bad : k <= b
    <3>1. Bad \subseteq Nat  OBVIOUS
    <3> HIDE DEF Bad
    <3> QED BY <2>1, <3>1, LeastElement
  <2>3. CASE k = 0
    <3>1. ButOne(<<>>, seq, i, 0)  BY <1>1 DEF ButOne
    <3> QED BY <2>2, <2>3, <3>1, <1>5
  <2>4. CASE k # 0
    <3>1. k \in 1..n /\ k - 1 \in 0..n /\ k - 1 \notin Bad  BY <2>2, <2>4
    <3>2. PICK old \in Seq(S) : old = g[k - 1]  BY <1>4, <3>1
    <3>3. ButOne(old, seq, i, k - 1)  BY <3>1, <3>2
    <3>4. PICK l \in Nat : l = Len(old)  BY <3>2
    <3>5. /\ l = IF k - 1 < i THEN k - 1 ELSE k - 2
          /\ \A j \in 1..l : old[j] = IF j < i THEN seq[j] ELSE seq[j + 1]
      BY <3>1, <3>3, <3>4, <1>1 DEF ButOne
    <3>6. CASE k = i
      <4>1. g[k] = old  BY <3>1, <3>2, <3>6, <1>6
      <4>2. ButOne(old, seq, i, k)
        BY <3>1, <3>4, <3>5, <3>6, <1>1 DEF ButOne
      <4> QED BY <2>2, <4>1, <4>2
    <3>7. CASE k # i
      <4>1. g[k] = Append(old, seq[k])  BY <3>1, <3>2, <3>7, <1>6
      <4>2. PICK new : new = g[k]  OBVIOUS
      <4>3. seq[k] \in S  BY <3>1, <1>1
      <4>4. /\ Len(new) = l + 1 /\ new[l + 1] = seq[k]
            /\ \A j \in 1..l : new[j] = old[j]
        BY <3>2, <3>4, <4>1, <4>2, <4>3
      <4>5. l + 1 = IF k < i THEN k ELSE k - 1  BY <3>1, <3>5, <3>7, <1>1
      <4>6. seq[k] = IF l + 1 < i THEN seq[l + 1] ELSE seq[(l + 1) + 1]
        BY <3>1, <3>7, <4>5, <1>1
      <4>7. \A j \in 1..(l + 1) :
                new[j] = IF j < i THEN seq[j] ELSE seq[j + 1]
        BY <4>4, <4>6, <3>5
      <4>8. ButOne(new, seq, i, k)  BY <4>4, <4>5, <4>7 DEF ButOne
      <4> QED BY <2>2, <4>2, <4>8
    <3> QED BY <3>6, <3>7
  <2> QED BY <2>3, <2>4
<1>8. n \notin Bad /\ n \in 0..n  BY <1>7, <1>1
<1> QED BY <1>1, <1>2, <1>8

-----------------------------------------------------------------------------
(* Kept leaves the entries it keeps where they are among themselves.       *)
Embeds(kept, seq, k) ==
    \E m \in [DOMAIN kept -> 1..k] :
        /\ IsInjective(m)
        /\ \A i \in DOMAIN kept : kept[i] = seq[m[i]]

LEMMA KeepsEmbeds ==
    ASSUME NEW S, NEW seq \in Seq(S), NEW wanted, NEW g,
           Keeps(g, seq, wanted, Len(seq)), NEW k \in 0..Len(seq)
    PROVE  Embeds(g[k], seq, k)
<1> DEFINE Bad == {n \in 0..Len(seq) : ~Embeds(g[n], seq, n)}
<1>1. SUFFICES ASSUME Bad # {} PROVE FALSE  OBVIOUS
<1>2. PICK n \in Bad : \A m \in Bad : n <= m
  <2>1. Bad \subseteq Nat  OBVIOUS
  <2> HIDE DEF Bad
  <2> QED BY <1>1, <2>1, LeastElement
<1>3. CASE n = 0
  <2>1. g[n] = <<>>  BY <1>3 DEF Keeps
  <2>2. Embeds(<<>>, seq, 0)
    <3>1. [i \in {} |-> 0] \in [DOMAIN <<>> -> 1..0]
          /\ IsInjective([i \in {} |-> 0])
      BY DEF IsInjective
    <3> QED BY <3>1 DEF Embeds
  <2> QED BY <1>2, <1>3, <2>1, <2>2
<1>4. CASE n # 0
  <2>1. n - 1 \in 0..Len(seq) /\ n - 1 \notin Bad  BY <1>2, <1>4
  <2>2. PICK m \in [DOMAIN g[n - 1] -> 1..(n - 1)] :
           /\ IsInjective(m)
           /\ \A i \in DOMAIN g[n - 1] : g[n - 1][i] = seq[m[i]]
    BY <2>1 DEF Embeds
  <2>3. n \in 1..Len(seq) /\ seq[n] \in S  BY <1>4
  <2>4. g[n] = IF seq[n] \in wanted THEN Append(g[n - 1], seq[n])
               ELSE g[n - 1]
    BY <1>4 DEF Keeps
  <2>5. CASE seq[n] \notin wanted
    <3>1. m \in [DOMAIN g[n] -> 1..n]  BY <2>2, <2>3, <2>4, <2>5
    <3>2. Embeds(g[n], seq, n)  BY <3>1, <2>2, <2>4, <2>5 DEF Embeds
    <3> QED BY <3>2, <1>2
  <2>6. CASE seq[n] \in wanted
    <3>1. PICK old : old = g[n - 1]  OBVIOUS
    <3>2. old \in Seq(S)
      <4>1. Selects(g[n - 1], seq, wanted, n - 1, S)
        BY <2>1, KeepsSelects
      <4> QED BY <3>1, <4>1 DEF Selects
    <3>3. PICK new : new = g[n]  OBVIOUS
    <3>4. new = Append(old, seq[n])  BY <2>4, <2>6, <3>1, <3>3
    <3>5. PICK l \in Nat : l = Len(old) /\ DOMAIN old = 1..l  BY <3>2
    <3>6. /\ DOMAIN new = 1..(l + 1) /\ new[l + 1] = seq[n]
          /\ \A i \in 1..l : new[i] = old[i]
      BY <3>2, <3>4, <3>5, <2>3, AppendAt
    <3> DEFINE h == [i \in 1..(l + 1) |-> IF i = l + 1 THEN n ELSE m[i]]
    <3>7. \A i \in 1..l : m[i] \in 1..(n - 1)  BY <2>2, <3>1, <3>5
    <3>8. \A i \in 1..(l + 1) : i \notin 1..l => i = l + 1  OBVIOUS
    <3>9. h \in [1..(l + 1) -> 1..n]
      BY <2>3, <3>7, <3>8
    <3>10. ASSUME NEW i \in 1..(l + 1), NEW j \in 1..(l + 1), h[i] = h[j]
           PROVE  i = j
      <4>1. CASE i \in 1..l /\ j \in 1..l
        <5>1. m[i] = m[j]  BY <3>10, <4>1
        <5> QED BY <5>1, <4>1, <2>2, <3>1, <3>5 DEF IsInjective
      <4>2. CASE i \in 1..l /\ j \notin 1..l
        <5>1. h[i] \in 1..(n - 1) /\ h[j] = n  BY <4>2, <3>7, <3>8
        <5> QED BY <5>1, <3>10, <2>3
      <4>3. CASE i \notin 1..l /\ j \in 1..l
        <5>1. h[j] \in 1..(n - 1) /\ h[i] = n  BY <4>3, <3>7, <3>8
        <5> QED BY <5>1, <3>10, <2>3
      <4>4. CASE i \notin 1..l /\ j \notin 1..l  BY <4>4, <3>8
      <4> QED BY <4>1, <4>2, <4>3, <4>4
    <3>11. \A i \in 1..(l + 1) : new[i] = seq[h[i]]
      <4> TAKE i \in 1..(l + 1)
      <4>1. CASE i \in 1..l
        <5>1. h[i] = m[i] /\ new[i] = old[i]  BY <4>1, <3>6
        <5> HIDE DEF h
        <5> QED BY <5>1, <4>1, <2>2, <3>1, <3>5
      <4>2. CASE i \notin 1..l  BY <4>2, <3>6, <3>8
      <4> QED BY <4>1, <4>2
    <3> HIDE DEF h
    <3>12. IsInjective(h)  BY <3>9, <3>10 DEF IsInjective
    <3>13. Embeds(new, seq, n)  BY <3>6, <3>9, <3>11, <3>12 DEF Embeds
    <3> QED BY <3>3, <3>13, <1>2
  <2> QED BY <2>5, <2>6
<1> QED BY <1>3, <1>4

LEMMA KeptPicks ==
    ASSUME NEW S, NEW seq \in Seq(S), NEW wanted
    PROVE  \E m : Picks(Kept(seq, wanted), seq, m)
<1>1. PICK g : Keeps(g, seq, wanted, Len(seq))
               /\ Kept(seq, wanted) = g[Len(seq)]
  <2>1. Len(seq) \in 0..Len(seq)  OBVIOUS
  <2>2. \E g : Keeps(g, seq, wanted, Len(seq))  BY <2>1, KeepsExists
  <2> QED BY <2>2 DEF Kept, Keeps
<1>2. Embeds(g[Len(seq)], seq, Len(seq))
  <2>1. Len(seq) \in 0..Len(seq)  OBVIOUS
  <2> QED BY <1>1, <2>1, KeepsEmbeds
<1>3. DOMAIN seq = 1..Len(seq)  OBVIOUS
<1> QED BY <1>1, <1>2, <1>3 DEF Embeds, Picks

(* Without its empty lists it holds the same.                              *)
LEMMA OnceWithoutEmpty ==
    ASSUME NEW T, NEW p \in Seq(Seq(T)), NEW S, OnceEach(p, S)
    PROVE  /\ Kept(p, Range(p) \ {<<>>}) \in Seq(Seq(T))
           /\ OnceEach(Kept(p, Range(p) \ {<<>>}), S)
           /\ \A i \in DOMAIN Kept(p, Range(p) \ {<<>>}) :
                /\ Kept(p, Range(p) \ {<<>>})[i] # <<>>
                /\ Kept(p, Range(p) \ {<<>>})[i] \in Range(p)
<1>1. PICK busy : busy = Range(p) \ {<<>>}  OBVIOUS
<1>2. PICK q : q = Kept(p, busy)  OBVIOUS
<1>3. q \in Seq(Seq(T)) /\ ToSet(q) = ToSet(p) \cap busy  BY <1>2, KeptSelects
<1>4. ToSet(q) = busy  BY <1>1, <1>3, RangeIsSet
<1>5. \A i \in DOMAIN q : q[i] # <<>> /\ q[i] \in Range(p)
  BY <1>1, <1>4 DEF ToSet
<1>6. PICK m : Picks(q, p, m)
  <2>1. \E m : Picks(Kept(p, busy), p, m)  BY KeptPicks
  <2> QED BY <2>1, <1>2
<1>7. OnceEach(q, UNION {ToSet(p[m[i]]) : i \in DOMAIN q})  BY <1>6, OncePicked
<1>8. UNION {ToSet(p[m[i]]) : i \in DOMAIN q} = S
  <2>1. ASSUME NEW x \in UNION {ToSet(p[m[i]]) : i \in DOMAIN q} PROVE x \in S
    BY <1>6 DEF OnceEach, Picks
  <2>2. ASSUME NEW x \in S
        PROVE  x \in UNION {ToSet(p[m[i]]) : i \in DOMAIN q}
    <3>1. PICK j \in DOMAIN p : x \in ToSet(p[j])  BY DEF OnceEach
    <3>2. p[j] # <<>>  BY <3>1 DEF ToSet
    <3>3. p[j] \in Range(p)  BY DEF Range
    <3>4. p[j] \in ToSet(q)  BY <3>2, <3>3, <1>1, <1>4
    <3>5. PICK i \in DOMAIN q : q[i] = p[j]  BY <3>4 DEF ToSet
    <3>6. p[m[i]] = p[j]  BY <3>5, <1>6 DEF Picks
    <3> QED BY <3>1, <3>6
  <2> QED BY <2>1, <2>2
<1>9. OnceEach(q, S)  BY <1>7, <1>8
<1> QED BY <1>1, <1>2, <1>3, <1>5, <1>9

-----------------------------------------------------------------------------
(* Loops: x0 and then step by step, X[k] what may come after k steps.      *)

Loops(g, x0, s, k) ==
    g = [n \in 0..k |-> IF n = 0 THEN x0 ELSE s[n][g[n - 1]]]

LEMMA LoopExists ==
    ASSUME NEW x0, NEW s, NEW k \in Nat
    PROVE  \E g : Loops(g, x0, s, k)
<1> DEFINE Bad == {n \in Nat : ~\E g : Loops(g, x0, s, n)}
<1>1. SUFFICES ASSUME Bad # {} PROVE FALSE  OBVIOUS
<1>2. PICK n \in Bad : \A m \in Bad : n <= m
  <2>1. Bad \subseteq Nat  OBVIOUS
  <2> HIDE DEF Bad
  <2> QED BY <1>1, <2>1, LeastElement
<1>3. CASE n = 0
  <2> DEFINE g == [m \in 0..0 |-> x0]
  <2>1. 0..0 = {0}  OBVIOUS
  <2>2. g = [m \in 0..0 |-> IF m = 0 THEN x0 ELSE s[m][g[m - 1]]]  BY <2>1
  <2> HIDE DEF g
  <2> QED BY <2>2, <1>2, <1>3 DEF Loops
<1>4. CASE n # 0
  <2>1. n \in Nat /\ n - 1 \in Nat /\ n - 1 \notin Bad  BY <1>2, <1>4
  <2>2. PICK f : Loops(f, x0, s, n - 1)  BY <2>1
  <2> DEFINE g == [m \in 0..n |-> IF m = n THEN s[n][f[n - 1]] ELSE f[m]]
  <2>3. ASSUME NEW m \in 0..n
        PROVE  g[m] = IF m = 0 THEN x0 ELSE s[m][g[m - 1]]
    <3>1. CASE m = n
      <4>1. g[m] = s[n][f[n - 1]]  BY <3>1
      <4>2. n - 1 \in 0..n /\ n - 1 # n  BY <2>1
      <4>3. g[n - 1] = f[n - 1]  BY <4>2
      <4> HIDE DEF g
      <4> QED BY <4>1, <4>3, <3>1, <1>4
    <3>2. CASE m # n
      <4>1. m \in 0..(n - 1) /\ m - 1 # n  BY <3>2, <2>1
      <4>2. g[m] = f[m]  BY <3>2
      <4>3. f[m] = IF m = 0 THEN x0 ELSE s[m][f[m - 1]]
        BY <2>2, <4>1, Zenon DEF Loops
      <4>4. m # 0 => m - 1 \in 0..n  BY <4>1, <2>1
      <4>5. m # 0 => g[m - 1] = f[m - 1]  BY <4>1, <4>4
      <4> HIDE DEF g
      <4> QED BY <4>2, <4>3, <4>5
    <3> QED BY <3>1, <3>2
  <2>4. g = [m \in 0..n |-> g[m]]  OBVIOUS
  <2> HIDE DEF g
  <2>5. g = [m \in 0..n |-> IF m = 0 THEN x0 ELSE s[m][g[m - 1]]]
    BY <2>3, <2>4
  <2> QED BY <2>5, <1>2 DEF Loops
<1> QED BY <1>3, <1>4

(* What holds at first and is kept by every step holds at the end.         *)
LEMMA LoopKeeps ==
    ASSUME NEW k \in Nat, NEW g, NEW X, g[0] \in X[0],
           \A n \in 1..k : g[n - 1] \in X[n - 1] => g[n] \in X[n]
    PROVE  \A n \in 0..k : g[n] \in X[n]
<1> DEFINE Bad == {n \in 0..k : g[n] \notin X[n]}
<1>1. SUFFICES ASSUME Bad # {} PROVE FALSE  OBVIOUS
<1>2. PICK n \in Bad : \A m \in Bad : n <= m
  <2>1. Bad \subseteq Nat  OBVIOUS
  <2> HIDE DEF Bad
  <2> QED BY <1>1, <2>1, LeastElement
<1>3. CASE n = 0  BY <1>2, <1>3
<1>4. CASE n # 0
  <2>1. n \in 1..k /\ n - 1 \in 0..k /\ ~(n <= n - 1)  BY <1>2, <1>4
  <2>2. n - 1 \notin Bad  BY <1>2, <2>1
  <2>3. g[n - 1] \in X[n - 1]  BY <2>1, <2>2
  <2> QED BY <2>1, <2>3, <1>2
<1> QED BY <1>3, <1>4

LEMMA LoopStays ==
    ASSUME NEW k \in Nat, NEW x0, NEW s, NEW g, Loops(g, x0, s, k), NEW X,
           x0 \in X[0], \A n \in 1..k : s[n] \in [X[n - 1] -> X[n]]
    PROVE  \A n \in 0..k : g[n] \in X[n]
<1>1. g[0] \in X[0]  BY DEF Loops
<1>2. ASSUME NEW n \in 1..k, g[n - 1] \in X[n - 1] PROVE g[n] \in X[n]
  <2>1. n \in 0..k /\ n # 0  OBVIOUS
  <2>2. g[n] = s[n][g[n - 1]]  BY <2>1 DEF Loops
  <2> QED BY <2>2, <1>2
<1> QED BY <1>1, <1>2, LoopKeeps

(* The same when it is always the same set.                                *)
LEMMA LoopStaysIn ==
    ASSUME NEW k \in Nat, NEW A, NEW x0 \in A, NEW s,
           \A n \in 1..k : s[n] \in [A -> A]
    PROVE  \E g : Loops(g, x0, s, k) /\ \A n \in 0..k : g[n] \in A
<1>1. PICK g : Loops(g, x0, s, k)  BY LoopExists
<1>2. PICK X : X = [n \in 0..k |-> A]  OBVIOUS
<1>3. x0 \in X[0] /\ \A n \in 1..k : s[n] \in [X[n - 1] -> X[n]]
  <2>1. 0 \in 0..k  OBVIOUS
  <2>2. \A n \in 1..k : n \in 0..k /\ n - 1 \in 0..k  OBVIOUS
  <2> QED BY <1>2, <2>1, <2>2
<1>4. \A n \in 0..k : g[n] \in X[n]  BY <1>1, <1>3, LoopStays
<1> QED BY <1>1, <1>2, <1>4

LEMMA LoopKeepsIn ==
    ASSUME NEW k \in Nat, NEW g, NEW A, g[0] \in A,
           \A n \in 1..k : g[n - 1] \in A => g[n] \in A
    PROVE  \A n \in 0..k : g[n] \in A
<1>1. PICK X : X = [n \in 0..k |-> A]  OBVIOUS
<1>2. \A n \in 0..k : X[n] = A  BY <1>1
<1>3. g[0] \in X[0] /\ \A n \in 1..k : g[n - 1] \in X[n - 1] => g[n] \in X[n]
  <2>1. 0 \in 0..k  OBVIOUS
  <2>2. \A n \in 1..k : n \in 0..k /\ n - 1 \in 0..k  OBVIOUS
  <2> QED BY <1>2, <2>1, <2>2
<1>4. \A n \in 0..k : g[n] \in X[n]  BY <1>3, LoopKeeps
<1> QED BY <1>2, <1>4

-----------------------------------------------------------------------------

LEMMA AppendSets ==
    ASSUME NEW S, NEW s \in Seq(S), NEW e \in S
    PROVE  /\ Append(s, e) \in Seq(S)
           /\ ToSet(Append(s, e)) = ToSet(s) \cup {e}
           /\ IsInjective(s) /\ e \notin ToSet(s) => IsInjective(Append(s, e))
<1>1. PICK one : one = <<e>>  OBVIOUS
<1>2. one \in Seq(S) /\ ToSet(one) = {e} /\ IsInjective(one)  BY <1>1, Single
<1>3. Append(s, e) = s \o one  BY <1>1
<1> QED BY <1>2, <1>3, ConcatSets

(* The least of some naturals, the least and the greatest of two.          *)
LEMMA MinOf ==
    ASSUME NEW S, S \subseteq Nat, S # {}
    PROVE  Min(S) \in S /\ \A y \in S : Min(S) <= y
<1>1. \E x \in S : \A y \in S : x <= y  BY LeastElement
<1> QED BY <1>1 DEF Min

LEMMA MinOfTwo ==
    ASSUME NEW a \in Int, NEW b \in Int
    PROVE  Min({a, b}) \in Int /\ Min({a, b}) \in {a, b}
           /\ Min({a, b}) <= a /\ Min({a, b}) <= b
<1>1. \E x \in {a, b} : \A y \in {a, b} : x <= y  OBVIOUS
<1> QED BY <1>1 DEF Min

LEMMA MaxOfTwo ==
    ASSUME NEW a \in Int, NEW b \in Int
    PROVE  Max({a, b}) \in Int /\ Max({a, b}) \in {a, b}
           /\ a <= Max({a, b}) /\ b <= Max({a, b})
<1>1. \E x \in {a, b} : \A y \in {a, b} : x >= y  OBVIOUS
<1> QED BY <1>1 DEF Max

LEMMA MinOfThree ==
    ASSUME NEW a \in Nat, NEW b \in Nat, NEW c \in Nat
    PROVE  Min({a, b, c}) \in Nat
           /\ Min({a, b, c}) <= a /\ Min({a, b, c}) <= b /\ Min({a, b, c}) <= c
<1>1. {a, b, c} \subseteq Nat /\ {a, b, c} # {}  OBVIOUS
<1> QED BY <1>1, MinOf
=============================================================================
