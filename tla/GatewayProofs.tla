---------------------------- MODULE GatewayProofs ----------------------------
(***************************************************************************)
(* The safety of two parts of the gateway, each for itself: AdmissionGate, *)
(* for any number of requests, slots, threads and any depth limit, and     *)
(* OsrmClient, for any gateways, requests, keys, times to live, call times *)
(* and number of attempts.                                                 *)
(***************************************************************************)
EXTENDS AdmissionGate, OsrmClient, FiniteSetTheorems, TLAPS

-----------------------------------------------------------------------------
(* AdmissionGate.                                                          *)
(*                                                                         *)
(* The inductive invariant joins the count of waiters, the permits and the *)
(* queue, because each needs the others: a released permit is assigned to  *)
(* the head of the queue, which must be a request that holds none, and a   *)
(* request leaves the count only if it was in it.  The depth bound needs   *)
(* the requests between the load and the increment: they are at most one   *)
(* per thread and each of them is a waiter to be.                          *)

(* The requests that f puts in a state of S.                               *)
Members(f, S) == {q \in Slots : f[q] \in S}

(* What a request in state s contributes to the size of such a set.        *)
Weight(s, S) == IF s \in S THEN 1 ELSE 0

(* Waiters and waiters to be.                                              *)
EntrantsBounded ==
    MaxDepth > 0 =>
       waiting + Cardinality(At({"entering"})) <= MaxDepth + Threads - 1

GateInv ==
    /\ GateTypeOK
    /\ WaiterCountExact
    /\ PermitsConserved
    /\ QueueIsSound
    /\ EntrantsBounded

(* Moving one request changes the size of a set of states by its weights.  *)
LEMMA Move ==
    ASSUME NEW f \in [Slots -> Places], NEW r \in Slots,
           NEW to \in Places, NEW S
    PROVE  /\ Cardinality(Members(f, S)) \in Nat
           /\ Cardinality(Members([f EXCEPT ![r] = to], S)) =
                 Cardinality(Members(f, S)) + Weight(to, S) - Weight(f[r], S)
<1> DEFINE g == [f EXCEPT ![r] = to]
           M == Members(f, S)
           R == M \ {r}
<1>1. IsFiniteSet(Slots)  BY GateAssumption
<1>2. M \subseteq Slots  BY DEF Members
<1>3. IsFiniteSet(M) /\ Cardinality(M) \in Nat
  BY <1>1, <1>2, FS_Subset, FS_CardinalityType
<1>4. /\ IsFiniteSet(R) /\ Cardinality(R) \in Nat
      /\ Cardinality(R) = Cardinality(M) - Weight(f[r], S)
  <2>1. CASE r \in M
    BY <2>1, <1>3, FS_RemoveElement, FS_CardinalityType
       DEF Members, Weight
  <2>2. CASE r \notin M
    <3>1. R = M  BY <2>2
    <3>2. f[r] \notin S  BY <2>2 DEF Members
    <3>3. Weight(f[r], S) = 0  BY <3>2 DEF Weight
    <3> HIDE DEF M, R
    <3> QED  BY <3>1, <3>3, <1>3
  <2> QED  BY <2>1, <2>2
<1>5. Weight(f[r], S) \in Nat  BY DEF Weight
<1>6. Cardinality(Members(g, S)) = Cardinality(R) + Weight(to, S)
  <2>1. CASE to \in S
    <3>1. Members(g, S) = R \cup {r}  BY <2>1 DEF Members
    <3>2. Cardinality(R \cup {r}) = Cardinality(R) + 1
      BY <1>4, FS_AddElement
    <3>3. Weight(to, S) = 1  BY <2>1 DEF Weight
    <3> HIDE DEF R, g
    <3> QED  BY <3>1, <3>2, <3>3
  <2>2. CASE to \notin S
    <3>1. Members(g, S) = R  BY <2>2 DEF Members
    <3>2. Weight(to, S) = 0  BY <2>2 DEF Weight
    <3> HIDE DEF R, g
    <3> QED  BY <3>1, <3>2, <1>4
  <2> QED  BY <2>1, <2>2
<1>7. Weight(to, S) \in Nat  BY DEF Weight
<1> HIDE DEF M, R
<1> QED  BY <1>3, <1>4, <1>5, <1>6, <1>7 DEF M

(* The same of the requests where they are.                                *)
LEMMA AtMembers == ASSUME NEW S PROVE At(S) = Members(place, S)
BY DEF At, Members

-----------------------------------------------------------------------------
(* The queue as a duplicate-free sequence.                                 *)

Distinct(q) == \A i, j \in DOMAIN q : q[i] = q[j] => i = j
Elems(q) == {q[i] : i \in DOMAIN q}

(* Joining at the end.                                                     *)
LEMMA AppendElems ==
    ASSUME NEW q \in Seq(Slots), NEW r \in Slots,
           Distinct(q), r \notin Elems(q)
    PROVE  /\ Append(q, r) \in Seq(Slots)
           /\ Append(q, r) # <<>>
           /\ Distinct(Append(q, r))
           /\ Elems(Append(q, r)) = Elems(q) \cup {r}
<1> DEFINE p == Append(q, r)
<1>1. /\ p \in Seq(Slots) /\ Len(p) = Len(q) + 1
      /\ DOMAIN p = 1..(Len(q) + 1) /\ DOMAIN q = 1..Len(q)
      /\ Len(q) \in Nat
      /\ \A i \in 1..Len(q) : p[i] = q[i]
      /\ p[Len(q) + 1] = r
  OBVIOUS
<1> HIDE DEF p
<1>2. p # <<>>  BY <1>1
<1>3. \A i \in 1..Len(q) : q[i] # r  BY <1>1 DEF Elems
<1>4. Distinct(p)  BY <1>1, <1>3 DEF Distinct
<1>5. Elems(p) = Elems(q) \cup {r}
  <2>1. ASSUME NEW x \in Elems(p) PROVE x \in Elems(q) \cup {r}
    <3>1. PICK i \in 1..(Len(q) + 1) : x = p[i]  BY <1>1 DEF Elems
    <3>2. i \in 1..Len(q) \/ i = Len(q) + 1  BY <1>1
    <3> QED  BY <3>1, <3>2, <1>1 DEF Elems
  <2>2. ASSUME NEW x \in Elems(q) PROVE x \in Elems(p)
    <3>1. PICK i \in 1..Len(q) : x = q[i]  BY <1>1 DEF Elems
    <3>2. i \in 1..(Len(q) + 1) /\ p[i] = x  BY <3>1, <1>1
    <3> QED  BY <3>2, <1>1 DEF Elems
  <2>3. r \in Elems(p)
    <3>1. Len(q) + 1 \in DOMAIN p  BY <1>1
    <3> QED  BY <3>1, <1>1 DEF Elems
  <2> QED  BY <2>1, <2>2, <2>3
<1> QED  BY <1>1, <1>2, <1>4, <1>5 DEF p

(* Leaving at the head.                                                    *)
LEMMA TailElems ==
    ASSUME NEW q \in Seq(Slots), q # <<>>, Distinct(q)
    PROVE  /\ Tail(q) \in Seq(Slots)
           /\ Head(q) \in Slots /\ Head(q) \in Elems(q)
           /\ Distinct(Tail(q))
           /\ Elems(Tail(q)) = Elems(q) \ {Head(q)}
<1> DEFINE p == Tail(q)
           n == Len(q)
<1>1. /\ p \in Seq(Slots) /\ n \in Nat /\ n > 0
      /\ DOMAIN p = 1..(n - 1) /\ DOMAIN q = 1..n
      /\ \A i \in 1..(n - 1) : p[i] = q[i + 1]
      /\ Head(q) = q[1] /\ q[1] \in Slots
  OBVIOUS
<1>2. 1 \in DOMAIN q  BY <1>1
<1> HIDE DEF p, n
<1>3. Head(q) \in Elems(q)  BY <1>1, <1>2 DEF Elems
<1>4. Distinct(p)
  <2> SUFFICES ASSUME NEW i \in 1..(n - 1), NEW j \in 1..(n - 1),
                      p[i] = p[j]
               PROVE  i = j
    BY <1>1 DEF Distinct
  <2>1. q[i + 1] = q[j + 1] /\ i + 1 \in DOMAIN q /\ j + 1 \in DOMAIN q
    BY <1>1
  <2> QED  BY <2>1 DEF Distinct
<1>5. Elems(p) = Elems(q) \ {Head(q)}
  <2>1. ASSUME NEW x \in Elems(p) PROVE x \in Elems(q) \ {Head(q)}
    <3>1. PICK i \in 1..(n - 1) : x = p[i]  BY <1>1 DEF Elems
    <3>2. x = q[i + 1] /\ i + 1 \in DOMAIN q /\ i + 1 # 1  BY <3>1, <1>1
    <3>3. q[i + 1] # q[1]  BY <3>2, <1>2 DEF Distinct
    <3> QED  BY <3>2, <3>3, <1>1 DEF Elems
  <2>2. ASSUME NEW x \in Elems(q), x # Head(q) PROVE x \in Elems(p)
    <3>1. PICK i \in 1..n : x = q[i]  BY <1>1 DEF Elems
    <3>2. i # 1  BY <3>1, <2>2, <1>1
    <3>3. i - 1 \in 1..(n - 1) /\ p[i - 1] = q[(i - 1) + 1]
      BY <3>2, <1>1
    <3>4. (i - 1) + 1 = i  OBVIOUS
    <3> QED  BY <3>1, <3>3, <3>4, <1>1 DEF Elems
  <2> QED  BY <2>1, <2>2
<1> QED  BY <1>1, <1>3, <1>4, <1>5 DEF p
(* Leaving from anywhere.                                                  *)
LEMMA WithoutElems ==
    ASSUME queue \in Seq(Slots), Distinct(queue), NEW r \in Elems(queue)
    PROVE  /\ Without(r) \in Seq(Slots)
           /\ Distinct(Without(r))
           /\ Elems(Without(r)) = Elems(queue) \ {r}
<1> DEFINE w == Without(r)
           n == Len(queue)
<1>1. /\ n \in Nat /\ DOMAIN queue = 1..n
      /\ \A i \in 1..n : queue[i] \in Slots
  OBVIOUS
<1>2. PICK k \in 1..n : queue[k] = r  BY <1>1 DEF Elems
<1>3. n - 1 \in Nat  BY <1>1, <1>2
<1>4. \A i \in 1..(n - 1) : (\E j \in 1..i : queue[j] = r) <=> k <= i
  <2> SUFFICES ASSUME NEW i \in 1..(n - 1)
               PROVE  (\E j \in 1..i : queue[j] = r) <=> k <= i
    OBVIOUS
  <2>1. ASSUME NEW j \in 1..i, queue[j] = r PROVE k <= i
    <3>1. j \in DOMAIN queue /\ k \in DOMAIN queue  BY <1>1
    <3>2. j = k  BY <3>1, <2>1, <1>2 DEF Distinct
    <3> QED  BY <3>2
  <2>2. ASSUME k <= i PROVE k \in 1..i  BY <2>2
  <2> QED  BY <2>1, <2>2, <1>2
<1>5. /\ DOMAIN w = 1..(n - 1)
      /\ \A i \in 1..(n - 1) : w[i] = IF k <= i THEN queue[i + 1]
                                               ELSE queue[i]
  BY <1>4 DEF Without
<1>6. w = [i \in 1..(n - 1) |-> w[i]]  BY DEF Without
<1> HIDE DEF w, n
<1>7. \A i \in 1..(n - 1) : w[i] \in Slots
  <2> TAKE i \in 1..(n - 1)
  <2>1. i \in 1..n /\ i + 1 \in 1..n  BY <1>1
  <2> QED  BY <2>1, <1>1, <1>5
<1>8. w \in Seq(Slots)
  <2>1. w \in [1..(n - 1) -> Slots]  BY <1>6, <1>7
  <2> QED  BY <2>1, <1>3
<1>9. Distinct(w)
  <2> SUFFICES ASSUME NEW i \in 1..(n - 1), NEW j \in 1..(n - 1),
                      w[i] = w[j]
               PROVE  i = j
    BY <1>5 DEF Distinct
  <2> DEFINE a == IF k <= i THEN i + 1 ELSE i
             b == IF k <= j THEN j + 1 ELSE j
  <2>1. a \in 1..n /\ b \in 1..n  BY <1>1
  <2>2. w[i] = queue[a] /\ w[j] = queue[b]  BY <1>5
  <2>3. a = b  BY <2>1, <2>2, <1>1 DEF Distinct
  <2> QED  BY <2>3, <1>2
<1>10. Elems(w) = Elems(queue) \ {r}
  <2>1. ASSUME NEW x \in Elems(w) PROVE x \in Elems(queue) \ {r}
    <3>1. PICK i \in 1..(n - 1) : x = w[i]  BY <1>5 DEF Elems
    <3> DEFINE a == IF k <= i THEN i + 1 ELSE i
    <3>2. a \in 1..n /\ a # k  BY <1>1
    <3>3. x = queue[a]  BY <3>1, <1>5
    <3>4. queue[a] # queue[k]  BY <3>2, <1>1 DEF Distinct
    <3> QED  BY <3>2, <3>3, <3>4, <1>1, <1>2 DEF Elems
  <2>2. ASSUME NEW x \in Elems(queue), x # r PROVE x \in Elems(w)
    <3>1. PICK i \in 1..n : x = queue[i]  BY <1>1 DEF Elems
    <3>2. i # k  BY <3>1, <2>2, <1>2
    <3> DEFINE a == IF k < i THEN i - 1 ELSE i
    <3>3. a \in 1..(n - 1)  BY <3>2, <1>1
    <3>4. w[a] = queue[i]
      <4>1. CASE k < i
        <5>1. a = i - 1 /\ k <= a /\ a + 1 = i  BY <4>1
        <5> QED  BY <5>1, <3>3, <1>5
      <4>2. CASE i < k
        <5>1. a = i /\ ~(k <= a)  BY <4>2
        <5> QED  BY <5>1, <3>3, <1>5
      <4> QED  BY <4>1, <4>2, <3>2
    <3> QED  BY <3>1, <3>3, <3>4, <1>5 DEF Elems
  <2> QED  BY <2>1, <2>2
<1> QED  BY <1>8, <1>9, <1>10 DEF w
(* QueueIsSound in these words.                                            *)
LEMMA SoundQueue ==
    QueueIsSound <=> /\ queue # <<>> => permits = 0
                     /\ Distinct(queue)
                     /\ Elems(queue) = Members(place, {"queued"})
BY DEF QueueIsSound, Distinct, Elems, At, Members

-----------------------------------------------------------------------------
(* Every step, by what it does to the sizes of the three sets the          *)
(* invariant counts.                                                       *)

NCounted(f) == Cardinality(Members(f, Counted))
NHolding(f) == Cardinality(Members(f, Holding))
NEntering(f) == Cardinality(Members(f, {"entering"}))

(* g differs from f in that request r is in state to.                      *)
Moved(f, g, r, to) ==
    /\ g \in [Slots -> Places]
    /\ NCounted(f) \in Nat /\ NHolding(f) \in Nat /\ NEntering(f) \in Nat
    /\ NCounted(g) = NCounted(f) + Weight(to, Counted)
                                 - Weight(f[r], Counted)
    /\ NHolding(g) = NHolding(f) + Weight(to, Holding)
                                 - Weight(f[r], Holding)
    /\ NEntering(g) = NEntering(f) + Weight(to, {"entering"})
                                 - Weight(f[r], {"entering"})
    /\ Members(g, {"queued"}) =
          IF to = "queued" THEN Members(f, {"queued"}) \cup {r}
          ELSE Members(f, {"queued"}) \ {r}

(* One request moves.                                                      *)
LEMMA MoveOne ==
    ASSUME NEW f \in [Slots -> Places], NEW r \in Slots,
           NEW to \in Places
    PROVE  Moved(f, [f EXCEPT ![r] = to], r, to)
<1> DEFINE g == [f EXCEPT ![r] = to]
<1>1. g \in [Slots -> Places]  OBVIOUS
<1>2. Members(g, {"queued"}) =
         IF to = "queued" THEN Members(f, {"queued"}) \cup {r}
         ELSE Members(f, {"queued"}) \ {r}
  BY DEF Members
<1>3. /\ Cardinality(Members(f, Counted)) \in Nat
      /\ Cardinality(Members(g, Counted)) =
            Cardinality(Members(f, Counted)) + Weight(to, Counted)
                                             - Weight(f[r], Counted)
  BY Move
<1>4. /\ Cardinality(Members(f, Holding)) \in Nat
      /\ Cardinality(Members(g, Holding)) =
            Cardinality(Members(f, Holding)) + Weight(to, Holding)
                                             - Weight(f[r], Holding)
  BY Move
<1>5. /\ Cardinality(Members(f, {"entering"})) \in Nat
      /\ Cardinality(Members(g, {"entering"})) =
            Cardinality(Members(f, {"entering"})) + Weight(to, {"entering"})
                                             - Weight(f[r], {"entering"})
  BY Move
<1> HIDE DEF g
<1>6. Moved(f, g, r, to)
  BY <1>1, <1>2, <1>3, <1>4, <1>5
     DEF Moved, NCounted, NHolding, NEntering
<1> QED  BY <1>6 DEF g

(* The invariant in terms of the sizes.                                    *)
LEMMA InvSizes ==
    GateInv <=> /\ GateTypeOK
                /\ waiting = NCounted(place)
                /\ permits + NHolding(place) = Concurrency
                /\ queue # <<>> => permits = 0
                /\ Distinct(queue)
                /\ Elems(queue) = Members(place, {"queued"})
                /\ MaxDepth > 0 =>
                      waiting + NEntering(place) <= MaxDepth + Threads - 1
<1>1. /\ NCounted(place) = Cardinality(At(Counted))
      /\ NHolding(place) = Cardinality(At(Holding))
      /\ NEntering(place) = Cardinality(At({"entering"}))
  BY AtMembers DEF NCounted, NHolding, NEntering
<1> QED
  BY <1>1, SoundQueue
     DEF GateInv, WaiterCountExact, PermitsConserved, EntrantsBounded
(* The same of the next state.                                             *)
LEMMA InvSizesNext ==
    ASSUME GateTypeOK',
           waiting' = NCounted(place'),
           permits' + NHolding(place') = Concurrency,
           queue' # <<>> => permits' = 0,
           Distinct(queue'),
           Elems(queue') = Members(place', {"queued"}),
           MaxDepth > 0 =>
              waiting' + NEntering(place') <= MaxDepth + Threads - 1
    PROVE  GateInv'
<1>1. /\ At(Counted)' = Members(place', Counted)
      /\ At(Holding)' = Members(place', Holding)
      /\ At({"entering"})' = Members(place', {"entering"})
      /\ At({"queued"})' = Members(place', {"queued"})
  BY DEF At, Members
<1>2. /\ NCounted(place') = Cardinality(At(Counted)')
      /\ NHolding(place') = Cardinality(At(Holding)')
      /\ NEntering(place') = Cardinality(At({"entering"})')
  BY <1>1 DEF NCounted, NHolding, NEntering
<1>3. WaiterCountExact'  BY <1>2 DEF WaiterCountExact
<1>4. PermitsConserved'  BY <1>2 DEF PermitsConserved
<1>5. QueueIsSound'  BY <1>1 DEF QueueIsSound, Distinct, Elems
<1>6. EntrantsBounded'  BY <1>2 DEF EntrantsBounded
<1> QED  BY <1>3, <1>4, <1>5, <1>6 DEF GateInv

(* A permit is dropped by a request that holds one and goes idle.          *)
LEMMA ReleaseKeeps ==
    ASSUME GateInv, NEW r \in Slots, place[r] \in {"granted", "solving"},
           Release([place EXCEPT ![r] = "idle"], queue)
    PROVE  /\ place' \in [Slots -> Places]
           /\ permits' \in 0..Concurrency
           /\ queue' \in Seq(Slots)
           /\ NCounted(place') = NCounted(place) - Weight(place[r], Counted)
           /\ permits' + NHolding(place') = Concurrency
           /\ NEntering(place') = NEntering(place)
           /\ queue' # <<>> => permits' = 0
           /\ Distinct(queue')
           /\ Elems(queue') = Members(place', {"queued"})
<1> DEFINE p == [place EXCEPT ![r] = "idle"]
<1>1. /\ place \in [Slots -> Places] /\ permits \in 0..Concurrency
      /\ queue \in Seq(Slots) /\ Concurrency \in Nat
  BY GateAssumption DEF GateInv, GateTypeOK
<1>2. /\ permits + NHolding(place) = Concurrency
      /\ queue # <<>> => permits = 0
      /\ Distinct(queue)
      /\ Elems(queue) = Members(place, {"queued"})
  BY InvSizes
<1>3. /\ Weight(place[r], Holding) = 1 /\ Weight("idle", Holding) = 0
      /\ Weight("idle", Counted) = 0
      /\ Weight(place[r], {"entering"}) = 0 /\ Weight("idle", {"entering"}) = 0
      /\ Weight(place[r], Counted) \in Nat
  BY DEF Weight, Holding, Counted
<1>4. "idle" \in Places /\ "granted" \in Places  BY DEF Places
<1>5. /\ p \in [Slots -> Places]
      /\ NCounted(place) \in Nat /\ NHolding(place) \in Nat
      /\ NEntering(place) \in Nat
      /\ NCounted(p) = NCounted(place) + 0 - Weight(place[r], Counted)
      /\ NHolding(p) = NHolding(place) + 0 - 1
      /\ NEntering(p) = NEntering(place) + 0 - 0
      /\ Members(p, {"queued"}) = Members(place, {"queued"}) \ {r}
  <2>1. Moved(place, p, r, "idle")  BY <1>1, <1>4, MoveOne
  <2> HIDE DEF p
  <2> QED  BY <2>1, <1>3 DEF Moved
<1>6. Members(p, {"queued"}) = Elems(queue)
  BY <1>2, <1>5 DEF Members
<1>7. /\ NCounted(place) \in Nat /\ NHolding(place) \in Nat
      /\ NEntering(place) \in Nat
  BY <1>5
<1>8. CASE queue = <<>>
  <2>1. place' = p /\ permits' = permits + 1 /\ queue' = queue
    BY <1>8 DEF Release
  <2> HIDE DEF p
  <2>2. permits' \in 0..Concurrency /\ permits' + NHolding(p) = Concurrency
    <3>1. NHolding(place) >= 1
      <4>1. Moved(p, [p EXCEPT ![r] = "idle"], r, "idle")
        BY <1>4, <1>5, MoveOne
      <4>2. NHolding(p) \in Nat  BY <4>1 DEF Moved
      <4> QED  BY <4>2, <1>5, <1>7
    <3> QED  BY <2>1, <3>1, <1>1, <1>2, <1>5, <1>7
  <2>3. NCounted(p) = NCounted(place) - Weight(place[r], Counted)
    BY <1>3, <1>5, <1>7
  <2>4. NEntering(p) = NEntering(place)  BY <1>5, <1>7
  <2> QED  BY <2>1, <2>2, <2>3, <2>4, <1>1, <1>2, <1>5, <1>6, <1>8
<1>9. CASE queue # <<>>
  <2> DEFINE h == Head(queue)
             g == [p EXCEPT ![h] = "granted"]
  <2>1. place' = g /\ permits' = permits /\ queue' = Tail(queue)
    BY <1>9 DEF Release
  <2>2. /\ Tail(queue) \in Seq(Slots) /\ Distinct(Tail(queue))
        /\ h \in Slots /\ h \in Elems(queue)
        /\ Elems(Tail(queue)) = Elems(queue) \ {h}
    BY <1>1, <1>2, <1>9, TailElems
  <2>3. p[h] = "queued"  BY <2>2, <1>6 DEF Members
  <2> HIDE DEF p, h
  <2>4. /\ Weight(p[h], Counted) = 1 /\ Weight("granted", Counted) = 1
        /\ Weight(p[h], Holding) = 0 /\ Weight("granted", Holding) = 1
        /\ Weight(p[h], {"entering"}) = 0
        /\ Weight("granted", {"entering"}) = 0
    BY <2>3 DEF Weight, Holding, Counted
  <2>5. /\ g \in [Slots -> Places]
        /\ NCounted(p) \in Nat /\ NHolding(p) \in Nat /\ NEntering(p) \in Nat
        /\ NCounted(g) = NCounted(p) + 1 - 1
        /\ NHolding(g) = NHolding(p) + 1 - 0
        /\ NEntering(g) = NEntering(p) + 0 - 0
        /\ Members(g, {"queued"}) = Members(p, {"queued"}) \ {h}
    <3>1. Moved(p, g, h, "granted")  BY <1>4, <1>5, <2>2, MoveOne
    <3> HIDE DEF g
    <3> QED  BY <3>1, <2>4 DEF Moved
  <2>6. NCounted(p) \in Nat /\ NHolding(p) \in Nat /\ NEntering(p) \in Nat
    BY <2>5
  <2> HIDE DEF g
  <2>7. NCounted(g) = NCounted(place) - Weight(place[r], Counted)
    BY <2>5, <2>6, <1>3, <1>5, <1>7
  <2>8. permits + NHolding(g) = Concurrency
    BY <2>5, <2>6, <1>1, <1>2, <1>5, <1>7
  <2>9. NEntering(g) = NEntering(place)
    BY <2>5, <2>6, <1>5, <1>7
  <2>10. Elems(Tail(queue)) = Members(g, {"queued"})
    BY <2>2, <2>5, <1>6
  <2> QED
    BY <2>1, <2>2, <2>5, <2>7, <2>8, <2>9, <2>10, <1>1, <1>2, <1>9
<1> QED  BY <1>8, <1>9
-----------------------------------------------------------------------------
(* Initially nobody is anywhere.                                           *)
LEMMA GateInitInv == GateInit => GateInv
<1> SUFFICES ASSUME GateInit PROVE GateInv  OBVIOUS
<1> USE GateAssumption
<1>1. GateTypeOK  BY DEF GateInit, GateTypeOK, Places
<1>2. /\ At(Counted) = {} /\ At(Holding) = {} /\ At({"entering"}) = {}
      /\ At({"queued"}) = {}
  BY DEF GateInit, At, Counted, Holding
<1>3. WaiterCountExact  BY <1>2, FS_EmptySet DEF GateInit, WaiterCountExact
<1>4. PermitsConserved  BY <1>2, FS_EmptySet DEF GateInit, PermitsConserved
<1>5. QueueIsSound  BY <1>2 DEF GateInit, QueueIsSound
<1>6. EntrantsBounded
  <2>1. Cardinality(At({"entering"})) = 0  BY <1>2, FS_EmptySet
  <2>2. waiting = 0  BY DEF GateInit
  <2> QED  BY <2>1, <2>2 DEF EntrantsBounded
<1> QED  BY <1>1, <1>3, <1>4, <1>5, <1>6 DEF GateInv

(* The queue gains r if it goes there, and loses it otherwise.             *)
QueueOk(r, to) ==
    /\ queue' \in Seq(Slots) /\ Distinct(queue')
    /\ Elems(queue') = IF to = "queued" THEN Elems(queue) \cup {r}
                       ELSE Elems(queue) \ {r}

(* A step moves request r to state to; the queue follows, and the counter  *)
(* and the permits follow the weights of the move.                         *)
StepOk(r, to) ==
    /\ place' = [place EXCEPT ![r] = to]
    /\ QueueOk(r, to)
    /\ verdict' \in [Slots ->
                        {"none", "admitted", "tooDeep", "timedOut"}]
    /\ waiting' = waiting + Weight(to, Counted) - Weight(place[r], Counted)
    /\ permits' = permits - Weight(to, Holding) + Weight(place[r], Holding)
    /\ permits' \in 0..Concurrency
    /\ queue' # <<>> => permits' = 0
    /\ MaxDepth > 0 =>
          waiting' + NEntering(place) + Weight(to, {"entering"})
             - Weight(place[r], {"entering"}) <= MaxDepth + Threads - 1

(* A step that leaves the queue alone, by a request that is not in it.     *)
LEMMA QueueSame ==
    ASSUME GateInv, NEW r \in Slots, NEW to,
           place[r] # "queued", to # "queued", queue' = queue
    PROVE  QueueOk(r, to)
<1>1. /\ queue \in Seq(Slots) /\ Distinct(queue)
      /\ Elems(queue) = Members(place, {"queued"})
  BY InvSizes DEF GateTypeOK
<1>2. r \notin Elems(queue)  BY <1>1 DEF Members
<1> QED  BY <1>1, <1>2 DEF QueueOk

(* Such a step preserves the invariant.                                    *)
LEMMA StepKeeps ==
    ASSUME GateInv, NEW r \in Slots, NEW to \in Places, StepOk(r, to)
    PROVE  GateInv'
<1>1. /\ place \in [Slots -> Places] /\ permits \in 0..Concurrency
      /\ queue \in Seq(Slots) /\ Concurrency \in Nat
      /\ waiting = NCounted(place)
      /\ permits + NHolding(place) = Concurrency
      /\ Distinct(queue)
      /\ Elems(queue) = Members(place, {"queued"})
  BY InvSizes, GateAssumption DEF GateTypeOK
<1>2. Moved(place, place', r, to)  BY <1>1, MoveOne DEF StepOk
<1>3. /\ Weight(to, Counted) \in Nat /\ Weight(place[r], Counted) \in Nat
      /\ Weight(to, Holding) \in Nat /\ Weight(place[r], Holding) \in Nat
      /\ Weight(to, {"entering"}) \in Nat
      /\ Weight(place[r], {"entering"}) \in Nat
  BY DEF Weight
<1>4. /\ NCounted(place) \in Nat /\ NHolding(place) \in Nat
      /\ NEntering(place) \in Nat
  BY <1>2 DEF Moved
<1>5. waiting' = NCounted(place')  BY <1>1, <1>2 DEF Moved, StepOk
<1>6. permits' + NHolding(place') = Concurrency
  <2>1. NHolding(place') = NHolding(place) + Weight(to, Holding)
                           - Weight(place[r], Holding)
    BY <1>2 DEF Moved
  <2>2. permits' = permits - Weight(to, Holding) + Weight(place[r], Holding)
    BY DEF StepOk
  <2>3. permits \in Nat /\ permits + NHolding(place) = Concurrency  BY <1>1
  <2>4. /\ Weight(to, Holding) \in Nat /\ Weight(place[r], Holding) \in Nat
        /\ NHolding(place) \in Nat
    BY <1>3, <1>4
  <2> QED  BY <2>1, <2>2, <2>3, <2>4
<1>7. waiting' \in Nat
  <2>1. place' \in [Slots -> Places]  BY <1>2 DEF Moved
  <2>2. Moved(place', [place' EXCEPT ![r] = to], r, to)  BY <2>1, MoveOne
  <2> QED  BY <2>2, <1>5 DEF Moved
<1>8. GateTypeOK'  BY <1>1, <1>2, <1>7 DEF Moved, GateTypeOK, StepOk, QueueOk
<1>9. Elems(queue') = Members(place', {"queued"})
  BY <1>1, <1>2 DEF Moved, StepOk, QueueOk
<1>10. MaxDepth > 0 =>
          waiting' + NEntering(place') <= MaxDepth + Threads - 1
  <2>1. NEntering(place') = NEntering(place) + Weight(to, {"entering"})
                           - Weight(place[r], {"entering"})
    BY <1>2 DEF Moved
  <2>2. waiting' + NEntering(place') = waiting' + NEntering(place)
           + Weight(to, {"entering"}) - Weight(place[r], {"entering"})
    BY <2>1, <1>3, <1>4, <1>7
  <2> QED  BY <2>2 DEF StepOk
<1>11. Distinct(queue') /\ (queue' # <<>> => permits' = 0)
  BY DEF StepOk, QueueOk
<1> QED
  BY <1>5, <1>6, <1>8, <1>9, <1>10, <1>11, InvSizesNext
(* Every step preserves the invariant.                                     *)
LEMMA GateNextInv == GateInv /\ [GateNext]_gateVars => GateInv'
<1> SUFFICES ASSUME GateInv, [GateNext]_gateVars PROVE GateInv'  OBVIOUS
<1> USE GateAssumption
<1>1. CASE UNCHANGED gateVars
  BY <1>1 DEF gateVars, GateInv, GateTypeOK, WaiterCountExact,
              PermitsConserved, QueueIsSound, EntrantsBounded, At
<1>2. CASE GateNext
  <2>1. PICK r \in Slots :
           \/ Refuse(r) \/ Pass(r) \/ Count(r) \/ Poll(r) \/ Granted(r)
           \/ Leave(r) \/ TimeOut(r) \/ Finish(r) \/ Drop(r)
    BY <1>2 DEF GateNext, Run
  <2>2. /\ GateTypeOK /\ place \in [Slots -> Places] /\ waiting \in Nat
        /\ permits \in 0..Concurrency /\ queue \in Seq(Slots)
        /\ waiting = NCounted(place)
        /\ permits + NHolding(place) = Concurrency
        /\ queue # <<>> => permits = 0
        /\ Distinct(queue)
        /\ Elems(queue) = Members(place, {"queued"})
        /\ MaxDepth > 0 =>
              waiting + NEntering(place) <= MaxDepth + Threads - 1
    BY InvSizes DEF GateTypeOK
  <2>3. /\ NCounted(place) \in Nat /\ NHolding(place) \in Nat
        /\ NEntering(place) \in Nat
    <3>1. Moved(place, [place EXCEPT ![r] = "idle"], r, "idle")
      BY <2>2, MoveOne DEF Places
    <3> QED  BY <3>1 DEF Moved
  <2>4. CASE Refuse(r)
    BY <2>4 DEF Refuse, GateInv, GateTypeOK, WaiterCountExact,
                PermitsConserved, QueueIsSound, EntrantsBounded, At
  <2>5. CASE Pass(r)
    <3>1. /\ place[r] = "idle" /\ place' = [place EXCEPT ![r] = "entering"]
          /\ waiting' = waiting /\ permits' = permits /\ queue' = queue
          /\ verdict' = [verdict EXCEPT ![r] = "none"]
      BY <2>5 DEF Pass, MoveTo
    <3>2. /\ Weight("entering", Counted) = 0 /\ Weight("idle", Counted) = 0
          /\ Weight("entering", Holding) = 0 /\ Weight("idle", Holding) = 0
          /\ Weight("entering", {"entering"}) = 1
          /\ Weight("idle", {"entering"}) = 0
      BY DEF Weight, Counted, Holding
    <3>3. MaxDepth > 0 => waiting <= MaxDepth - 1
      BY <2>2, <2>5 DEF Pass, TooDeep
    <3>4. NEntering(place) <= Threads - 1
      <4>1. /\ NEntering(place) = Cardinality(At({"entering"}))
        BY AtMembers DEF NCounted, NHolding, NEntering
      <4>2. At(OnThread) \subseteq Slots /\ IsFiniteSet(At(OnThread))
        BY FS_Subset DEF At
      <4>3. At({"entering"}) \subseteq At(OnThread)  BY DEF At, OnThread
      <4>4. /\ Cardinality(At({"entering"})) <= Cardinality(At(OnThread))
            /\ Cardinality(At(OnThread)) \in Nat
        BY <4>2, <4>3, FS_Subset, FS_CardinalityType
      <4>5. Cardinality(At(OnThread)) < Threads
        BY <2>5 DEF Pass, ThreadFree
      <4> QED  BY <4>1, <4>4, <4>5, <2>3
    <3>5. verdict' \in [Slots ->
                           {"none", "admitted", "tooDeep", "timedOut"}]
      BY <2>2, <3>1 DEF GateTypeOK
    <3>6. MaxDepth > 0 =>
             waiting' + NEntering(place) + 1 - 0 <= MaxDepth + Threads - 1
      BY <3>1, <3>3, <3>4, <2>2, <2>3
    <3>7. QueueOk(r, "entering")  BY <3>1, QueueSame
    <3>8. StepOk(r, "entering")
      BY <3>1, <3>2, <3>5, <3>6, <3>7, <2>2 DEF StepOk
    <3> QED  BY <3>8, StepKeeps DEF Places
  <2>6. CASE Count(r)
    <3>1. /\ place[r] = "entering" /\ place' = [place EXCEPT ![r] = "polling"]
          /\ waiting' = waiting + 1 /\ permits' = permits
          /\ queue' = queue /\ verdict' = verdict
      BY <2>6 DEF Count, MoveTo
    <3>2. /\ Weight("polling", Counted) = 1
          /\ Weight("entering", Counted) = 0
          /\ Weight("polling", Holding) = 0
          /\ Weight("entering", Holding) = 0
          /\ Weight("polling", {"entering"}) = 0
          /\ Weight("entering", {"entering"}) = 1
      BY DEF Weight, Counted, Holding
    <3>3. QueueOk(r, "polling")  BY <3>1, QueueSame
    <3>4. StepOk(r, "polling")
      BY <3>1, <3>2, <3>3, <2>2, <2>3 DEF StepOk, GateTypeOK
    <3> QED  BY <3>4, StepKeeps DEF Places
  <2>7. CASE Poll(r)
    <3>1. place[r] = "polling" /\ waiting' = waiting /\ verdict' = verdict
      BY <2>7 DEF Poll
    <3>2. Weight("polling", Counted) = 1 /\ Weight("polling", Holding) = 0
          /\ Weight("polling", {"entering"}) = 0
          /\ Weight("leaving", Counted) = 1 /\ Weight("leaving", Holding) = 1
          /\ Weight("leaving", {"entering"}) = 0
          /\ Weight("queued", Counted) = 1 /\ Weight("queued", Holding) = 0
          /\ Weight("queued", {"entering"}) = 0
      BY DEF Weight, Counted, Holding
    <3>3. CASE permits > 0
      <4>1. /\ place' = [place EXCEPT ![r] = "leaving"]
            /\ permits' = permits - 1 /\ queue' = queue
        BY <2>7, <3>3 DEF Poll, MoveTo
      <4>2. QueueOk(r, "leaving")  BY <3>1, <4>1, QueueSame
      <4>3. queue = <<>>  BY <3>3, <2>2
      <4>4. StepOk(r, "leaving")
        BY <3>1, <3>2, <3>3, <4>1, <4>2, <4>3, <2>2, <2>3
           DEF StepOk, GateTypeOK
      <4> QED  BY <4>4, StepKeeps DEF Places
    <3>4. CASE permits = 0
      <4>1. /\ place' = [place EXCEPT ![r] = "queued"]
            /\ permits' = permits /\ queue' = Append(queue, r)
        BY <2>7, <3>4 DEF Poll, MoveTo
      <4>2. r \notin Elems(queue)  BY <3>1, <2>2 DEF Members
      <4>3. QueueOk(r, "queued")
        BY <4>1, <4>2, <2>2, AppendElems DEF QueueOk
      <4>4. StepOk(r, "queued")
        BY <3>1, <3>2, <3>4, <4>1, <4>3, <2>2, <2>3 DEF StepOk, GateTypeOK
      <4> QED  BY <4>4, StepKeeps DEF Places
    <3> QED  BY <3>3, <3>4, <2>2
  <2>8. CASE Granted(r)
    <3>1. /\ place[r] = "granted" /\ place' = [place EXCEPT ![r] = "leaving"]
          /\ waiting' = waiting /\ permits' = permits
          /\ queue' = queue /\ verdict' = verdict
      BY <2>8 DEF Granted, MoveTo
    <3>2. /\ Weight("granted", Counted) = 1 /\ Weight("leaving", Counted) = 1
          /\ Weight("granted", Holding) = 1 /\ Weight("leaving", Holding) = 1
          /\ Weight("granted", {"entering"}) = 0
          /\ Weight("leaving", {"entering"}) = 0
      BY DEF Weight, Counted, Holding
    <3>3. QueueOk(r, "leaving")  BY <3>1, QueueSame
    <3>4. StepOk(r, "leaving")
      BY <3>1, <3>2, <3>3, <2>2, <2>3 DEF StepOk, GateTypeOK
    <3> QED  BY <3>4, StepKeeps DEF Places
  <2>9. CASE Leave(r)
    <3>1. /\ waiting' = waiting - 1 /\ permits' = permits /\ queue' = queue
      BY <2>9 DEF Leave
    <3>2. /\ Weight("leaving", Counted) = 1 /\ Weight("leaving", Holding) = 1
          /\ Weight("leaving", {"entering"}) = 0
          /\ Weight("solving", Counted) = 0 /\ Weight("solving", Holding) = 1
          /\ Weight("solving", {"entering"}) = 0
          /\ Weight("givingUp", Counted) = 1
          /\ Weight("givingUp", Holding) = 0
          /\ Weight("givingUp", {"entering"}) = 0
          /\ Weight("idle", Counted) = 0 /\ Weight("idle", Holding) = 0
          /\ Weight("idle", {"entering"}) = 0
      BY DEF Weight, Counted, Holding
    <3>3. verdict' \in [Slots ->
                           {"none", "admitted", "tooDeep", "timedOut"}]
      BY <2>2, <2>9 DEF Leave, GateTypeOK
    <3>4. CASE place[r] = "leaving"
      <4>1. place' = [place EXCEPT ![r] = "solving"]
        BY <2>9, <3>4 DEF Leave, MoveTo
      <4>2. QueueOk(r, "solving")  BY <3>1, <3>4, QueueSame
      <4>3. /\ waiting' = waiting + 0 - 1 /\ permits' = permits - 1 + 1
            /\ permits' \in 0..Concurrency
            /\ queue' # <<>> => permits' = 0
            /\ MaxDepth > 0 => waiting' + NEntering(place) + 0 - 0
                                  <= MaxDepth + Threads - 1
        BY <3>1, <2>2, <2>3
      <4>4. StepOk(r, "solving")
        BY <3>2, <3>3, <3>4, <4>1, <4>2, <4>3 DEF StepOk
      <4> QED  BY <4>4, StepKeeps DEF Places
    <3>5. CASE place[r] = "givingUp"
      <4>1. place' = [place EXCEPT ![r] = "idle"]
        BY <2>9, <3>5 DEF Leave, MoveTo
      <4>2. QueueOk(r, "idle")  BY <3>1, <3>5, QueueSame
      <4>3. StepOk(r, "idle")
        BY <3>1, <3>2, <3>3, <3>5, <4>1, <4>2, <2>2, <2>3 DEF StepOk
      <4> QED  BY <4>3, StepKeeps DEF Places
    <3> QED  BY <3>4, <3>5, <2>9 DEF Leave
  <2>10. CASE TimeOut(r)
    <3>1. /\ place[r] = "queued" /\ place' = [place EXCEPT ![r] = "givingUp"]
          /\ waiting' = waiting /\ permits' = permits
          /\ queue' = Without(r) /\ verdict' = verdict
      BY <2>10 DEF TimeOut, MoveTo
    <3>2. /\ Weight("queued", Counted) = 1
          /\ Weight("givingUp", Counted) = 1
          /\ Weight("queued", Holding) = 0 /\ Weight("givingUp", Holding) = 0
          /\ Weight("queued", {"entering"}) = 0
          /\ Weight("givingUp", {"entering"}) = 0
      BY DEF Weight, Counted, Holding
    <3>3. r \in Elems(queue)  BY <3>1, <2>2 DEF Members
    <3>4. QueueOk(r, "givingUp")
      BY <3>1, <3>3, <2>2, WithoutElems DEF QueueOk
    <3>5. permits = 0  BY <3>3, <2>2 DEF Elems
    <3>6. StepOk(r, "givingUp")
      BY <3>1, <3>2, <3>4, <3>5, <2>2, <2>3 DEF StepOk, GateTypeOK
    <3> QED  BY <3>6, StepKeeps DEF Places
  <2>11. CASE Finish(r)
    <3>1. /\ place[r] = "solving" /\ waiting' = waiting /\ verdict' = verdict
          /\ Release([place EXCEPT ![r] = "idle"], queue)
      BY <2>11 DEF Finish
    <3>2. Weight("solving", Counted) = 0  BY DEF Weight, Counted
    <3>3. /\ place' \in [Slots -> Places] /\ permits' \in 0..Concurrency
          /\ queue' \in Seq(Slots)
          /\ NCounted(place') = NCounted(place) - 0
          /\ permits' + NHolding(place') = Concurrency
          /\ NEntering(place') = NEntering(place)
          /\ queue' # <<>> => permits' = 0
          /\ Distinct(queue') /\ Elems(queue') = Members(place', {"queued"})
      BY <3>1, <3>2, ReleaseKeeps
    <3>4. GateTypeOK'  BY <3>1, <3>3, <2>2 DEF GateTypeOK
    <3>5. waiting' = NCounted(place')  BY <3>1, <3>3, <2>2, <2>3
    <3>6. MaxDepth > 0 =>
             waiting' + NEntering(place') <= MaxDepth + Threads - 1
      BY <3>1, <3>3, <2>2
    <3> QED  BY <3>3, <3>4, <3>5, <3>6, InvSizesNext
  <2>12. CASE Drop(r)
    <3>1. /\ place[r] \in {"queued", "granted", "solving"}
          /\ waiting' = Uncount(r) /\ verdict' = verdict
      BY <2>12 DEF Drop
    <3>2. /\ Weight("queued", Counted) = 1 /\ Weight("queued", Holding) = 0
          /\ Weight("queued", {"entering"}) = 0
          /\ Weight("idle", Counted) = 0 /\ Weight("idle", Holding) = 0
          /\ Weight("idle", {"entering"}) = 0
          /\ Weight("granted", Counted) = 1
          /\ Weight("solving", Counted) = 0
      BY DEF Weight, Counted, Holding
    <3>3. waiting' = waiting - Weight(place[r], Counted)
      BY <3>1, <2>2 DEF Uncount, Weight
    <3>4. CASE place[r] = "queued"
      <4>1. /\ place' = [place EXCEPT ![r] = "idle"] /\ queue' = Without(r)
            /\ permits' = permits
        BY <2>12, <3>4 DEF Drop, MoveTo
      <4>2. r \in Elems(queue)  BY <3>4, <2>2 DEF Members
      <4>3. QueueOk(r, "idle")
        BY <4>1, <4>2, <2>2, WithoutElems DEF QueueOk
      <4>4. permits = 0  BY <4>2, <2>2 DEF Elems
      <4>5. waiting' = waiting + 0 - 1  BY <3>2, <3>3, <3>4, <2>2
      <4>6. MaxDepth > 0 => waiting' + NEntering(place) + 0 - 0
                              <= MaxDepth + Threads - 1
        <5>1. /\ waiting \in Nat /\ NEntering(place) \in Nat
              /\ MaxDepth > 0 =>
                    waiting + NEntering(place) <= MaxDepth + Threads - 1
          BY <2>2, <2>3
        <5> QED  BY <4>5, <5>1
      <4>7. StepOk(r, "idle")
        BY <3>1, <3>2, <3>4, <4>1, <4>3, <4>4, <4>5, <4>6, <2>2
           DEF StepOk, GateTypeOK
      <4> QED  BY <4>7, StepKeeps DEF Places
    <3>5. CASE place[r] \in {"granted", "solving"}
      <4>1. Release([place EXCEPT ![r] = "idle"], queue)
        BY <2>12, <3>5 DEF Drop
      <4>2. /\ place' \in [Slots -> Places] /\ permits' \in 0..Concurrency
            /\ queue' \in Seq(Slots)
            /\ NCounted(place') = NCounted(place) - Weight(place[r], Counted)
            /\ permits' + NHolding(place') = Concurrency
            /\ NEntering(place') = NEntering(place)
            /\ queue' # <<>> => permits' = 0
            /\ Distinct(queue') /\ Elems(queue') = Members(place', {"queued"})
        BY <3>5, <4>1, ReleaseKeeps
      <4>3. waiting' = NCounted(place')  BY <3>3, <4>2, <2>2
      <4>4. waiting' \in Nat
        <5>1. Moved(place', [place' EXCEPT ![r] = "idle"], r, "idle")
          BY <4>2, MoveOne DEF Places
        <5> QED  BY <5>1, <4>3 DEF Moved
      <4>5. GateTypeOK'  BY <3>1, <4>2, <4>4, <2>2 DEF GateTypeOK
      <4>6. waiting' <= waiting
        BY <3>2, <3>3, <3>5, <2>2
      <4>7. MaxDepth > 0 =>
               waiting' + NEntering(place') <= MaxDepth + Threads - 1
        BY <4>2, <4>4, <4>6, <2>2, <2>3
      <4> QED  BY <4>2, <4>3, <4>5, <4>7, InvSizesNext
    <3> QED  BY <3>1, <3>4, <3>5
  <2> QED
    BY <2>1, <2>4, <2>5, <2>6, <2>7, <2>8, <2>9, <2>10, <2>11, <2>12
<1> QED  BY <1>1, <1>2

(* The invariant holds throughout.                                         *)
THEOREM InvHolds == GateSpec => []GateInv
BY GateInitInv, GateNextInv, PTL DEF GateSpec

(* The waiter count is exact, however requests time out, disconnect and    *)
(* are assigned permits (admission.rs, WaitingGuard).                      *)
THEOREM WaitersCounted == GateSpec => []WaiterCountExact
<1>1. GateInv => WaiterCountExact  BY DEF GateInv
<1> QED  BY InvHolds, <1>1, PTL

(* Free, assigned and held permits are Concurrency together: at most that  *)
(* many solves run at once (admission.rs:56).                              *)
THEOREM PermitsKept == GateSpec => []PermitsConserved
<1>1. GateInv => PermitsConserved  BY DEF GateInv
<1> QED  BY InvHolds, <1>1, PTL

(* The queue holds each queued request once and nobody while a permit is   *)
(* free (admission.rs:74).                                                 *)
THEOREM QueueKept == GateSpec => []QueueIsSound
<1>1. GateInv => QueueIsSound  BY DEF GateInv
<1> QED  BY InvHolds, <1>1, PTL

(* The depth limit is exceeded by less than the number of threads          *)
(* (admission.rs:65-70).                                                   *)
THEOREM DepthOvershootBounded == GateSpec => []DepthOvershoot
<1>1. GateInv => DepthOvershoot
  <2> SUFFICES ASSUME GateInv, MaxDepth > 0
               PROVE  waiting <= MaxDepth + Threads - 1
    BY DEF DepthOvershoot
  <2>1. IsFiniteSet(At({"entering"}))
    BY FS_Subset, GateAssumption DEF At
  <2>2. Cardinality(At({"entering"})) \in Nat
    BY <2>1, FS_CardinalityType
  <2> QED
    BY <2>2, GateAssumption DEF GateInv, GateTypeOK, EntrantsBounded
<1> QED  BY InvHolds, <1>1, PTL

-----------------------------------------------------------------------------
(* OsrmClient.                                                             *)
(*                                                                         *)
(* The answers are bounded only because everything an answer is taken from *)
(* is: the entries of both tiers and the bodies on their way.  Each leg of *)
(* a body's way adds what it may take, so the bounds chain: the SET waits, *)
(* the Redis entry ages, the GET waits, the promoted copy ages.  A request *)
(* gives up after Attempts calls because it never starts an attempt with   *)
(* fewer than one left.                                                    *)

(* What Redis holds is the key's own and at most one SET older than it     *)
(* says.                                                                   *)
TrueInRedis(e, k) ==
    /\ e.body = k
    /\ e.age < L2TTL
    /\ e.stale <= e.age + OpTime

(* What L1 holds may have come through Redis: SET, stay and GET.           *)
TrueInProcess(e, k) ==
    /\ e.body = k
    /\ e.age < L1TTL
    /\ e.stale <= e.age + OpTime + Oldest(L2TTL) + OpTime

TiersTrue ==
    /\ \A k \in Keys : l2[k] # NoEntry => TrueInRedis(l2[k], k)
    /\ \A g \in Gateways, k \in Keys :
          l1[g][k] # NoEntry => TrueInProcess(l1[g][k], k)

(* A request under way has a key and a gateway.                            *)
Placed(r) == pc[r] # "idle" => key[r] \in Keys /\ gw[r] \in Gateways

(* The body a request holds, and how old it can be there.                  *)
Carries(r) ==
    /\ pc[r] = "reply" =>
          body[r] = key[r] /\ stale[r] <= OpTime + Oldest(L2TTL) + waited[r]
    /\ pc[r] = "l2set" => body[r] = key[r] /\ stale[r] <= waited[r]
    /\ pc[r] \notin {"reply", "l2set"} => body[r] = NoBody /\ stale[r] = 0

(* An attempt is only due while one is left; none was made before that.    *)
HasAttempts(r) ==
    /\ pc[r] \in {"attempt", "backoff"} => calls[r] < Attempts
    /\ pc[r] \notin {"attempt", "backoff", "l2set"} => calls[r] = 0

RequestsTrue == \A r \in Requests : Placed(r) /\ Carries(r) /\ HasAttempts(r)

Inv ==
    /\ TypeOK
    /\ TiersTrue
    /\ RequestsTrue
    /\ BoundedStaleness
    /\ ErrorsAreEarned

-----------------------------------------------------------------------------
(* An answer that may be given for key k.                                  *)
Fair(a, k) ==
    a # NoAnswer =>
       /\ a.kind = "ok" => a.stale <= MaxStale /\ a.body = k
       /\ CASE a.kind = "unavailable" -> a.calls = Attempts
            [] a.kind = "status" -> a.calls \in 1..Attempts
            [] a.kind = "tooLong" -> a.calls = 0 /\ k \in TooLong
            [] a.kind = "noProfile" -> a.calls = 0 /\ k \in Unserved
            [] a.kind = "ok" -> TRUE

(* The two properties of the answers are one of each answer.               *)
LEMMA AnswersFair ==
    BoundedStaleness /\ ErrorsAreEarned
       <=> \A r \in Requests : Fair(answer[r], key[r])
BY DEF BoundedStaleness, ErrorsAreEarned, Answered, Fair

LEMMA AnswersFairNext ==
    BoundedStaleness' /\ ErrorsAreEarned'
       <=> \A r \in Requests : Fair(answer'[r], key'[r])
BY DEF BoundedStaleness, ErrorsAreEarned, Answered, Fair

(* The greatest age an entry is given away at.                             *)
LEMMA OldestNat ==
    ASSUME NEW ttl \in Nat
    PROVE  /\ Oldest(ttl) \in Nat
           /\ \A a \in Nat : a < ttl => a <= Oldest(ttl)
BY DEF Oldest

(* An entry just stored is true if what is stored is.                      *)
LEMMA StoredTrue ==
    ASSUME NEW k \in Keys, NEW s \in Nat, NEW ttl \in Nat
    PROVE  /\ Stored(k, s, ttl) \in Entries \cup {NoEntry}
           /\ ttl = 0 => Stored(k, s, ttl) = NoEntry
           /\ ttl > 0 =>
                 /\ Stored(k, s, ttl).body = k
                 /\ Stored(k, s, ttl).age = 0
                 /\ Stored(k, s, ttl).stale = s
BY DEF Stored, Entries

(* Ageing keeps an entry true, or drops it.                                *)
LEMMA AgedTrue ==
    ASSUME NEW e \in Entries \cup {NoEntry}, NEW ttl \in Nat
    PROVE  /\ Aged(e, ttl) \in Entries \cup {NoEntry}
           /\ Aged(e, ttl) # NoEntry =>
                 /\ e # NoEntry
                 /\ Aged(e, ttl).body = e.body
                 /\ Aged(e, ttl).age = e.age + 1
                 /\ Aged(e, ttl).stale = e.stale + 1
                 /\ e.age + 1 < ttl
<1>1. CASE e = NoEntry  BY <1>1 DEF Aged
<1>2. CASE e # NoEntry
  <2>1. e \in Entries  BY <1>2
  <2>2. e.age + 1 \in Nat /\ e.stale + 1 \in Nat  BY <2>1 DEF Entries
  <2>3. [e EXCEPT !.age = @ + 1, !.stale = @ + 1] \in Entries
    BY <2>1, <2>2 DEF Entries
  <2> QED  BY <1>2, <2>1, <2>2, <2>3 DEF Aged, Entries
<1> QED  BY <1>1, <1>2

-----------------------------------------------------------------------------
LEMMA InitInv == Init => Inv
<1> SUFFICES ASSUME Init PROVE Inv  OBVIOUS
<1>1. TypeOK
  BY ClientAssumption DEF Init, TypeOK, States
<1>2. TiersTrue  BY DEF Init, TiersTrue
<1>3. RequestsTrue
  BY DEF Init, RequestsTrue, Placed, Carries, HasAttempts
<1>4. BoundedStaleness /\ ErrorsAreEarned
  BY DEF Init, BoundedStaleness, ErrorsAreEarned, Answered
<1> QED  BY <1>1, <1>2, <1>3, <1>4 DEF Inv

(* When one request moves, it is enough that it is right afterwards, its   *)
(* answer included, and that the tiers are.                                *)
LEMMA OneMoves ==
    ASSUME Inv, NEW r \in Requests, TypeOK', TiersTrue',
           \A q \in Requests \ {r} :
              /\ pc'[q] = pc[q] /\ gw'[q] = gw[q] /\ key'[q] = key[q]
              /\ body'[q] = body[q] /\ stale'[q] = stale[q]
              /\ waited'[q] = waited[q] /\ calls'[q] = calls[q]
              /\ answer'[q] = answer[q],
           Placed(r)', Carries(r)', HasAttempts(r)',
           Fair(answer'[r], key'[r])
    PROVE  Inv'
<1>1. RequestsTrue'
  <2> SUFFICES ASSUME NEW q \in Requests \ {r}
               PROVE  Placed(q)' /\ Carries(q)' /\ HasAttempts(q)'
    BY DEF RequestsTrue
  <2>1. Placed(q) /\ Carries(q) /\ HasAttempts(q)
    BY DEF Inv, RequestsTrue
  <2> QED  BY <2>1 DEF Placed, Carries, HasAttempts
<1>2. \A q \in Requests : Fair(answer'[q], key'[q])
  BY AnswersFair DEF Inv
<1> QED  BY <1>1, <1>2, AnswersFairNext DEF Inv

(* A call ends with a fair answer: its slot is free.                       *)
LEMMA OverKeeps ==
    ASSUME Inv, NEW r \in Requests, NEW a \in Answers \cup {NoAnswer},
           Over(r, a), Fair(a, key[r]), TiersTrue', UNCHANGED redisUp,
           l1' \in [Gateways -> [Keys -> Entries \cup {NoEntry}]],
           l2' \in [Keys -> Entries \cup {NoEntry}]
    PROVE  Inv'
<1>1. TypeOK'
  BY ClientAssumption DEF Inv, TypeOK, Over, States
<1>2. /\ pc'[r] = "idle" /\ body'[r] = NoBody /\ stale'[r] = 0
      /\ calls'[r] = 0 /\ answer'[r] = a /\ key'[r] = key[r]
  BY DEF Inv, TypeOK, Over
<1>3. Placed(r)' /\ Carries(r)' /\ HasAttempts(r)'
  BY <1>2 DEF Placed, Carries, HasAttempts
<1>4. \A q \in Requests \ {r} :
         /\ pc'[q] = pc[q] /\ gw'[q] = gw[q] /\ key'[q] = key[q]
         /\ body'[q] = body[q] /\ stale'[q] = stale[q]
         /\ waited'[q] = waited[q] /\ calls'[q] = calls[q]
         /\ answer'[q] = answer[q]
  BY DEF Inv, TypeOK, Over
<1> QED  BY <1>1, <1>2, <1>3, <1>4, OneMoves

(* A call goes on: no answer changes.                                      *)
LEMMA GoesOn ==
    ASSUME Inv, NEW r \in Requests, TypeOK', TiersTrue',
           UNCHANGED <<gw, key, answer>>, pc[r] # "idle",
           \A q \in Requests \ {r} :
              /\ pc'[q] = pc[q] /\ body'[q] = body[q]
              /\ stale'[q] = stale[q] /\ waited'[q] = waited[q]
              /\ calls'[q] = calls[q],
           Carries(r)', HasAttempts(r)'
    PROVE  Inv'
<1>1. Placed(r)'  BY DEF Inv, RequestsTrue, Placed
<1>2. Fair(answer'[r], key'[r])  BY AnswersFair DEF Inv
<1> QED  BY <1>1, <1>2, OneMoves

-----------------------------------------------------------------------------
(* A hit in L1 is answered at once, a miss starts the lookup.              *)
LEMMA BeginKeeps ==
    ASSUME Inv, NEW r \in Requests, NEW g \in Gateways, NEW k \in Keys,
           Begin(r, g, k)
    PROVE  Inv'
<1> DEFINE e == l1[g][k]
           a == answer'[r]
<1>1. /\ pc[r] = "idle" /\ key' = [key EXCEPT ![r] = k]
      /\ UNCHANGED <<l1, l2, redisUp, body, stale, waited, calls>>
  BY DEF Begin
<1>2. /\ \A q \in Requests \ {r} :
            /\ pc'[q] = pc[q] /\ gw'[q] = gw[q] /\ key'[q] = key[q]
            /\ answer'[q] = answer[q]
      /\ pc'[r] \in {"idle", "l2get", "resolve"}
      /\ pc'[r] # "idle" => gw'[r] = g
      /\ key'[r] = k
      /\ pc' \in [Requests -> States]
      /\ gw' \in [Requests -> Gateways \cup {NoGateway}]
      /\ key' \in [Requests -> Keys \cup {NoKey}]
  BY DEF Begin, Inv, TypeOK, States
<1>3. a \in Answers \cup {NoAnswer} /\ Fair(a, k)
  <2>1. CASE e # NoEntry
    <3>1. e \in Entries  BY <2>1 DEF Inv, TypeOK
    <3>2. a = [kind |-> "ok", body |-> e.body, stale |-> e.stale,
               calls |-> 0]
      BY <2>1 DEF Begin, Inv, TypeOK
    <3>3. TrueInProcess(e, k)  BY <2>1 DEF Inv, TiersTrue
    <3>4. e.age \in Nat /\ e.stale \in Nat /\ e.body \in Keys
      BY <3>1 DEF Entries
    <3>5. e.stale <= MaxStale /\ e.body = k
      BY <3>3, <3>4, ClientAssumption, OldestNat DEF TrueInProcess, MaxStale
    <3>6. a \in Answers
      BY <3>2, <3>4, ClientAssumption DEF Answers, Kinds
    <3>7. a.kind = "ok" /\ a.stale = e.stale /\ a.body = e.body
      BY <3>2
    <3> HIDE DEF a, e
    <3> QED  BY <3>5, <3>6, <3>7 DEF Fair
  <2>2. CASE e = NoEntry
    BY <2>2 DEF Begin, Inv, TypeOK, Fair
  <2> QED  BY <2>1, <2>2
<1>4. answer' \in [Requests -> Answers \cup {NoAnswer}]
  <2>1. answer' = [answer EXCEPT ![r] = a]  BY DEF Begin, Inv, TypeOK
  <2> QED  BY <2>1, <1>3 DEF Inv, TypeOK
<1>5. TypeOK'  BY <1>1, <1>2, <1>4 DEF Inv, TypeOK
<1>6. TiersTrue'  BY <1>1 DEF Inv, TiersTrue
<1>7. Placed(r)' /\ Carries(r)' /\ HasAttempts(r)'
  <2>1. Carries(r) /\ HasAttempts(r)  BY DEF Inv, RequestsTrue
  <2> QED  BY <1>1, <1>2, <2>1 DEF Placed, Carries, HasAttempts
<1> HIDE DEF a
<1>8. Fair(answer'[r], key'[r])  BY <1>2, <1>3 DEF a
<1> QED  BY <1>1, <1>2, <1>5, <1>6, <1>7, <1>8, OneMoves

(* What stays the same of the tiers stays true.                            *)
LEMMA SameTiers ==
    ASSUME Inv, UNCHANGED <<l1, l2>>
    PROVE  /\ TiersTrue'
           /\ l1' \in [Gateways -> [Keys -> Entries \cup {NoEntry}]]
           /\ l2' \in [Keys -> Entries \cup {NoEntry}]
BY DEF Inv, TypeOK, TiersTrue

(* Storing the key's own body, not too old, keeps L1 true.                 *)
LEMMA L1Stores ==
    ASSUME Inv, NEW g \in Gateways, NEW k \in Keys, NEW s \in Nat,
           s <= OpTime + Oldest(L2TTL) + OpTime,
           l1' = [l1 EXCEPT ![g][k] = Stored(k, s, L1TTL)],
           UNCHANGED l2
    PROVE  /\ TiersTrue'
           /\ l1' \in [Gateways -> [Keys -> Entries \cup {NoEntry}]]
           /\ l2' \in [Keys -> Entries \cup {NoEntry}]
<1>1. /\ OpTime \in Nat /\ L1TTL \in Nat /\ L2TTL \in Nat
      /\ Oldest(L1TTL) \in Nat /\ Oldest(L2TTL) \in Nat
  BY ClientAssumption, OldestNat
<1> DEFINE e == Stored(k, s, L1TTL)
<1>2. /\ e \in Entries \cup {NoEntry}
      /\ L1TTL = 0 => e = NoEntry
      /\ L1TTL > 0 => e.body = k /\ e.age = 0 /\ e.stale = s
  BY <1>1, StoredTrue
<1>3. e # NoEntry => TrueInProcess(e, k)
  <2> HIDE DEF e
  <2> QED  BY <1>1, <1>2 DEF TrueInProcess
<1> HIDE DEF e
<1>4. l1' = [l1 EXCEPT ![g][k] = e]  BY DEF e
<1>5. l1' \in [Gateways -> [Keys -> Entries \cup {NoEntry}]]
  BY <1>2, <1>4 DEF Inv, TypeOK
<1>6. l2' \in [Keys -> Entries \cup {NoEntry}]  BY DEF Inv, TypeOK
<1>7. \A h \in Gateways, j \in Keys :
         l1'[h][j] = IF h = g /\ j = k THEN e ELSE l1[h][j]
  BY <1>4 DEF Inv, TypeOK
<1>8. TiersTrue'
  BY <1>3, <1>7 DEF Inv, TiersTrue
<1> QED  BY <1>5, <1>6, <1>8

(* Executing the SET of a request that waits for it keeps Redis true.      *)
LEMMA L2Stores ==
    ASSUME Inv, NEW r \in Requests, pc[r] = "l2set",
           l2' \in {l2, SetEx(r)}, UNCHANGED l1
    PROVE  /\ TiersTrue'
           /\ l1' \in [Gateways -> [Keys -> Entries \cup {NoEntry}]]
           /\ l2' \in [Keys -> Entries \cup {NoEntry}]
<1>1. /\ OpTime \in Nat /\ L1TTL \in Nat /\ L2TTL \in Nat
      /\ Oldest(L1TTL) \in Nat /\ Oldest(L2TTL) \in Nat
  BY ClientAssumption, OldestNat
<1>2. CASE l2' = l2  BY <1>2, SameTiers
<1>3. CASE l2' = SetEx(r) /\ L2TTL # 0
  <2> DEFINE k == key[r]
             e == Stored(body[r], stale[r], L2TTL)
  <2>1. Placed(r) /\ Carries(r)  BY DEF Inv, RequestsTrue
  <2>2. k \in Keys /\ body[r] = k /\ stale[r] <= waited[r]
    BY <2>1 DEF Placed, Carries
  <2>3. stale[r] \in Nat /\ waited[r] \in 0..OpTime  BY DEF Inv, TypeOK
  <2>4. /\ e \in Entries \cup {NoEntry}
        /\ L2TTL > 0 => e.body = k /\ e.age = 0 /\ e.stale = stale[r]
    BY <1>1, <2>2, <2>3, StoredTrue
  <2>5. l2' = [l2 EXCEPT ![k] = e]  BY <1>3 DEF SetEx
  <2> HIDE DEF e, k
  <2>6. TrueInRedis(e, k)
    BY <1>1, <1>3, <2>2, <2>3, <2>4 DEF TrueInRedis
  <2>7. l2' \in [Keys -> Entries \cup {NoEntry}]
    BY <2>4, <2>5 DEF Inv, TypeOK
  <2>8. TiersTrue'
    BY <2>5, <2>6 DEF Inv, TypeOK, TiersTrue
  <2> QED  BY <2>7, <2>8 DEF Inv, TypeOK
<1>4. CASE l2' = SetEx(r) /\ L2TTL = 0  BY <1>4, SameTiers DEF SetEx
<1> QED  BY <1>2, <1>3, <1>4

-----------------------------------------------------------------------------
(* The lookup in Redis.                                                    *)
LEMMA LookupKeeps ==
    ASSUME Inv, NEW r \in Requests,
           L2Read(r) \/ L2Miss(r) \/ L2GetFailed(r)
    PROVE  Inv'
<1>1. /\ OpTime \in Nat /\ L2TTL \in Nat /\ Oldest(L2TTL) \in Nat
  BY ClientAssumption, OldestNat
<1>2. Placed(r) /\ Carries(r) /\ HasAttempts(r)
  BY DEF Inv, RequestsTrue
<1>3. waited[r] \in 0..OpTime /\ calls[r] \in 0..Attempts
  BY DEF Inv, TypeOK
<1>4. TiersTrue' /\ UNCHANGED <<l1, l2, redisUp, gw, key, calls, answer>>
  BY SameTiers DEF L2Read, L2Miss, L2GetFailed
<1>5. /\ pc[r] # "idle" /\ calls[r] = 0 /\ key[r] \in Keys
  BY <1>2 DEF L2Read, L2Miss, L2GetFailed, HasAttempts, Placed
<1>6. \A q \in Requests \ {r} :
         /\ pc'[q] = pc[q] /\ body'[q] = body[q]
         /\ stale'[q] = stale[q] /\ waited'[q] = waited[q]
         /\ calls'[q] = calls[q]
  BY <1>4 DEF L2Read, L2Miss, L2GetFailed, Goto, Inv, TypeOK
<1>7. CASE L2Read(r)
  <2> DEFINE e == l2[key[r]]
  <2>1. e # NoEntry  BY <1>7 DEF L2Read
  <2>2. e \in Entries /\ TrueInRedis(e, key[r])
    BY <1>5, <2>1 DEF Inv, TypeOK, TiersTrue
  <2>3. /\ e.body = key[r] /\ e.body \in Keys /\ e.stale \in Nat
        /\ e.stale <= OpTime + Oldest(L2TTL) + waited[r]
    BY <1>1, <1>3, <2>2, OldestNat DEF Entries, TrueInRedis
  <2>4. /\ pc' = [pc EXCEPT ![r] = "reply"]
        /\ body' = [body EXCEPT ![r] = e.body]
        /\ stale' = [stale EXCEPT ![r] = e.stale]
        /\ UNCHANGED waited
    BY <1>7 DEF L2Read
  <2> HIDE DEF e
  <2>5. TypeOK'  BY <1>4, <2>3, <2>4 DEF Inv, TypeOK, States
  <2>6. Carries(r)' /\ HasAttempts(r)'
    BY <1>4, <1>5, <2>3, <2>4 DEF Inv, TypeOK, Carries, HasAttempts
  <2> QED  BY <1>4, <1>5, <1>6, <2>5, <2>6, GoesOn
<1>8. CASE L2Miss(r) \/ L2GetFailed(r)
  <2>1. /\ pc' = [pc EXCEPT ![r] = "resolve"]
        /\ waited' = [waited EXCEPT ![r] = 0]
    BY <1>8 DEF L2Miss, L2GetFailed, Goto
  <2>2. /\ body' = [body EXCEPT ![r] = NoBody]
        /\ stale' = [stale EXCEPT ![r] = 0]
    BY <1>2, <1>8 DEF Inv, TypeOK, L2Miss, L2GetFailed, Carries
  <2>3. TypeOK'  BY <1>1, <1>4, <2>1, <2>2 DEF Inv, TypeOK, States
  <2>4. Carries(r)' /\ HasAttempts(r)'
    BY <1>4, <1>5, <2>1, <2>2 DEF Inv, TypeOK, Carries, HasAttempts
  <2> QED  BY <1>4, <1>5, <1>6, <2>3, <2>4, GoesOn
<1> QED  BY <1>7, <1>8

(* Promoting what Redis had: the copy and the answer are as old as it.     *)
LEMMA PromoteKeeps ==
    ASSUME Inv, NEW r \in Requests, Promote(r)
    PROVE  Inv'
<1> DEFINE a == [kind |-> "ok", body |-> body[r], stale |-> stale[r],
                 calls |-> calls[r]]
<1>1. /\ OpTime \in Nat /\ L1TTL \in Nat /\ L2TTL \in Nat
      /\ Oldest(L1TTL) \in Nat /\ Oldest(L2TTL) \in Nat
  BY ClientAssumption, OldestNat
<1>2. Placed(r) /\ Carries(r)  BY DEF Inv, RequestsTrue
<1>3. /\ waited[r] \in 0..OpTime /\ calls[r] \in 0..Attempts
      /\ stale[r] \in Nat
  BY DEF Inv, TypeOK
<1>4. /\ key[r] \in Keys /\ gw[r] \in Gateways /\ body[r] = key[r]
      /\ stale[r] <= OpTime + Oldest(L2TTL) + OpTime
  BY <1>1, <1>2, <1>3 DEF Promote, Placed, Carries
<1>5. l1' = [l1 EXCEPT ![gw[r]][key[r]] = Stored(key[r], stale[r], L1TTL)]
  BY <1>4 DEF Promote
<1>6. a \in Answers  BY <1>3, <1>4 DEF Answers, Kinds
<1>7. stale[r] <= MaxStale  BY <1>1, <1>3, <1>4 DEF MaxStale
<1>8. Fair(a, key[r])  BY <1>4, <1>7 DEF Fair
<1>9. /\ TiersTrue'
      /\ l1' \in [Gateways -> [Keys -> Entries \cup {NoEntry}]]
      /\ l2' \in [Keys -> Entries \cup {NoEntry}]
  BY <1>3, <1>4, <1>5, L1Stores DEF Promote
<1>10. Over(r, a) /\ UNCHANGED redisUp  BY DEF Promote, AnswerOk
<1> HIDE DEF a
<1> QED  BY <1>6, <1>8, <1>9, <1>10, OverKeeps

(* An error that is earned may be answered.                                *)
LEMMA ErrorKeeps ==
    ASSUME Inv, NEW r \in Requests, UNCHANGED <<l1, l2, redisUp>>,
           NEW kind \in Kinds \ {"ok"}, NEW n \in 0..Attempts,
           AnswerError(r, kind, n),
           kind = "unavailable" => n = Attempts,
           kind = "status" => n > 0,
           kind = "tooLong" => n = 0 /\ key[r] \in TooLong,
           kind = "noProfile" => n = 0 /\ key[r] \in Unserved
    PROVE  Inv'
<1> DEFINE a == [kind |-> kind, body |-> NoBody, stale |-> 0, calls |-> n]
<1>1. a \in Answers  BY DEF Answers
<1>2. a.kind = kind /\ a.calls = n  OBVIOUS
<1>3. Over(r, a)  BY DEF AnswerError
<1> HIDE DEF a
<1>4. Fair(a, key[r])
  <2>1. Attempts \in Nat  BY ClientAssumption
  <2>2. CASE kind = "unavailable"  BY <1>2, <2>2 DEF Fair
  <2>3. CASE kind = "status"  BY <1>2, <2>1, <2>3 DEF Fair
  <2>4. CASE kind = "tooLong"  BY <1>2, <2>4 DEF Fair
  <2>5. CASE kind = "noProfile"  BY <1>2, <2>5 DEF Fair
  <2> QED  BY <2>2, <2>3, <2>4, <2>5 DEF Kinds
<1> QED  BY <1>1, <1>3, <1>4, SameTiers, OverKeeps

(* The refusals made without a call, and the first attempt.                *)
LEMMA ResolveKeeps ==
    ASSUME Inv, NEW r \in Requests, Resolve(r)
    PROVE  Inv'
<1>1. UNCHANGED <<l1, l2, redisUp>> /\ pc[r] = "resolve"  BY DEF Resolve
<1>2. Attempts \in Nat \ {0} /\ OpTime \in Nat  BY ClientAssumption
<1>3. CASE key[r] \in Unserved /\ AnswerError(r, "noProfile", 0)
  BY <1>1, <1>2, <1>3, ErrorKeeps DEF Kinds
<1>4. CASE key[r] \in TooLong \ Unserved /\ AnswerError(r, "tooLong", 0)
  BY <1>1, <1>2, <1>4, ErrorKeeps DEF Kinds
<1>5. CASE Goto(r, "attempt") /\ UNCHANGED <<gw, key, body, stale, calls,
                                             answer>>
  <2>1. /\ pc' = [pc EXCEPT ![r] = "attempt"]
        /\ waited' = [waited EXCEPT ![r] = 0]
    BY <1>5 DEF Goto
  <2>2. Carries(r) /\ HasAttempts(r)  BY DEF Inv, RequestsTrue
  <2>3. body[r] = NoBody /\ stale[r] = 0 /\ calls[r] = 0
    BY <1>1, <2>2 DEF Carries, HasAttempts
  <2>4. TypeOK'  BY <1>1, <1>2, <1>5, <2>1 DEF Inv, TypeOK, States
  <2>5. Carries(r)' /\ HasAttempts(r)'
    BY <1>2, <1>5, <2>1, <2>3 DEF Inv, TypeOK, Carries, HasAttempts
  <2>6. TiersTrue'  BY <1>1, SameTiers
  <2>7. \A q \in Requests \ {r} :
           /\ pc'[q] = pc[q] /\ body'[q] = body[q]
           /\ stale'[q] = stale[q] /\ waited'[q] = waited[q]
           /\ calls'[q] = calls[q]
    BY <1>5, <2>1 DEF Inv, TypeOK
  <2>8. pc[r] # "idle"  BY <1>1
  <2> QED  BY <1>5, <2>4, <2>5, <2>6, <2>7, <2>8, GoesOn
<1> QED  BY <1>3, <1>4, <1>5 DEF Resolve

(* What the engine answered is stored and is on its way to Redis, or is    *)
(* the answer when there is none.                                          *)
LEMMA AttemptOkKeeps ==
    ASSUME Inv, NEW r \in Requests, AttemptOk(r)
    PROVE  Inv'
<1>1. /\ OpTime \in Nat /\ L1TTL \in Nat /\ L2TTL \in Nat
      /\ Oldest(L1TTL) \in Nat /\ Oldest(L2TTL) \in Nat
      /\ Attempts \in Nat
  BY ClientAssumption, OldestNat
<1>2. Placed(r) /\ HasAttempts(r)  BY DEF Inv, RequestsTrue
<1>3. /\ key[r] \in Keys /\ gw[r] \in Gateways /\ calls[r] < Attempts
      /\ calls[r] \in 0..Attempts /\ pc[r] # "idle"
      /\ UNCHANGED <<l2, redisUp>>
  BY <1>2 DEF AttemptOk, Placed, HasAttempts, Inv, TypeOK
<1>4. calls[r] + 1 \in 0..Attempts  BY <1>1, <1>3
<1>5. /\ TiersTrue'
      /\ l1' \in [Gateways -> [Keys -> Entries \cup {NoEntry}]]
      /\ l2' \in [Keys -> Entries \cup {NoEntry}]
  <2>1. l1' = [l1 EXCEPT ![gw[r]][key[r]] = Stored(key[r], 0, L1TTL)]
    BY DEF AttemptOk
  <2>2. 0 \in Nat /\ 0 <= OpTime + Oldest(L2TTL) + OpTime  BY <1>1
  <2> QED  BY <1>3, <2>1, <2>2, L1Stores
<1>6. CASE gw[r] \in Configured
  <2>1. /\ pc' = [pc EXCEPT ![r] = "l2set"]
        /\ waited' = [waited EXCEPT ![r] = 0]
        /\ body' = [body EXCEPT ![r] = key[r]]
        /\ stale' = [stale EXCEPT ![r] = 0]
        /\ calls' = [calls EXCEPT ![r] = calls[r] + 1]
        /\ UNCHANGED <<gw, key, answer>>
    BY <1>6 DEF AttemptOk, Goto, Inv, TypeOK
  <2>2. TypeOK'
    BY <1>1, <1>3, <1>4, <1>5, <2>1 DEF Inv, TypeOK, States
  <2>3. Carries(r)' /\ HasAttempts(r)'
    BY <2>1 DEF Inv, TypeOK, Carries, HasAttempts
  <2>4. \A q \in Requests \ {r} :
           /\ pc'[q] = pc[q] /\ body'[q] = body[q]
           /\ stale'[q] = stale[q] /\ waited'[q] = waited[q]
           /\ calls'[q] = calls[q]
    BY <2>1 DEF Inv, TypeOK
  <2> QED  BY <1>3, <1>5, <2>1, <2>2, <2>3, <2>4, GoesOn
<1>7. CASE gw[r] \notin Configured
  <2> DEFINE a == [kind |-> "ok", body |-> key[r], stale |-> 0,
                   calls |-> calls[r] + 1]
  <2>1. a \in Answers  BY <1>3, <1>4 DEF Answers, Kinds
  <2>2. 0 <= MaxStale  BY <1>1 DEF MaxStale
  <2>3. Fair(a, key[r])  BY <2>2 DEF Fair
  <2>4. Over(r, a)  BY <1>7 DEF AttemptOk
  <2> HIDE DEF a
  <2> QED  BY <1>3, <1>5, <2>1, <2>3, <2>4, OverKeeps
<1> QED  BY <1>6, <1>7

(* A failed attempt is the last, or leaves one; the sleeper returns to it. *)
LEMMA AttemptFailsKeeps ==
    ASSUME Inv, NEW r \in Requests,
           AttemptRefused(r) \/ AttemptFailed(r) \/ Backoff(r)
    PROVE  Inv'
<1>1. Attempts \in Nat /\ OpTime \in Nat  BY ClientAssumption
<1>2. Carries(r) /\ HasAttempts(r)  BY DEF Inv, RequestsTrue
<1>3. /\ pc[r] \in {"attempt", "backoff"}
      /\ calls[r] < Attempts /\ calls[r] \in 0..Attempts
      /\ body[r] = NoBody /\ stale[r] = 0
      /\ UNCHANGED <<l1, l2, redisUp>>
  BY <1>2 DEF AttemptRefused, AttemptFailed, Backoff, HasAttempts, Carries,
              Inv, TypeOK
<1>4. calls[r] + 1 \in 0..Attempts /\ calls[r] + 1 > 0  BY <1>1, <1>3
<1>5. CASE AttemptRefused(r)
  BY <1>3, <1>4, <1>5, ErrorKeeps DEF AttemptRefused, Kinds
<1>6. CASE AttemptFailed(r) /\ LastAttempt(calls[r] + 1)
  <2>1. calls[r] + 1 = Attempts  BY <1>1, <1>3, <1>6 DEF LastAttempt
  <2> QED  BY <1>3, <1>4, <1>6, <2>1, ErrorKeeps DEF AttemptFailed, Kinds
<1>7. CASE \/ AttemptFailed(r) /\ ~LastAttempt(calls[r] + 1)
           \/ Backoff(r)
  <2>1. /\ pc'[r] \in {"backoff", "attempt"}
        /\ pc' = [pc EXCEPT ![r] = pc'[r]]
        /\ waited' = [waited EXCEPT ![r] = 0]
        /\ calls' = [calls EXCEPT ![r] = calls'[r]]
        /\ UNCHANGED <<gw, key, body, stale, answer>>
    BY <1>7 DEF AttemptFailed, Backoff, Goto, Inv, TypeOK
  <2>2. calls'[r] \in 0..Attempts /\ calls'[r] < Attempts
    BY <1>1, <1>3, <1>4, <1>7
       DEF AttemptFailed, Backoff, LastAttempt, Inv, TypeOK
  <2>3. TypeOK'  BY <1>1, <1>3, <2>1, <2>2 DEF Inv, TypeOK, States
  <2>4. Carries(r)' /\ HasAttempts(r)'
    BY <1>3, <2>1, <2>2 DEF Carries, HasAttempts
  <2>5. \A q \in Requests \ {r} :
           /\ pc'[q] = pc[q] /\ body'[q] = body[q]
           /\ stale'[q] = stale[q] /\ waited'[q] = waited[q]
           /\ calls'[q] = calls[q]
    BY <2>1 DEF Inv, TypeOK
  <2>6. TiersTrue' /\ pc[r] # "idle"  BY <1>3, SameTiers
  <2> QED  BY <2>1, <2>3, <2>4, <2>5, <2>6, GoesOn
<1> QED  BY <1>5, <1>6, <1>7 DEF AttemptFailed

(* The SET is over, however it went, and the answer goes out.              *)
LEMMA WriteKeeps ==
    ASSUME Inv, NEW r \in Requests, L2Write(r) \/ L2SetFailed(r)
    PROVE  Inv'
<1> DEFINE a == [kind |-> "ok", body |-> body[r], stale |-> stale[r],
                 calls |-> calls[r]]
<1>1. /\ OpTime \in Nat /\ L1TTL \in Nat /\ L2TTL \in Nat
      /\ Oldest(L1TTL) \in Nat /\ Oldest(L2TTL) \in Nat
  BY ClientAssumption, OldestNat
<1>2. Placed(r) /\ Carries(r)  BY DEF Inv, RequestsTrue
<1>3. /\ pc[r] = "l2set" /\ l2' \in {l2, SetEx(r)}
      /\ UNCHANGED <<l1, redisUp>> /\ Over(r, a)
  BY DEF L2Write, L2SetFailed, SetUnheard, AnswerOk
<1>4. /\ key[r] \in Keys /\ body[r] = key[r] /\ stale[r] <= waited[r]
      /\ stale[r] \in Nat /\ waited[r] \in 0..OpTime
      /\ calls[r] \in 0..Attempts
  BY <1>2, <1>3 DEF Placed, Carries, Inv, TypeOK
<1>5. stale[r] <= MaxStale  BY <1>1, <1>4 DEF MaxStale
<1>6. a \in Answers  BY <1>4 DEF Answers, Kinds
<1>7. Fair(a, key[r])  BY <1>4, <1>5 DEF Fair
<1> HIDE DEF a
<1> QED  BY <1>3, <1>6, <1>7, L2Stores, OverKeeps

(* The client hangs up, perhaps with its SET executed.                     *)
LEMMA AbandonKeeps ==
    ASSUME Inv, NEW r \in Requests, Abandon(r)
    PROVE  Inv'
<1>1. Over(r, NoAnswer) /\ UNCHANGED <<l1, redisUp>>  BY DEF Abandon
<1>2. /\ TiersTrue'
      /\ l1' \in [Gateways -> [Keys -> Entries \cup {NoEntry}]]
      /\ l2' \in [Keys -> Entries \cup {NoEntry}]
  <2>1. CASE pc[r] = "l2set"
    BY <1>1, <2>1, L2Stores DEF Abandon, SetUnheard
  <2>2. CASE pc[r] # "l2set"  BY <1>1, <2>2, SameTiers DEF Abandon
  <2> QED  BY <2>1, <2>2
<1>3. Fair(NoAnswer, key[r])  BY DEF Fair
<1> QED  BY <1>1, <1>2, <1>3, OverKeeps

-----------------------------------------------------------------------------
(* Time passes: entries and bodies grow older together, and a body on its  *)
(* way to or from Redis no longer than its call may take.                  *)
LEMMA TickKeeps == Inv /\ Tick => Inv'
<1> SUFFICES ASSUME Inv, Tick PROVE Inv'  OBVIOUS
<1>1. /\ OpTime \in Nat /\ L1TTL \in Nat /\ L2TTL \in Nat
      /\ Oldest(L1TTL) \in Nat /\ Oldest(L2TTL) \in Nat
  BY ClientAssumption, OldestNat
<1>2. UNCHANGED <<redisUp, pc, gw, key, body, calls, answer>>  BY DEF Tick
<1>3. \A r \in Requests :
         /\ waited'[r] = waited[r] + IF OnRedis(r) THEN 1 ELSE 0
         /\ stale'[r] = stale[r] + IF body[r] # NoBody THEN 1 ELSE 0
         /\ OnRedis(r) => waited[r] < OpTime
         /\ waited[r] \in 0..OpTime /\ stale[r] \in Nat
  BY DEF Tick, Inv, TypeOK
<1>4. \A g \in Gateways, k \in Keys :
         /\ l1[g][k] \in Entries \cup {NoEntry}
         /\ l1'[g][k] = Aged(l1[g][k], L1TTL)
  BY DEF Tick, Inv, TypeOK
<1>5. \A k \in Keys :
         /\ l2[k] \in Entries \cup {NoEntry}
         /\ l2'[k] = Aged(l2[k], L2TTL)
  BY DEF Tick, Inv, TypeOK
<1>6. TypeOK'
  <2>1. l1' \in [Gateways -> [Keys -> Entries \cup {NoEntry}]]
    BY <1>1, <1>4, AgedTrue DEF Tick
  <2>2. l2' \in [Keys -> Entries \cup {NoEntry}]
    BY <1>1, <1>5, AgedTrue DEF Tick
  <2>3. waited' \in [Requests -> 0..OpTime]
    BY <1>1, <1>3 DEF Tick
  <2>4. stale' \in [Requests -> Nat]
    BY <1>3 DEF Tick
  <2> QED  BY <1>2, <2>1, <2>2, <2>3, <2>4 DEF Inv, TypeOK
<1>7. TiersTrue'
  <2>1. ASSUME NEW k \in Keys, l2'[k] # NoEntry
        PROVE  TrueInRedis(l2'[k], k)
    <3> DEFINE e == l2[k]
               f == l2'[k]
    <3>1. e \in Entries \cup {NoEntry} /\ f = Aged(e, L2TTL)  BY <1>5
    <3>2. /\ e # NoEntry /\ f.body = e.body /\ f.age = e.age + 1
          /\ f.stale = e.stale + 1 /\ e.age + 1 < L2TTL
      BY <1>1, <2>1, <3>1, AgedTrue
    <3>3. TrueInRedis(e, k)  BY <3>2 DEF Inv, TiersTrue
    <3>4. e.age \in Nat /\ e.stale \in Nat  BY <3>1, <3>2 DEF Entries
    <3> HIDE DEF e, f
    <3>5. TrueInRedis(f, k)  BY <1>1, <3>2, <3>3, <3>4 DEF TrueInRedis
    <3> QED  BY <3>5 DEF f
  <2>2. ASSUME NEW g \in Gateways, NEW k \in Keys, l1'[g][k] # NoEntry
        PROVE  TrueInProcess(l1'[g][k], k)
    <3> DEFINE e == l1[g][k]
               f == l1'[g][k]
    <3>1. e \in Entries \cup {NoEntry} /\ f = Aged(e, L1TTL)  BY <1>4
    <3>2. /\ e # NoEntry /\ f.body = e.body /\ f.age = e.age + 1
          /\ f.stale = e.stale + 1 /\ e.age + 1 < L1TTL
      BY <1>1, <2>2, <3>1, AgedTrue
    <3>3. TrueInProcess(e, k)  BY <3>2 DEF Inv, TiersTrue
    <3>4. e.age \in Nat /\ e.stale \in Nat  BY <3>1, <3>2 DEF Entries
    <3> HIDE DEF e, f
    <3>5. TrueInProcess(f, k)
      BY <1>1, <3>2, <3>3, <3>4 DEF TrueInProcess
    <3> QED  BY <3>5 DEF f
  <2> QED  BY <2>1, <2>2 DEF TiersTrue
<1>8. RequestsTrue'
  <2> SUFFICES ASSUME NEW r \in Requests
               PROVE  Placed(r)' /\ Carries(r)' /\ HasAttempts(r)'
    BY DEF RequestsTrue
  <2>1. Placed(r) /\ Carries(r) /\ HasAttempts(r)
    BY DEF Inv, RequestsTrue
  <2>2. Placed(r)' /\ HasAttempts(r)'
    BY <1>2, <2>1 DEF Placed, HasAttempts
  <2>3. CASE pc[r] \in {"reply", "l2set"}
    <3>1. OnRedis(r)  BY <2>3 DEF OnRedis
    <3>2. waited'[r] = waited[r] + 1  BY <1>3, <3>1
    <3>3. stale'[r] <= stale[r] + 1 /\ stale'[r] \in Nat  BY <1>3
    <3> QED
      BY <1>1, <1>2, <1>3, <2>1, <2>2, <2>3, <3>2, <3>3 DEF Carries
  <2>4. CASE pc[r] \notin {"reply", "l2set"}
    <3>1. body[r] = NoBody /\ stale[r] = 0  BY <2>1, <2>4 DEF Carries
    <3>2. stale'[r] = 0  BY <1>3, <3>1
    <3> QED  BY <1>2, <2>2, <2>4, <3>1, <3>2 DEF Carries
  <2> QED  BY <2>2, <2>3, <2>4
<1>9. BoundedStaleness' /\ ErrorsAreEarned'
  BY <1>2 DEF Inv, BoundedStaleness, ErrorsAreEarned, Answered
<1> QED  BY <1>6, <1>7, <1>8, <1>9 DEF Inv

(* Evictions, outages and a Redis without its data only remove entries.    *)
LEMMA SurroundingsKeep ==
    ASSUME Inv,
           \/ \E g \in Gateways, k \in Keys : L1Evict(g, k)
           \/ RedisChange
    PROVE  Inv'
<1>1. UNCHANGED requestVars  BY DEF L1Evict, RedisChange
<1>2. /\ l1' \in [Gateways -> [Keys -> Entries \cup {NoEntry}]]
      /\ \A g \in Gateways, k \in Keys : l1'[g][k] \in {l1[g][k], NoEntry}
  <2>1. ASSUME NEW h \in Gateways, NEW j \in Keys, L1Evict(h, j)
        PROVE  /\ l1' \in [Gateways -> [Keys -> Entries \cup {NoEntry}]]
               /\ \A g \in Gateways, k \in Keys :
                     l1'[g][k] \in {l1[g][k], NoEntry}
    <3>1. l1' = [l1 EXCEPT ![h][j] = NoEntry]  BY <2>1 DEF L1Evict
    <3> QED  BY <3>1 DEF Inv, TypeOK
  <2>2. CASE RedisChange  BY <2>2 DEF RedisChange, Inv, TypeOK
  <2> QED  BY <2>1, <2>2
<1>3. /\ l2' \in [Keys -> Entries \cup {NoEntry}]
      /\ \A k \in Keys : l2'[k] \in {l2[k], NoEntry}
      /\ redisUp' \in BOOLEAN
  BY DEF L1Evict, RedisChange, Inv, TypeOK
<1>4. TypeOK'  BY <1>1, <1>2, <1>3 DEF Inv, TypeOK, requestVars
<1>5. TiersTrue'  BY <1>2, <1>3 DEF Inv, TiersTrue
<1>6. RequestsTrue'
  BY <1>1
     DEF Inv, RequestsTrue, Placed, Carries, HasAttempts, requestVars
<1>7. BoundedStaleness' /\ ErrorsAreEarned'
  BY <1>1
     DEF Inv, BoundedStaleness, ErrorsAreEarned, Answered, requestVars
<1> QED  BY <1>4, <1>5, <1>6, <1>7 DEF Inv

(* A restart empties a gateway's L1 and drops its requests.                *)
LEMMA RestartKeeps ==
    ASSUME Inv, NEW g \in Gateways, Restart(g)
    PROVE  Inv'
<1>1. /\ UNCHANGED <<l2, redisUp, key, answer>>
      /\ l1' = [l1 EXCEPT ![g] = [k \in Keys |-> NoEntry]]
  BY DEF Restart
<1>2. TypeOK'
  BY <1>1, ClientAssumption DEF Restart, Inv, TypeOK, States
<1>3. TiersTrue'  BY <1>1 DEF Inv, TypeOK, TiersTrue
<1>4. RequestsTrue'
  <2> SUFFICES ASSUME NEW r \in Requests
               PROVE  Placed(r)' /\ Carries(r)' /\ HasAttempts(r)'
    BY DEF RequestsTrue
  <2>1. Placed(r) /\ Carries(r) /\ HasAttempts(r)
    BY DEF Inv, RequestsTrue
  <2>2. CASE gw[r] = g
    <3>1. /\ pc'[r] = "idle" /\ body'[r] = NoBody /\ stale'[r] = 0
          /\ calls'[r] = 0
      BY <2>2 DEF Restart
    <3> QED  BY <3>1 DEF Placed, Carries, HasAttempts
  <2>3. CASE gw[r] # g
    <3>1. /\ pc'[r] = pc[r] /\ gw'[r] = gw[r] /\ body'[r] = body[r]
          /\ stale'[r] = stale[r] /\ waited'[r] = waited[r]
          /\ calls'[r] = calls[r] /\ key'[r] = key[r]
      BY <2>3 DEF Restart
    <3> QED  BY <2>1, <3>1 DEF Placed, Carries, HasAttempts
  <2> QED  BY <2>2, <2>3
<1>5. BoundedStaleness' /\ ErrorsAreEarned'
  BY <1>1 DEF Inv, BoundedStaleness, ErrorsAreEarned, Answered
<1> QED  BY <1>2, <1>3, <1>4, <1>5 DEF Inv

-----------------------------------------------------------------------------
(* Every step keeps the invariant.                                         *)
LEMMA NextInv == Inv /\ [Next]_vars => Inv'
<1> SUFFICES ASSUME Inv, [Next]_vars PROVE Inv'  OBVIOUS
<1>1. ASSUME NEW r \in Requests, NEW g \in Gateways, NEW k \in Keys,
             Begin(r, g, k)
      PROVE  Inv'
  BY <1>1, BeginKeeps
<1>2. ASSUME NEW r \in Requests, Step(r) PROVE Inv'
  BY <1>2, LookupKeeps, PromoteKeeps, ResolveKeeps, AttemptOkKeeps,
     AttemptFailsKeeps, WriteKeeps DEF Step
<1>3. ASSUME NEW r \in Requests, Abandon(r) PROVE Inv'
  BY <1>3, AbandonKeeps
<1>4. ASSUME Tick PROVE Inv'  BY <1>4, TickKeeps
<1>5. ASSUME NEW g \in Gateways, Restart(g) PROVE Inv'
  BY <1>5, RestartKeeps
<1>6. CASE UNCHANGED vars
  BY <1>6
     DEF vars, requestVars, Inv, TypeOK, TiersTrue, RequestsTrue, Placed,
         Carries, HasAttempts, BoundedStaleness, ErrorsAreEarned, Answered
<1> QED
  BY <1>1, <1>2, <1>3, <1>4, <1>5, <1>6, SurroundingsKeep DEF Next

LEMMA Invariance == Spec => []Inv
BY InitInv, NextInv, PTL DEF Spec

(* The cache tiers, gateway/src/osrm/client.rs with redis_cache.rs, never  *)
(* make an answer false: for any number of gateways that share a Redis,    *)
(* any requests, times to live and call times, every body is answered to a *)
(* request for the key it was fetched for, at most MaxStale after the      *)
(* engine gave it.                                                         *)
THEOREM AnswersTrue == Spec => []CachesAreTrue
<1>1. Inv => CachesAreTrue  BY DEF Inv, CachesAreTrue
<1> QED  BY <1>1, Invariance, PTL

(* fetch_with_retry and the lookups before it: no outage of Redis turns    *)
(* into an error; 500 means the engine failed retry.attempts times, and    *)
(* the two refusals cost no engine call.                                   *)
THEOREM OnlyEarnedErrors == Spec => []ErrorsAreEarned
<1>1. Inv => ErrorsAreEarned  BY DEF Inv
<1> QED  BY <1>1, Invariance, PTL

(* What the bounds of MaxStale chain through: Redis, shared by all the     *)
(* gateways, and every gateway's L1 hold only bodies of their key, each    *)
(* for less than its time to live, whoever wrote them and whenever a SET   *)
(* nobody waited for was executed.                                         *)
THEOREM TiersStayTrue == Spec => []TiersTrue
<1>1. Inv => TiersTrue  BY DEF Inv
<1> QED  BY <1>1, Invariance, PTL
=============================================================================
