------------------------- MODULE RateLimiterProofs -------------------------
(***************************************************************************)
(* The safety of RateLimiter for any gateways, requests, clients, allowance *)
(* and number of windows.                                                  *)
(*                                                                         *)
(* Redis admits within the allowance because a counter that still matters  *)
(* is never behind the admissions it made.  Nobody is refused too early    *)
(* because whoever may still be counted somewhere has already made the     *)
(* request it will be counted for: a counter and those on their way to it  *)
(* never exceed the requests made.  Both hold for any number of threads.   *)
(* A gateway's own buckets keep to the allowance when it runs one thread:  *)
(* then whoever is about to lock them finds none that is ahead of it.      *)
(***************************************************************************)
EXTENDS RateLimiter, FiniteSetTheorems, TLAPS

(* A request under way has a gateway, a client and a window that has begun.*)
Placed(r) ==
    /\ pc[r] = "idle" => gw[r] = NoGateway
    /\ pc[r] # "idle" =>
          gw[r] \in Gateways /\ client[r] \in Clients /\ win[r] <= window

RequestsPlaced == \A r \in Requests : Placed(r)

(* The counter of a window that is not over has counted every admission.   *)
SharedCounted ==
    \A c \in Cells : c[2] >= window => shared[c] <= counter[c]

(* What a bucket says of window w.                                         *)
Held(e, w) == IF e # NoBucket /\ e.window = w THEN e.count ELSE 0

(* The requests whose INCR may still bring the counter of cell up, and     *)
(* those of g that may still be counted in its buckets.                    *)
OnTheirWay(cell) == {q \in Requests : pc[q] = "incr" /\ Cell(q) = cell}
MayReach(g, cell) ==
    {q \in Requests : /\ pc[q] \in {"incr", "clock", "lock"}
                      /\ gw[q] = g
                      /\ Cell(q) = cell}

(* No counter is ahead of the requests made, even when all who are on      *)
(* their way have been counted.                                            *)
CountersJust ==
    \A cell \in Cells :
       counter[cell] + Cardinality(OnTheirWay(cell)) <= made[cell]
BucketsJust ==
    \A g \in Gateways, c \in Clients, w \in Windows :
       Held(local[g][c], w) + Cardinality(MayReach(g, <<c, w>>))
          <= made[<<c, w>>]

Inv ==
    /\ TypeOK
    /\ RequestsPlaced
    /\ SharedAllowance /\ SharedCounted
    /\ CountersJust /\ BucketsJust
    /\ RefusalsAreEarned

(* With one thread: who is at the lock of a gateway.                       *)
AtLock(g, r) == pc[r] = "lock" /\ gw[r] = g

LockIsTaken ==
    \A g \in Gateways, q, r \in Requests : AtLock(g, q) /\ AtLock(g, r) => q = r

(* No bucket is ahead of the clock, nor of who is at the lock.             *)
BucketsBehind ==
    \A g \in Gateways, c \in Clients : local[g][c] # NoBucket =>
       /\ local[g][c].window <= window
       /\ \A r \in Requests : AtLock(g, r) => local[g][c].window <= win[r]

(* The windows a bucket can still be counted in: the current one and that  *)
(* of who is at the lock.                                                  *)
Live(g, w) == w = window \/ \E r \in Requests : AtLock(g, r) /\ w = win[r]

OwnCounted ==
    \A g \in Gateways, c \in Clients, w \in Windows :
       /\ w > window => own[g][<<c, w>>] = 0
       /\ Live(g, w) => own[g][<<c, w>>] <= Held(local[g][c], w)

LocalInv ==
    /\ LockIsTaken
    /\ BucketsBehind
    /\ OwnCounted
    /\ LocalAllowance

-----------------------------------------------------------------------------
(* Counting.                                                               *)

(* What r contributes to the size of S.                                    *)
Bit(r, S) == IF r \in S THEN 1 ELSE 0

(* Moving one request in or out of a set changes its size by one.          *)
LEMMA CountMoves ==
    ASSUME NEW S \in SUBSET Requests, NEW T \in SUBSET Requests,
           NEW r \in Requests, T \ {r} \subseteq S
    PROVE  /\ Cardinality(S) \in Nat /\ Cardinality(T) \in Nat
           /\ Cardinality(T) + Bit(r, S) <= Cardinality(S) + Bit(r, T)
<1> DEFINE S0 == S \ {r}
           T0 == T \ {r}
<1>1. IsFiniteSet(Requests)  BY LimiterAssumption
<1>2. /\ IsFiniteSet(S) /\ Cardinality(S) \in Nat
      /\ IsFiniteSet(T) /\ Cardinality(T) \in Nat
  BY <1>1, FS_Subset, FS_CardinalityType
<1>3. /\ IsFiniteSet(S0) /\ Cardinality(S0) \in Nat
      /\ Cardinality(S) = Cardinality(S0) + Bit(r, S)
  <2>1. CASE r \in S
    <3>1. IsFiniteSet(S0) /\ Cardinality(S0) = Cardinality(S) - 1
      BY <2>1, <1>2, FS_RemoveElement
    <3>2. Cardinality(S0) \in Nat  BY <3>1, FS_CardinalityType
    <3> HIDE DEF S0, T0
    <3> QED  BY <1>2, <2>1, <3>1, <3>2 DEF Bit
  <2>2. CASE r \notin S
    <3>1. S0 = S  BY <2>2
    <3> QED  BY <2>2, <3>1, <1>2 DEF Bit
  <2> QED  BY <2>1, <2>2
<1>4. /\ IsFiniteSet(T0) /\ Cardinality(T0) \in Nat
      /\ Cardinality(T) = Cardinality(T0) + Bit(r, T)
  <2>1. CASE r \in T
    <3>1. IsFiniteSet(T0) /\ Cardinality(T0) = Cardinality(T) - 1
      BY <2>1, <1>2, FS_RemoveElement
    <3>2. Cardinality(T0) \in Nat  BY <3>1, FS_CardinalityType
    <3> HIDE DEF S0, T0
    <3> QED  BY <1>2, <2>1, <3>1, <3>2 DEF Bit
  <2>2. CASE r \notin T
    <3>1. T0 = T  BY <2>2
    <3> QED  BY <2>2, <3>1, <1>2 DEF Bit
  <2> QED  BY <2>1, <2>2
<1>5. T0 \subseteq S0  OBVIOUS
<1>6. Cardinality(T0) <= Cardinality(S0)
  BY <1>3, <1>5, FS_Subset
<1>7. Bit(r, S) \in Nat /\ Bit(r, T) \in Nat  BY DEF Bit
<1> HIDE DEF S0, T0
<1> QED  BY <1>2, <1>3, <1>4, <1>6, <1>7

(* A set that only loses requests gets no larger.                          *)
LEMMA CountShrinks ==
    ASSUME NEW S \in SUBSET Requests, NEW T \in SUBSET S
    PROVE  /\ Cardinality(S) \in Nat /\ Cardinality(T) \in Nat
           /\ Cardinality(T) <= Cardinality(S)
<1>1. IsFiniteSet(S) /\ IsFiniteSet(T)
  BY LimiterAssumption, FS_Subset
<1> QED  BY <1>1, FS_Subset, FS_CardinalityType

(* The requests other than r are where they were.                          *)
OthersStay(r) ==
    \A q \in Requests \ {r} :
       /\ pc'[q] = pc[q] /\ gw'[q] = gw[q]
       /\ client'[q] = client[q] /\ win'[q] = win[q]

(* When one request moves, the counters stay just if none gets ahead       *)
(* because of it.                                                          *)
LEMMA CountersStayJust ==
    ASSUME Inv, NEW r \in Requests, TypeOK', OthersStay(r),
           \A cell \in Cells :
              counter'[cell] + Bit(r, OnTheirWay(cell)') + made[cell]
                 <= counter[cell] + Bit(r, OnTheirWay(cell)) + made'[cell]
    PROVE  CountersJust'
<1> SUFFICES ASSUME NEW cell \in Cells
             PROVE  counter'[cell] + Cardinality(OnTheirWay(cell)')
                       <= made'[cell]
  BY DEF CountersJust
<1> DEFINE S == OnTheirWay(cell)
           T == OnTheirWay(cell)'
<1>1. S \in SUBSET Requests /\ T \in SUBSET Requests  BY DEF OnTheirWay
<1>2. T \ {r} \subseteq S  BY DEF OnTheirWay, OthersStay, Cell
<1>3. /\ counter[cell] \in Nat /\ made[cell] \in Nat
      /\ counter'[cell] \in Nat /\ made'[cell] \in Nat
  BY DEF Inv, TypeOK
<1>4. counter[cell] + Cardinality(S) <= made[cell]
  BY DEF Inv, CountersJust
<1>5. Bit(r, S) \in Nat /\ Bit(r, T) \in Nat  BY DEF Bit
<1>6. counter'[cell] + Bit(r, T) + made[cell]
         <= counter[cell] + Bit(r, S) + made'[cell]
  OBVIOUS
<1> HIDE DEF S, T
<1>7. /\ Cardinality(S) \in Nat /\ Cardinality(T) \in Nat
      /\ Cardinality(T) + Bit(r, S) <= Cardinality(S) + Bit(r, T)
  BY <1>1, <1>2, CountMoves
<1>8. counter'[cell] + Cardinality(T) <= made'[cell]
  BY <1>3, <1>4, <1>5, <1>6, <1>7
<1> QED  BY <1>8 DEF T

(* The same of the buckets.                                                *)
LEMMA BucketsStayJust ==
    ASSUME Inv, NEW r \in Requests, TypeOK', OthersStay(r),
           \A g \in Gateways, c \in Clients, w \in Windows :
              /\ Held(local'[g][c], w) \in Nat
              /\ Held(local'[g][c], w) + Bit(r, MayReach(g, <<c, w>>)')
                    + made[<<c, w>>]
                   <= Held(local[g][c], w) + Bit(r, MayReach(g, <<c, w>>))
                         + made'[<<c, w>>]
    PROVE  BucketsJust'
<1> SUFFICES ASSUME NEW g \in Gateways, NEW c \in Clients, NEW w \in Windows
             PROVE  Held(local'[g][c], w) + Cardinality(MayReach(g, <<c, w>>)')
                       <= made'[<<c, w>>]
  BY DEF BucketsJust, Held
<1> DEFINE cell == <<c, w>>
           S == MayReach(g, cell)
           T == MayReach(g, cell)'
           h == Held(local[g][c], w)
           k == Held(local'[g][c], w)
<1>1. S \in SUBSET Requests /\ T \in SUBSET Requests  BY DEF MayReach
<1>2. T \ {r} \subseteq S  BY DEF MayReach, OthersStay, Cell
<1>3. made[cell] \in Nat /\ made'[cell] \in Nat
  BY DEF Inv, TypeOK, Cells
<1>4. h \in Nat
  <2>1. local[g][c] \in Bucket \cup {NoBucket}  BY DEF Inv, TypeOK
  <2> QED  BY <2>1 DEF Held, Bucket
<1>5. h + Cardinality(S) <= made[cell]  BY DEF Inv, BucketsJust
<1>6. Bit(r, S) \in Nat /\ Bit(r, T) \in Nat  BY DEF Bit
<1>7. k \in Nat /\ k + Bit(r, T) + made[cell] <= h + Bit(r, S) + made'[cell]
  OBVIOUS
<1> HIDE DEF S, T, h, k, cell
<1>8. /\ Cardinality(S) \in Nat /\ Cardinality(T) \in Nat
      /\ Cardinality(T) + Bit(r, S) <= Cardinality(S) + Bit(r, T)
  BY <1>1, <1>2, CountMoves
<1>9. k + Cardinality(T) <= made'[cell]
  BY <1>3, <1>4, <1>5, <1>6, <1>7, <1>8
<1> QED  BY <1>9 DEF T, k, cell

(* What is known of a request under way.                                   *)
LEMMA UnderWay ==
    ASSUME Inv, NEW r \in Requests, pc[r] # "idle"
    PROVE  /\ gw[r] \in Gateways /\ client[r] \in Clients
           /\ win[r] \in Windows /\ win[r] <= window
           /\ Cell(r) \in Cells /\ Cell(r) = <<client[r], win[r]>>
           /\ Cell(r)[2] = win[r]
BY DEF Inv, TypeOK, RequestsPlaced, Placed, Cell, Cells

(* When one request moves, the others stay placed.                         *)
LEMMA OthersPlaced ==
    ASSUME Inv, NEW r \in Requests, OthersStay(r), window' = window,
           Placed(r)'
    PROVE  RequestsPlaced'
<1> SUFFICES ASSUME NEW q \in Requests \ {r} PROVE Placed(q)'
  BY DEF RequestsPlaced
<1>1. Placed(q)  BY DEF Inv, RequestsPlaced
<1> QED  BY <1>1 DEF OthersStay, Placed

(* A check that is over leaves its slot empty and nobody on the way.       *)
LEMMA OverLeaves ==
    ASSUME Inv, NEW r \in Requests, Over(r), window' = window
    PROVE  /\ OthersStay(r)
           /\ RequestsPlaced'
           /\ pc'[r] = "idle"
           /\ pc' \in [Requests -> States]
           /\ gw' \in [Requests -> Gateways \cup {NoGateway}]
           /\ client' \in [Requests -> Clients \cup {NoClient}]
           /\ win' \in [Requests -> Windows]
           /\ \A cell \in Cells : Bit(r, OnTheirWay(cell)') = 0
           /\ \A g \in Gateways, cell \in Cells :
                 Bit(r, MayReach(g, cell)') = 0
<1>1. /\ pc'[r] = "idle" /\ gw'[r] = NoGateway
      /\ OthersStay(r)
  BY DEF Inv, TypeOK, Over, OthersStay
<1>2. Placed(r)'  BY <1>1 DEF Placed
<1>3. RequestsPlaced'  BY <1>1, <1>2, OthersPlaced
<1>4. 0 \in Windows  BY LimiterAssumption DEF Windows
<1>5. /\ pc' \in [Requests -> States]
      /\ gw' \in [Requests -> Gateways \cup {NoGateway}]
      /\ client' \in [Requests -> Clients \cup {NoClient}]
      /\ win' \in [Requests -> Windows]
  BY <1>4 DEF Inv, TypeOK, Over, States
<1> QED  BY <1>1, <1>3, <1>5 DEF Bit, OnTheirWay, MayReach

-----------------------------------------------------------------------------
LEMMA InitInv == Init => Inv
<1> SUFFICES ASSUME Init PROVE Inv  OBVIOUS
<1>1. 0 \in Windows /\ 0 \in 0..MaxArrivals
  BY LimiterAssumption DEF Windows
<1>2. TypeOK  BY <1>1, LimiterAssumption DEF Init, TypeOK, States
<1>3. RequestsPlaced  BY DEF Init, RequestsPlaced, Placed
<1>4. SharedAllowance /\ SharedCounted
  BY LimiterAssumption DEF Init, SharedAllowance, SharedCounted
<1>5. CountersJust
  <2>1. \A cell \in Cells : OnTheirWay(cell) = {}  BY DEF Init, OnTheirWay
  <2> QED  BY <2>1, FS_EmptySet DEF Init, CountersJust
<1>6. BucketsJust
  <2>1. \A g \in Gateways, cell \in Cells : MayReach(g, cell) = {}
    BY DEF Init, MayReach
  <2>2. ASSUME NEW g \in Gateways, NEW c \in Clients, NEW w \in Windows
        PROVE  Held(local[g][c], w) + Cardinality(MayReach(g, <<c, w>>))
                  <= made[<<c, w>>]
    <3>1. <<c, w>> \in Cells  BY DEF Cells
    <3>2. Cardinality(MayReach(g, <<c, w>>)) = 0
      BY <2>1, <3>1, FS_EmptySet
    <3>3. made[<<c, w>>] = 0 /\ Held(local[g][c], w) = 0
      BY <3>1 DEF Init, Held
    <3> QED  BY <3>2, <3>3
  <2> QED  BY <2>2 DEF BucketsJust
<1>7. RefusalsAreEarned  BY DEF Init, RefusalsAreEarned
<1> QED  BY <1>2, <1>3, <1>4, <1>5, <1>6, <1>7 DEF Inv

(* A check begins: one more request made, and one more on its way.         *)
LEMMA BeginKeeps ==
    ASSUME Inv, NEW r \in Requests, NEW g \in Gateways, NEW c \in Clients,
           Begin(r, g, c)
    PROVE  Inv'
<1>1. /\ pc[r] = "idle"
      /\ UNCHANGED <<window, redisUp, counter, expiring, local, shared, own,
                     refused>>
      /\ made' = [made EXCEPT ![<<c, window>>] = @ + 1]
  BY DEF Begin, redisVars
<1>2. window \in Windows /\ <<c, window>> \in Cells
  BY DEF Inv, TypeOK, Cells
<1>3. /\ pc'[r] \in {"incr", "clock"} /\ gw'[r] = g /\ client'[r] = c
      /\ win'[r] = window
      /\ OthersStay(r)
  BY DEF Begin, Goto, Inv, TypeOK, OthersStay
<1>4. \A cell \in Cells :
         /\ made[cell] \in Nat /\ counter[cell] \in Nat
         /\ made'[cell] = IF cell = <<c, window>> THEN made[cell] + 1
                          ELSE made[cell]
  BY <1>1, <1>2 DEF Inv, TypeOK
<1>5. TypeOK'
  <2>1. arrivals' \in 0..MaxArrivals
    BY LimiterAssumption DEF Begin, Inv, TypeOK
  <2>2. made' \in [Cells -> Nat]  BY <1>1, <1>2, <1>4 DEF Inv, TypeOK
  <2>3. /\ pc' \in [Requests -> States]
        /\ gw' \in [Requests -> Gateways \cup {NoGateway}]
        /\ client' \in [Requests -> Clients \cup {NoClient}]
        /\ win' \in [Requests -> Windows]
    BY <1>2 DEF Begin, Goto, Inv, TypeOK, States
  <2> QED  BY <1>1, <2>1, <2>2, <2>3 DEF Inv, TypeOK
<1>6. RequestsPlaced'
  <2>1. Placed(r)'  BY <1>1, <1>2, <1>3, LimiterAssumption
                       DEF Placed, Windows
  <2> QED  BY <1>1, <1>3, <2>1, OthersPlaced
<1>7. SharedAllowance' /\ SharedCounted'
  BY <1>1 DEF Inv, SharedAllowance, SharedCounted
<1>8. CountersJust'
  <2> SUFFICES ASSUME NEW cell \in Cells
               PROVE  counter'[cell] + Bit(r, OnTheirWay(cell)') + made[cell]
                         <= counter[cell] + Bit(r, OnTheirWay(cell))
                               + made'[cell]
    BY <1>3, <1>5, CountersStayJust
  <2>1. cell # <<c, window>> => r \notin OnTheirWay(cell)'
    BY <1>3 DEF OnTheirWay, Cell
  <2> QED  BY <1>1, <1>4, <2>1 DEF Bit
<1>9. BucketsJust'
  <2> SUFFICES ASSUME NEW h \in Gateways, NEW d \in Clients,
                      NEW w \in Windows
               PROVE  /\ Held(local'[h][d], w) \in Nat
                      /\ Held(local'[h][d], w)
                            + Bit(r, MayReach(h, <<d, w>>)') + made[<<d, w>>]
                           <= Held(local[h][d], w)
                                + Bit(r, MayReach(h, <<d, w>>))
                                + made'[<<d, w>>]
    BY <1>3, <1>5, BucketsStayJust
  <2>1. <<d, w>> \in Cells  BY DEF Cells
  <2>2. Held(local[h][d], w) \in Nat
    <3>1. local[h][d] \in Bucket \cup {NoBucket}  BY DEF Inv, TypeOK
    <3> QED  BY <3>1 DEF Held, Bucket
  <2>3. <<d, w>> # <<c, window>> => r \notin MayReach(h, <<d, w>>)'
    BY <1>3 DEF MayReach, Cell
  <2>4. Bit(r, MayReach(h, <<d, w>>)') <= 
           IF <<d, w>> = <<c, window>> THEN 1 ELSE 0
    BY <2>3 DEF Bit
  <2>5. /\ Bit(r, MayReach(h, <<d, w>>)) \in Nat
        /\ Bit(r, MayReach(h, <<d, w>>)') \in Nat
    BY DEF Bit
  <2> QED  BY <1>1, <1>4, <2>1, <2>2, <2>4, <2>5
<1>10. RefusalsAreEarned'
  <2> SUFFICES ASSUME NEW cell \in refused PROVE made'[cell] > Amount
    BY <1>1 DEF RefusalsAreEarned
  <2>1. cell \in Cells /\ made[cell] > Amount
    BY DEF Inv, TypeOK, RefusalsAreEarned
  <2> QED  BY <1>4, <2>1, LimiterAssumption
<1> QED  BY <1>5, <1>6, <1>7, <1>8, <1>9, <1>10 DEF Inv

(* The buckets are just when none of them changes, no request joins those  *)
(* who may reach them, and none is forgotten to have been made.            *)
LEMMA BucketsUntouched ==
    ASSUME Inv, NEW r \in Requests, TypeOK', OthersStay(r),
           UNCHANGED <<local, made>>,
           \A g \in Gateways, cell \in Cells :
              Bit(r, MayReach(g, cell)') <= Bit(r, MayReach(g, cell))
    PROVE  BucketsJust'
<1> SUFFICES ASSUME NEW g \in Gateways, NEW c \in Clients, NEW w \in Windows
             PROVE  /\ Held(local'[g][c], w) \in Nat
                    /\ Held(local'[g][c], w) + Bit(r, MayReach(g, <<c, w>>)')
                          + made[<<c, w>>]
                         <= Held(local[g][c], w)
                              + Bit(r, MayReach(g, <<c, w>>))
                              + made'[<<c, w>>]
  BY BucketsStayJust
<1>1. <<c, w>> \in Cells  BY DEF Cells
<1>2. Held(local[g][c], w) \in Nat
  <2>1. local[g][c] \in Bucket \cup {NoBucket}  BY DEF Inv, TypeOK
  <2> QED  BY <2>1 DEF Held, Bucket
<1>3. made[<<c, w>>] \in Nat  BY <1>1 DEF Inv, TypeOK
<1>4. /\ Bit(r, MayReach(g, <<c, w>>)) \in Nat
      /\ Bit(r, MayReach(g, <<c, w>>)') \in Nat
      /\ Bit(r, MayReach(g, <<c, w>>)') <= Bit(r, MayReach(g, <<c, w>>))
  BY <1>1 DEF Bit
<1> QED  BY <1>2, <1>3, <1>4

(* Redis counts and answers.                                               *)
LEMMA IncrKeeps ==
    ASSUME Inv, NEW r \in Requests, Incr(r)
    PROVE  Inv'
<1> DEFINE cell == Cell(r)
           n == counter[cell] + 1
<1>1. /\ pc[r] = "incr" /\ counter' = [counter EXCEPT ![cell] = n]
      /\ UNCHANGED <<window, redisUp, expiring, local, arrivals, made, own>>
      /\ shared' = IF Allows(n) /\ win[r] = window
                   THEN [shared EXCEPT ![cell] = @ + 1] ELSE shared
      /\ refused' = IF Allows(n) THEN refused ELSE refused \cup {cell}
  BY DEF Incr, DecideShared
<1>2. /\ cell \in Cells /\ cell[2] = win[r] /\ win[r] <= window
      /\ win[r] \in Windows
  BY <1>1, UnderWay
<1>3. /\ OthersStay(r)
      /\ RequestsPlaced'
      /\ pc' \in [Requests -> States]
      /\ gw' \in [Requests -> Gateways \cup {NoGateway}]
      /\ client' \in [Requests -> Clients \cup {NoClient}]
      /\ win' \in [Requests -> Windows]
      /\ pc'[r] \in {"expire", "idle"}
  <2>1. CASE Over(r)  BY <1>1, <2>1, OverLeaves
  <2>2. CASE Goto(r, "expire") /\ UNCHANGED <<gw, client, win>>
    <3>1. OthersStay(r) /\ pc'[r] = "expire"
      BY <2>2 DEF Goto, Inv, TypeOK, OthersStay
    <3>2. Placed(r)'  BY <1>1, <2>2, <3>1, UnderWay DEF Placed
    <3> QED
      BY <1>1, <2>2, <3>1, <3>2, OthersPlaced DEF Goto, Inv, TypeOK, States
  <2> QED  BY <2>1, <2>2 DEF Incr
<1>4. /\ counter[cell] \in Nat /\ n \in Nat /\ shared[cell] \in Nat
      /\ made[cell] \in Nat
  BY <1>2 DEF Inv, TypeOK
<1> HIDE DEF cell, n
<1>5. TypeOK'
  <2>1. counter' \in [Cells -> Nat]  BY <1>1, <1>2, <1>4 DEF Inv, TypeOK
  <2>2. shared' \in [Cells -> Nat]  BY <1>1, <1>2, <1>4 DEF Inv, TypeOK
  <2>3. refused' \subseteq Cells  BY <1>1, <1>2 DEF Inv, TypeOK
  <2> QED  BY <1>1, <1>3, <2>1, <2>2, <2>3 DEF Inv, TypeOK
<1>6. CountersJust'
  <2> SUFFICES ASSUME NEW d \in Cells
               PROVE  counter'[d] + Bit(r, OnTheirWay(d)') + made[d]
                         <= counter[d] + Bit(r, OnTheirWay(d)) + made'[d]
    BY <1>3, <1>5, CountersStayJust
  <2>1. Bit(r, OnTheirWay(d)') = 0  BY <1>3 DEF Bit, OnTheirWay
  <2>2. Bit(r, OnTheirWay(d)) = IF d = cell THEN 1 ELSE 0
    BY <1>1 DEF Bit, OnTheirWay, cell
  <2>3. counter'[d] = IF d = cell THEN counter[d] + 1 ELSE counter[d]
    BY <1>1 DEF Inv, TypeOK, n
  <2>4. counter[d] \in Nat /\ made[d] \in Nat  BY DEF Inv, TypeOK
  <2> QED  BY <1>1, <2>1, <2>2, <2>3, <2>4
<1>7. BucketsJust'
  <2>1. \A g \in Gateways, d \in Cells :
           Bit(r, MayReach(g, d)') <= Bit(r, MayReach(g, d))
    BY <1>3 DEF Bit, MayReach
  <2> QED  BY <1>1, <1>3, <1>5, <2>1, BucketsUntouched
<1>8. counter'[cell] = n /\ \A d \in Cells \ {cell} : counter'[d] = counter[d]
  BY <1>1, <1>2 DEF Inv, TypeOK
<1>9. n <= made[cell]
  <2>1. \A d \in Cells : counter'[d] <= made'[d]
    <3> SUFFICES ASSUME NEW d \in Cells PROVE counter'[d] <= made'[d]
      OBVIOUS
    <3>1. counter'[d] + Cardinality(OnTheirWay(d)') <= made'[d]
      BY <1>6 DEF CountersJust
    <3>2. Cardinality(OnTheirWay(d)') \in Nat
      BY CountShrinks DEF OnTheirWay
    <3>3. counter'[d] \in Nat /\ made'[d] \in Nat  BY <1>5 DEF TypeOK
    <3> QED  BY <3>1, <3>2, <3>3
  <2> QED  BY <1>1, <1>2, <1>8, <2>1
<1>10. RefusalsAreEarned'
  <2>1. ~Allows(n) => made[cell] > Amount
    BY <1>4, <1>9, LimiterAssumption DEF Allows
  <2> QED  BY <1>1, <2>1 DEF Inv, RefusalsAreEarned
<1>11. SharedAllowance' /\ SharedCounted'
  <2> SUFFICES ASSUME NEW d \in Cells
               PROVE  /\ shared'[d] <= Amount
                      /\ d[2] >= window => shared'[d] <= counter'[d]
    BY <1>1 DEF SharedAllowance, SharedCounted
  <2>1. /\ shared[d] <= Amount
        /\ d[2] >= window => shared[d] <= counter[d]
        /\ shared[d] \in Nat /\ counter[d] \in Nat /\ d[2] \in Nat
        /\ window \in Nat
    BY DEF Inv, TypeOK, SharedAllowance, SharedCounted, Cells, Windows
  <2>2. CASE d # cell  BY <1>1, <1>8, <2>1, <2>2 DEF Inv, TypeOK
  <2>3. CASE d = cell /\ Allows(n) /\ win[r] = window
    <3>1. shared'[d] = shared[d] + 1
      BY <1>1, <1>2, <2>3 DEF Inv, TypeOK
    <3>2. n = counter[d] + 1 /\ counter'[d] = n /\ n <= Amount
      BY <1>8, <2>3 DEF n, Allows
    <3>3. d[2] >= window  BY <1>2, <2>1, <2>3
    <3> QED  BY <2>1, <3>1, <3>2, <3>3, LimiterAssumption
  <2>4. CASE d = cell /\ ~(Allows(n) /\ win[r] = window)
    <3>1. shared'[d] = shared[d]  BY <1>1, <2>4
    <3>2. counter'[d] = counter[d] + 1  BY <1>8, <2>4 DEF n
    <3> QED  BY <2>1, <3>1, <3>2
  <2> QED  BY <2>2, <2>3, <2>4
<1> QED  BY <1>3, <1>5, <1>6, <1>7, <1>10, <1>11 DEF Inv

(* The expiry is set, or the client hangs up, before or after.             *)
LEMMA EndKeeps ==
    ASSUME Inv, NEW r \in Requests, Expire(r) \/ Abandon(r)
    PROVE  Inv'
<1>1. /\ pc[r] # "idle" /\ Over(r)
      /\ UNCHANGED <<window, redisUp, counter, local, arrivals, made, shared,
                     own, refused>>
      /\ expiring' \subseteq expiring \cup {Cell(r)}
  BY DEF Expire, Abandon, historyVars, redisVars
<1>2. /\ OthersStay(r)
      /\ RequestsPlaced'
      /\ pc'[r] = "idle"
      /\ pc' \in [Requests -> States]
      /\ gw' \in [Requests -> Gateways \cup {NoGateway}]
      /\ client' \in [Requests -> Clients \cup {NoClient}]
      /\ win' \in [Requests -> Windows]
      /\ \A cell \in Cells : Bit(r, OnTheirWay(cell)') = 0
      /\ \A g \in Gateways, cell \in Cells : Bit(r, MayReach(g, cell)') = 0
  BY <1>1, OverLeaves
<1>3. TypeOK'
  <2>1. expiring' \subseteq Cells  BY <1>1, UnderWay DEF Inv, TypeOK
  <2> QED  BY <1>1, <1>2, <2>1 DEF Inv, TypeOK
<1>4. CountersJust'
  <2> SUFFICES ASSUME NEW d \in Cells
               PROVE  counter'[d] + Bit(r, OnTheirWay(d)') + made[d]
                         <= counter[d] + Bit(r, OnTheirWay(d)) + made'[d]
    BY <1>2, <1>3, CountersStayJust
  <2>1. counter[d] \in Nat /\ made[d] \in Nat  BY DEF Inv, TypeOK
  <2>2. Bit(r, OnTheirWay(d)) \in Nat  BY DEF Bit
  <2> QED  BY <1>1, <1>2, <2>1, <2>2
<1>5. BucketsJust'
  <2>1. \A g \in Gateways, d \in Cells :
           Bit(r, MayReach(g, d)') <= Bit(r, MayReach(g, d))
    BY <1>2 DEF Bit
  <2> QED  BY <1>1, <1>2, <1>3, <2>1, BucketsUntouched
<1>6. SharedAllowance' /\ SharedCounted' /\ RefusalsAreEarned'
  BY <1>1 DEF Inv, SharedAllowance, SharedCounted, RefusalsAreEarned
<1> QED  BY <1>2, <1>3, <1>4, <1>5, <1>6 DEF Inv

(* Redis does not answer, whether it counted or not.                       *)
LEMMA IncrFailedKeeps ==
    ASSUME Inv, NEW r \in Requests, IncrFailed(r)
    PROVE  Inv'
<1> DEFINE cell == Cell(r)
<1>1. /\ pc[r] = "incr" /\ pc' = [pc EXCEPT ![r] = "clock"]
      /\ counter' \in {counter, [counter EXCEPT ![cell] = @ + 1]}
      /\ UNCHANGED <<window, redisUp, expiring, local, gw, client, win,
                     arrivals, made, shared, own, refused>>
  BY DEF IncrFailed, Goto, historyVars
<1>2. cell \in Cells  BY <1>1, UnderWay
<1>3. OthersStay(r) /\ pc'[r] = "clock"
  BY <1>1 DEF Inv, TypeOK, OthersStay
<1>4. \A d \in Cells :
         /\ counter[d] \in Nat /\ made[d] \in Nat /\ shared[d] \in Nat
         /\ \/ counter'[d] = counter[d]
            \/ d = cell /\ counter'[d] = counter[d] + 1
  BY <1>1, <1>2 DEF Inv, TypeOK
<1>5. TypeOK'
  <2>1. counter' \in [Cells -> Nat]  BY <1>1, <1>2, <1>4 DEF Inv, TypeOK
  <2> QED  BY <1>1, <2>1 DEF Inv, TypeOK, States
<1>6. RequestsPlaced'
  <2>1. Placed(r)'  BY <1>1, <1>3, UnderWay DEF Placed
  <2> QED  BY <1>1, <1>3, <2>1, OthersPlaced
<1>7. CountersJust'
  <2> SUFFICES ASSUME NEW d \in Cells
               PROVE  counter'[d] + Bit(r, OnTheirWay(d)') + made[d]
                         <= counter[d] + Bit(r, OnTheirWay(d)) + made'[d]
    BY <1>3, <1>5, CountersStayJust
  <2>1. Bit(r, OnTheirWay(d)') = 0  BY <1>3 DEF Bit, OnTheirWay
  <2>2. Bit(r, OnTheirWay(d)) = IF d = cell THEN 1 ELSE 0
    BY <1>1 DEF Bit, OnTheirWay
  <2> HIDE DEF cell
  <2> QED  BY <1>1, <1>4, <2>1, <2>2
<1>8. BucketsJust'
  <2>1. \A g \in Gateways, d \in Cells :
           Bit(r, MayReach(g, d)') <= Bit(r, MayReach(g, d))
    BY <1>1 DEF Bit, MayReach, Cell
  <2> QED  BY <1>1, <1>3, <1>5, <2>1, BucketsUntouched
<1>9. SharedAllowance' /\ SharedCounted'
  <2> HIDE DEF cell
  <2> QED  BY <1>1, <1>4 DEF Inv, SharedAllowance, SharedCounted
<1>10. RefusalsAreEarned'  BY <1>1 DEF Inv, RefusalsAreEarned
<1> QED  BY <1>5, <1>6, <1>7, <1>8, <1>9, <1>10 DEF Inv

(* The clock is read again: who changes window has made a request of the   *)
(* new one.                                                                *)
LEMMA ReadClockKeeps ==
    ASSUME Inv, NEW r \in Requests, ReadClock(r)
    PROVE  Inv'
<1> DEFINE now == <<client[r], window>>
<1>1. /\ pc[r] = "clock" /\ pc' = [pc EXCEPT ![r] = "lock"]
      /\ win' = [win EXCEPT ![r] = window]
      /\ made' = IF win[r] = window THEN made ELSE [made EXCEPT ![now] = @ + 1]
      /\ UNCHANGED <<window, redisUp, counter, expiring, local, gw, client,
                     arrivals, shared, own, refused>>
  BY DEF ReadClock, Goto, redisVars
<1>2. /\ now \in Cells /\ window \in Windows /\ gw[r] \in Gateways
      /\ client[r] \in Clients
  BY <1>1, UnderWay DEF Inv, TypeOK, Cells
<1>3. /\ OthersStay(r) /\ pc'[r] = "lock" /\ win'[r] = window
      /\ gw'[r] = gw[r] /\ client'[r] = client[r]
  BY <1>1 DEF Inv, TypeOK, OthersStay
<1>4. \A d \in Cells :
         /\ made[d] \in Nat /\ counter[d] \in Nat
         /\ made'[d] = IF d = now /\ win[r] # window THEN made[d] + 1
                       ELSE made[d]
  <2> HIDE DEF now
  <2> QED  BY <1>1, <1>2 DEF Inv, TypeOK
<1>5. TypeOK'
  <2> HIDE DEF now
  <2>1. made' \in [Cells -> Nat]  BY <1>1, <1>2, <1>4 DEF Inv, TypeOK
  <2> QED  BY <1>1, <1>2, <2>1 DEF Inv, TypeOK, States
<1>6. RequestsPlaced'
  <2>1. window <= window  BY <1>2, LimiterAssumption DEF Windows
  <2>2. Placed(r)'  BY <1>1, <1>2, <1>3, <2>1 DEF Placed
  <2> QED  BY <1>1, <1>3, <2>2, OthersPlaced
<1>7. CountersJust'
  <2> SUFFICES ASSUME NEW d \in Cells
               PROVE  counter'[d] + Bit(r, OnTheirWay(d)') + made[d]
                         <= counter[d] + Bit(r, OnTheirWay(d)) + made'[d]
    BY <1>3, <1>5, CountersStayJust
  <2>1. Bit(r, OnTheirWay(d)') = 0 /\ Bit(r, OnTheirWay(d)) = 0
    BY <1>1, <1>3 DEF Bit, OnTheirWay
  <2> HIDE DEF now
  <2> QED  BY <1>1, <1>4, <2>1
<1>8. BucketsJust'
  <2> SUFFICES ASSUME NEW g \in Gateways, NEW c \in Clients,
                      NEW w \in Windows
               PROVE  /\ Held(local'[g][c], w) \in Nat
                      /\ Held(local'[g][c], w)
                            + Bit(r, MayReach(g, <<c, w>>)') + made[<<c, w>>]
                           <= Held(local[g][c], w)
                                + Bit(r, MayReach(g, <<c, w>>))
                                + made'[<<c, w>>]
    BY <1>3, <1>5, BucketsStayJust
  <2>1. Held(local[g][c], w) \in Nat
    <3>1. local[g][c] \in Bucket \cup {NoBucket}  BY DEF Inv, TypeOK
    <3> QED  BY <3>1 DEF Held, Bucket
  <2>2. <<c, w>> \in Cells  BY DEF Cells
  <2>3. \/ r \notin MayReach(g, <<c, w>>)'
        \/ <<c, w>> = now /\ win[r] # window
        \/ r \in MayReach(g, <<c, w>>)
    BY <1>1, <1>3 DEF MayReach, Cell
  <2> HIDE DEF now
  <2> QED  BY <1>1, <1>4, <2>1, <2>2, <2>3 DEF Bit
<1>9. SharedAllowance' /\ SharedCounted'
  BY <1>1 DEF Inv, SharedAllowance, SharedCounted
<1>10. RefusalsAreEarned'
  <2> SUFFICES ASSUME NEW d \in refused PROVE made'[d] > Amount
    BY <1>1 DEF RefusalsAreEarned
  <2>1. d \in Cells /\ made[d] > Amount
    BY DEF Inv, TypeOK, RefusalsAreEarned
  <2> HIDE DEF now
  <2> QED  BY <1>4, <2>1, LimiterAssumption
<1> QED  BY <1>5, <1>6, <1>7, <1>8, <1>9, <1>10 DEF Inv

-----------------------------------------------------------------------------
(* The buckets.                                                            *)

MaybeBuckets == Bucket \cup {NoBucket}

(* What a bucket says of a window is a number.                             *)
LEMMA HeldType ==
    ASSUME NEW e \in MaybeBuckets, NEW w \in Windows
    PROVE  Held(e, w) \in Nat
BY DEF MaybeBuckets, Held, Bucket

(* Pruning drops buckets of other, earlier windows and changes none.       *)
LEMMA PrunedKeeps ==
    ASSUME NEW b \in [Clients -> MaybeBuckets], NEW w \in Windows
    PROVE  /\ Pruned(b, w) \in [Clients -> MaybeBuckets]
           /\ \A c \in Clients :
                 /\ Pruned(b, w)[c] \in {b[c], NoBucket}
                 /\ b[c] # NoBucket /\ b[c].window >= w =>
                       Pruned(b, w)[c] = b[c]
BY DEF Pruned, MaybeBuckets

(* A bucket that counts a request of window w says one more of w, and      *)
(* nothing of any other window.                                            *)
LEMMA CountedOnce ==
    ASSUME NEW e \in MaybeBuckets, NEW w \in Windows
    PROVE  /\ Counted(e, w) \in Bucket
           /\ Counted(e, w).window = w
           /\ Counted(e, w).count = Held(e, w) + 1
<1>1. CASE e = NoBucket \/ e.window # w
  BY <1>1 DEF Counted, Held, Bucket
<1>2. CASE e # NoBucket /\ e.window = w
  <2>1. e.count \in Nat  BY <1>2 DEF MaybeBuckets, Bucket
  <2> QED  BY <1>2, <2>1 DEF Counted, Held, Bucket
<1> QED  BY <1>1, <1>2

(* What check_at() does, request by request and bucket by bucket.          *)
LEMMA CheckAtDoes ==
    ASSUME Inv, NEW r \in Requests, CheckAt(r)
    PROVE  /\ AtLock(gw[r], r) /\ Over(r)
           /\ UNCHANGED <<window, redisUp, counter, expiring, arrivals, made,
                          shared>>
           /\ local' \in [Gateways -> [Clients -> MaybeBuckets]]
           /\ \A g \in Gateways \ {gw[r]} : local'[g] = local[g]
           /\ \A c \in Clients \ {client[r]} :
                 /\ local'[gw[r]][c] \in {local[gw[r]][c], NoBucket}
                 /\ local[gw[r]][c] # NoBucket
                    /\ local[gw[r]][c].window >= win[r] =>
                       local'[gw[r]][c] = local[gw[r]][c]
           /\ LET e == local'[gw[r]][client[r]]
                  h == Held(local[gw[r]][client[r]], win[r])
              IN /\ e \in Bucket /\ e.window = win[r]
                 /\ e.count \in 1..(h + 1) /\ h \in Nat
                 /\ local[gw[r]][client[r]] # NoBucket
                    /\ local[gw[r]][client[r]].window >= win[r] =>
                       e.count = h + 1
                 /\ own' = IF Allows(e.count)
                           THEN [own EXCEPT ![gw[r]][Cell(r)] = @ + 1]
                           ELSE own
                 /\ refused' = IF Allows(e.count) THEN refused
                               ELSE refused \cup {Cell(r)}
<1> DEFINE g == gw[r]
           c == client[r]
           w == win[r]
           b == Pruned(local[g], w)
           e == Counted(b[c], w)
           h == Held(local[g][c], w)
<1>1. /\ pc[r] = "lock" /\ Over(r)
      /\ UNCHANGED <<window, redisUp, counter, expiring, arrivals, made,
                     shared>>
      /\ local' = [local EXCEPT ![g] = [b EXCEPT ![c] = e]]
      /\ own' = IF Allows(e.count)
                THEN [own EXCEPT ![g][Cell(r)] = @ + 1]
                ELSE own
      /\ refused' = IF Allows(e.count) THEN refused
                    ELSE refused \cup {Cell(r)}
  BY DEF CheckAt, redisVars
<1>2. g \in Gateways /\ c \in Clients /\ w \in Windows
  BY <1>1, UnderWay
<1>3. /\ local \in [Gateways -> [Clients -> MaybeBuckets]]
      /\ local[g] \in [Clients -> MaybeBuckets]
      /\ local[g][c] \in MaybeBuckets
  BY <1>2 DEF Inv, TypeOK, MaybeBuckets
<1>4. /\ b \in [Clients -> MaybeBuckets]
      /\ \A d \in Clients :
            /\ b[d] \in {local[g][d], NoBucket}
            /\ local[g][d] # NoBucket /\ local[g][d].window >= w =>
                  b[d] = local[g][d]
  BY <1>2, <1>3, PrunedKeeps
<1>5. b[c] \in MaybeBuckets  BY <1>2, <1>4
<1>6. h \in Nat /\ Held(b[c], w) \in Nat
  BY <1>2, <1>3, <1>5, HeldType
<1>7. Held(b[c], w) \in {h, 0}
  BY <1>2, <1>4 DEF Held
<1>8. e \in Bucket /\ e.window = w /\ e.count = Held(b[c], w) + 1
  BY <1>2, <1>5, CountedOnce
<1>9. e \in MaybeBuckets  BY <1>8 DEF MaybeBuckets
<1>10. local[g][c] # NoBucket /\ local[g][c].window >= w =>
          e.count = h + 1
  BY <1>2, <1>4, <1>8
<1>11. e.count \in 1..(h + 1)  BY <1>6, <1>7, <1>8
<1> HIDE DEF b, e, g, c, w, h
<1>12. /\ local' \in [Gateways -> [Clients -> MaybeBuckets]]
       /\ \A k \in Gateways \ {g} : local'[k] = local[k]
       /\ \A d \in Clients \ {c} : local'[g][d] = b[d]
       /\ local'[g][c] = e
  BY <1>1, <1>2, <1>3, <1>4, <1>9
<1>13. AtLock(g, r)  BY <1>1 DEF AtLock, g
<1> QED
  BY <1>1, <1>4, <1>6, <1>8, <1>10, <1>11, <1>12, <1>13 DEF g, c, w, h

(* A gateway counts and decides on its own.                                *)
LEMMA CheckAtKeeps ==
    ASSUME Inv, NEW r \in Requests, CheckAt(r)
    PROVE  Inv'
<1> DEFINE g == gw[r]
           c == client[r]
           w == win[r]
           e == local'[g][c]
           h == Held(local[g][c], w)
<1>1. /\ pc[r] = "lock" /\ Over(r)
      /\ UNCHANGED <<window, redisUp, counter, expiring, arrivals, made,
                     shared>>
  BY CheckAtDoes DEF AtLock
<1>2. /\ local' \in [Gateways -> [Clients -> MaybeBuckets]]
      /\ \A k \in Gateways \ {g} : local'[k] = local[k]
      /\ \A d \in Clients \ {c} : local'[g][d] \in {local[g][d], NoBucket}
      /\ e \in Bucket /\ e.window = w /\ e.count \in 1..(h + 1) /\ h \in Nat
      /\ own' = IF Allows(e.count)
                THEN [own EXCEPT ![g][Cell(r)] = @ + 1]
                ELSE own
      /\ refused' = IF Allows(e.count) THEN refused
                    ELSE refused \cup {Cell(r)}
  BY CheckAtDoes
<1>3. /\ g \in Gateways /\ c \in Clients /\ w \in Windows
      /\ Cell(r) \in Cells /\ Cell(r) = <<c, w>>
  BY <1>1, UnderWay
<1>4. /\ OthersStay(r)
      /\ RequestsPlaced'
      /\ pc'[r] = "idle"
      /\ pc' \in [Requests -> States]
      /\ gw' \in [Requests -> Gateways \cup {NoGateway}]
      /\ client' \in [Requests -> Clients \cup {NoClient}]
      /\ win' \in [Requests -> Windows]
      /\ \A cell \in Cells : Bit(r, OnTheirWay(cell)') = 0
      /\ \A k \in Gateways, cell \in Cells : Bit(r, MayReach(k, cell)') = 0
  BY <1>1, OverLeaves
<1>5. \A k \in Gateways, d \in Clients, v \in Windows :
         Bit(r, MayReach(k, <<d, v>>)) =
            IF k = g /\ d = c /\ v = w THEN 1 ELSE 0
  BY <1>1, <1>3 DEF Bit, MayReach
<1>6. \A k \in Gateways, d \in Clients, v \in Windows :
         /\ Held(local[k][d], v) \in Nat
         /\ Held(local'[k][d], v) \in Nat
         /\ Held(local'[k][d], v) <= Held(local[k][d], v)
              + IF k = g /\ d = c /\ v = w THEN 1 ELSE 0
  <2> SUFFICES ASSUME NEW k \in Gateways, NEW d \in Clients,
                      NEW v \in Windows
               PROVE  /\ Held(local[k][d], v) \in Nat
                      /\ Held(local'[k][d], v) \in Nat
                      /\ Held(local'[k][d], v) <= Held(local[k][d], v)
                           + IF k = g /\ d = c /\ v = w THEN 1 ELSE 0
    OBVIOUS
  <2>1. local[k][d] \in MaybeBuckets /\ local'[k][d] \in MaybeBuckets
    BY <1>2 DEF Inv, TypeOK, MaybeBuckets
  <2>2. Held(local[k][d], v) \in Nat /\ Held(local'[k][d], v) \in Nat
    BY <2>1, HeldType
  <2>3. CASE k = g /\ d = c /\ v = w
    <3>1. e # NoBucket  BY <1>2, LimiterAssumption
    <3>2. Held(local'[k][d], v) = e.count  BY <1>2, <2>3, <3>1 DEF Held
    <3>3. Held(local[k][d], v) = h  BY <2>3
    <3> HIDE DEF e, h
    <3> QED  BY <1>2, <2>2, <2>3, <3>2, <3>3
  <2>4. CASE k = g /\ d = c /\ v # w
    <3>1. Held(local'[k][d], v) = 0  BY <1>2, <2>4 DEF Held
    <3> QED  BY <2>2, <2>4, <3>1
  <2>5. CASE k # g \/ d # c
    <3>1. local'[k][d] \in {local[k][d], NoBucket}  BY <1>2, <2>5
    <3>2. Held(local'[k][d], v) \in {Held(local[k][d], v), 0}
      BY <3>1 DEF Held
    <3> QED  BY <2>2, <2>5, <3>2
  <2> QED  BY <2>3, <2>4, <2>5
<1>7. \A cell \in Cells : made[cell] \in Nat /\ counter[cell] \in Nat
  BY DEF Inv, TypeOK
<1>8. TypeOK'
  <2>1. own' \in [Gateways -> [Cells -> Nat]]
    BY <1>2, <1>3 DEF Inv, TypeOK
  <2> HIDE DEF g, e
  <2>2. refused' \subseteq Cells  BY <1>2, <1>3 DEF Inv, TypeOK
  <2> QED  BY <1>1, <1>2, <1>4, <2>1, <2>2 DEF Inv, TypeOK, MaybeBuckets
<1>9. CountersJust'
  <2> SUFFICES ASSUME NEW d \in Cells
               PROVE  counter'[d] + Bit(r, OnTheirWay(d)') + made[d]
                         <= counter[d] + Bit(r, OnTheirWay(d)) + made'[d]
    BY <1>4, <1>8, CountersStayJust
  <2>1. Bit(r, OnTheirWay(d)) \in Nat  BY DEF Bit
  <2> QED  BY <1>1, <1>4, <1>7, <2>1
<1>10. BucketsJust'
  <2> SUFFICES ASSUME NEW k \in Gateways, NEW d \in Clients,
                      NEW v \in Windows
               PROVE  /\ Held(local'[k][d], v) \in Nat
                      /\ Held(local'[k][d], v)
                            + Bit(r, MayReach(k, <<d, v>>)') + made[<<d, v>>]
                           <= Held(local[k][d], v)
                                + Bit(r, MayReach(k, <<d, v>>))
                                + made'[<<d, v>>]
    BY <1>4, <1>8, BucketsStayJust
  <2>1. <<d, v>> \in Cells  BY DEF Cells
  <2>2. Bit(r, MayReach(k, <<d, v>>)') = 0  BY <1>4, <2>1
  <2> HIDE DEF g, c, w
  <2> QED  BY <1>1, <1>5, <1>6, <1>7, <2>1, <2>2
<1>11. RefusalsAreEarned'
  <2>1. \A k \in Gateways, d \in Clients, v \in Windows :
           Held(local'[k][d], v) <= made[<<d, v>>]
    <3> SUFFICES ASSUME NEW k \in Gateways, NEW d \in Clients,
                        NEW v \in Windows
                 PROVE  Held(local'[k][d], v) <= made[<<d, v>>]
      OBVIOUS
    <3>1. Held(local'[k][d], v) + Cardinality(MayReach(k, <<d, v>>)')
             <= made'[<<d, v>>]
      BY <1>10 DEF BucketsJust
    <3>2. Cardinality(MayReach(k, <<d, v>>)') \in Nat
      BY CountShrinks DEF MayReach
    <3>3. <<d, v>> \in Cells  BY DEF Cells
    <3> QED  BY <1>1, <1>6, <1>7, <3>1, <3>2, <3>3
  <2>2. Held(e, w) = e.count
    <3>1. e # NoBucket  BY <1>2, LimiterAssumption
    <3> QED  BY <1>2, <3>1 DEF Held
  <2>3. e.count <= made[Cell(r)]  BY <1>3, <2>1, <2>2
  <2>4. ~Allows(e.count) => made[Cell(r)] > Amount
    BY <1>2, <1>3, <1>7, <2>3, LimiterAssumption DEF Allows
  <2> QED  BY <1>1, <1>2, <2>4 DEF Inv, RefusalsAreEarned
<1>12. SharedAllowance' /\ SharedCounted'
  BY <1>1 DEF Inv, SharedAllowance, SharedCounted
<1> QED  BY <1>4, <1>8, <1>9, <1>10, <1>11, <1>12 DEF Inv

-----------------------------------------------------------------------------
(* The surroundings.                                                       *)

(* When no request moves and no counter or bucket gets ahead, everything   *)
(* stays just.                                                             *)
LEMMA StayJust ==
    ASSUME Inv, UNCHANGED <<pc, gw, client, win, local, made>>,
           \A cell \in Cells :
              counter'[cell] \in Nat /\ counter'[cell] <= counter[cell]
    PROVE  CountersJust' /\ BucketsJust'
<1>1. CountersJust'
  <2> SUFFICES ASSUME NEW cell \in Cells
               PROVE  counter'[cell] + Cardinality(OnTheirWay(cell)')
                         <= made'[cell]
    BY DEF CountersJust
  <2>1. OnTheirWay(cell)' = OnTheirWay(cell)  BY DEF OnTheirWay, Cell
  <2>2. Cardinality(OnTheirWay(cell)) \in Nat
    BY CountShrinks DEF OnTheirWay
  <2>3. counter[cell] + Cardinality(OnTheirWay(cell)) <= made[cell]
    BY DEF Inv, CountersJust
  <2>4. counter[cell] \in Nat /\ made[cell] \in Nat  BY DEF Inv, TypeOK
  <2> QED  BY <2>1, <2>2, <2>3, <2>4
<1>2. BucketsJust'
  <2>1. \A g \in Gateways, c \in Clients, w \in Windows :
           MayReach(g, <<c, w>>)' = MayReach(g, <<c, w>>)
    BY DEF MayReach, Cell
  <2> QED  BY <2>1 DEF Inv, BucketsJust
<1> QED  BY <1>1, <1>2

(* A window ends, and Redis changes or loses its counters.                 *)
LEMMA SurroundingsKeep ==
    ASSUME Inv,
           \/ Tick
           \/ \E cell \in Cells : KeyExpires(cell)
           \/ RedisChange \/ RedisLoses
    PROVE  Inv'
<1>1. /\ UNCHANGED <<local, pc, gw, client, win, arrivals, made, own,
                     refused>>
      /\ window' \in Windows /\ window' >= window
      /\ redisUp' \in BOOLEAN /\ expiring' \subseteq Cells
  <2>1. /\ redisUp \in BOOLEAN /\ expiring \subseteq Cells
        /\ window \in Windows /\ window \in Nat
    BY DEF Inv, TypeOK, Windows
  <2>2. CASE Tick
    <3>1. window' = window + 1 /\ window < MaxWindow  BY <2>2 DEF Tick
    <3>2. window' \in Windows
      BY <2>1, <3>1, LimiterAssumption DEF Windows
    <3> QED
      BY <2>1, <2>2, <3>1, <3>2 DEF Tick, requestVars, redisVars, historyVars
  <2>3. ASSUME NEW cell \in Cells, KeyExpires(cell)
        PROVE  /\ UNCHANGED <<window, redisUp, local, pc, gw, client, win,
                              arrivals, made, own, refused>>
               /\ expiring' \subseteq expiring
    BY <2>3 DEF KeyExpires, requestVars, historyVars
  <2>4. CASE RedisChange
    BY <2>1, <2>4 DEF RedisChange, requestVars, historyVars
  <2>5. CASE RedisLoses  BY <2>1, <2>5 DEF RedisLoses, requestVars
  <2> QED  BY <2>1, <2>2, <2>3, <2>4, <2>5
<1>2. \A d \in Cells :
         /\ counter[d] \in Nat /\ shared[d] \in Nat /\ d[2] \in Nat
         /\ counter'[d] \in Nat /\ counter'[d] <= counter[d]
         /\ shared'[d] \in Nat /\ shared'[d] <= shared[d]
         /\ d[2] >= window => shared'[d] <= counter'[d]
  <2>1. \A d \in Cells :
           /\ counter[d] \in Nat /\ shared[d] \in Nat /\ d[2] \in Nat
           /\ d[2] >= window => shared[d] <= counter[d]
    BY DEF Inv, TypeOK, SharedCounted, Cells, Windows
  <2>2. CASE Tick \/ RedisChange
    BY <2>1, <2>2 DEF Tick, RedisChange, historyVars, redisVars
  <2>3. ASSUME NEW cell \in Cells, KeyExpires(cell)
        PROVE  \A d \in Cells :
                  /\ counter'[d] \in Nat /\ counter'[d] <= counter[d]
                  /\ shared'[d] \in Nat /\ shared'[d] <= shared[d]
                  /\ d[2] >= window => shared'[d] <= counter'[d]
    <3>1. /\ counter' = [counter EXCEPT ![cell] = 0] /\ cell[2] < window
          /\ UNCHANGED shared
      BY <2>3 DEF KeyExpires, historyVars
    <3>2. window \in Nat  BY DEF Inv, TypeOK, Windows
    <3> QED  BY <2>1, <3>1, <3>2 DEF Inv, TypeOK
  <2>4. CASE RedisLoses  BY <2>1, <2>4 DEF RedisLoses
  <2> QED  BY <2>1, <2>2, <2>3, <2>4
<1>3. /\ counter' \in [Cells -> Nat] /\ shared' \in [Cells -> Nat]
  BY DEF Tick, KeyExpires, RedisChange, RedisLoses, redisVars, historyVars,
         Inv, TypeOK
<1>4. TypeOK'  BY <1>1, <1>3 DEF Inv, TypeOK
<1>5. RequestsPlaced'
  <2> SUFFICES ASSUME NEW r \in Requests PROVE Placed(r)'
    BY DEF RequestsPlaced
  <2>1. Placed(r)  BY DEF Inv, RequestsPlaced
  <2>2. win[r] \in Nat /\ window \in Nat /\ window' \in Nat
    BY <1>1 DEF Inv, TypeOK, Windows
  <2> QED  BY <1>1, <2>1, <2>2 DEF Placed
<1>6. SharedAllowance' /\ SharedCounted'
  <2>1. window \in Nat /\ window' \in Nat
    BY <1>1 DEF Inv, TypeOK, Windows
  <2>2. SharedAllowance'
    BY <1>2, LimiterAssumption DEF Inv, SharedAllowance
  <2>3. SharedCounted'  BY <1>1, <1>2, <2>1 DEF SharedCounted
  <2> QED  BY <2>2, <2>3
<1>7. CountersJust' /\ BucketsJust'  BY <1>1, <1>2, StayJust
<1>8. RefusalsAreEarned'  BY <1>1 DEF Inv, RefusalsAreEarned
<1> QED  BY <1>4, <1>5, <1>6, <1>7, <1>8 DEF Inv

(* A restart empties the buckets of a gateway and drops its requests.      *)
LEMMA RestartKeeps ==
    ASSUME Inv, NEW g \in Gateways, Restart(g)
    PROVE  Inv'
<1>1. /\ UNCHANGED <<window, redisUp, counter, expiring, arrivals, made,
                     shared, refused>>
      /\ local' = [local EXCEPT ![g] = [c \in Clients |-> NoBucket]]
      /\ own' = [own EXCEPT ![g] = [c \in Cells |-> 0]]
  BY DEF Restart, redisVars
<1>2. \A r \in Requests :
         IF gw[r] = g
         THEN pc'[r] = "idle" /\ gw'[r] = NoGateway
         ELSE /\ pc'[r] = pc[r] /\ gw'[r] = gw[r]
              /\ client'[r] = client[r] /\ win'[r] = win[r]
  BY DEF Restart
<1>3. TypeOK'
  <2>1. 0 \in Windows  BY LimiterAssumption DEF Windows
  <2>2. /\ pc' \in [Requests -> States]
        /\ gw' \in [Requests -> Gateways \cup {NoGateway}]
        /\ client' \in [Requests -> Clients \cup {NoClient}]
        /\ win' \in [Requests -> Windows]
    BY <2>1 DEF Restart, Inv, TypeOK, States
  <2>3. local' \in [Gateways -> [Clients -> Bucket \cup {NoBucket}]]
    BY <1>1 DEF Inv, TypeOK
  <2>4. own' \in [Gateways -> [Cells -> Nat]]  BY <1>1 DEF Inv, TypeOK
  <2> QED  BY <1>1, <2>2, <2>3, <2>4 DEF Inv, TypeOK
<1>4. RequestsPlaced'
  BY <1>1, <1>2 DEF Inv, RequestsPlaced, Placed
<1>5. CountersJust'
  <2> SUFFICES ASSUME NEW cell \in Cells
               PROVE  counter[cell] + Cardinality(OnTheirWay(cell)')
                         <= made[cell]
    BY <1>1 DEF CountersJust
  <2> DEFINE S == OnTheirWay(cell)
             T == OnTheirWay(cell)'
  <2>1. S \in SUBSET Requests /\ T \in SUBSET S
    BY <1>2 DEF OnTheirWay, Cell
  <2>2. counter[cell] + Cardinality(S) <= made[cell]
    BY DEF Inv, CountersJust
  <2>3. counter[cell] \in Nat /\ made[cell] \in Nat  BY DEF Inv, TypeOK
  <2> HIDE DEF S, T
  <2>4. counter[cell] + Cardinality(T) <= made[cell]
    BY <2>1, <2>2, <2>3, CountShrinks
  <2> QED  BY <2>4 DEF T
<1>6. BucketsJust'
  <2> SUFFICES ASSUME NEW h \in Gateways, NEW c \in Clients,
                      NEW w \in Windows
               PROVE  Held(local'[h][c], w)
                         + Cardinality(MayReach(h, <<c, w>>)')
                         <= made[<<c, w>>]
    BY <1>1 DEF BucketsJust, Held
  <2> DEFINE S == MayReach(h, <<c, w>>)
             T == MayReach(h, <<c, w>>)'
             k == Held(local[h][c], w)
             l == Held(local'[h][c], w)
  <2>1. S \in SUBSET Requests /\ T \in SUBSET S
    BY <1>2, LimiterAssumption DEF MayReach, Cell
  <2>2. k + Cardinality(S) <= made[<<c, w>>]
    BY DEF Inv, BucketsJust
  <2>3. made[<<c, w>>] \in Nat  BY DEF Inv, TypeOK, Cells
  <2>4. k \in Nat
    <3>1. local[h][c] \in MaybeBuckets  BY DEF Inv, TypeOK, MaybeBuckets
    <3> QED  BY <3>1, HeldType
  <2>5. l \in {k, 0}  BY <1>1 DEF Inv, TypeOK, Held
  <2> HIDE DEF S, T, k, l
  <2>6. l + Cardinality(T) <= made[<<c, w>>]
    BY <2>1, <2>2, <2>3, <2>4, <2>5, CountShrinks
  <2> QED  BY <2>6 DEF T, l
<1>7. SharedAllowance' /\ SharedCounted' /\ RefusalsAreEarned'
  BY <1>1 DEF Inv, SharedAllowance, SharedCounted, RefusalsAreEarned
<1> QED  BY <1>3, <1>4, <1>5, <1>6, <1>7 DEF Inv

LEMMA StutterKeeps == Inv /\ UNCHANGED vars => Inv'
<1> SUFFICES ASSUME Inv, UNCHANGED vars PROVE Inv'  OBVIOUS
<1>1. CountersJust' /\ BucketsJust'
  BY StayJust DEF vars, requestVars, redisVars, historyVars, Inv, TypeOK
<1> QED
  BY <1>1 DEF vars, requestVars, redisVars, historyVars, Inv, TypeOK,
     RequestsPlaced, Placed, SharedAllowance, SharedCounted,
     RefusalsAreEarned

(* Every step keeps the invariant.                                         *)
LEMMA NextInv == Inv /\ [Next]_vars => Inv'
<1> SUFFICES ASSUME Inv, [Next]_vars PROVE Inv'  OBVIOUS
<1>1. ASSUME NEW r \in Requests, NEW g \in Gateways, NEW c \in Clients,
             Begin(r, g, c)
      PROVE  Inv'
  BY <1>1, BeginKeeps
<1>2. ASSUME NEW r \in Requests, Step(r) \/ Abandon(r) PROVE Inv'
  BY <1>2, IncrKeeps, EndKeeps, IncrFailedKeeps, ReadClockKeeps,
     CheckAtKeeps DEF Step
<1>3. ASSUME NEW g \in Gateways, Restart(g) PROVE Inv'
  BY <1>3, RestartKeeps
<1> QED
  BY <1>1, <1>2, <1>3, SurroundingsKeep, StutterKeeps DEF Next

LEMMA Invariance == Spec => []Inv
BY InitInv, NextInv, PTL DEF Spec

(* incr_in_window shared by all gateways: while Redis keeps its data it    *)
(* admits no more than limit.amount of a client's requests in a window,    *)
(* for any number of gateways, requests in flight and worker threads, with *)
(* lost replies, outages, hang-ups and restarts in between.                *)
THEOREM SharedKept == Spec => []SharedAllowance
<1>1. Inv => SharedAllowance  BY DEF Inv
<1> QED  BY <1>1, Invariance, PTL

(* RateLimiter::check_shared and check: a client is refused in a window    *)
(* only when it made more than limit.amount requests in it: no request is  *)
(* counted twice in one counter, although a fallback may count it in two.  *)
THEOREM RefusalsEarned == Spec => []RefusalsAreEarned
<1>1. Inv => RefusalsAreEarned  BY DEF Inv
<1> QED  BY <1>1, Invariance, PTL

-----------------------------------------------------------------------------
(* The buckets of a gateway that runs one thread.                          *)

LEMMA LocalInit == Init => LocalInv
<1> SUFFICES ASSUME Init PROVE LocalInv  OBVIOUS
<1>1. \A g \in Gateways, r \in Requests : ~AtLock(g, r)
  BY DEF Init, AtLock
<1>2. /\ \A g \in Gateways, c \in Clients : local[g][c] = NoBucket
      /\ \A g \in Gateways, c \in Clients, w \in Windows :
            own[g][<<c, w>>] = 0
  BY DEF Init, Cells
<1>3. LockIsTaken /\ BucketsBehind
  BY <1>1, <1>2 DEF LockIsTaken, BucketsBehind
<1>4. OwnCounted
  <2> SUFFICES ASSUME NEW g \in Gateways, NEW c \in Clients,
                      NEW w \in Windows
               PROVE  /\ own[g][<<c, w>>] = 0
                      /\ own[g][<<c, w>>] <= Held(local[g][c], w)
    BY DEF OwnCounted
  <2>1. own[g][<<c, w>>] = 0  BY <1>2
  <2>2. Held(local[g][c], w) = 0  BY <1>2 DEF Held
  <2> QED  BY <2>1, <2>2
<1>5. LocalAllowance
  BY LimiterAssumption DEF Init, LocalAllowance
<1> QED  BY <1>3, <1>4, <1>5 DEF LocalInv

(* What the invariants of buckets and admissions say of numbers.           *)
LEMMA LocalNumbers ==
    ASSUME Inv, NEW g \in Gateways, NEW c \in Clients, NEW w \in Windows
    PROVE  /\ <<c, w>> \in Cells /\ own[g][<<c, w>>] \in Nat
           /\ w \in Nat /\ window \in Nat /\ window \in Windows
           /\ local[g][c] \in MaybeBuckets
           /\ local[g][c] # NoBucket =>
                 local[g][c].window \in Windows /\ local[g][c].window \in Nat
           /\ Held(local[g][c], w) \in Nat
<1>1. local[g][c] \in MaybeBuckets  BY DEF Inv, TypeOK, MaybeBuckets
<1>2. Held(local[g][c], w) \in Nat  BY <1>1, HeldType
<1>3. local[g][c] # NoBucket => local[g][c].window \in Windows
  BY <1>1 DEF MaybeBuckets, Bucket
<1>4. \A v \in Windows : v \in Nat  BY DEF Windows
<1>5. window \in Windows /\ <<c, w>> \in Cells /\ own[g][<<c, w>>] \in Nat
  BY DEF Inv, TypeOK, Cells
<1> QED  BY <1>1, <1>2, <1>3, <1>4, <1>5

(* Steps that leave the clock and the buckets alone and bring nobody to    *)
(* the lock.                                                               *)
LEMMA LocalStays ==
    ASSUME LocalInv, UNCHANGED <<window, local, own>>,
           \A g \in Gateways, q \in Requests :
              AtLock(g, q)' => AtLock(g, q) /\ win'[q] = win[q]
    PROVE  LocalInv'
<1>1. LockIsTaken'  BY DEF LocalInv, LockIsTaken
<1>2. BucketsBehind'  BY DEF LocalInv, BucketsBehind
<1>3. OwnCounted'
  <2>1. \A g \in Gateways, w \in Windows : Live(g, w)' => Live(g, w)
    BY DEF Live
  <2> QED  BY <2>1 DEF LocalInv, OwnCounted, Held
<1>4. LocalAllowance'  BY DEF LocalInv, LocalAllowance
<1> QED  BY <1>1, <1>2, <1>3, <1>4 DEF LocalInv

(* The steps of a check before the fallback, and those of Redis.           *)
LEMMA LocalElsewhere ==
    ASSUME Inv, LocalInv,
           \/ \E r \in Requests :
                 \/ \E g \in Gateways, c \in Clients : Begin(r, g, c)
                 \/ Incr(r) \/ Expire(r) \/ IncrFailed(r) \/ Abandon(r)
           \/ \E cell \in Cells : KeyExpires(cell)
           \/ RedisChange \/ RedisLoses \/ UNCHANGED vars
    PROVE  LocalInv'
<1>1. CASE \/ \E cell \in Cells : KeyExpires(cell)
           \/ RedisChange \/ RedisLoses \/ UNCHANGED vars
  <2>1. UNCHANGED <<window, local, own, pc, gw, win>>
    BY <1>1 DEF KeyExpires, RedisChange, RedisLoses, vars, requestVars,
                redisVars, historyVars
  <2> QED  BY <2>1, LocalStays DEF AtLock
<1>2. ASSUME NEW r \in Requests,
             \/ \E g \in Gateways, c \in Clients : Begin(r, g, c)
             \/ Incr(r) \/ Expire(r) \/ IncrFailed(r) \/ Abandon(r)
      PROVE  LocalInv'
  <2>1. UNCHANGED <<window, local, own>>
    BY <1>2 DEF Begin, Incr, Expire, IncrFailed, Abandon, DecideShared,
                historyVars
  <2>2. OthersStay(r) /\ pc'[r] # "lock"
    <3>1. CASE Over(r)
      BY <3>1 DEF Over, Inv, TypeOK, OthersStay
    <3>2. CASE \E g \in Gateways, c \in Clients : Begin(r, g, c)
      BY <3>2 DEF Begin, Goto, Inv, TypeOK, OthersStay
    <3>3. CASE /\ Goto(r, "expire") \/ Goto(r, "clock")
               /\ UNCHANGED <<gw, client, win>>
      BY <3>3 DEF Goto, Inv, TypeOK, OthersStay
    <3> QED
      BY <1>2, <3>1, <3>2, <3>3 DEF Incr, Expire, IncrFailed, Abandon
  <2>3. \A g \in Gateways, q \in Requests :
           AtLock(g, q)' => AtLock(g, q) /\ win'[q] = win[q]
    BY <2>2 DEF OthersStay, AtLock
  <2> QED  BY <2>1, <2>3, LocalStays
<1> QED  BY <1>1, <1>2

(* A window ends: nothing was admitted in the next one yet.                *)
LEMMA LocalTick ==
    ASSUME Inv, LocalInv, Tick
    PROVE  LocalInv'
<1>1. /\ window' = window + 1
      /\ UNCHANGED <<local, own, pc, gw, win>>
  BY DEF Tick, requestVars, historyVars
<1>2. LockIsTaken'  BY <1>1 DEF LocalInv, LockIsTaken, AtLock
<1>3. BucketsBehind'
  <2> SUFFICES ASSUME NEW g \in Gateways, NEW c \in Clients,
                      local[g][c] # NoBucket
               PROVE  /\ local[g][c].window <= window + 1
                      /\ \A r \in Requests :
                            AtLock(g, r) => local[g][c].window <= win[r]
    BY <1>1 DEF BucketsBehind, AtLock
  <2>1. local[g][c].window \in Nat /\ window \in Nat
    BY DEF Inv, TypeOK, Bucket, Windows
  <2> QED  BY <2>1 DEF LocalInv, BucketsBehind
<1>4. OwnCounted'
  <2> SUFFICES ASSUME NEW g \in Gateways, NEW c \in Clients,
                      NEW w \in Windows
               PROVE  /\ w > window' => own[g][<<c, w>>] = 0
                      /\ Live(g, w)' =>
                            own[g][<<c, w>>] <= Held(local[g][c], w)
    BY <1>1 DEF OwnCounted, Held
  <2>1. /\ w \in Nat /\ window \in Nat /\ Held(local[g][c], w) \in Nat
    BY LocalNumbers
  <2>2. /\ w > window => own[g][<<c, w>>] = 0
        /\ Live(g, w) => own[g][<<c, w>>] <= Held(local[g][c], w)
    BY DEF LocalInv, OwnCounted
  <2>3. Live(g, w)' => Live(g, w) \/ w = window + 1
    BY <1>1 DEF Live, AtLock
  <2> QED  BY <1>1, <2>1, <2>2, <2>3
<1>5. LocalAllowance'  BY <1>1 DEF LocalInv, LocalAllowance
<1> QED  BY <1>2, <1>3, <1>4, <1>5 DEF LocalInv

(* The only thread goes to the lock with the current window.               *)
LEMMA LocalReadClock ==
    ASSUME Inv, LocalInv, Threads = 1, NEW r \in Requests, ReadClock(r)
    PROVE  LocalInv'
<1> DEFINE locked == {q \in Requests : gw[q] = gw[r] /\ pc[q] = "lock"}
<1>1. /\ pc[r] = "clock" /\ pc' = [pc EXCEPT ![r] = "lock"]
      /\ win' = [win EXCEPT ![r] = window]
      /\ UNCHANGED <<window, local, gw, own>>
      /\ Cardinality(locked) < 1
  BY DEF ReadClock, Goto
<1>2. locked = {}
  <2>1. IsFiniteSet(locked)  BY LimiterAssumption, FS_Subset
  <2>2. Cardinality(locked) \in Nat  BY <2>1, FS_CardinalityType
  <2> HIDE DEF locked
  <2>3. Cardinality(locked) = 0  BY <1>1, <2>2
  <2> QED  BY <2>1, <2>3, FS_EmptySet
<1>3. \A q \in Requests : ~AtLock(gw[r], q)  BY <1>2 DEF AtLock
<1>4. \A g \in Gateways, q \in Requests :
         AtLock(g, q)' <=> AtLock(g, q) \/ (q = r /\ g = gw[r])
  BY <1>1 DEF AtLock, Inv, TypeOK
<1>5. \A g \in Gateways, q \in Requests :
         AtLock(g, q) => win'[q] = win[q] /\ g # gw[r]
  BY <1>1, <1>3 DEF AtLock, Inv, TypeOK
<1>6. win'[r] = window  BY <1>1 DEF Inv, TypeOK
<1>7. LockIsTaken'
  BY <1>3, <1>4 DEF LocalInv, LockIsTaken
<1>8. BucketsBehind'
  BY <1>1, <1>4, <1>5, <1>6 DEF LocalInv, BucketsBehind
<1>9. OwnCounted'
  <2>1. \A g \in Gateways, w \in Windows : Live(g, w)' => Live(g, w)
    BY <1>1, <1>4, <1>5, <1>6 DEF Live
  <2> QED  BY <1>1, <2>1 DEF LocalInv, OwnCounted, Held
<1>10. LocalAllowance'  BY <1>1 DEF LocalInv, LocalAllowance
<1> QED  BY <1>7, <1>8, <1>9, <1>10 DEF LocalInv

(* At the lock: the bucket counts what it admits, and whatever it forgets  *)
(* belongs to windows that are over.                                       *)
LEMMA LocalCheckAt ==
    ASSUME Inv, LocalInv, NEW r \in Requests, CheckAt(r)
    PROVE  LocalInv'
<1> DEFINE g == gw[r]
           c == client[r]
           w == win[r]
           e == local'[g][c]
           h == Held(local[g][c], w)
<1>1. /\ pc[r] = "lock" /\ AtLock(g, r) /\ Over(r) /\ UNCHANGED window
  BY CheckAtDoes DEF AtLock
<1>2. /\ local' \in [Gateways -> [Clients -> MaybeBuckets]]
      /\ \A k \in Gateways \ {g} : local'[k] = local[k]
      /\ \A d \in Clients \ {c} :
            /\ local'[g][d] \in {local[g][d], NoBucket}
            /\ local[g][d] # NoBucket /\ local[g][d].window >= w =>
                  local'[g][d] = local[g][d]
      /\ e \in Bucket /\ e.window = w /\ e.count \in 1..(h + 1) /\ h \in Nat
      /\ local[g][c] # NoBucket /\ local[g][c].window >= w => e.count = h + 1
      /\ own' = IF Allows(e.count)
                THEN [own EXCEPT ![g][Cell(r)] = @ + 1] ELSE own
  BY CheckAtDoes
<1>3. /\ g \in Gateways /\ c \in Clients /\ w \in Windows /\ w <= window
      /\ Cell(r) \in Cells /\ Cell(r) = <<c, w>>
      /\ w \in Nat /\ window \in Nat
  BY <1>1, UnderWay DEF Inv, TypeOK, Windows
<1>4. /\ OthersStay(r) /\ pc'[r] = "idle"
  BY <1>1, OverLeaves
<1>5. \A k \in Gateways, q \in Requests :
         AtLock(k, q)' => /\ AtLock(k, q) /\ q # r /\ k # g
                          /\ win'[q] = win[q]
  <2> SUFFICES ASSUME NEW k \in Gateways, NEW q \in Requests, AtLock(k, q)'
               PROVE  /\ AtLock(k, q) /\ q # r /\ k # g
                      /\ win'[q] = win[q]
    OBVIOUS
  <2>1. q # r  BY <1>4 DEF AtLock
  <2>2. AtLock(k, q) /\ win'[q] = win[q]
    BY <1>4, <2>1 DEF AtLock, OthersStay
  <2>3. k # g  BY <1>1, <1>3, <2>1, <2>2 DEF LocalInv, LockIsTaken
  <2> QED  BY <2>1, <2>2, <2>3
<1>6. \A d \in Clients : local[g][d] # NoBucket => local[g][d].window <= w
  BY <1>1, <1>3 DEF LocalInv, BucketsBehind
<1>7. \A k \in Gateways, cell \in Cells :
         /\ own[k][cell] \in Nat
         /\ own'[k][cell] = IF k = g /\ cell = <<c, w>> /\ Allows(e.count)
                            THEN own[k][cell] + 1 ELSE own[k][cell]
  <2> HIDE DEF g, e, c, w, h
  <2> QED  BY <1>2, <1>3 DEF Inv, TypeOK
<1>8. own[g][<<c, w>>] <= h
  <2>1. Live(g, w)  BY <1>1 DEF Live
  <2> QED  BY <1>3, <2>1 DEF LocalInv, OwnCounted
<1>9. e.count = h + 1
  <2>1. CASE local[g][c] # NoBucket /\ local[g][c].window = w
    BY <1>2, <1>3, <2>1
  <2>2. CASE ~(local[g][c] # NoBucket /\ local[g][c].window = w)
    <3>1. h = 0  BY <2>2 DEF Held
    <3> HIDE DEF h, e
    <3> QED  BY <1>2, <3>1
  <2> QED  BY <2>1, <2>2
<1>10. e # NoBucket  BY <1>2, LimiterAssumption
<1>11. LockIsTaken'  BY <1>5 DEF LocalInv, LockIsTaken
<1>12. BucketsBehind'
  <2> SUFFICES ASSUME NEW k \in Gateways, NEW d \in Clients,
                      local'[k][d] # NoBucket
               PROVE  /\ local'[k][d].window <= window
                      /\ \A q \in Requests :
                            AtLock(k, q)' => local'[k][d].window <= win'[q]
    BY <1>1 DEF BucketsBehind
  <2>1. CASE k = g
    <3>1. \A q \in Requests : ~AtLock(k, q)'  BY <1>5, <2>1
    <3>2. CASE d = c  BY <1>2, <1>3, <2>1, <3>1, <3>2
    <3>3. CASE d # c
      <4>1. local'[k][d] = local[k][d]  BY <1>2, <2>1, <3>3
      <4> QED  BY <2>1, <3>1, <4>1 DEF LocalInv, BucketsBehind
    <3> QED  BY <3>2, <3>3
  <2>2. CASE k # g
    <3>1. local'[k] = local[k]  BY <1>2, <2>2
    <3> QED  BY <1>5, <3>1 DEF LocalInv, BucketsBehind
  <2> QED  BY <2>1, <2>2
<1>13. LocalAllowance'
  <2> SUFFICES ASSUME NEW k \in Gateways, NEW cell \in Cells
               PROVE  own'[k][cell] <= Amount
    BY DEF LocalAllowance
  <2>1. own[k][cell] <= Amount /\ Amount \in Nat
    BY LimiterAssumption DEF LocalInv, LocalAllowance
  <2> HIDE DEF e, h, g, c, w
  <2>2. CASE k = g /\ cell = <<c, w>> /\ Allows(e.count)
    BY <1>2, <1>7, <1>8, <1>9, <2>1, <2>2 DEF Allows
  <2>3. CASE ~(k = g /\ cell = <<c, w>> /\ Allows(e.count))
    <3>1. own'[k][cell] = own[k][cell]  BY <1>7, <2>3
    <3> QED  BY <2>1, <3>1
  <2> QED  BY <2>2, <2>3
<1>14. OwnCounted'
  <2> SUFFICES ASSUME NEW k \in Gateways, NEW d \in Clients,
                      NEW v \in Windows
               PROVE  /\ v > window => own'[k][<<d, v>>] = 0
                      /\ Live(k, v)' =>
                            own'[k][<<d, v>>] <= Held(local'[k][d], v)
    BY <1>1 DEF OwnCounted
  <2>1. /\ <<d, v>> \in Cells /\ own[k][<<d, v>>] \in Nat
        /\ v \in Nat /\ Held(local[k][d], v) \in Nat
    BY LocalNumbers
  <2>2. /\ v > window => own[k][<<d, v>>] = 0
        /\ Live(k, v) => own[k][<<d, v>>] <= Held(local[k][d], v)
    BY DEF LocalInv, OwnCounted
  <2>3. v > window => own'[k][<<d, v>>] = 0
    <3> HIDE DEF e, h, g, c, w
    <3>1. v > window => <<d, v>> # <<c, w>>  BY <1>3, <2>1
    <3> QED  BY <1>7, <2>1, <2>2, <3>1
  <2>4. ASSUME Live(k, v)'
        PROVE  own'[k][<<d, v>>] <= Held(local'[k][d], v)
    <3>1. Live(k, v)  BY <1>1, <1>5, <2>4 DEF Live
    <3>2. CASE k # g
      <4>1. local'[k] = local[k]  BY <1>2, <3>2
      <4>2. own'[k][<<d, v>>] = own[k][<<d, v>>]  BY <1>7, <2>1, <3>2
      <4> QED  BY <2>2, <3>1, <4>1, <4>2
    <3>3. CASE k = g /\ v # w
      <4>1. v = window  BY <1>1, <1>5, <2>4, <3>3 DEF Live
      <4>2. v > w  BY <1>3, <2>1, <3>3, <4>1
      <4>3. Held(local[k][d], v) = 0
        <5>1. local[k][d] # NoBucket => local[k][d].window # v
          BY <1>3, <1>6, <2>1, <3>3, <4>2
        <5> QED  BY <5>1 DEF Held
      <4>4. own[k][<<d, v>>] = 0  BY <2>1, <2>2, <3>1, <4>3
      <4>5. own'[k][<<d, v>>] = 0  BY <1>7, <2>1, <3>3, <4>4
      <4>6. Held(local'[k][d], v) \in Nat
        <5>1. local'[k][d] \in MaybeBuckets  BY <1>2
        <5> QED  BY <5>1, HeldType
      <4> QED  BY <4>5, <4>6
    <3>4. CASE k = g /\ v = w /\ d # c
      <4>1. own'[k][<<d, v>>] = own[k][<<d, v>>]  BY <1>7, <2>1, <3>4
      <4>2. Held(local'[k][d], v) = Held(local[k][d], v)
        <5>1. CASE local[k][d] # NoBucket /\ local[k][d].window = v
          <6>1. local'[k][d] = local[k][d]  BY <1>2, <1>3, <3>4, <5>1
          <6> QED  BY <6>1
        <5>2. CASE ~(local[k][d] # NoBucket /\ local[k][d].window = v)
          <6>1. local'[k][d] \in {local[k][d], NoBucket}  BY <1>2, <3>4
          <6> QED  BY <5>2, <6>1 DEF Held
        <5> QED  BY <5>1, <5>2
      <4> QED  BY <2>2, <3>1, <4>1, <4>2
    <3>5. CASE k = g /\ v = w /\ d = c
      <4>1. Held(local'[k][d], v) = e.count
        BY <1>2, <1>10, <3>5 DEF Held
      <4>2. own'[k][<<d, v>>] <= own[k][<<d, v>>] + 1
        <5> HIDE DEF e, h, g, c, w
        <5> QED  BY <1>7, <2>1
      <4>3. own[k][<<d, v>>] <= h  BY <1>8, <3>5
      <4>4. own'[k][<<d, v>>] \in Nat  BY <1>7, <2>1
      <4> HIDE DEF e, h
      <4> QED  BY <1>2, <1>9, <2>1, <4>1, <4>2, <4>3, <4>4
    <3> QED  BY <3>2, <3>3, <3>4, <3>5
  <2> QED  BY <2>3, <2>4
<1> QED  BY <1>11, <1>12, <1>13, <1>14 DEF LocalInv

(* A restarted gateway has admitted nothing.                               *)
LEMMA LocalRestart ==
    ASSUME Inv, LocalInv, NEW g \in Gateways, Restart(g)
    PROVE  LocalInv'
<1>1. /\ UNCHANGED window
      /\ local' = [local EXCEPT ![g] = [c \in Clients |-> NoBucket]]
      /\ own' = [own EXCEPT ![g] = [c \in Cells |-> 0]]
  BY DEF Restart
<1>2. \A k \in Gateways, q \in Requests :
         AtLock(k, q)' => AtLock(k, q) /\ k # g /\ win'[q] = win[q]
  BY LimiterAssumption DEF Restart, AtLock
<1>3. /\ \A k \in Gateways \ {g} : local'[k] = local[k] /\ own'[k] = own[k]
      /\ \A c \in Clients : local'[g][c] = NoBucket
      /\ \A cell \in Cells : own'[g][cell] = 0
  BY <1>1 DEF Inv, TypeOK
<1>4. LockIsTaken'  BY <1>2 DEF LocalInv, LockIsTaken
<1>5. BucketsBehind'
  BY <1>1, <1>2, <1>3 DEF LocalInv, BucketsBehind
<1>6. OwnCounted'
  <2> SUFFICES ASSUME NEW k \in Gateways, NEW d \in Clients,
                      NEW v \in Windows
               PROVE  /\ v > window => own'[k][<<d, v>>] = 0
                      /\ Live(k, v)' =>
                            own'[k][<<d, v>>] <= Held(local'[k][d], v)
    BY <1>1 DEF OwnCounted
  <2>1. <<d, v>> \in Cells  BY DEF Cells
  <2>2. CASE k = g
    <3>1. own'[k][<<d, v>>] = 0 /\ Held(local'[k][d], v) = 0
      BY <1>3, <2>1, <2>2 DEF Held
    <3> QED  BY <3>1
  <2>3. CASE k # g
    <3>1. local'[k] = local[k] /\ own'[k] = own[k]  BY <1>3, <2>3
    <3>2. Live(k, v)' => Live(k, v)  BY <1>1, <1>2 DEF Live
    <3> QED  BY <3>1, <3>2 DEF LocalInv, OwnCounted
  <2> QED  BY <2>2, <2>3
<1>7. LocalAllowance'
  <2> SUFFICES ASSUME NEW k \in Gateways, NEW cell \in Cells
               PROVE  own'[k][cell] <= Amount
    BY DEF LocalAllowance
  <2>1. CASE k = g  BY <1>3, <2>1, LimiterAssumption
  <2>2. CASE k # g  BY <1>3, <2>2 DEF LocalInv, LocalAllowance
  <2> QED  BY <2>1, <2>2
<1> QED  BY <1>4, <1>5, <1>6, <1>7 DEF LocalInv

LEMMA LocalNext == Threads = 1 /\ Inv /\ LocalInv /\ [Next]_vars => LocalInv'
<1> SUFFICES ASSUME Threads = 1, Inv, LocalInv, [Next]_vars PROVE LocalInv'
  OBVIOUS
<1>1. ASSUME NEW r \in Requests, ReadClock(r) \/ CheckAt(r) PROVE LocalInv'
  BY <1>1, LocalReadClock, LocalCheckAt
<1>2. ASSUME NEW g \in Gateways, Restart(g) PROVE LocalInv'
  BY <1>2, LocalRestart
<1>3. CASE Tick  BY <1>3, LocalTick
<1> QED  BY <1>1, <1>2, <1>3, LocalElsewhere DEF Next, Step

(* Neither store admits more than limit.amount of a client's requests in a *)
(* window: the counter of incr_in_window for any gateways and threads, and *)
(* the buckets of check_at for any gateways that run one thread each.      *)
(* With more, a thread that read the clock before the window ended can     *)
(* throw away the count of the new one, and the theorem is false.          *)
THEOREM AllowancesKept ==
    ASSUME Threads = 1 PROVE Spec => []AllowanceKept
<1>1. Init => Inv /\ LocalInv  BY InitInv, LocalInit
<1>2. (Inv /\ LocalInv) /\ [Next]_vars => (Inv /\ LocalInv)'
  BY NextInv, LocalNext
<1>3. Inv /\ LocalInv => AllowanceKept
  BY DEF Inv, LocalInv, AllowanceKept
<1> QED  BY <1>1, <1>2, <1>3, PTL DEF Spec
=============================================================================
