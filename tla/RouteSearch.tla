---------------------------- MODULE RouteSearch ----------------------------
(***************************************************************************)
(* The in-house searches over sequences of nodes: local search             *)
(* (vrp/localsearch.py), ruin and recreate (vrp/lns.py) and fleet          *)
(* minimisation (vrp/fleet.py).  Node 0 is the depot; a plan is a sequence *)
(* of routes without it, a tour a sequence that starts with it.            *)
(*                                                                         *)
(* Every draw of the seeded generator is a nondeterministic choice, so a   *)
(* property holds for every seed; blinks, which may skip any position,     *)
(* make the recreate step insert anywhere.                                 *)
(***************************************************************************)
EXTENDS Integers, Sequences, FiniteSets, SequencesExt, FiniteSetsExt,
        Functions, Subsequences

CONSTANTS N,            \* customers are 1..N
          Grids,        \* distance matrices over 0..N, searched one at a time
          Starts,       \* starting plans, each serving every customer once
          CAPACITY, Demand, Windows, Service,   \* of fleet.py; Windows[c] is
                        \* empty or holds the pair the service must start in
          MAX_STRING,   \* longest string of adjacent string removal, 4
          CAP,          \* DEFAULT_CAP of the absence counter, 5
          K,            \* granular neighbourhood size, 20
          ITERATIONS, ATTEMPTS

Customers == 1..N
Nodes == 0..N

SearchAssumption ==
    /\ N \in Nat \ {0} /\ MAX_STRING \in Nat \ {0} /\ K \in Nat \ {0}
    /\ {CAPACITY, CAP, ITERATIONS, ATTEMPTS} \subseteq Nat
    /\ Demand \in [Customers -> Nat] /\ Service \in [Customers -> Nat]
    /\ Windows \in [Customers -> SUBSET (Nat \X Nat)]
    /\ Grids \subseteq [Nodes -> [Nodes -> Int]]
    /\ \A s \in Starts : /\ s \in Seq(Seq(Customers)) /\ s # <<>>
                         /\ IsInjective(FlattenSeq(s))
                         /\ Range(FlattenSeq(s)) = Customers

VARIABLES search,       \* which search runs
          dist,         \* its matrix
          start,        \* the plan it was given
          plan,         \* its current plan (of the local search, one tour)
          best,         \* the incumbent of ruin and recreate
          queue,        \* nodes whose don't-look bit is clear
          absence,      \* how often a customer could not be placed
          left          \* iterations or attempts left

searchVars == <<search, dist, start, plan, best, queue, absence, left>>

-----------------------------------------------------------------------------
(* Costs.                                                                  *)

\* route_cost, and _route_length of fleet.py: out, round, and back.
RouteCost(d, r) ==
    IF r = <<>> THEN 0
    ELSE d[0][r[1]] + d[Last(r)][0]
         + SumFunction([i \in 1..(Len(r) - 1) |-> d[r[i]][r[i + 1]]])

PlanCost(d, p) == SumFunction([i \in DOMAIN p |-> RouteCost(d, p[i])])

\* route_distance of a closed tour.
TourLength(d, t) ==
    SumFunction([i \in DOMAIN t |-> d[t[i]][t[(i % Len(t)) + 1]]])

Without(r, c) == Kept(r, Nodes \ {c})

-----------------------------------------------------------------------------
(* Ruin.  The result is [routes, removed].                                 *)

\* Customers of the plan, nearest to the seed first; sorted is stable.
ByDistance(d, p, seed) ==
    LET flat == FlattenSeq(p)
        order == Ranked(DOMAIN flat,
                        [i \in DOMAIN flat |-> <<d[seed][flat[i]], i>>])
    IN  [k \in DOMAIN order |-> flat[order[k]]]

\* Mutant: the rest of the route is taken up one customer late.
TakeStringAndOne(r, anchor, target, draw) ==
    LET holding == {i \in DOMAIN r.routes : anchor \in Range(r.routes[i])}
        index == Min(holding)
        route == r.routes[index]
        length == Min({draw, Len(route), target - Len(r.removed)})
    IN  IF Len(r.removed) >= target \/ holding = {} \/ index \in r.used
        THEN r
        ELSE [routes |-> [r.routes EXCEPT ![index] =
                            SubSeq(route, length + 2, Len(route))],
              removed |-> r.removed \o SubSeq(route, 1, length),
              used |-> r.used \cup {index}]

\* A string around the anchor, from a route no string was taken from yet;
\* draw is the length the generator drew.
TakeString(r, anchor, target, draw) ==
    LET holding == {i \in DOMAIN r.routes : anchor \in Range(r.routes[i])}
        index == Min(holding)
        route == r.routes[index]
        at == CHOOSE i \in DOMAIN route : route[i] = anchor
        length == Min({draw, Len(route), target - Len(r.removed)})
        begin == Max({0, Min({at - 1 - (length \div 2), Len(route) - length})})
    IN  IF Len(r.removed) >= target \/ holding = {} \/ index \in r.used
        THEN r
        ELSE [routes |-> [r.routes EXCEPT ![index] =
                            SubSeq(route, 1, begin)
                            \o SubSeq(route, begin + length + 1, Len(route))],
              removed |-> r.removed
                            \o SubSeq(route, begin + 1, begin + length),
              used |-> r.used \cup {index}]

\* Every route gave its string and the target is not reached: singly.
TakeOne(r, anchor, target) ==
    IF Len(r.removed) >= target \/ anchor \in Range(r.removed) THEN r
    ELSE [r EXCEPT !.routes = [i \in DOMAIN @ |-> Without(@[i], anchor)],
                   !.removed = Append(@, anchor)]

Strings(near, p, target, draw) ==
    LET after[n \in 0..Len(near)] ==
            IF n = 0 THEN [routes |-> p, removed |-> <<>>, used |-> {}]
            ELSE TakeString(after[n - 1], near[n], target, draw[near[n]])
    IN  after[Len(near)]

Singly(near, strings, target) ==
    LET after[n \in 0..Len(near)] ==
            IF n = 0 THEN strings ELSE TakeOne(after[n - 1], near[n], target)
    IN  after[Len(near)]

SisrRuin(d, p, target, seed, draw) ==
    LET near == ByDistance(d, p, seed)
    IN  Singly(near, Strings(near, p, target, draw), target)

\* random_ruin: a sample, in any order.
RandomRuin(p, removed) ==
    [routes |-> [i \in DOMAIN p |-> Kept(p[i], Customers \ Range(removed))],
     removed |-> removed, used |-> {}]

-----------------------------------------------------------------------------
(* Recreate.                                                               *)

Gaps(p) == {x \in (DOMAIN p) \X (1..(N + 1)) : x[2] <= Len(p[x[1]]) + 1}

Placed(p, x, c) == [p EXCEPT ![x[1]] = InsertAt(@, x[2], c)]

\* The detour a route makes for a customer.
Detour(d, p, x, c) ==
    RouteCost(d, InsertAt(p[x[1]], x[2], c)) - RouteCost(d, p[x[1]])

\* The first cheapest of the places there are.
BestPlace(d, p, c) ==
    FirstBy(Gaps(p), [x \in Gaps(p) |-> <<Detour(d, p, x, c), x[1], x[2]>>])

\* greedy_recreate: every plan it can return.  With blinks any place may be
\* the only one seen, the front of the first route when none is; without, all
\* are.
Insertions(d, p, c, blink) ==
    IF blink THEN {Placed(p, x, c) : x \in Gaps(p)}
    ELSE {Placed(p, BestPlace(d, p, c), c)}

Recreated(d, p, removed, blink) ==
    LET after[n \in 0..Len(removed)] ==
            IF n = 0 THEN {p}
            ELSE UNION {Insertions(d, q, removed[n], blink) : q \in after[n - 1]}
    IN  after[Len(removed)]

-----------------------------------------------------------------------------
(* Fleet minimisation.                                                     *)

\* _fits: capacity, and the windows of every stop from the depot on.
Fits(d, r, pos, c) ==
    LET stops == InsertAt(r, pos, c)
        load == MapThenSumSet(LAMBDA i : Demand[stops[i]], DOMAIN stops)
        \* the clock on leaving stop i, -1 once a window was missed
        clock[i \in 0..Len(stops)] ==
            IF i = 0 THEN 0
            ELSE LET was == clock[i - 1]
                     here == IF i = 1 THEN 0 ELSE stops[i - 1]
                     arrive == was + d[here][stops[i]]
                     w == Windows[stops[i]]
                 IN  IF was < 0 \/ \E x \in w : arrive > x[2] THEN -1
                     ELSE Max({arrive} \cup {x[1] : x \in w})
                            + Service[stops[i]]
    IN  load <= CAPACITY /\ clock[Len(stops)] >= 0

Load(r) == SumFunction([i \in DOMAIN r |-> Demand[r[i]]])

\* _insert: the fullest vehicle that fits, then the shortest detour.
Fitting(d, p, c) ==
    {x \in Gaps(p) : p[x[1]] # <<>> /\ Fits(d, p[x[1]], x[2], c)}

InsertFleet(d, p, c) ==
    LET fits == Fitting(d, p, c)
        key == [x \in fits |-> <<CAPACITY - Load(p[x[1]]) - Demand[c],
                                Detour(d, p, x, c), x[1], x[2]>>]
    IN  IF fits = {} THEN {} ELSE {Placed(p, FirstBy(fits, key), c)}

\* Ejection.choose: ejected least often, then largest, then by id.
ChooseNext(pool, count) ==
    FirstBy(pool, [c \in pool |-> <<count[c], -Demand[c], c>>])

\* Emptying the pool into the other routes: [plan, failed], failed the
\* customer no route could take.
Reinsert(d, p, pool, count) ==
    LET after[n \in 0..N] ==
        IF n = 0 THEN [plan |-> p, pool |-> pool, failed |-> {}]
        ELSE LET was == after[n - 1]
                 c == ChooseNext(was.pool, count)
                 put == InsertFleet(d, was.plan, c)
             IN  IF was.failed # {} \/ was.pool = {} THEN was
                 ELSE IF put = {} THEN [was EXCEPT !.failed = {c}]
                 ELSE [was EXCEPT !.plan = CHOOSE q \in put : TRUE,
                                  !.pool = @ \ {c}]
    IN  after[N]

\* The shortest route, the first of them.
Victim(p) == FirstBy(DOMAIN p, [i \in DOMAIN p |-> <<Len(p[i]), i>>])

-----------------------------------------------------------------------------
(* Local search.  Positions of the tour count from 1; the depot is 1.      *)

\* _neighbours: the K nearest, and the depot.
Neighbours(d, c) ==
    LET near == Ranked(Nodes \ {c}, [a \in Nodes \ {c} |-> <<d[c][a], a>>])
        first == SubSeq(near, 1, Min({K, Len(near)}))
    IN  IF 0 \in Range(first) \/ c = 0 THEN first ELSE Append(first, 0)

PositionOf(t, c) == CHOOSE i \in DOMAIN t : t[i] = c

\* The node after a position, the tour being closed.
After(t, i) == t[(i % Len(t)) + 1]

\* Mutant: the gap that closes behind the customer is not paid for.
RelocateGainGross(d, t, c, other) ==
    LET i == PositionOf(t, c)
        after == After(t, PositionOf(t, other))
    IN  (d[t[i - 1]][c] + d[c][After(t, i)])
            - (d[other][c] + d[c][after] - d[other][after])

\* relocate(1), from the six edges it changes.
RelocateGain(d, t, c, other) ==
    LET i == PositionOf(t, c)
        prev == t[i - 1]
        next == After(t, i)
        after == After(t, PositionOf(t, other))
    IN  (d[prev][c] + d[c][next] - d[prev][next])
            - (d[other][c] + d[c][after] - d[other][after])

Relocate(t, c, other) ==
    LET rest == Without(t, c)
    IN  InsertAt(rest, PositionOf(rest, other) + 1, c)

\* 2-opt between the two positions, from the two edges it replaces.
TwoOptGain(d, t, l, r) ==
    d[t[l - 1]][t[l]] + d[t[r - 1]][t[r]]
        - d[t[l - 1]][t[r - 1]] - d[t[l]][t[r]]

Reversed(t, l, r) ==
    [i \in DOMAIN t |-> IF l <= i /\ i < r THEN t[l + r - 1 - i] ELSE t[i]]

\* The first improving move of node c over its neighbours, as the tour it
\* makes and the nodes it wakes, in order; empty when there is none.
ImprovingMove(d, t, c) ==
    LET i == PositionOf(t, c)
        near == Kept(Neighbours(d, c), Nodes \ {c})
        Target(n) == PositionOf(t, near[n])
        L(n) == Min({i, Target(n)})
        R(n) == Max({i, Target(n)})
        CanRelocate(n) == /\ After(t, Target(n)) # c
                          /\ RelocateGain(d, t, c, near[n]) > 0
        CanReverse(n) == /\ R(n) - L(n) >= 2 /\ L(n) >= 2
                         /\ TwoOptGain(d, t, L(n), R(n)) > 0
        able == {n \in DOMAIN near : CanRelocate(n) \/ CanReverse(n)}
        n == Min(able)
    IN  IF able = {} THEN {}
        ELSE IF CanRelocate(n)
        THEN {[tour |-> Relocate(t, c, near[n]),
               wake |-> <<t[i - 1], After(t, i), c, near[n],
                          After(t, Target(n))>>]}
        ELSE {[tour |-> Reversed(t, L(n), R(n)),
               wake |-> <<t[L(n) - 1], t[L(n)], t[R(n) - 1], t[R(n)], c>>]}

\* wake: what is queued already stays where it is.
Wake(q, nodes) ==
    LET after[n \in 0..Len(nodes)] ==
            IF n = 0 THEN q
            ELSE IF nodes[n] \in Range(after[n - 1]) THEN after[n - 1]
            ELSE Append(after[n - 1], nodes[n])
    IN  after[Len(nodes)]

\* naive_search: the first relocate, else the first reversal, that shortens
\* the tour, judged by summing it again.
NaiveMoves(t) ==
    LET inner == 2..Len(t)
        moved == {[key |-> <<1, x[1], x[2]>>,
                   tour |-> InsertAt(Without(t, t[x[1]]), x[2], t[x[1]])]
                    : x \in {y \in inner \X inner : y[1] # y[2]}}
        turned == {[key |-> <<2, x[1], x[2]>>, tour |-> Reversed(t, x[1], x[2])]
                    : x \in {y \in inner \X inner : y[2] >= y[1] + 2}}
    IN  moved \cup turned

NaiveStep(d, t) ==
    LET better == {m \in NaiveMoves(t) :
                    TourLength(d, m.tour) < TourLength(d, t)}
        First(m) == \A o \in better : \E i \in 1..3 :
                        /\ \A j \in 1..(i - 1) : m.key[j] = o.key[j]
                        /\ m.key[i] < o.key[i] \/ m = o
    IN  {m.tour : m \in {o \in better : First(o)}}

-----------------------------------------------------------------------------
(* The searches.                                                           *)

Tour(p) == <<0>> \o FlattenSeq(p)

\* minimise_fleet starts from the routes that are not empty.
Busy(p) == Kept(p, Range(p) \ {<<>>})

SearchInit ==
    /\ search \in {"lns", "fleet", "accelerated", "naive"}
    /\ dist \in Grids /\ start \in Starts
    /\ plan = CASE search = "lns" -> start
                [] search = "fleet" -> Busy(start)
                [] OTHER -> <<Tour(start)>>
    /\ best = plan
    /\ queue = IF search = "accelerated" THEN Tour(start) ELSE <<>>
    /\ absence = [c \in Customers |-> 0]
    /\ left = CASE search = "lns" -> ITERATIONS
                [] search = "fleet" -> ATTEMPTS
                [] OTHER -> 0

\* Whatever either operator can leave of a plan, target customers taken.
Ruins(d, routes, target) ==
    {SisrRuin(d, routes, target, seed, draw) :
        seed \in Customers, draw \in [Customers -> 1..MAX_STRING]}
    \cup {RandomRuin(routes, s) : s \in
            {q \in SetToAllKPermutations(Customers) : Len(q) = target}}

\* Whatever either way to recreate can make of them.
Candidates(d, ruins) ==
    UNION {Recreated(d, r.routes, r.removed, blink) :
                r \in ruins, blink \in BOOLEAN}

\* One iteration of lns_search.  A cheaper or equal candidate is accepted, a
\* dearer one may be: the temperature is never zero.
LnsIterate ==
    /\ search = "lns" /\ left > 0
    /\ \E candidate \in Candidates(dist,
            UNION {Ruins(dist, plan, target) : target \in 1..Max({1, N - 1})}) :
        /\ plan' \in {candidate} \cup
                IF PlanCost(dist, candidate) <= PlanCost(dist, plan)
                THEN {} ELSE {plan}
        /\ best' = IF PlanCost(dist, candidate) < PlanCost(dist, best)
                   THEN candidate ELSE best
    /\ left' = left - 1
    /\ UNCHANGED <<search, dist, start, queue, absence>>

\* One attempt of minimise_fleet: empty the shortest route into the others,
\* or note who could not be placed and shuffle the routes.
FleetAttempt ==
    /\ search = "fleet" /\ left > 0 /\ Len(plan) > 1
    /\ LET v == Victim(plan)
           others == RemoveAt(plan, v)
           r == Reinsert(dist, others, Range(plan[v]), absence)
       IN  IF r.failed = {}
           THEN plan' = r.plan /\ absence' = absence
           ELSE /\ \E order \in SetToSeqs(DOMAIN plan) :
                    plan' = [i \in DOMAIN plan |-> plan[order[i]]]
                /\ absence' = [c \in Customers |->
                                IF c \in r.failed
                                THEN Min({absence[c] + 1, CAP})
                                ELSE absence[c]]
    /\ left' = left - 1
    /\ UNCHANGED <<search, dist, start, best, queue>>

\* One node of accelerated_search.
VisitNode ==
    /\ search = "accelerated" /\ queue # <<>>
    /\ LET c == Head(queue)
           moves == IF c = plan[1][1] THEN {} ELSE ImprovingMove(dist, plan[1], c)
       IN  IF moves = {}
           THEN plan' = plan /\ queue' = Tail(queue)
           ELSE \E m \in moves : /\ plan' = <<m.tour>>
                                 /\ queue' = Wake(Tail(queue), m.wake)
    /\ UNCHANGED <<search, dist, start, best, absence, left>>

NaiveSweep ==
    /\ search = "naive"
    /\ \E t \in NaiveStep(dist, plan[1]) : plan' = <<t>>
    /\ UNCHANGED <<search, dist, start, best, queue, absence, left>>

\* The search has returned.
Returned ==
    /\ CASE search = "lns" -> left = 0
         [] search = "fleet" -> left = 0 \/ Len(plan) <= 1
         [] search = "accelerated" -> queue = <<>>
         [] search = "naive" -> NaiveStep(dist, plan[1]) = {}
    /\ UNCHANGED searchVars

SearchNext ==
    LnsIterate \/ FleetAttempt \/ VisitNode \/ NaiveSweep \/ Returned

SearchSpec == SearchInit /\ [][SearchNext]_searchVars

-----------------------------------------------------------------------------
(* Properties.                                                             *)

\* No ruin, recreate, ejection or local move loses a customer or serves one
\* twice, in the current plan or in the incumbent: the plans returned hold
\* exactly the customers of the plan given.
NobodyLost ==
    \A p \in {plan, best} :
        LET flat == Kept(FlattenSeq(p), Customers)
        IN  Len(flat) = N /\ Range(flat) = Customers

\* The incumbent is the cheapest plan seen: never dearer than the plan given
\* nor than the current one, whatever the annealer accepted on the way.
IncumbentIsCheapest ==
    search = "lns" => /\ PlanCost(dist, best) <= PlanCost(dist, start)
                      /\ PlanCost(dist, best) <= PlanCost(dist, plan)

\* A fleet attempt never adds a route, never leaves an empty one, and leaves
\* every route it filled within capacity and in its windows.
FleetOnlyShrinks ==
    search = "fleet" =>
        /\ Len(plan) <= Len(Busy(start))
        /\ \A i \in DOMAIN plan : plan[i] # <<>>
        /\ \A i \in DOMAIN plan : plan[i] \in Range(start)
            \/ \E j \in DOMAIN plan[i] :
                Fits(dist, RemoveAt(plan[i], j), j, plan[i][j])
=============================================================================
