--------------------------- MODULE Decomposition ---------------------------
(***************************************************************************)
(* Large instances, vrp/decompose.py: partition, solve each cluster in a   *)
(* work queue, move orders across the borders, re-optimise neighbourhoods, *)
(* and stagger the departures over the depots' bays.                       *)
(*                                                                         *)
(* Coordinates are abstracted: Bearing is the angle a stop has in a sweep, *)
(* and which routes are near one another, or which order is nearer another *)
(* cluster's route, is any choice.  The engine may decline a cluster or    *)
(* return any legal plan that serves all of it.                            *)
(***************************************************************************)
EXTENDS Polish, TLC

CONSTANTS Problems,         \* whole instances
          Bearing,          \* the angle of each order's stop
          TARGET_SIZE, RADIUS, ROUNDS, BUDGET,
          Weights           \* the canonical objective's

VARIABLES problem, stage, clusters,
          pending,          \* clusters whose result is still to come
          assignment,       \* vehicle to orders
          screened,         \* border moves the screen believes in, in order
          confirmed,        \* of them, those put to the evaluator
          round,            \* neighbourhoods re-optimised
          solution          \* what _finish made of it

vars == <<problem, stage, clusters, pending, assignment, screened, confirmed,
          round, solution>>

-----------------------------------------------------------------------------
(* Partition.                                                              *)

\* round(a / b): halves go to the even number.
RoundDiv(a, b) ==
    LET low == a \div b
        rest == 2 * (a % b)
    IN  IF rest > b \/ (rest = b /\ low % 2 = 1) THEN low + 1 ELSE low

WindowKey(p, o) ==
    LET windows == StopOf(p.orders[o]).windows
    IN  IF windows = <<>> THEN 0 ELSE windows[1].start

TotalDemand(p, orders) ==
    SumOver(orders, LAMBDA o : SumOver(DOMAIN p.orders[o].qty,
                                       LAMBDA d : p.orders[o].qty[d]))

\* _sweep: by angle about the centroid, then by id.
Sweep(orders) ==
    SetToSortSeq(orders, LAMBDA a, b :
        Bearing[a] < Bearing[b] \/ (Bearing[a] = Bearing[b] /\ a < b))

\* _cut_by_demand: a new run once this one has had its share, while there
\* are runs to fill and orders to fill them with.
CutByDemand(p, ordered, groups) ==
    LET total == TotalDemand(p, Range(ordered))
        after[i \in 0..Len(ordered)] ==
            IF i = 0 THEN <<<<>>>>
            ELSE LET cuts == after[i - 1]
                     running == TotalDemand(p, {ordered[j] : j \in 1..(i - 1)})
                     more == groups - Len(cuts)
                     next == IF /\ running * groups >= total * Len(cuts)
                                /\ more > 0
                                /\ Len(ordered) - (i - 1) > more
                             THEN Append(cuts, <<>>) ELSE cuts
                 IN  [next EXCEPT ![Len(next)] = Append(@, ordered[i])]
    IN  IF groups <= 1 THEN <<ordered>>
        ELSE SelectSeq(after[Len(ordered)], LAMBDA run : run # <<>>)

\* _assign_vehicles: in proportion to demand, at least one each; round-off is
\* settled against the largest share, or the heaviest cluster.
Shares(p, groups) ==
    LET fleet == Cardinality(DOMAIN p.vehicles)
        Load(g) == TotalDemand(p, Range(groups[g]))
        total == Max({1, SumOver(DOMAIN groups, Load)})
        first == [g \in DOMAIN groups |->
                    Max({1, RoundDiv(fleet * Load(g), total)})]
        Given(s) == SumOver(DOMAIN s, LAMBDA g : s[g])
        Biggest(f(_)) == CHOOSE g \in DOMAIN groups : \A h \in DOMAIN groups :
                            f(g) > f(h) \/ (f(g) = f(h) /\ g <= h)
        Settle(s) ==
            IF Given(s) > fleet
            THEN LET Share(h) == s[h]
                 IN  [s EXCEPT ![Biggest(Share)] = @ - 1]
            ELSE IF Given(s) < fleet THEN [s EXCEPT ![Biggest(Load)] = @ + 1]
            ELSE s
        after[n \in Nat] == IF n = 0 THEN first ELSE Settle(after[n - 1])
    IN  after[fleet * Len(groups)]

SubFleets(p, groups) ==
    LET fleet == SetToSortSeq(DOMAIN p.vehicles, LAMBDA a, b : a < b)
        shares == Shares(p, groups)
        Before(g) == SumOver(1..(g - 1), LAMBDA h : shares[h])
    IN  [g \in DOMAIN groups |->
            SubSeq(fleet, Before(g) + 1, Before(g) + shares[g])]

\* partition: by window opening, then by sweep, then by demand.
Groups(p) ==
    LET openings == SetToSortSeq({WindowKey(p, o) : o \in DOMAIN p.orders},
                                 LAMBDA a, b : a < b)
        Members(t) == {o \in DOMAIN p.orders : WindowKey(p, o) = t}
        Cut(t) == CutByDemand(p, Sweep(Members(t)),
                    Max({1, RoundDiv(Cardinality(Members(t)), TARGET_SIZE)}))
    IN  FlattenSeq([i \in DOMAIN openings |-> Cut(openings[i])])

Partition(p) ==
    LET groups == Groups(p)
        fleets == SubFleets(p, groups)
    IN  [g \in DOMAIN groups |-> [orders |-> groups[g], fleet |-> fleets[g]]]

\* partition_spatially: one sweep in equal counts.
PartitionSpatially(p) ==
    LET ordered == Sweep(DOMAIN p.orders)
        wanted == Max({1, RoundDiv(Len(ordered), TARGET_SIZE)})
        size == CeilDiv(Len(ordered), wanted)
        groups == [g \in 1..CeilDiv(Len(ordered), size) |->
                    SubSeq(ordered, (g - 1) * size + 1,
                           Min({g * size, Len(ordered)}))]
        fleets == SubFleets(p, groups)
    IN  [g \in DOMAIN groups |-> [orders |-> groups[g], fleet |-> fleets[g]]]

\* _build_subproblem: bays, stock, locks, couplings and profiles stay behind.
SubProblem(p, orders, fleet) ==
    [p EXCEPT !.orders = [o \in orders |-> p.orders[o]],
              !.vehicles = [v \in fleet |-> p.vehicles[v]],
              !.locations = [l \in DOMAIN @ |->
                [@[l] EXCEPT !.dock = {}, !.inventory = <<>>]],
              !.locks = {}, !.syncs = {}, !.profile = {}, !.profiles = {}]

-----------------------------------------------------------------------------
(* Solving a cluster.                                                      *)

\* _solve_cluster: the engine's plan, by vehicle used; no vehicle at all when
\* it declines or leaves something unassigned.
ClusterPlans(p, orders, fleet) ==
    LET sub == SubProblem(p, orders, fleet)
        Split(f, s) == [v \in {f[o] : o \in orders} |->
                            SelectSeq(s, LAMBDA o : f[o] = v)]
        plans == {Split(f, s) : f \in [orders -> fleet],
                                s \in SetToSeqs(orders)}
    IN  {<<>>} \cup {a \in plans : \A v \in DOMAIN a : RouteIsLegal(sub, v, a[v])}

\* Mutant: a declined cluster is left out.
AttemptsAccepted(p, c) == ClusterPlans(p, Range(c.orders), Range(c.fleet))

\* attempt: a declined cluster goes to its first vehicle in sweep order.
Attempts(p, c) ==
    LET fallback == (c.fleet[1] :> c.orders)
    IN  {IF a = <<>> THEN fallback ELSE a :
            a \in ClusterPlans(p, Range(c.orders), Range(c.fleet))}

Occupied(a) == {v \in DOMAIN a : a[v] # <<>>}

-----------------------------------------------------------------------------
(* Moves across borders.                                                   *)

ClusterOf(v) == {c \in DOMAIN clusters : v \in Range(clusters[c].fleet)}
OwnerOf(a, o) == CHOOSE v \in DOMAIN a : o \in Range(a[v])

\* boundary_candidates, before the geometry prunes them.
CrossBorder(a) ==
    {x \in Served(a) \X Occupied(a) :
        ClusterOf(x[2]) # ClusterOf(OwnerOf(a, x[1]))}

\* _nodes
Nodes(p, v, seq) ==
    <<p.vehicles[v].start>> \o [i \in DOMAIN seq |-> At1(p, seq, i)]
        \o <<Home(p.vehicles[v])>>

RemovalGain(p, v, seq, o) ==
    LET n == Nodes(p, v, seq)
        at == 1 + CHOOSE i \in DOMAIN seq : seq[i] = o
    IN  p.dist[n[at - 1]][n[at]] + p.dist[n[at]][n[at + 1]]
            - p.dist[n[at - 1]][n[at + 1]]

\* _cheapest_insertion: [cost, at], the first of the cheapest positions.
CheapestInsertion(p, v, seq, o) ==
    LET n == Nodes(p, v, seq)
        x == StopOf(p.orders[o]).at
        Cost(i) == p.dist[n[i]][x] + p.dist[x][n[i + 1]] - p.dist[n[i]][n[i + 1]]
        gaps == 1..(Len(n) - 1)
        least == Min({Cost(i) : i \in gaps})
    IN  [cost |-> least, at |-> Min({i \in gaps : Cost(i) = least})]

\* The screen: moves that look shorter on the matrix, the best first.
Screened(p, a, candidates) ==
    LET Delta(m) == CheapestInsertion(p, m[2], a[m[2]], m[1]).cost
                        - RemovalGain(p, OwnerOf(a, m[1]),
                                      a[OwnerOf(a, m[1])], m[1])
    IN  SetToSortSeq({m \in candidates : Delta(m) < 0}, LAMBDA m, q :
            \/ Delta(m) < Delta(q)
            \/ Delta(m) = Delta(q) /\ m[1] < q[1]
            \/ Delta(m) = Delta(q) /\ m[1] = q[1] /\ m[2] < q[2])

MoveTo(p, a, o, target) ==
    LET from == OwnerOf(a, o)
        at == CheapestInsertion(p, target, a[target], o).at
    IN  [a EXCEPT ![from] = SelectSeq(@, LAMBDA x : x # o),
                  ![target] = InsertAt(@, at, o)]

SameOrders(a, b) ==
    /\ Served(a) = Served(b)
    /\ \A o \in Served(a) : Cardinality({v \in DOMAIN a : o \in Range(a[v])}) = 1

-----------------------------------------------------------------------------
(* Bays.                                                                   *)

LoadingSpan(p, v) == p.locations[v.start].dwell

\* _stagger: vehicles in id order, each on the bay that is free first.
Stagger(p, a) ==
    LET fleet == SetToSortSeq(Occupied(a), LAMBDA x, y : x < y)
        after[i \in 0..Len(fleet)] ==
            IF i = 0 THEN [free |-> <<>>, offset |-> <<>>]
            ELSE LET was == after[i - 1]
                     v == p.vehicles[fleet[i]]
                     span == LoadingSpan(p, v)
                     bays == 0..(Or(p.locations[v.start].dock, 1) - 1)
                     Free(b) == IF <<v.start, b>> \in DOMAIN was.free
                                THEN was.free[<<v.start, b>>]
                                ELSE v.shift.start
                     bay == CHOOSE b \in bays : \A c \in bays :
                                Free(b) < Free(c) \/ (Free(b) = Free(c) /\ b <= c)
                     when == Max({v.shift.start, Free(bay)})
                 IN  IF p.locations[v.start].dock = {} \/ span <= 0
                     THEN [was EXCEPT !.offset =
                            (fleet[i] :> v.shift.start) @@ @]
                     ELSE [offset |-> (fleet[i] :> when) @@ was.offset,
                           free |-> (<<v.start, bay>> :> when + span)
                                        @@ was.free]
    IN  after[Len(fleet)].offset

\* _route_for: loading first; never with hours-of-service rules.
RouteFor(p, vid, seq, offset) ==
    LET span == LoadingSpan(p, p.vehicles[vid])
        steps == ScheduleRoute(p, vid, seq, {}, offset + span).steps
    IN  [vehicle |-> vid,
         steps |-> [steps EXCEPT ![1].arrival = offset, ![1].start = offset]]

\* _finish
Finished(p, a) ==
    LET fleet == SetToSortSeq(Occupied(a), LAMBDA x, y : x < y)
    IN  [ routes |-> [i \in DOMAIN fleet |->
                RouteFor(p, fleet[i], a[fleet[i]], Stagger(p, a)[fleet[i]])],
          unassigned |-> DOMAIN p.orders \ Served(a), claimed |-> <<>> ]

-----------------------------------------------------------------------------
(* solve_decomposed.                                                       *)

Nothing == [routes |-> <<>>, unassigned |-> {}, claimed |-> <<>>]

Init ==
    /\ problem \in Problems /\ stage = "cluster"
    /\ clusters = Partition(problem)
    /\ pending = DOMAIN clusters /\ assignment = <<>>
    /\ screened = <<>> /\ confirmed = 0 /\ round = 0 /\ solution = Nothing

\* concatenate: the queue's results arrive in any order; each writes its own
\* vehicles.
ClusterDone ==
    /\ stage = "cluster"
    /\ \E c \in pending : \E a \in Attempts(problem, clusters[c]) :
        /\ assignment' = a @@ assignment
        /\ pending' = pending \ {c}
    /\ UNCHANGED <<problem, stage, clusters, screened, confirmed, round,
                   solution>>

\* repair_boundaries: the screen.
Screen ==
    /\ stage = "cluster" /\ pending = {}
    /\ \E candidates \in SUBSET CrossBorder(assignment) :
        screened' = Screened(problem, assignment, candidates)
    /\ stage' = "repair"
    /\ UNCHANGED <<problem, clusters, pending, assignment, confirmed, round,
                   solution>>

Score(a) == Evaluate(problem, a, Weights)

\* Mutant: the price alone decides.
AcceptedIfCheaper(v, moved) == Score(moved) < Score(assignment)

\* repair_boundaries: legal for the vehicle that gains, and cheaper in all.
Accepted(v, moved) ==
    RouteIsLegal(problem, v, moved[v]) /\ Score(moved) < Score(assignment)

\* One screened move, measured again on the plan as it is now: legal for the
\* vehicle that gains, and cheaper in all.
TryMove ==
    /\ stage = "repair" /\ screened # <<>> /\ confirmed < BUDGET
    /\ LET m == Head(screened)
           moved == MoveTo(problem, assignment, m[1], m[2])
       IN  IF OwnerOf(assignment, m[1]) = m[2]
           THEN UNCHANGED <<assignment, confirmed>>
           ELSE /\ confirmed' = confirmed + 1
                /\ assignment' = IF Accepted(m[2], moved)
                                 THEN moved ELSE assignment
    /\ screened' = Tail(screened)
    /\ UNCHANGED <<problem, stage, clusters, pending, round, solution>>

Repaired ==
    /\ stage = "repair" /\ (screened = <<>> \/ confirmed >= BUDGET)
    /\ stage' = "popmusic"
    /\ UNCHANGED <<problem, clusters, pending, assignment, screened, confirmed,
                   round, solution>>

\* popmusic: a seed route and up to RADIUS others solved again together, and
\* kept only if the whole plan is cheaper, complete and legal.
Neighbourhood ==
    /\ stage = "popmusic" /\ round < ROUNDS
    /\ \E chosen \in SUBSET Occupied(assignment) :
        LET orders == UNION {Range(assignment[v]) : v \in chosen}
        IN  /\ chosen # {} /\ Cardinality(chosen) <= RADIUS + 1
            /\ IF Cardinality(orders) < 2 THEN assignment' = assignment
               ELSE \E a \in ClusterPlans(problem, orders, chosen) :
                LET new == [v \in DOMAIN assignment |->
                                IF v \notin chosen THEN assignment[v]
                                ELSE IF v \in DOMAIN a THEN a[v] ELSE <<>>]
                IN  assignment' =
                        IF /\ Score(new) < Score(assignment)
                           /\ SameOrders(new, assignment)
                           /\ \A v \in chosen : RouteIsLegal(problem, v, new[v])
                        THEN new ELSE assignment
    /\ round' = round + 1
    /\ UNCHANGED <<problem, stage, clusters, pending, screened, confirmed,
                   solution>>

Finish ==
    /\ stage = "popmusic" /\ round = ROUNDS
    /\ solution' = Finished(problem, assignment) /\ stage' = "done"
    /\ UNCHANGED <<problem, clusters, pending, assignment, screened, confirmed,
                   round>>

Done == stage = "done" /\ UNCHANGED vars

Next == ClusterDone \/ Screen \/ TryMove \/ Repaired \/ Neighbourhood
            \/ Finish \/ Done

Spec == Init /\ [][Next]_vars

-----------------------------------------------------------------------------
(* Properties.                                                             *)

V == INSTANCE Verifier

\* A vehicle in two clusters would be planned twice, and a cluster without
\* one is lost: both partitioners split the orders and the fleet exactly.
ClustersPartition ==
    \A parts \in {Partition(problem), PartitionSpatially(problem)} :
        /\ FlattenSeq([c \in DOMAIN parts |-> parts[c].orders])
                \in SetToSeqs(DOMAIN problem.orders)
        /\ FlattenSeq([c \in DOMAIN parts |-> parts[c].fleet])
                \in SetToSeqs(DOMAIN problem.vehicles)
        /\ \A c \in DOMAIN parts : parts[c].fleet # <<>>

\* From the last cluster on, every order is on exactly one route, whatever
\* order the clusters ended in and whatever the engine declined.
NoOrderLost ==
    pending = {} => /\ Served(assignment) = DOMAIN problem.orders
                    /\ SameOrders(assignment, assignment)

LegalPlan(a) == \A v \in DOMAIN a : RouteIsLegal(problem, v, a[v])

\* Repair and re-optimisation never raise the canonical score, and never
\* take a legal plan to one a vehicle could not drive.
ImprovementIsSafe ==
    [][(pending = {} /\ assignment' # assignment) =>
        /\ Evaluate(problem, assignment', Weights)
                < Evaluate(problem, assignment, Weights)
        /\ LegalPlan(assignment) => LegalPlan(assignment')]_vars

\* The bays are shared by every cluster: the staggered plan never has more
\* vehicles loading at a depot than it has bays (INV-12), and no timeline
\* disagrees with the matrix (INV-4).
BaysAreRespected ==
    stage = "done" =>
        V!Verify(problem, solution) \cap {"INV-1", "INV-4", "INV-12"} = {}
=============================================================================
