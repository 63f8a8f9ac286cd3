------------------------------ MODULE Learning ------------------------------
(***************************************************************************)
(* What executed routes teach: plan adherence (vrp/adherence.py), service  *)
(* times (vrp/calibrate.py), road speeds (vrp/speedfit.py) and the order   *)
(* drivers visit zones in (vrp/zones.py); and the decisions above a single *)
(* day: fleet mixes over sampled demand (vrp/scenarios.py), standing       *)
(* commitments (vrp/periodic.py) and the shadow and canary stages of a     *)
(* rollout (vrp/rollout.py).                                               *)
(*                                                                         *)
(* An executed route is [vehicle, driver, depot, territory, sequence,      *)
(* arrivals, departures], the last two functions on the orders whose times *)
(* were recorded.  What ingest refuses (an unknown order, a missing field) *)
(* is not a route.  Several observations with one value are told apart by  *)
(* the route and position they come from.                                  *)
(***************************************************************************)
EXTENDS PlanReports

CONSTANTS
    BANDS,          \* quantity bands, <<ceiling, name>> in ascending order
    PARTS,          \* parts of the day, likewise
    SLOWEST_PPT,    \* the slowest a road is fitted at: 1
    BUCKETS         \* buckets in a day: 24

Pairs(seq) == {<<seq[i], seq[i + 1]>> : i \in 1..(Len(seq) - 1)}

\* ingest: what a record of telematics must say of itself and its stops.
ValidExecuted(p, r) ==
    /\ {"vehicle", "driver", "depot", "territory"} \subseteq DOMAIN r
    /\ Range(r.sequence) \subseteq DOMAIN p.orders
    /\ DOMAIN r.arrivals = Range(r.sequence)
    /\ DOMAIN r.departures \subseteq Range(r.sequence)

-----------------------------------------------------------------------------
(* Adherence.                                                              *)

\* dissimilarity: adjacent pairs lost, and stops only one side saw.
Dissimilarity(planned, executed) ==
    LET missing == SymDiff(Range(planned), Range(executed))
        all == Range(planned) \cup Range(executed)
        kept == Cardinality(Pairs(planned) \cap Pairs(executed))
        possible == Max({Len(planned) - 1, 0})
        similarity == IF possible = 0 THEN IF missing = {} THEN PPT ELSE 0
                      ELSE (kept * PPT) \div possible
        penalty == (Cardinality(missing) * PPT) \div Max({Cardinality(all), 1})
    IN  IF planned = <<>> /\ executed = <<>> THEN 0
        ELSE Min({PPT, Max({0, PPT - similarity + penalty})})

\* _length: from the matrix; a route with no stops is not driven.
Driven(p, vid, seq) ==
    LET v == p.vehicles[vid]
        places == <<v.start>>
            \o [i \in DOMAIN seq |-> StopOf(p.orders[seq[i]]).at]
            \o <<EndsAt(v)>>
    IN  IF seq = <<>> THEN 0
        ELSE SumOver(2..Len(places), LAMBDA i : p.dist[places[i - 1]][places[i]])

\* adherence, one row for each route that has telematics.
AdherenceRow(p, plan, actual) ==
    LET intended == IF actual.vehicle \in DOMAIN plan
                    THEN plan[actual.vehicle] ELSE <<>>
    IN  [ driver_id |-> actual.driver, depot_id |-> actual.depot,
          territory |-> actual.territory,
          dissimilarity |-> Dissimilarity(intended, actual.sequence),
          delta |-> Driven(p, actual.vehicle, actual.sequence)
                        - Driven(p, actual.vehicle, intended) ]

\* aggregate: the mean of a group says how many routes it rests on.
Aggregate(rows, by) ==
    [key \in {rows[i][by] : i \in DOMAIN rows} |->
        LET group == {i \in DOMAIN rows : rows[i][by] = key}
            n == Cardinality(group)
        IN  [ routes |-> n,
              dissimilarity |-> SumOver(group, LAMBDA i :
                                    rows[i].dissimilarity) \div n,
              delta |-> SumOver(group, LAMBDA i : rows[i].delta) \div n ]]

-----------------------------------------------------------------------------
(* Medians of groups, shared by the two fits.  Observations are a sequence *)
(* of [key, value].                                                        *)

\* _median: the lower of the two middle values.
Median(values) ==
    LET sorted == SortSeq(values, LAMBDA a, b : a < b)
    IN  sorted[(Len(sorted) - 1) \div 2 + 1]

\* fit: a group that is thin is counted, not fitted.
FitGroups(seen, minimum) ==
    LET keys == {seen[i].key : i \in DOMAIN seen}
        Group(k) == LET mine == SelectSeq(seen, LAMBDA x : x.key = k)
                    IN  [i \in DOMAIN mine |-> mine[i].value]
        Thick(k) == Len(Group(k)) >= minimum
    IN  [ fitted |-> [k \in {x \in keys : Thick(x)} |-> Median(Group(k))],
          thin |-> [k \in {x \in keys : ~Thick(x)} |-> Len(Group(k))] ]

-----------------------------------------------------------------------------
(* Service times.                                                          *)

\* _band: the first ceiling the quantity does not exceed.
Band(quantity) ==
    LET fits == {i \in DOMAIN BANDS : quantity <= BANDS[i][1]}
    IN  IF fits = {} THEN "bulk" ELSE BANDS[Min(fits)][2]

\* _part: the first part of the day that has not ended.
Part(at) ==
    LET fits == {i \in DOMAIN PARTS : at < PARTS[i][1]}
    IN  IF fits = {} THEN "night" ELSE PARTS[Min(fits)][2]

\* archetype_of: the vehicle's type is the sum of its capacities.
ArchetypeOf(p, o, v, at) ==
    LET Sum_(d) == SumOver(DOMAIN d, LAMBDA k : d[k])
    IN  [ kind |-> o.kind,
          band |-> Band(Sum_(o.qty)),
          site |-> IF p.locations[StopOf(o).at].access # {}
                   THEN "restricted" ELSE "open",
          vehicle |-> Sum_(v.cap),
          part |-> Part(at) ]

\* observations: a stop with one end missing is skipped, a departure before
\* its arrival refuses the batch.
ClockFault(route) ==
    \E o \in Range(route.sequence) \cap DOMAIN route.arrivals
                \cap DOMAIN route.departures :
        route.departures[o] < route.arrivals[o]

Observations(p, executed) ==
    LET Timed(r) == SelectSeq(r.sequence, LAMBDA o :
                        o \in DOMAIN r.arrivals \cap DOMAIN r.departures)
        Of(r) == [i \in DOMAIN Timed(r) |->
                    LET o == Timed(r)[i]
                    IN  [key |-> ArchetypeOf(p, p.orders[o],
                                    p.vehicles[r.vehicle], r.arrivals[o]),
                         value |-> r.departures[o] - r.arrivals[o]]]
    IN  FlattenSeq([i \in DOMAIN executed |-> Of(executed[i])])

\* drift: what moved by more than the threshold, appeared or went.
DriftOf(previous, current, threshold) ==
    {k \in DOMAIN previous \cup DOMAIN current :
        k \in DOMAIN previous \cap DOMAIN current =>
            \/ current[k] - previous[k] > threshold
            \/ previous[k] - current[k] > threshold}

\* as_service_fixed: the first vehicle whose archetype was fitted decides.
AsServiceFixed(p, fitted) ==
    LET Opens(o) == LET hard == SelectSeq(StopOf(o).windows, LAMBDA w : w.hard)
                    IN  IF hard = <<>> THEN 0 ELSE hard[1].start
        Key(o, v) == ArchetypeOf(p, p.orders[o], p.vehicles[v],
                                 Opens(p.orders[o]))
        Known(o) == {v \in DOMAIN p.vehicles : Key(o, v) \in DOMAIN fitted}
    IN  [o \in {x \in DOMAIN p.orders : Known(x) # {}} |->
            fitted[Key(o, Min(Known(o)))]]

-----------------------------------------------------------------------------
(* Road speeds.                                                            *)

\* Traversal.multiplier_ppt.
ObservedPpt(freeFlow, seconds) ==
    Max({SLOWEST_PPT, (freeFlow * PPT) \div seconds})

\* traversals: each leg between two stops is kept, straddles a bucket or was
\* not recorded; an arrival before the departure refuses the batch.
Legs(executed) ==
    {x \in {<<r, i>> : r \in DOMAIN executed, i \in 1..Max({0} \cup
                {Len(executed[q].sequence) - 1 : q \in DOMAIN executed})} :
        x[2] < Len(executed[x[1]].sequence)}

Traversals(p, executed, bucket) ==
    LET From(x) == executed[x[1]].sequence[x[2]]
        To(x) == executed[x[1]].sequence[x[2] + 1]
        Recorded(x) == /\ From(x) \in DOMAIN executed[x[1]].departures
                       /\ To(x) \in DOMAIN executed[x[1]].arrivals
        Left(x) == executed[x[1]].departures[From(x)]
        Took(x) == executed[x[1]].arrivals[To(x)] - Left(x)
        Free(x) == p.dur[StopOf(p.orders[From(x)]).at]
                        [StopOf(p.orders[To(x)]).at]
        Straddles(x) == Took(x) <= 0 \/ (Left(x) % bucket) + Took(x) > bucket
        timed == {x \in Legs(executed) : Recorded(x)}
        inside == {x \in timed : ~Straddles(x)}
        kept == SetToSortSeq({x \in inside : Free(x) > 0},
                             LAMBDA x, y : \/ x[1] < y[1]
                                           \/ x[1] = y[1] /\ x[2] < y[2])
    IN  [ faulty |-> \E x \in timed : Took(x) < 0,
          kept |-> [i \in DOMAIN kept |->
                    [key |-> <<ArcClass(Free(kept[i])),
                               (Left(kept[i]) % (bucket * BUCKETS)) \div bucket>>,
                     value |-> ObservedPpt(Free(kept[i]), Took(kept[i])),
                     departed |-> Left(kept[i]), free |-> Free(kept[i]),
                     observed |-> Took(kept[i])]],
          straddled |-> Cardinality(timed \ inside),
          unrecorded |-> Cardinality(Legs(executed) \ timed)
                + Cardinality({x \in inside : Free(x) <= 0}) ]

FittedClasses(fit) == {k[1] : k \in DOMAIN fit}

\* profile and as_profiles: buckets nobody measured run at free flow, and a
\* class nobody measured has no profile.
AsProfiles(fit, bucket, buckets) ==
    [c \in FittedClasses(fit) |->
        [bucket |-> bucket, multipliers |-> [b \in 1..buckets |->
            IF <<c, b - 1>> \in DOMAIN fit THEN fit[<<c, b - 1>>] ELSE PPT]]]

Defaulted(fit, buckets, c) ==
    {b \in 0..(buckets - 1) : <<c, b>> \notin DOMAIN fit}

\* validate: the error of each held-out leg whose group was fitted.
Predicted(fit, bucket, t) ==
    Travel(t.free, t.departed,
           [bucket |-> bucket, multipliers |-> <<fit[t.key]>>])
Apart(a, b) == IF a > b THEN a - b ELSE b - a
Summary(errors, unfitted) ==
    [ arcs |-> Len(errors), unfitted |-> unfitted,
      median |-> IF errors = <<>> THEN 0 ELSE Median(errors),
      worst |-> Max({0} \cup Range(errors)) ]
Validate(fit, bucket, heldOut) ==
    LET known == SelectSeq(heldOut, LAMBDA t : t.key \in DOMAIN fit)
    IN  Summary([i \in DOMAIN known |->
                    Apart(Predicted(fit, bucket, known[i]), known[i].observed)],
                Len(heldOut) - Len(known))

\* recalibrate: the last of at least two weeks is held out.
Recalibrate(p, weeks, minimum, bucket) ==
    LET training == FlattenSeq(SubSeq(weeks, 1, Len(weeks) - 1))
        Reported(fit, heldOut) ==
            [fit |-> fit, report |-> Validate(fit, bucket, heldOut)]
    IN  Reported(FitGroups(Traversals(p, training, bucket).kept, minimum).fitted,
                 Traversals(p, Last(weeks), bucket).kept)

-----------------------------------------------------------------------------
(* Zones.                                                                  *)

\* zone_of: an unzoned place is a zone of its own.
ZoneAt(place, zones) ==
    IF place \in DOMAIN zones THEN zones[place] ELSE place
ZoneOf(p, o, zones) == ZoneAt(StopOf(p.orders[o]).at, zones)

\* The zones of one route, without immediate repeats.
WithoutRepeats(seq) ==
    FoldLeft(LAMBDA done, z : IF done # <<>> /\ Last(done) = z THEN done
                              ELSE Append(done, z), <<>>, seq)
ZonesVisited(p, seq, zones) ==
    WithoutRepeats([i \in DOMAIN seq |-> ZoneOf(p, seq[i], zones)])

\* _rank: zones left more often than entered come first.  A move is the pair
\* of zones it is between.
Lean(moves, z) ==
    Cardinality({i \in DOMAIN moves : moves[i][2] = z})
        - Cardinality({i \in DOMAIN moves : moves[i][1] = z})
Ranked(moves, seen) ==
    SetToSortSeq(seen, LAMBDA a, b :
        \/ Lean(moves, a) < Lean(moves, b)
        \/ Lean(moves, a) = Lean(moves, b) /\ a < b)

\* learn_prior: confidence is the share of moves that go forwards.
PriorOf(moves, ranked) ==
    LET Pos(z) == CHOOSE i \in DOMAIN ranked : ranked[i] = z
        forwards == {i \in DOMAIN moves : Pos(moves[i][1]) < Pos(moves[i][2])}
    IN  IF moves = <<>> THEN [sequence |-> <<>>, confidence |-> 0]
        ELSE [sequence |-> ranked, confidence |->
                (Cardinality(forwards) * PPT) \div Len(moves)]
Hops(visits) ==
    [i \in 1..(Len(visits) - 1) |-> <<visits[i], visits[i + 1]>>]
PriorFrom(visited) ==
    LET moves == FlattenSeq([r \in DOMAIN visited |-> Hops(visited[r])])
    IN  PriorOf(moves, Ranked(moves, UNION {Range(visited[r]) :
                                                r \in DOMAIN visited}))
LearnPrior(p, history, zones) ==
    PriorFrom([r \in DOMAIN history |->
                    ZonesVisited(p, history[r].sequence, zones)])

\* order_by_prior: a stable sort by the zone's rank, unknown zones last.
OrderByPrior(p, seq, prior, zones) ==
    LET Rank(o) == LET z == ZoneOf(p, o, zones)
                       at == {i \in DOMAIN prior.sequence :
                                prior.sequence[i] = z}
                   IN  IF at = {} THEN Len(prior.sequence) + 1 ELSE Min(at)
        order == SetToSortSeq(DOMAIN seq, LAMBDA a, b :
                    \/ Rank(seq[a]) < Rank(seq[b])
                    \/ Rank(seq[a]) = Rank(seq[b]) /\ a < b)
    IN  [i \in DOMAIN order |-> seq[order[i]]]

-----------------------------------------------------------------------------
(* Fleet mixes.  A scenario is a set of orders of the instance, a mix the  *)
(* vehicles to plan it with.                                               *)

DayOrders(p, orders) == [o \in orders |-> p.orders[o]]

\* generate_scenarios: the sizes a sampled day may have, and the days.
DaySizes(pool, typical, spread) ==
    LET usual == Or(typical, Max({1, (pool * 2) \div 3}))
        swing == (usual * spread) \div 100
    IN  Max({1, usual - swing})..Min({pool, usual + swing})

SampledDays(p, typical, spread) ==
    {s \in SUBSET DOMAIN p.orders :
        Cardinality(s) \in DaySizes(Cardinality(DOMAIN p.orders), typical,
                                    spread)}

\* average_day: as many orders as the mean, the most frequent first.
AverageDay(days) ==
    LET all == UNION Range(days)
        Seen(o) == Cardinality({d \in DOMAIN days : o \in days[d]})
        total == SumOver(DOMAIN days, LAMBDA d : Cardinality(days[d]))
        n == Len(days)
        down == total \div n
        half == 2 * (total % n)
        mean == IF half > n \/ (half = n /\ down % 2 = 1) THEN down + 1
                ELSE down
        ranked == SetToSortSeq(all, LAMBDA a, b :
                    Seen(a) > Seen(b) \/ (Seen(a) = Seen(b) /\ a < b))
    IN  {ranked[i] : i \in 1..Min({mean, Len(ranked)})}

\* recovery_cost: a dedicated round trip from the first vehicle's depot.
RecoveryCost(p, o) ==
    LET depot == p.vehicles[Min(DOMAIN p.vehicles)].start
        rate == Max({v.perMetre : v \in Range(p.vehicles)})
    IN  IF DOMAIN p.vehicles = {} THEN 0
        ELSE 2 * p.dist[depot][StopOf(p.orders[o]).at]
                * IF rate = 0 THEN 1 ELSE rate

\* _measure: a mix over every day, the fleet paid for whether it moves or not.
\* planned is the engine's plan of each day.
Measure(p, mix, days, planned) ==
    LET Day(d) == [p EXCEPT !.orders = DayOrders(p, days[d]), !.vehicles = mix]
        Routing(d) ==
            SumOver({v \in DOMAIN mix \cap DOMAIN planned[d] :
                        planned[d][v] # <<>>},
                    LAMBDA v : RouteMetrics(p, Timeline(Day(d), v,
                                            planned[d][v])).distance)
        Spilled(d) == days[d] \ Served(planned[d])
    IN  [ fixed |-> Len(days) * SumOver(DOMAIN mix, LAMBDA v :
                                            mix[v].fixedCost),
          routing |-> SumOver(DOMAIN days, Routing),
          failure |-> SumOver(DOMAIN days, LAMBDA d :
                        SumOver(Spilled(d), LAMBDA o : RecoveryCost(Day(d), o))),
          served |-> SumOver(DOMAIN days, LAMBDA d :
                        Cardinality(Served(planned[d]))),
          offered |-> SumOver(DOMAIN days, LAMBDA d : Cardinality(days[d])) ]

MixTotal(r) == r.fixed + r.routing + r.failure

\* service_level: an assignment rate.
ServiceLevel(r) ==
    IF r.offered <= 0 THEN PPT ELSE (r.served * PPT) \div r.offered

\* _dominates, pareto and recommend over results named by position.
DominatesMix(left, right) ==
    /\ MixTotal(left) <= MixTotal(right)
    /\ ServiceLevel(left) >= ServiceLevel(right)
    /\ <<MixTotal(left), ServiceLevel(left)>>
        # <<MixTotal(right), ServiceLevel(right)>>

Pareto(results) ==
    {m \in DOMAIN results :
        \A other \in DOMAIN results : ~DominatesMix(results[other], results[m])}

Recommend(results) ==
    CHOOSE m \in Pareto(results) : \A n \in Pareto(results) :
        \/ MixTotal(results[m]) < MixTotal(results[n])
        \/ /\ MixTotal(results[m]) = MixTotal(results[n])
           /\ \/ ServiceLevel(results[m]) > ServiceLevel(results[n])
              \/ ServiceLevel(results[m]) = ServiceLevel(results[n]) /\ m <= n

-----------------------------------------------------------------------------
(* Standing commitments.  A recurrence is [visits, maxInterval, permitted]. *)

EligibleDays(r, horizon) ==
    {d \in 0..(horizon - 1) : r.permitted = {} \/ d \in r.permitted}

\* _spread: every step-th of the eligible days.
Spread(days, visits) ==
    LET sorted == SetToSortSeq(days, <)
        n == Len(sorted)
    IN  IF visits >= n THEN days
        ELSE {sorted[1 + Min({n - 1, (i * n) \div visits})]
                : i \in 0..(visits - 1)}

\* _worst_interval: the ends of the horizon count.
WorstInterval(days, horizon) ==
    LET After(d) == {e \in days : e > d}
    IN  IF days = {} THEN horizon
        ELSE Max({Min(days) + 1, horizon - Max(days)}
                 \cup {Min(After(d)) - d : d \in {e \in days : After(e) # {}}})

\* schedule refuses a commitment with too few days or too long a gap, and
\* with it the whole round.
ScheduleRefuses(r, horizon) ==
    LET days == EligibleDays(r, horizon)
    IN  \/ Cardinality(days) < r.visits
        \/ WorstInterval(Spread(days, r.visits), horizon) > r.maxInterval

Schedule(recurrences, horizon) ==
    [day \in 0..(horizon - 1) |->
        {id \in DOMAIN recurrences :
            day \in Spread(EligibleDays(recurrences[id], horizon),
                           recurrences[id].visits)}]

\* compliance, measured from the schedule.
Compliance(due, recurrences) ==
    [id \in DOMAIN recurrences |->
        LET days == {d \in DOMAIN due : id \in due[d]}
        IN  [ visits |-> Cardinality(days) >= recurrences[id].visits,
              interval |-> WorstInterval(days, Cardinality(DOMAIN due))
                            <= recurrences[id].maxInterval ]]

-----------------------------------------------------------------------------
(* Rollout.  Criteria are a function from names to limits.                 *)

\* shadow: what the planner would have done of each executed route's day is
\* compared with it.
Shadow(p, planned, executed) ==
    [i \in DOMAIN executed |-> AdherenceRow(p, planned, executed[i])]

Divergences(days, threshold) ==
    SelectSeq(days, LAMBDA d : d.dissimilarity > threshold)

\* decide: the worst day is compared with each limit.  A criterion of another
\* name has been seen at nought.
Observed(mine) ==
    [adherence |-> Max({d.dissimilarity : d \in Range(mine)}),
     cost_delta |-> Max({d.delta : d \in Range(mine)})]

FailedCriteria(criteria, mine) ==
    {name \in DOMAIN criteria : Get(Observed(mine), name) > criteria[name]}

\* Mutant: the days of every depot count.
DecideEverywhere(canary, days) ==
    [ days |-> Len(days),
      go |-> /\ days # <<>> /\ Len(days) >= canary.minimumDays
             /\ FailedCriteria(canary.criteria, days) = {} ]

Decide(canary, days) ==
    LET mine == SelectSeq(days, LAMBDA d : d.depot_id = canary.depot)
    IN  [ days |-> Len(mine),
          go |-> /\ mine # <<>> /\ Len(mine) >= canary.minimumDays
                 /\ FailedCriteria(canary.criteria, mine) = {} ]
=============================================================================
