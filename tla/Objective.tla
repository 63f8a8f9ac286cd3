----------------------------- MODULE Objective -----------------------------
(***************************************************************************)
(* What a plan is worth: the tiers of vrp/objective.py, the churn of       *)
(* vrp/stability.py and the consistency measures of vrp/consistency.py.    *)
(* Solutions are the verifier's; a horizon is a sequence of them.          *)
(***************************************************************************)
EXTENDS Polish, Verifier

Tiers == {"HARD", "UNSERVED_P0", "UNSERVED", "FLEET", "OPERATING", "SOFT",
          "QUALITY"}
Modes == {"MIN_COST", "MIN_VEHICLES", "MIN_DURATION", "MAX_SERVICE",
          "PRIZE_COLLECTING"}

\* levels: tiers of one set trade against each other, the sets are ordered.
Levels(mode) ==
    <<{"HARD"}, {"UNSERVED_P0"}>>
        \o (CASE mode = "MIN_VEHICLES" ->
                    <<{"UNSERVED"}, {"FLEET"}, {"OPERATING"}>>
              [] mode = "PRIZE_COLLECTING" ->
                    <<{"UNSERVED", "FLEET", "OPERATING"}>>
              [] OTHER -> <<{"UNSERVED"}, {"FLEET", "OPERATING"}>>)
        \o <<{"SOFT"}, {"QUALITY"}>>

\* rates: the fallback to the spec's rates is fleet-wide.
Rates(p, spec, vid) ==
    LET v == p.vehicles[vid]
    IN  IF FleetPricesItself(p)
        THEN [fixed |-> v.fixedCost, metre |-> v.perMetre,
              second |-> v.perSecond, order |-> v.perOrder]
        ELSE [fixed |-> spec.fixed, metre |-> spec.metre,
              second |-> spec.second, order |-> 0]

\* tier_bounds.
TierBounds(p, spec) ==
    LET fleet == Range(p.vehicles)
        n == Cardinality(DOMAIN p.vehicles)
        orders == Cardinality(DOMAIN p.orders)
        size == Cardinality(DOMAIN p.dur)
        Largest(grid) == Max({0} \cup {grid[a][b] : a, b \in DOMAIN grid})
        metres == Largest(p.dist) * Max({size, 1}) * 2 * Max({n, 1})
        seconds == Largest(p.dur) * Max({size, 1}) * 2 * Max({n, 1})
        Dearest(Rate(_)) == Max({0} \cup {Rate(v) : v \in fleet})
    IN  [ HARD |-> Max({orders * 4, 1}),
          UNSERVED_P0 |-> Max({1, Cardinality({o \in DOMAIN p.orders :
                                                p.orders[o].tier = 0})}),
          UNSERVED |-> Max({1, orders,
                            SumOver(DOMAIN p.orders, LAMBDA o :
                                        Max({p.orders[o].prize, 1}))}),
          FLEET |-> Max({1, n, n * spec.fixed,
                         SumOver(DOMAIN p.vehicles, LAMBDA v :
                                    p.vehicles[v].fixedCost)}),
          OPERATING |-> Max({1, metres * spec.metre + seconds * spec.second,
                             metres * Dearest(LAMBDA v : v.perMetre)
                               + seconds * Dearest(LAMBDA v : v.perSecond)
                               + orders * Dearest(LAMBDA v : v.perOrder)}),
          SOFT |-> Max({seconds, 1}),
          QUALITY |-> Max({metres, seconds, orders, 1}) ]

\* Mutant: the tiers are added up as they are.
TierScalesOfOne(p, spec) == [t \in Tiers |-> 1]

\* tier_scales: one more than everything beneath can reach.
TierScales(p, spec) ==
    LET levels == Levels(spec.mode)
        bounds == TierBounds(p, spec)
        Bound(i) == SumOver(levels[i], LAMBDA t : bounds[t])
        beneath[i \in 1..Len(levels)] ==
            IF i = Len(levels) THEN 0
            ELSE LET under == beneath[i + 1]
                 IN  under + (1 + under) * Bound(i + 1)
    IN  [t \in Tiers |->
            1 + beneath[CHOOSE i \in DOMAIN levels : t \in levels[i]]]

\* compare: negative when left is better; the first level that differs
\* decides.
Compare(left, right, spec) ==
    LET levels == Levels(spec.mode)
        Diff(i) == SumOver(levels[i], LAMBDA t : left[t] - right[t])
        differ == {i \in DOMAIN levels : Diff(i) # 0}
    IN  IF differ = {} THEN 0 ELSE IF Diff(Min(differ)) < 0 THEN -1 ELSE 1

Total(values, scales) ==
    SumOver(DOMAIN scales, LAMBDA t : values[t] * scales[t])

-----------------------------------------------------------------------------
(* Churn.  An assignment of a solution is who serves what and when.        *)

ServedAt(sol, x) ==
    [vehicle |-> sol.routes[x[1]].vehicle,
     start |-> At(sol, x).start, arrival |-> At(sol, x).arrival]
ServedBy(sol) ==
    [o \in {OrderOf(At(sol, x)) : x \in Serving(sol)} |->
        ServedAt(sol, CHOOSE y \in Serving(sol) : At(sol, y).serves = {o})]

\* churn: a stop that moved or vanished is counted once, the others drift.
Moves(was, now) ==
    LET moved == {o \in DOMAIN was :
                    o \notin DOMAIN now \/ now[o].vehicle # was[o].vehicle}
        Abs(n) == IF n < 0 THEN -n ELSE n
    IN  [moved |-> Cardinality(moved),
         drift |-> SumOver(DOMAIN was \ moved, LAMBDA o :
                            Abs(now[o].start - was[o].start))]
Churn(previous, candidate) == Moves(ServedBy(previous), ServedBy(candidate))

Charge(churn, perMove, perSecond) ==
    churn.moved * perMove + churn.drift * perSecond
ChurnCost(previous, candidate, perMove, perSecond) ==
    Charge(Churn(previous, candidate), perMove, perSecond)

\* _churn_term: without a plan to compare with there is none.
ChurnTerm(previous, candidate) ==
    SumOver(previous, LAMBDA s : ChurnCost(s, candidate, 1, 1))

-----------------------------------------------------------------------------
(* Consistency.                                                            *)

Carried(route) == Cardinality(Serves(route.steps))
Working(sol) == {r \in DOMAIN sol.routes : Carried(sol.routes[r]) > 0}

\* One route along a matrix; _distance of every route.
Along(grid, steps) ==
    SumOver(2..Len(steps), LAMBDA i : grid[steps[i - 1].at][steps[i].at])
DistanceOf(p, sol) ==
    SumOver(DOMAIN sol.routes, LAMBDA r : Along(p.dist, sol.routes[r].steps))

\* workload_spread, over the vehicles that carry something.
WorkloadSpread(p, sol) ==
    LET Spread(F(_)) == LET all == {F(sol.routes[r]) : r \in Working(sol)}
                        IN  IF Cardinality(Working(sol)) < 2 THEN 0
                            ELSE Max(all) - Min(all)
    IN  [duration |-> Spread(LAMBDA r : Along(p.dur, r.steps)),
         distance |-> Spread(LAMBDA r : Along(p.dist, r.steps)),
         stops |-> Spread(Carried)]

\* imbalance, Spread.worst.
Imbalance(p, sol) == Max(Range(WorkloadSpread(p, sol)))

\* distinct_drivers and arrival_spread, for each order over a horizon.
OverHorizon(horizon, o) ==
    {ServedBy(horizon[i])[o] : i \in {j \in DOMAIN horizon :
                                        o \in DOMAIN ServedBy(horizon[j])}}
DistinctDrivers(horizon, o) ==
    Cardinality({s.vehicle : s \in OverHorizon(horizon, o)})
ArrivalSpread(horizon, o) ==
    LET times == {s.arrival : s \in OverHorizon(horizon, o)}
    IN  Max(times) - Min(times)

\* territories: the ring of orders by bearing, cut into arcs.
Territories(ring, count) ==
    [n \in 0..(count - 1) |->
        {ring[i] : i \in {j \in DOMAIN ring :
                            ((j - 1) * count) \div Len(ring) = n}}]

ConsistencyPrice(p, free, consistent) ==
    [unconstrained |-> DistanceOf(p, free),
     consistent |-> DistanceOf(p, consistent),
     delta |-> DistanceOf(p, consistent) - DistanceOf(p, free)]

\* align_departures: the last period in which a vehicle works decides.
AlignDepartures(p, horizon, rules) ==
    LET works == UNION {{<<i, r>> : r \in Working(horizon[i])}
                            : i \in DOMAIN horizon}
        Vehicle(x) == horizon[x[1]].routes[x[2]].vehicle
        Stops(x) == LET steps == horizon[x[1]].routes[x[2]].steps
                        on == SelectSeq(steps, LAMBDA s : s.serves # {})
                    IN  [i \in DOMAIN on |-> OrderOfStep(on[i])]
        LastOf(v) == CHOOSE x \in works : /\ Vehicle(x) = v
                        /\ \A y \in works : Vehicle(y) = v => y[1] <= x[1]
    IN  [v \in {Vehicle(x) : x \in works} |->
            OptimalDeparture(p, v, Stops(LastOf(v)), rules)]

-----------------------------------------------------------------------------
(* Score.                                                                  *)

\* _operating: at the vehicle's own rates, free flow.
Operating(p, spec, route) ==
    LET rates == Rates(p, spec, route.vehicle)
        fees == Carried(route) * rates.order
        seconds == Along(p.dur, route.steps)
    IN  fees + IF spec.mode = "MIN_DURATION"
               THEN seconds * Max({rates.second, 1})
               ELSE Along(p.dist, route.steps) * rates.metre
                        + seconds * rates.second

\* score: the value of each tier.  HARD is the verifier's to say.
Score(p, sol, spec, previous) ==
    LET missed == DOMAIN p.orders \ DOMAIN ServedBy(sol)
        critical == {o \in missed : p.orders[o].tier = 0}
        Soft5(r) == SumOver(DOMAIN sol.routes[r].steps, LAMBDA i :
                        LET s == SoftPenalties(p, sol.routes[r].steps[i])
                        IN  s.early + s.late)
    IN  [ HARD |-> 0,
          UNSERVED_P0 |-> Cardinality(critical),
          UNSERVED |-> SumOver(missed \ critical, LAMBDA o :
                                Max({p.orders[o].prize, 1})),
          FLEET |-> IF spec.mode = "MIN_VEHICLES"
                    THEN Cardinality(Working(sol))
                    ELSE SumOver(Working(sol), LAMBDA r :
                            Rates(p, spec, sol.routes[r].vehicle).fixed),
          OPERATING |-> SumOver(Working(sol), LAMBDA r :
                                Operating(p, spec, sol.routes[r])),
          SOFT |-> SumOver(DOMAIN sol.routes, Soft5),
          QUALITY |-> Imbalance(p, sol) + ChurnTerm(previous, sol) ]
=============================================================================
