------------------------------- MODULE Polish -------------------------------
(***************************************************************************)
(* Exact polishing of one route, vrp/polish.py: departure scheduling and   *)
(* the dynamic program over sequences; and recombination of routes,        *)
(* vrp/setpartition.py.  Both read vehicle.end_location_id, which is None  *)
(* for a van that returns to its start unless told otherwise: for such a   *)
(* van they raise KeyError, and nothing here is defined.                   *)
(***************************************************************************)
EXTENDS Evaluator

Home(v) == CHOOSE l \in v.end : TRUE
At1(p, seq, i) == StopOf(p.orders[seq[i]]).at

DutyDuration(steps) ==
    IF steps = <<>> THEN 0 ELSE Last(steps).arrival - steps[1].departure

HardOf(p, o) == {w \in Range(StopOf(p.orders[o]).windows) : w.hard}

OrderOfStep(step) == CHOOSE o \in step.serves : TRUE

Serves(steps) == {i \in DOMAIN steps : steps[i].serves # {}}

\* Mutant: the wait of the step itself is not counted.
WaitBefore(steps, i) ==
    SumOver({j \in Serves(steps) : j < i},
            LAMBDA j : steps[j].start - steps[j].arrival)

\* _total_wait, up to a step.
WaitUpTo(steps, i) ==
    SumOver({j \in Serves(steps) : j <= i},
            LAMBDA j : steps[j].start - steps[j].arrival)

\* _slack: the largest shift that keeps each stop inside the window it is in;
\* empty when a stop is outside all of its windows.
Slack(p, v, steps) ==
    LET bound == {i \in Serves(steps) : HardOf(p, OrderOfStep(steps[i])) # {}}
        In(i) == {w.end : w \in {x \in HardOf(p, OrderOfStep(steps[i])) :
                                    Within(x, steps[i].start)}}
        room == {WaitUpTo(steps, i) + Max(In(i)) - steps[i].start : i \in bound}
    IN  IF \E i \in bound : In(i) = {} THEN {}
        ELSE IF Last(steps).arrival > v.shift.end \/ bound = {} THEN {0}
        ELSE {Max({0, Min(room)})}

\* _fits: the shifted schedule is legal and in its windows.
ShiftFits(p, vid, seq, departure, rules) ==
    LET Met(hard, at) == hard = {} \/ \E w \in hard : Within(w, at)
        Fits(s) ==
            /\ s.legal
            /\ \A i \in Serves(s.steps) :
                    Met(HardOf(p, OrderOfStep(s.steps[i])), s.steps[i].start)
            /\ Last(s.steps).arrival <= p.vehicles[vid].shift.end
    IN  Fits(ScheduleRoute(p, vid, seq, rules, departure))

\* optimal_departure: as late as the waiting can absorb; with rules it is
\* halved back until the schedule fits.
OptimalDeparture(p, vid, seq, rules) ==
    LET v == p.vehicles[vid]
        Shift(steps) == Min({Or(Slack(p, v, steps), 0),
                             WaitUpTo(steps, Len(steps))})
        back[d \in Nat] ==
            IF d = 0 THEN 0
            ELSE IF ShiftFits(p, vid, seq, v.shift.start + d, rules) THEN d
            ELSE back[d \div 2]
        Kept(shift) == IF seq = <<>> \/ shift <= 0 THEN 0
                       ELSE IF rules = {} THEN shift ELSE back[shift]
    IN  v.shift.start
            + Kept(Shift(ScheduleRoute(p, vid, seq, rules,
                                       v.shift.start).steps))

-----------------------------------------------------------------------------
(* Sequencing.  A label is a partial route: [cost, ready, path].           *)

\* _service_and_window: from the first opening to the last closing.
ServiceAndWindow(p, v, o) ==
    LET Within_(hard) ==
            [service |-> ServiceTime(p, p.orders[o], v, StopOf(p.orders[o]).at),
             opens |-> IF hard = {} THEN 0 ELSE Min({w.start : w \in hard}),
             closes |-> IF hard = {} THEN v.shift.end
                        ELSE Max({w.end : w \in hard})]
    IN  Within_(HardOf(p, o))

\* _floor: the fastest the arc can ever be.
Floor(p, a, b) ==
    LET profile == ProfileForArc(p, p.dur[a][b])
    IN  IF profile = {} \/ p.dur[a][b] <= 0 THEN p.dur[a][b]
        ELSE FastestPossible(p.dur[a][b], CHOOSE f \in profile : TRUE)

\* A label extended by an order: empty when its window is missed, on the
\* bound first and then on the exact leg.
Extend(p, v, label, o) ==
    LET from == IF label.path = <<>> THEN v.start
                ELSE StopOf(p.orders[Last(label.path)]).at
        to == StopOf(p.orders[o]).at
        Missed(fact) == label.path # <<>>
                            /\ label.ready + Floor(p, from, to) > fact.closes
        Reached(fact, leg, begin) ==
            IF Missed(fact) \/ begin > fact.closes THEN {}
            ELSE {[cost |-> label.cost + leg, ready |-> begin + fact.service,
                   path |-> Append(label.path, o)]}
        Along(fact, leg) ==
            Reached(fact, leg, Max({label.ready + leg, fact.opens}))
    IN  Along(ServiceAndWindow(p, v, o),
              TravelBetween(p, from, to, label.ready))

Dominates(a, b) == a.cost <= b.cost /\ a.ready <= b.ready

\* _push: of the labels for one subset and last stop, those none of which
\* dominates another; of equals the first pushed stays, here any one.
Undominated(labels) ==
    LET Same(a, b) == a.cost = b.cost /\ a.ready = b.ready
        OnePer(best) == {CHOOSE a \in best : Same(a, b) : b \in best}
    IN  OnePer({a \in labels : \A b \in labels :
                    Dominates(b, a) => Same(a, b)})

\* One layer of the program: labels keyed by the subset and the last stop.
NextLayer(p, v, seq, layer) ==
    LET Key(a) == <<Range(a.path), Last(a.path)>>
        Pruned(grown) == UNION {Undominated({a \in grown : Key(a) = k}) :
                                    k \in {Key(a) : a \in grown}}
    IN  Pruned(UNION {UNION {Extend(p, v, a, o) :
                                o \in Range(seq) \ Range(a.path)} : a \in layer})

\* tsptw_sequence: the cheapest sequences, as a set; empty for None.
TsptwSequence(p, vid, seq) ==
    LET v == p.vehicles[vid]
        layer[n \in 0..Len(seq)] ==
            IF n = 0 THEN {[cost |-> 0, ready |-> v.shift.start,
                            path |-> <<>>]}
            ELSE NextLayer(p, v, seq, layer[n - 1])
        Return(a, back) ==
            [a EXCEPT !.cost = @ + back, !.ready = @ + back]
        Total(a) == Return(a, TravelBetween(p,
                        StopOf(p.orders[Last(a.path)]).at, Home(v), a.ready))
        Cheapest(done) == {a.path : a \in {x \in done :
                                        \A y \in done : x.cost <= y.cost}}
    IN  IF seq = <<>> THEN {}
        ELSE Cheapest({a \in {Total(x) : x \in layer[Len(seq)]} :
                            a.ready <= v.shift.end})

\* polish_route: the sequence, then the departure.
PolishRoute(p, vid, seq, rules) ==
    LET Order(better) == IF better = {} \/ seq \in better THEN seq
                         ELSE CHOOSE s \in better : TRUE
        Timed(order, departure, steps) ==
            [order |-> order, departure |-> departure, steps |-> steps,
             duty |-> DutyDuration(steps)]
        Leaving(order, departure) ==
            Timed(order, departure,
                  ScheduleRoute(p, vid, order, rules, departure).steps)
        Driven(order) == Leaving(order, OptimalDeparture(p, vid, order, rules))
    IN  Driven(Order(TsptwSequence(p, vid, seq)))

\* _travel_time and, of the other matrix, setpartition.route_distance.
AlongRoute(p, grid, vid, seq) ==
    LET v == p.vehicles[vid]
        places == <<v.start>> \o [i \in DOMAIN seq |-> At1(p, seq, i)]
                    \o <<Home(v)>>
    IN  SumOver(2..Len(places), LAMBDA i : grid[places[i - 1]][places[i]])

-----------------------------------------------------------------------------
(* Set partitioning.  A column is a pair <<vehicle, sequence>>.            *)

ColumnCost(p, c) == AlongRoute(p, p.dist, c[1], c[2])

\* RoutePool.add, over what several runs found: legal columns only.
Pool(p, found) == {c \in found : c[2] # <<>> /\ RouteIsLegal(p, c[1], c[2])}

\* Each order in exactly one of them, each vehicle in at most one.
IsPartition(p, chosen) ==
    /\ \A o \in DOMAIN p.orders :
            Cardinality({c \in chosen : o \in Range(c[2])}) = 1
    /\ \A c, e \in chosen : c[1] = e[1] => c = e
    /\ Cardinality(chosen) <= Cardinality(DOMAIN p.vehicles)

PartitionCost(p, chosen) == SumOver(chosen, LAMBDA c : ColumnCost(p, c))

\* select_routes: the cheapest partitions, any of which the solver may
\* return; empty for None.
SelectRoutes(p, pool) ==
    LET parts == {s \in SUBSET pool : IsPartition(p, s)}
    IN  {s \in parts : \A t \in parts :
            PartitionCost(p, s) <= PartitionCost(p, t)}

\* polish: the columns scheduled as they are, without hours-of-service rules.
Recombined(p, chosen) ==
    LET byVehicle == SetToSortSeq(chosen, LAMBDA c, e : c[1] < e[1])
    IN  [ routes |-> [i \in DOMAIN byVehicle |->
                [vehicle |-> byVehicle[i][1],
                 steps |-> ScheduleRoute(p, byVehicle[i][1], byVehicle[i][2],
                    {}, p.vehicles[byVehicle[i][1]].shift.start).steps]],
          unassigned |-> {}, claimed |-> <<>> ]
=============================================================================
