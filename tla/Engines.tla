------------------------------ MODULE Engines ------------------------------
(***************************************************************************)
(* The two engine adapters, vrp/solve/pyvrp_adapter.py and                 *)
(* vrp/solve/ortools_adapter.py: which instances each refuses, the model   *)
(* it compiles, and the plan it maps the engine's answer back to.          *)
(*                                                                         *)
(* The engines are libraries.  An answer of PyVRP is, for each vehicle, a  *)
(* departure and a sequence of activities: a client (an order and the one  *)
(* of its windows it stands for), an end of a shipment, or a reload.  Any  *)
(* answer that meets the compiled model may come back; which one, and what *)
(* it costs, is the engine's affair.                                       *)
(***************************************************************************)
EXTENDS Verifier

CONSTANT MaxPrize       \* INT64_MAX, the most PyVRP stores a prize in

\* Orders are served, and fleets deployed, in the order of the instance.
LeadVehicle(p) == p.vehicles[Min(DOMAIN p.vehicles)]
ShiftStartOf(p) == Min({v.shift.start : v \in Range(p.vehicles)})
ShiftEndOf(p) == Max({v.shift.end : v \in Range(p.vehicles)})
Stops(o) == o.pickup \cup o.delivery

-----------------------------------------------------------------------------
(* What PyVRP's adapter refuses.                                           *)

\* _refuse_unreachable.  The table of served places is keyed by order, so a
\* shipment appears there with its delivery alone.
HasUnreachable(p) ==
    LET needed == {StopOf(p.orders[o]).at : o \in DOMAIN p.orders}
                    \cup UNION {{v.start} \cup v.end : v \in Range(p.vehicles)}
    IN  \E a, b \in needed : a # b /\ ~Reachable(p, a, b)

\* The ranks of the instance, least protected first.
RanksUpward(p) ==
    SetToSortSeq({Precedence(p.orders[o]) : o \in DOMAIN p.orders},
                 LAMBDA a, b : \/ a[1] > b[1]
                               \/ a[1] = b[1] /\ a[2] > b[2])

\* beneath: everything obtainable from the first i ranks, and one more.
Beneath(p) ==
    LET ranks == RanksUpward(p)
        At_(i) == {o \in DOMAIN p.orders : Precedence(p.orders[o]) = ranks[i]}
        total[i \in 0..Len(ranks)] ==
            IF i = 0 THEN 0
            ELSE total[i - 1] + 1
                    + SumOver(At_(i), LAMBDA o : p.orders[o].prize + total[i - 1])
    IN  total

\* Mutant: off by one rank.
TierBonusOfRankBelow(p, o) ==
    LET ranks == RanksUpward(p)
        i == CHOOSE k \in DOMAIN ranks : ranks[k] = Precedence(p.orders[o])
    IN  Beneath(p)[Max({i - 2, 0})]

\* tier_bonuses: the bonus of an order's rank.
TierBonus(p, o) ==
    LET ranks == RanksUpward(p)
        i == CHOOSE k \in DOMAIN ranks : ranks[k] = Precedence(p.orders[o])
    IN  Beneath(p)[i - 1]

BonusesOverflow(p) == Beneath(p)[Len(RanksUpward(p))] > MaxPrize

\* _earliest_departure: the quickest vehicle, straight from its start.
EarliestDeparture(p, o) ==
    LET stop == CHOOSE s \in o.pickup : TRUE
        opens == IF stop.windows = <<>> THEN ShiftStartOf(p)
                 ELSE stop.windows[1].start
        able == {v \in Range(p.vehicles) : Reachable(p, v.start, stop.at)}
        there == IF able = {} THEN opens
                 ELSE Min({v.shift.start + p.dur[v.start][stop.at] : v \in able})
    IN  Max({opens, there}) + ServiceTime(p, o, LeadVehicle(p), stop.at)

\* delivery_deadline: the ride bound of a shipment, as a delivery window.
DeliveryDeadline(p, o) ==
    LET stop == CHOOSE s \in o.delivery : TRUE
        closes == IF stop.windows = <<>> THEN ShiftEndOf(p)
                  ELSE stop.windows[1].end
    IN  Min({closes} \cup {EarliestDeparture(p, o) + m : m \in o.maxRide})

\* _bounds: a soft window, or none, is the whole of the day.
Bounds(p, windows, k) ==
    IF k = 0 \/ ~windows[k].hard THEN <<ShiftStartOf(p), ShiftEndOf(p)>>
    ELSE <<windows[k].start, windows[k].end>>

\* The windows a job is compiled for: one client each, 0 where it has none.
ClientWindows(o) ==
    IF StopOf(o).windows = <<>> THEN {0} ELSE DOMAIN StopOf(o).windows

\* _may_serve: qualification, site and locks.
MayServe(p, vid, oid) ==
    LET v == p.vehicles[vid]
        o == p.orders[oid]
        About(k) == "order" \in DOMAIN k /\ k.order = oid
    IN  /\ HasSkillsFor(v, o)
        /\ \A s \in Stops(o) : MayEnter(v, p.locations[s.at])
        /\ \A k \in p.locks :
            /\ k.kind = "FORBID_DEPLOY" => k.vehicle # vid
            /\ k.kind = "PIN_ORDER_TO_VEHICLE" /\ About(k) => k.vehicle = vid
            /\ k.kind = "FORBID_ORDER_ON_VEHICLE" /\ About(k)
                    => k.vehicle # vid
            /\ k.kind = "PIN_DEPOT" /\ About(k) => k.depot = v.start

\* _eligibility_key: the places that have no edge into them for a vehicle.
\* _eligibility_profiles shares one edge set among vehicles with equal keys.
EligibilityKey(p, vid) ==
    LET v == p.vehicles[vid]
        barred == {o \in DOMAIN p.orders : ~MayServe(p, vid, o)}
    IN  UNION {{s.at : s \in Stops(p.orders[o])} : o \in barred}
            \ ({v.start, EndsAt(v)} \cup v.reloadAt)

\* _refuse_order_incompatibility: only a conflict that can arise.
Incompatible(p) ==
    LET classes == UNION {o.class : o \in Range(p.orders)}
    IN  \E o \in Range(p.orders) : (o.incompatible \cap classes) \ o.class # {}

\* _refuse_ambiguous_eligibility: a place is barred or it is not.
Ambiguous(p) ==
    \E v \in DOMAIN p.vehicles : \E a, b \in DOMAIN p.orders :
        /\ \E s \in Stops(p.orders[a]), t \in Stops(p.orders[b]) : s.at = t.at
        /\ MayServe(p, v, a) /\ ~MayServe(p, v, b)

\* The refusals of the order loop of compile_problem.
Uncompilable(p) ==
    \E o \in Range(p.orders) :
        IF o.kind = "SHIPMENT"
        THEN \E s \in Stops(o) : Len(s.windows) > 1
        ELSE \E k \in ClientWindows(o) :
                o.release > Bounds(p, StopOf(o).windows, k)[2]

\* Everything solve and compile_problem raise.  An empty fleet is answered.
PyvrpRefuses(p) ==
    /\ DOMAIN p.vehicles # {}
    /\ \/ HasUnreachable(p)
       \/ Cardinality({v.mode : v \in Range(p.vehicles)}) > 1
       \/ BonusesOverflow(p)
       \/ Uncompilable(p)
       \/ p.profile # {} \/ p.profiles # {}
       \/ \E v \in Range(p.vehicles) : v.battery # {}
       \/ Incompatible(p)
       \/ Ambiguous(p)

-----------------------------------------------------------------------------
(* The compiled model, as PyVRP reads it.                                  *)

Dimensions(p) ==
    UNION ({DOMAIN o.qty : o \in Range(p.orders)}
            \cup {DOMAIN v.cap : v \in Range(p.vehicles)})

Collects(p, a) ==
    a.kind = "PICKUP" \/ (a.kind = "CLIENT" /\ p.orders[a.order].delivery = {})

\* add_client and add_shipment: where an activity is, when it may begin and
\* how long it takes.
Compiled(p, a) ==
    LET o == p.orders[a.order]
        Wide(windows) ==
            IF windows = <<>> THEN <<ShiftStartOf(p), ShiftEndOf(p)>>
            ELSE <<windows[1].start, windows[1].end>>
        Bounded(stop) ==
            CASE a.kind = "CLIENT" -> Bounds(p, stop.windows, a.window)
              [] a.kind = "PICKUP" -> Wide(stop.windows)
              [] OTHER -> <<Wide(stop.windows)[1], DeliveryDeadline(p, o)>>
        Placed(stop) ==
            [ at |-> stop.at,
              takes |-> ServiceTime(p, o, LeadVehicle(p), stop.at),
              bounds |-> Bounded(stop),
              release |-> IF a.kind = "CLIENT" THEN o.release ELSE 0 ]
    IN  Placed(IF a.kind = "CLIENT" THEN StopOf(o)
               ELSE IF a.kind = "PICKUP" THEN CHOOSE s \in o.pickup : TRUE
               ELSE CHOOSE s \in o.delivery : TRUE)

\* A trip runs from its position to the next depot visit.
Trip(acts, from) ==
    LET depots == {i \in DOMAIN acts : i >= from /\ acts[i].kind = "RELOAD"}
    IN  from..(IF depots = {} THEN Len(acts) ELSE Min(depots) - 1)

\* PyVRP's clock: it leaves the depot once the trip's goods are released,
\* waits for a window, and never starts after it.  The depot's own activities
\* are instantaneous.
Released(p, acts, from) ==
    Max({0} \cup {p.orders[acts[j].order].release :
                    j \in {k \in Trip(acts, from) : acts[k].kind = "CLIENT"}})
AtDepot(was, depot, arrive, released) ==
    [at |-> depot, arrive |-> arrive, begin |-> arrive,
     leave |-> Max({arrive, released}), ok |-> was.ok]
AtClient(was, c, arrive, barred) ==
    LET begin == Max({arrive, c.bounds[1]})
    IN  [at |-> c.at, arrive |-> arrive, begin |-> begin,
         leave |-> begin + c.takes,
         ok |-> was.ok /\ begin <= c.bounds[2] /\ c.at \notin barred]
Clocked(p, vid, acts, start) ==
    LET v == p.vehicles[vid]
        depot == IF v.reloadAt = {} THEN v.start ELSE Min(v.reloadAt)
        Arrival(was, to) == was.leave + p.dur[was.at][to]
        Visit(was, c) ==
            AtClient(was, c, Arrival(was, c.at), EligibilityKey(p, vid))
        run[i \in 0..Len(acts)] ==
            IF i = 0
            THEN [at |-> v.start, arrive |-> start, begin |-> start,
                  leave |-> start,
                  ok |-> start >= Max({v.shift.start, Released(p, acts, 1)})]
            ELSE IF acts[i].kind = "RELOAD"
            THEN AtDepot(run[i - 1], depot, Arrival(run[i - 1], depot),
                         Released(p, acts, i + 1))
            ELSE Visit(run[i - 1], Compiled(p, acts[i]))
    IN  run

\* _trip_load: only the clients a trip delivers to are loaded at the depot.
TripLoad(p, acts, from) ==
    LET Drops == {i \in Trip(acts, from) :
                    acts[i].kind = "CLIENT" /\ ~Collects(p, acts[i])}
    IN  [d \in Dimensions(p) |->
            SumOver(Drops, LAMBDA i : Get(p.orders[acts[i].order].qty, d))]

\* What is aboard after each activity.
Aboard(p, acts) ==
    LET load[i \in 0..Len(acts)] ==
        IF i = 0 THEN TripLoad(p, acts, 1)
        ELSE IF acts[i].kind = "RELOAD" THEN TripLoad(p, acts, i + 1)
        ELSE [d \in Dimensions(p) |->
                LET q == Get(p.orders[acts[i].order].qty, d)
                IN  IF Collects(p, acts[i]) THEN load[i - 1][d] + q
                    ELSE load[i - 1][d] - q]
    IN  load

\* map_solution, one route.  A reload is written at the first reload location
\* by name, and an open route ends where it last stopped.
MapRoute(p, vid, acts, start) ==
    LET v == p.vehicles[vid]
        Type(a) == IF a.kind = "CLIENT"
                   THEN IF Collects(p, a) THEN "PICKUP" ELSE "DELIVERY"
                   ELSE a.kind
        Visit(a, c, load) ==
            Step(Type(a), c.at, c.arrive, c.begin, c.leave,
                 IF a.kind = "RELOAD" THEN {} ELSE {a.order}, load)
        End(at, home, load) == Step("END", at, home, home, home, {}, load)
        Home(last, load) ==
            IF v.open THEN End(last.at, last.leave, load)
            ELSE End(EndsAt(v), last.leave + p.dur[last.at][EndsAt(v)], load)
        Steps(clock, load) ==
            <<Step("START", v.start, start, start, start, {}, load[0])>>
                \o [i \in DOMAIN acts |-> Visit(acts[i], clock[i], load[i])]
                \o <<Home(clock[Len(acts)], load[Len(acts)])>>
    IN  [ vehicle |-> vid,
          steps |-> Steps(Clocked(p, vid, acts, start), Aboard(p, acts)) ]

\* Metres by the engine's own accounting over its compiled model.
RouteMetres(p, route) ==
    SumOver(2..Len(route.steps),
            LAMBDA i : p.dist[route.steps[i - 1].at][route.steps[i].at])

\* PyVRP's verdict on one route of its answer.  It drives over a missing edge
\* and calls the route infeasible.
Joined(p, steps) ==
    \A i \in 2..Len(steps) : Reachable(p, steps[i - 1].at, steps[i].at)
RouteFeasible(p, vid, acts, start) ==
    LET v == p.vehicles[vid]
        Back(home) == /\ home <= v.shift.end
                      /\ \A m \in v.maxDuration : home - start <= m
        Fits(route) == /\ Joined(p, route.steps)
                       /\ Back(Last(route.steps).arrival)
                       /\ \A m \in v.maxDistance : RouteMetres(p, route) <= m
    IN  /\ Clocked(p, vid, acts, start)[Len(acts)].ok
        /\ Fits(MapRoute(p, vid, acts, start))
        /\ \A i \in 0..Len(acts) : \A d \in Dimensions(p) :
                Aboard(p, acts)[i][d] <= Get(v.cap, d)
        /\ Cardinality({i \in DOMAIN acts : acts[i].kind = "RELOAD"})
                <= (IF v.reloadAt = {} THEN 0 ELSE v.maxReloads)

\* A client group, and a job in it, is visited once; PyVRP keeps the ends of
\* a shipment on one route, the pickup first.
WellFormed(p, acts) ==
    \A o \in DOMAIN p.orders :
        LET on(v) == {i \in DOMAIN acts[v] : acts[v][i].order = o}
            on_ == {v \in DOMAIN acts : on(v) # {}}
        IN  \/ on_ = {}
            \/ /\ Cardinality(on_) = 1
               /\ \A v \in on_ :
                    IF p.orders[o].kind = "JOB" THEN Cardinality(on(v)) = 1
                    ELSE /\ Cardinality(on(v)) = 2
                         /\ acts[v][Min(on(v))].kind = "PICKUP"
                         /\ acts[v][Max(on(v))].kind = "DELIVERY"

Visited(acts) ==
    UNION {{acts[v][i].order : i \in DOMAIN acts[v]} : v \in DOMAIN acts} \ {0}

\* A group of several windows is required whatever the order's prize.
Required(p, o) ==
    MustBeServed(p.orders[o]) \/ Cardinality(ClientWindows(p.orders[o])) > 1

PyvrpFeasible(p, acts, starts) ==
    /\ WellFormed(p, acts)
    /\ \A v \in DOMAIN acts :
            acts[v] # <<>> => RouteFeasible(p, v, acts[v], starts[v])
    /\ \A o \in DOMAIN p.orders : Required(p, o) => o \in Visited(acts)

\* map_solution and _nothing_to_dispatch.
Mapped(p, acts, routes, feasible) ==
    [ routes |-> routes, unassigned |-> DOMAIN p.orders \ Visited(acts),
      claimed |-> IF DOMAIN p.vehicles = {} THEN <<>>
                  ELSE [distance |-> SumOver(DOMAIN routes,
                            LAMBDA r : RouteMetres(p, routes[r]))],
      degraded |-> p.degraded,
      status |-> IF feasible THEN "FEASIBLE" ELSE "INFEASIBLE" ]
PyvrpSolution(p, acts, starts) ==
    LET used == SelectSeq([i \in 1..Max({0} \cup DOMAIN p.vehicles) |-> i],
                          LAMBDA v : v \in DOMAIN acts /\ acts[v] # <<>>)
    IN  Mapped(p, acts,
               [i \in DOMAIN used |->
                    MapRoute(p, used[i], acts[used[i]], starts[used[i]])],
               PyvrpFeasible(p, acts, starts))

-----------------------------------------------------------------------------
(* OR-Tools: single-window delivery jobs from one depot.                   *)

\* _refuse; a leg with no road raises from the travel callback.
OrtoolsRefuses(p) ==
    \/ \E o \in Range(p.orders) :
            \/ o.kind = "SHIPMENT" \/ o.delivery = {}
            \/ Len(StopOf(o).windows) > 1
    \/ Incompatible(p)
    \/ \E v \in Range(p.vehicles) : v.open \/ v.maxReloads > 0
    \/ p.locks # {}
    \/ Cardinality({v.start : v \in Range(p.vehicles)}) > 1
    \/ \E a, b \in DOMAIN p.dur : ~Reachable(p, a, b)

\* order_at_node: of several orders at one place the last one stands.
OrderAtNode(p, n) ==
    {o \in DOMAIN p.orders : /\ StopOf(p.orders[o]).at = n
                             /\ \A x \in DOMAIN p.orders :
                                    StopOf(p.orders[x]).at = n => x <= o}
OrdersAt(p, nodes) ==
    LET served == SelectSeq(nodes, LAMBDA n : OrderAtNode(p, n) # {})
    IN  [i \in DOMAIN served |-> CHOOSE o \in OrderAtNode(p, served[i]) : TRUE]

\* The one dimension it carries: the first by name.
FirstDimension(p) ==
    LET names == UNION {DOMAIN o.qty : o \in Range(p.orders)}
    IN  IF names = {} THEN {} ELSE {CHOOSE d \in names : TRUE}

\* _map, one route: the nodes in order, with service starting no earlier than
\* the hard window opens.
Opening(windows) ==
    IF windows # <<>> /\ windows[1].hard THEN windows[1].start ELSE 0
Delivered(o, at, arrive, begin, takes, load) ==
    Step("DELIVERY", at, arrive, begin, begin + takes, {o}, load)
DeliverTo(p, v, o, stop, arrive, load) ==
    Delivered(o, stop.at, arrive, Max({arrive, Opening(stop.windows)}),
              ServiceTime(p, p.orders[o], v, stop.at), load)
RouteOver(p, vid, seq, start) ==
    LET v == p.vehicles[vid]
        Left(i) == [d \in FirstDimension(p) |->
                        SumOver({j \in DOMAIN seq : j > i},
                                LAMBDA j : Get(p.orders[seq[j]].qty, d))]
        Next_(steps, i, stop) ==
            Append(steps, DeliverTo(p, v, seq[i], stop, Last(steps).departure
                            + p.dur[Last(steps).at][stop.at], Left(i)))
        Home(steps, home) ==
            Append(steps, Step("END", EndsAt(v), home, home, home, {},
                               Left(Len(seq))))
        Ended(steps) == Home(steps, Last(steps).departure
                                    + p.dur[Last(steps).at][EndsAt(v)])
        run[i \in 0..Len(seq)] ==
            IF i = 0
            THEN <<Step("START", v.start, start, start, start, {}, Left(0))>>
            ELSE Next_(run[i - 1], i, StopOf(p.orders[seq[i]]))
    IN  [vehicle |-> vid, steps |-> Ended(run[Len(seq)])]
OrtoolsRoute(p, vid, nodes, start) ==
    RouteOver(p, vid, OrdersAt(p, nodes), start)

WithinRouting(p, v, r) ==
    /\ \A d \in FirstDimension(p) : r[1].load[d] <= Get(p.vehicles[v].cap, d)
    /\ Last(r).arrival <= ShiftEndOf(p)
    /\ \A i \in DOMAIN r : \A o \in r[i].serves :
            LET windows == StopOf(p.orders[o]).windows
            IN  \A k \in DOMAIN windows \cap {1} :
                    windows[k].hard => r[i].start <= windows[k].end

\* What the routing model constrains: every node but the depot is visited
\* once, the one dimension, the hard windows, and the horizon of the fleet.
OrtoolsFeasible(p, nodes, starts) ==
    LET depot == LeadVehicle(p).start
        visits == UNION {{<<v, i>> : i \in DOMAIN nodes[v]} : v \in DOMAIN nodes}
    IN  /\ \A n \in DOMAIN p.dur \ {depot} :
            Cardinality({x \in visits : nodes[x[1]][x[2]] = n}) = 1
        /\ \A v \in DOMAIN nodes : nodes[v] # <<>> =>
            /\ starts[v] >= p.vehicles[v].shift.start
            /\ WithinRouting(p, v, OrtoolsRoute(p, v, nodes[v], starts[v]).steps)
=============================================================================
