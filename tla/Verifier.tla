------------------------------ MODULE Verifier ------------------------------
(***************************************************************************)
(* The independent verifier, vrp/verify/verifier.py.  It shares the domain *)
(* (VrpDomain) and the numbers of the rule sets with the evaluator, never  *)
(* a computation over a plan, so this module takes Advance, CanDrive and   *)
(* RULES from HoursOfService and nothing else of it.                       *)
(*                                                                         *)
(* A solution is [routes, unassigned, claimed]: routes a sequence of       *)
(* [vehicle, steps], unassigned the set of orders listed as such, claimed  *)
(* the reported breakdown (a function on some component names).  Each      *)
(* check is the set of invariants it finds broken.                         *)
(***************************************************************************)
EXTENDS HoursOfService

Broken(name, condition) == IF condition THEN {name} ELSE {}

OrderOf(step) == CHOOSE o \in step.serves : TRUE

\* The spec of the end of the order that this step serves: empty for a
\* pickup step of an order that has none, and the other way round.
EndServed(p, step) ==
    IF step.serves = {} THEN {}
    ELSE IF step.type = "DELIVERY" THEN p.orders[OrderOf(step)].delivery
    ELSE p.orders[OrderOf(step)].pickup

AllSteps(sol) ==
    {<<r, i>> : r \in DOMAIN sol.routes, i \in 1..Max({0} \cup
        {Len(sol.routes[q].steps) : q \in DOMAIN sol.routes})}

\* Every step of the solution that serves an order, as <<route, index>>.
Serving(sol) ==
    {x \in AllSteps(sol) : x[2] <= Len(sol.routes[x[1]].steps)
                            /\ sol.routes[x[1]].steps[x[2]].serves # {}}

At(sol, x) == sol.routes[x[1]].steps[x[2]]

\* INV-1: once in routes or unassigned (twice for a shipment); INV-2: both
\* ends of a shipment on one route, the pickup first.
CheckCoverage(p, sol) ==
    LET Where(o) == {x \in Serving(sol) : At(sol, x).serves = {o}}
        Times(o) == Cardinality(Where(o))
        Due(o) == IF p.orders[o].kind = "SHIPMENT" THEN 2 ELSE 1
        Paired(o) == \E x, y \in Where(o) :
                        /\ sol.routes[x[1]].vehicle = sol.routes[y[1]].vehicle
                        /\ x[2] < y[2]
                        /\ At(sol, x).type = "PICKUP"
                        /\ At(sol, y).type = "DELIVERY"
    IN  Broken("INV-1", \E o \in DOMAIN p.orders :
                            Times(o) # IF o \in sol.unassigned
                                       THEN 0 ELSE Due(o))
        \cup Broken("INV-2", \E o \in DOMAIN p.orders :
                /\ p.orders[o].kind = "SHIPMENT" /\ Times(o) = 2
                /\ ~Paired(o))

\* INV-3: service begins after arrival, inside a hard window, and lasts as
\* long as the problem says.
CheckStep(p, v, step) ==
    LET hard == {w \in UNION {Range(s.windows) : s \in EndServed(p, step)} :
                    w.hard}
        takes == IF EndServed(p, step) = {} THEN 0
                 ELSE ServiceTime(p, p.orders[OrderOf(step)], v, step.at)
    IN  Broken("INV-3", \/ step.arrival > step.start
                        \/ step.serves # {}
                            /\ step.departure # step.start + takes
                        \/ hard # {}
                            /\ \A w \in hard : ~Within(w, step.start))

\* INV-5: the loads a step reports are within capacity and not negative.  A
\* dimension the vehicle does not declare is not limited here.
CheckLoad(v, step) ==
    Broken("INV-5", \E d \in DOMAIN step.load :
                        \/ step.load[d] < 0
                        \/ d \in DOMAIN v.cap /\ step.load[d] > v.cap[d])

NotBreak(step) == step.type # "BREAK"

\* INV-4: each arrival follows from the previous departure, the matrix and
\* the breaks in between, which are pauses on the leg and not places.
CheckTravel(p, steps) ==
    LET stops == {i \in DOMAIN steps : NotBreak(steps[i])}
        Before(i) == Max({j \in stops : j < i})
        Pauses(i) == SumOver({k \in DOMAIN steps :
                                 Before(i) < k /\ k < i},
                             LAMBDA k : steps[k].departure - steps[k].arrival)
        \* pauses in front of the first stop are added to the first leg
        Early == SumOver({k \in DOMAIN steps : k < Min(stops)},
                         LAMBDA k : steps[k].departure - steps[k].arrival)
        Due(i) == LET b == Before(i)
                  IN  steps[b].departure
                        + TravelBetween(p, steps[b].at, steps[i].at,
                                        steps[b].departure)
                        + Pauses(i) + IF b = Min(stops) THEN Early ELSE 0
    IN  Broken("INV-4", \E i \in stops :
                            i # Min(stops) /\ steps[i].arrival # Due(i))

\* INV-6: duration, distance and shift.
CheckLimits(p, v, steps) ==
    LET stops == SelectSeq(steps, NotBreak)
        duration == Last(steps).arrival - steps[1].departure
        metres == SumOver(2..Len(stops),
                          LAMBDA i : p.dist[stops[i - 1].at][stops[i].at])
    IN  Broken("INV-6", \/ \E m \in v.maxDuration : duration > m
                        \/ \E m \in v.maxDistance : metres > m
                        \/ steps[1].departure < v.shift.start
                        \/ Last(steps).arrival > v.shift.end)

CheckRoute(p, route) ==
    LET v == p.vehicles[route.vehicle]
        steps == route.steps
    IN  IF steps = <<>> THEN {}
        ELSE UNION {CheckStep(p, v, steps[i]) \cup CheckLoad(v, steps[i])
                        : i \in DOMAIN steps}
             \cup CheckTravel(p, steps) \cup CheckLimits(p, v, steps)

-----------------------------------------------------------------------------
(* INV-7: the duty read off the timeline, as a tachograph would read it.   *)

\* What one step does to the driver; legal is FALSE from the first leg that
\* was not legal to drive or break that was too short.
DutyStep(r, s, before, step) ==
    LET driving == step.arrival - before.departure
        Then(driver) ==
            IF step.type = "BREAK"
            THEN [legal |-> step.departure - step.arrival >= r.pause,
                  driver |-> Advance(driver, "BREAK",
                                     step.departure - step.arrival)]
            ELSE [s EXCEPT !.driver =
                    Advance(Advance(driver, "WAIT", step.start - step.arrival),
                            "WORK", step.departure - step.start)]
    IN  IF ~s.legal THEN s
        ELSE IF driving < 0 \/ ~CanDrive(r, s.driver, driving)
        THEN [s EXCEPT !.legal = FALSE]
        ELSE Then(Advance(s.driver, "DRIVE", driving))

DutyAlong(v, steps, r) ==
    LET after[i \in 1..Len(steps)] ==
        IF i = 1 THEN [legal |-> TRUE, driver |-> Or(v.carry, Rested)]
        ELSE DutyStep(r, after[i - 1], steps[i - 1], steps[i])
    IN  after[Len(steps)]
Keeps(r, duty) == /\ duty.legal
                  /\ duty.driver.drive <= r.maxDrive
                  /\ duty.driver.duty <= r.maxDuty

CheckHoursOfService(p, route) ==
    LET v == p.vehicles[route.vehicle]
    IN  Broken("INV-7", route.steps # <<>> /\ \E h \in v.hos :
            \/ h \notin DOMAIN RULES
            \/ ~Keeps(RULES[h], DutyAlong(v, route.steps, RULES[h])))

-----------------------------------------------------------------------------
(* INV-10 skills, classes and site access; INV-11 reloads; INV-16 battery. *)

CheckCompatibility(p, route) ==
    LET v == p.vehicles[route.vehicle]
        serving == {i \in DOMAIN route.steps : route.steps[i].serves # {}}
        O(i) == p.orders[OrderOf(route.steps[i])]
        Site(i) == p.locations[route.steps[i].at]
    IN  Broken("INV-10", \E i \in serving :
            \/ ~(O(i).skills \subseteq v.skills)
            \/ \E j \in serving : j < i /\
                    \/ O(i).class \cap O(j).incompatible # {}
                    \/ O(i).incompatible \cap O(j).class # {}
            \/ Site(i).access # {} /\ v.access \cap Site(i).access = {}
            \/ \E limit \in Site(i).maxKg, kg \in v.kg : kg > limit)

CheckReloads(p, route) ==
    LET v == p.vehicles[route.vehicle]
        reloads == {i \in DOMAIN route.steps : route.steps[i].type = "RELOAD"}
    IN  Broken("INV-11", \/ Cardinality(reloads) > v.maxReloads
                         \/ \E i \in reloads :
                                route.steps[i].at \notin v.reloadAt)

\* _charged_to: as full as the plug could make it in the time it had.
ChargedTo(v, soc, step) ==
    LET battery == CHOOSE b \in v.battery : TRUE
        Makes(to) == ChargeSeconds(battery, v.curve, soc, to)
                        <= step.departure - step.start
    IN  Max({to \in soc..PPT : \A x \in (soc + 1)..to : Makes(x)})

\* The charge is recomputed from distances; what the steps claim is not read.
BatteryStep(v, was, soc, step) ==
    IF ~was.ok THEN was
    ELSE IF soc < 0 \/ (step.type = "CHARGE" /\ step.at \notin v.chargers)
    THEN [was EXCEPT !.ok = FALSE]
    ELSE [ok |-> TRUE, soc |-> IF step.type = "CHARGE"
                               THEN ChargedTo(v, soc, step) ELSE soc]

CheckBattery(p, route) ==
    LET v == p.vehicles[route.vehicle]
        steps == route.steps
        Drawn(i) == ConsumedPpt(CHOOSE b \in v.battery : TRUE, v.whPerKm,
                                p.dist[steps[i - 1].at][steps[i].at])
        after[i \in 1..Len(steps)] ==
            IF i = 1 THEN [ok |-> TRUE, soc |-> v.soc]
            ELSE BatteryStep(v, after[i - 1], after[i - 1].soc - Drawn(i),
                             steps[i])
    IN  Broken("INV-16", v.battery # {} /\ steps # <<>>
                            /\ ~after[Len(steps)].ok)

-----------------------------------------------------------------------------
(* Checks over several routes.                                             *)

\* INV-12: vehicles loading or reloading at a depot at once.
CheckDocks(p, sol) ==
    LET steps == {x \in AllSteps(sol) : x[2] <= Len(sol.routes[x[1]].steps)}
        spans == {x \in steps : /\ At(sol, x).type \in {"START", "RELOAD"}
                                /\ At(sol, x).departure > At(sol, x).start}
        Together(x) == {y \in spans :
                            /\ At(sol, y).at = At(sol, x).at
                            /\ At(sol, y).start <= At(sol, x).start
                            /\ At(sol, x).start < At(sol, y).departure}
    IN  Broken("INV-12", \E x \in spans :
            \E bays \in p.locations[At(sol, x).at].dock :
                Cardinality(Together(x)) > bays)

\* INV-13: what leaves a depot, over every route that starts there.
CheckInventory(p, sol) ==
    LET Drawn(l, d) ==
            SumOver({x \in Serving(sol) :
                        /\ p.vehicles[sol.routes[x[1]].vehicle].start = l
                        /\ p.orders[OrderOf(At(sol, x))].delivery # {}},
                    LAMBDA x : Get(p.orders[OrderOf(At(sol, x))].qty, d))
    IN  Broken("INV-13", \E l \in DOMAIN p.locations :
            \E d \in DOMAIN p.locations[l].inventory :
                Drawn(l, d) > p.locations[l].inventory[d])

\* INV-14: aboard from leaving the pickup to reaching the delivery.
CheckRideTimes(p, sol) ==
    Broken("INV-14", \E x, y \in Serving(sol) :
        /\ x[1] = y[1] /\ x[2] < y[2]
        /\ At(sol, x).serves = At(sol, y).serves
        /\ At(sol, x).type = "PICKUP" /\ At(sol, y).type = "DELIVERY"
        /\ \A z \in Serving(sol) :
                z[1] = x[1] /\ z[2] \in (x[2] + 1)..(y[2] - 1)
                    => At(sol, z).serves # At(sol, x).serves
        /\ \E m \in p.orders[OrderOf(At(sol, x))].maxRide :
                At(sol, y).arrival - At(sol, x).departure > m)

\* INV-17: a route leaves after the goods it carries exist.
CheckReleaseTimes(p, sol) ==
    Broken("INV-17", \E x \in Serving(sol) :
        /\ p.orders[OrderOf(At(sol, x))].release # 0
        /\ sol.routes[x[1]].steps[1].departure
                < p.orders[OrderOf(At(sol, x))].release)

\* INV-15: coupled orders are on two routes and as far apart as they may be.
\* The last step that serves an order stands for it.
Final(places) ==
    {x \in places : \A y \in places : y[1] < x[1] \/ (y[1] = x[1] /\ y[2] <= x[2])}
Lag(kind, one, other) ==
    IF kind = "TRANSFER" THEN other.start - one.departure
    ELSE Max({other.start - one.start, one.start - other.start})
Meets(s, sol, a, b) ==
    /\ sol.routes[a[1]].vehicle # sol.routes[b[1]].vehicle
    /\ \A gap \in {Lag(s.kind, At(sol, a), At(sol, b))} :
            gap >= s.minGap /\ \A m \in s.maxGap : gap <= m
CheckSynchronisation(p, sol) ==
    LET Where(o) == {x \in Serving(sol) : At(sol, x).serves = {o}}
    IN  Broken("INV-15", \E s \in p.syncs :
            \E a \in Final(Where(s.first)), b \in Final(Where(s.second)) :
                ~Meets(s, sol, a, b))

-----------------------------------------------------------------------------
(* INV-8: locks.                                                           *)

\* The orders of a vehicle's route in the order they are served.
Sequence(sol, vid) ==
    LET mine == {r \in DOMAIN sol.routes : sol.routes[r].vehicle = vid}
        steps == IF mine = {} THEN <<>> ELSE sol.routes[Max(mine)].steps
        serving == SelectSeq(steps, LAMBDA s : s.serves # {})
    IN  [i \in DOMAIN serving |-> OrderOf(serving[i])]

\* The vehicle that carries the order, where one does; of several, the last.
Carrier(sol, o) ==
    LET on == {x[1] : x \in {y \in Serving(sol) : At(sol, y).serves = {o}}}
    IN  IF on = {} THEN {} ELSE {sol.routes[Max(on)].vehicle}

FirstIndex(seq, o) == Min({i \in DOMAIN seq : seq[i] = o})

\* FREEZE_UNTIL: whatever is served before the instant is pinned by a lock.
PinnedOrders(p) ==
    UNION {LockOrders(k) : k \in {j \in p.locks : j.kind \in
            {"FIX_ROUTE_PREFIX", "FIX_SEQUENCE", "PIN_ORDER_TO_VEHICLE"}}}

\* _check_one_lock.
LockHolds(p, sol, k) ==
    CASE k.kind = "PIN_ORDER_TO_VEHICLE" -> Carrier(sol, k.order) = {k.vehicle}
      [] k.kind = "FORBID_ORDER_ON_VEHICLE" ->
            k.vehicle \notin Carrier(sol, k.order)
      [] k.kind = "FIX_ROUTE_PREFIX" ->
            IsPrefix(k.orders, Sequence(sol, k.vehicle))
      [] k.kind = "FIX_SEQUENCE" ->
            LET served == Sequence(sol, k.vehicle)
                here == SelectSeq(k.orders, LAMBDA o : o \in Range(served))
            IN  \A i, j \in DOMAIN here :
                    i < j => FirstIndex(served, here[i])
                                <= FirstIndex(served, here[j])
      [] k.kind = "FORCE_DEPLOY" -> Sequence(sol, k.vehicle) # <<>>
      [] k.kind = "FORBID_DEPLOY" -> Sequence(sol, k.vehicle) = <<>>
      [] k.kind = "PIN_DEPOT" ->
            {p.vehicles[v].start : v \in Carrier(sol, k.order)} = {k.depot}
      [] k.kind = "FREEZE_UNTIL" ->
            \A x \in Serving(sol) : At(sol, x).start < k.instant
                => OrderOf(At(sol, x)) \in PinnedOrders(p)

CheckLocks(p, sol) ==
    Broken("INV-8", \E k \in p.locks : ~LockHolds(p, sol, k))

-----------------------------------------------------------------------------
\* INV-9: the reported components that can be recomputed are.  A break is a
\* step like any other here.
CheckObjective(p, sol) ==
    LET legs == {x \in AllSteps(sol) :
                    x[2] > 1 /\ x[2] <= Len(sol.routes[x[1]].steps)}
        Prev(x) == At(sol, <<x[1], x[2] - 1>>)
        total == [ distance |-> SumOver(legs, LAMBDA x :
                        p.dist[Prev(x).at][At(sol, x).at]),
                   driving |-> SumOver(legs, LAMBDA x :
                        TravelBetween(p, Prev(x).at, At(sol, x).at,
                                      Prev(x).departure)) ]
    IN  Broken("INV-9", \E c \in DOMAIN total \cap DOMAIN sol.claimed :
                            sol.claimed[c] # total[c])

\* A leg no road connects: reading its travel raises UnreachableArc, which
\* nothing between the matrix and the caller of verify handles.
Raises(p, sol) ==
    \E x \in AllSteps(sol) :
        /\ x[2] > 1 /\ x[2] <= Len(sol.routes[x[1]].steps)
        /\ ~Reachable(p, At(sol, <<x[1], x[2] - 1>>).at, At(sol, x).at)

\* verify: the invariants found broken.
Verify(p, sol) ==
    CheckCoverage(p, sol)
    \cup UNION {CheckRoute(p, sol.routes[r])
                \cup CheckHoursOfService(p, sol.routes[r])
                \cup CheckCompatibility(p, sol.routes[r])
                \cup CheckReloads(p, sol.routes[r])
                \cup CheckBattery(p, sol.routes[r]) : r \in DOMAIN sol.routes}
    \cup CheckDocks(p, sol) \cup CheckInventory(p, sol)
    \cup CheckRideTimes(p, sol) \cup CheckReleaseTimes(p, sol)
    \cup CheckSynchronisation(p, sol) \cup CheckLocks(p, sol)
    \cup CheckObjective(p, sol)

\* The invariants verify reports as not applicable.
NotApplicable(p) ==
    Broken("INV-7", \A v \in Range(p.vehicles) : v.hos = {})
    \cup Broken("INV-8", p.locks = {})
    \cup Broken("INV-13", \A l \in Range(p.locations) :
                            DOMAIN l.inventory = {})
    \cup Broken("INV-14", \A o \in Range(p.orders) : o.maxRide = {})
    \cup Broken("INV-15", p.syncs = {})
    \cup Broken("INV-17", \A o \in Range(p.orders) : o.release = 0)
=============================================================================
