------------------------------ MODULE PlanUses ------------------------------
(***************************************************************************)
(* What is done with a plan after it is made: its routes are recombined,   *)
(* charged and driven, a driver's day is read back and resumed, periods    *)
(* are compared, fleets are sized on it, and its refusals are acted on.    *)
(* Each property asks that two parts of the package that meet over the     *)
(* plan in hand say the same of it.                                        *)
(***************************************************************************)
EXTENDS Plans

CONSTANT RESERVE_PPT    \* what a van must still hold: 100 of 1000

-----------------------------------------------------------------------------
(***************************************************************************)
(* Where an electric van charges, vrp/electric.py: one route is repaired,  *)
(* one shortfall at a time.  A route is a sequence of orders, charges a    *)
(* function from positions of orders to the charge that comes before them. *)
(***************************************************************************)

OrderServed(step) == CHOOSE o \in step.serves : TRUE

\* _first_shortfall: of the timeline, 0 where there is none.
FirstShortfall(line) ==
    LET low == {i \in DOMAIN line : \E s \in line[i].soc : s < RESERVE_PPT}
    IN  IF low = {} THEN 0 ELSE Min(low)

\* _order_index: the last order served up to the shortfall; the first one
\* where none has been.
OrderIndex(line, shortfall, seq) ==
    LET served == {i \in 1..shortfall : line[i].serves # {}}
    IN  IF served = {} THEN 1
        ELSE Min({i \in DOMAIN seq : seq[i] = OrderServed(line[Max(served)])})

\* _position_before.
PositionBefore(p, v, seq, index) ==
    IF index = 1 THEN v.start ELSE StopOf(p.orders[seq[index - 1]]).at

\* _target: the rest of the round and the reserve, at most a full battery.
ChargeTarget(p, v, seq, index, charger) ==
    LET battery == CHOOSE b \in v.battery : TRUE
        places == <<charger>> \o [i \in 1..(Len(seq) - index + 1) |->
                        StopOf(p.orders[seq[index + i - 1]]).at]
                    \o <<EndsAt(v)>>
        needed == RESERVE_PPT + SumOver(2..Len(places), LAMBDA i :
                    ConsumedPpt(battery, v.whPerKm,
                                p.dist[places[i - 1]][places[i]]))
    IN  Min({PPT, needed})

\* The chargers in reach with what is left in the battery.
InReach(p, v, here, available) ==
    LET battery == CHOOSE b \in v.battery : TRUE
    IN  {c \in v.chargers :
            ConsumedPpt(battery, v.whPerKm, p.dist[here][c]) <= available}

\* _charge_before: the first charger within reach, as a set that is empty
\* when there is none.  The charge at hand is read off the timeline by the
\* order's index: charges already planned shift the steps and not the index.
ChargeBefore(p, v, seq, index, line) ==
    LET near == InReach(p, v, PositionBefore(p, v, seq, index),
                        Or(line[index].soc, 0))
    IN  {[at |-> c, to |-> ChargeTarget(p, v, seq, index, c)] :
            c \in {x \in near : \A y \in near : x <= y}}

\* One round of plan_charging over the timeline as it is charged so far.
RepairAt(p, v, seq, r, line, index) ==
    LET charge == ChargeBefore(p, v, seq, index, line)
    IN  IF charge = {} THEN [r EXCEPT !.ok = FALSE]
        ELSE [r EXCEPT !.charges = [i \in DOMAIN @ \cup {index} |->
                    IF i = index THEN CHOOSE c \in charge : TRUE ELSE @[i]]]

Repair(p, v, seq, r, line) ==
    IF FirstShortfall(line) = 0 THEN [r EXCEPT !.done = TRUE]
    ELSE RepairAt(p, v, seq, r, line,
                  OrderIndex(line, FirstShortfall(line), seq))

\* plan_charging: [ok, charges]; not ok where it raises NoChargerReachable.
PlanCharging(p, vid, seq) ==
    LET v == p.vehicles[vid]
        Again(r) ==
            IF r.done \/ ~r.ok THEN r
            ELSE Repair(p, v, seq, r,
                        BuildTimeline(p, vid, seq, v.shift.start, r.charges))
        after[n \in Nat] ==
            IF n = 0 THEN [ok |-> TRUE, done |-> FALSE, charges |-> <<>>]
            ELSE Again(after[n - 1])
        Planned(r) == [ok |-> r.ok /\ r.done, charges |-> r.charges]
    IN  IF v.battery = {} \/ seq = <<>> THEN [ok |-> TRUE, charges |-> <<>>]
        ELSE Planned(after[Len(seq) + 1])

-----------------------------------------------------------------------------
AllServed == Served(Assignment) = DOMAIN problem.orders

-----------------------------------------------------------------------------

\* setpartition: of a pool that holds the routes of a legal plan, the chosen
\* columns serve every order, cost no more than that plan and pass the
\* verifier as they are scheduled.  (Of a stop with several windows the
\* scheduler reads the first alone, and may serve it between two.)
RecombinedIsSound ==
    LET columns == {<<v, Assignment[v]>> : v \in DOMAIN acts}
        alone == {<<v, <<o>>>> : v \in DOMAIN acts,
                                 o \in DOMAIN problem.orders}
        plan == {c \in columns : c[2] # <<>>}
    IN  /\ JobsOnly /\ AllServed /\ FreeFlow
        /\ \A v \in Range(problem.vehicles) : v.end # {} /\ v.battery = {}
        /\ \A o \in Range(problem.orders) : Len(StopOf(o).windows) <= 1
        => \A pool \in {Pool(problem, columns \cup alone)} :
           \A selected \in {SelectRoutes(problem, pool)} :
           /\ plan \subseteq pool => selected # {}
           /\ \A chosen \in selected :
                /\ plan \subseteq pool =>
                    PartitionCost(problem, chosen)
                        <= PartitionCost(problem, plan)
                /\ Verify(problem, Recombined(problem, chosen))
                        \subseteq BeyondTheRoute

\* electric: a round with the charges planned for it keeps its charge as the
\* verifier recomputes it, and a round that needs none is left alone.
ChargedRoundHoldsOut ==
    \A v \in DOMAIN acts :
        LET van == problem.vehicles[v]
            seq == Assignment[v]
            Line(charges) ==
                BuildTimeline(problem, v, seq, van.shift.start, charges)
        IN  JobsOnly /\ van.battery # {} /\ seq # <<>> =>
              \A plan \in {PlanCharging(problem, v, seq)} :
                /\ plan.ok => CheckBattery(problem,
                    [vehicle |-> v, steps |-> Line(plan.charges)]) = {}
                /\ FirstShortfall(Line(<<>>)) = 0
                        => plan = [ok |-> TRUE, charges |-> <<>>]

\* timedependent, "the no-passing property": who leaves later arrives no
\* earlier, and the bound of the filter prunes nothing that would have made
\* its deadline.
TrafficKeepsOrder ==
    (\A v \in DOMAIN acts : acts[v] = <<>>) => \A f \in problem.profile :
        LET places == DOMAIN problem.dur
            day == f.bucket * Len(f.multipliers)
            moves == {<<problem.dur[a][b], d, d + problem.dur[a][b] + x>> :
                        a \in places, b \in places, d \in 0..day, x \in 0..2}
            late == FilterMoves(moves, f)
            Arrives(m) == m[2] + Travel(m[1], m[2], f)
        IN  /\ ValidProfile(f)
            /\ \A m \in late.pruned : Arrives(m) > m[3]
            /\ \A m \in moves : Arrives(m) <= Arrives([m EXCEPT ![2] = @ + 1])

-----------------------------------------------------------------------------

\* The tachograph of a route driven as it was scheduled.
Feed(steps) ==
    LET Record(activity, a, b) == [activity |-> activity, start |-> a, end |-> b]
        Of(i) == LET s == steps[i]
                 IN  IF s.type = "BREAK"
                     THEN <<Record("DRIVE", steps[i - 1].departure, s.arrival),
                            Record("BREAK", s.start, s.departure)>>
                     ELSE <<Record("DRIVE", steps[i - 1].departure, s.arrival),
                            Record("WAIT", s.arrival, s.start),
                            Record("WORK", s.start, s.departure)>>
    IN  FlattenSeq([i \in 1..(Len(steps) - 1) |-> Of(i + 1)])

\* hos: of a duty scheduled with its breaks, the hours read back from its
\* tachograph are those the scheduler accounted, and a van resumed after any
\* of its stops ends the duty as it would have.
ResumingChangesNothing ==
    \A v \in {u \in DOMAIN acts : problem.vehicles[u].hos # {}} :
        LET van == problem.vehicles[v]
            rules == {RULES[h] : h \in van.hos}
            seq == Assignment[v]
            Past(steps, k) ==
                SubSeq(steps, 1, CHOOSE i \in DOMAIN steps :
                                        steps[i].serves = {seq[k]})
            Resumed(past) ==
                [ResumeFrom(van, Feed(past)) EXCEPT
                    !.start = Last(past).at, !.end = {EndsAt(van)}]
            Rest(past, k) == ScheduleRoute(
                        [problem EXCEPT !.vehicles[v] = Resumed(past)], v,
                        SubSeq(seq, k + 1, Len(seq)), rules,
                        Last(past).departure)
        IN  van.carry = {} =>
            \A whole \in {ScheduleRoute(problem, v, seq, rules,
                                        van.shift.start)} :
            whole.legal =>
                /\ ReadableFeed(Feed(whole.steps))
                /\ \A r \in rules :
                        ReadDuty(Feed(whole.steps), r) = whole.driver
                /\ \A k \in DOMAIN seq :
                    \A rest \in {Rest(Past(whole.steps, k), k)} :
                        /\ rest.legal /\ rest.driver = whole.driver
                        /\ Last(rest.steps).arrival
                                = Last(whole.steps).arrival

\* window_attainment and lateness count the same stops: everything promised
\* is on time exactly when nothing is late, and of a legal route nothing that
\* was promised firmly is.
AttainmentAgrees ==
    JobsOnly => \A r \in Range(Evaluated.routes) :
    \A kept \in {WindowAttainment(problem, r.steps)} :
        LET firm == \A o \in Range(Assignment[r.vehicle]) :
                        \A w \in Range(StopOf(problem.orders[o]).windows) :
                            w.hard
        IN  /\ (kept.worst = 0) <=> (kept.onTime = kept.promised)
            /\ (AttainedPpt(kept) = PPT) <=> (kept.lateness = 0)
            /\ firm /\ RouteIsLegal(problem, r.vehicle, Assignment[r.vehicle])
                    => kept.worst = 0

-----------------------------------------------------------------------------

ServicesAreGiven(seen) ==
    LET given == {ServiceTime(problem, problem.orders[o],
                        problem.vehicles[v], StopOf(problem.orders[o]).at) :
                    o \in DOMAIN problem.orders, v \in DOMAIN acts}
        waited == \E r \in Range(Evaluated.routes) : \E s \in Range(r.steps) :
                        s.start > s.arrival
    IN  /\ Len(seen) = Cardinality(Served(Assignment))
        /\ \A proposed \in
                {AsServiceFixed(problem, FitGroups(seen, 1).fitted)} :
            \A o \in DOMAIN proposed :
                /\ proposed[o] >= Min(given)
                /\ ~waited => proposed[o] \in given
WeekIsPredicted(legs, week) ==
    /\ week.report.arcs = Len(legs) /\ week.report.worst = 0
    /\ \A profiles \in {AsProfiles(week.fit, BUCKET, BUCKETS)} :
        \A c \in DOMAIN profiles :
            /\ ValidProfile(profiles[c])
            /\ \A b \in Defaulted(week.fit, BUCKETS, c) :
                    profiles[c].multipliers[b + 1] = PPT
            /\ \A leg \in Range(legs) : leg.key[1] = c =>
                    Travel(leg.free, leg.departed, profiles[c])
                        = leg.observed

\* calibrate and speedfit, of a plan driven to the second: every stop is
\* observed once, a service is proposed that is one somebody was given, where
\* nobody had to wait for a window, and never a shorter one; the profiles of
\* a week driven at free flow are profiles, predict each leg of the next week
\* without error, and default where nobody drove.
PracticeIsCalibrated ==
    JobsOnly /\ FreeFlow =>
        \A driven \in {Executed} :
            /\ \A r \in Range(driven) : ValidExecuted(problem, r) /\ ~ClockFault(r)
            /\ ServicesAreGiven(Observations(problem, driven))
            /\ WeekIsPredicted(
                    Traversals(problem, driven, BUCKET).kept,
                    Recalibrate(problem, <<driven, driven>>, 1, BUCKET))

\* rollout: the canary goes when none of its days would have been raised as a
\* divergence at the limit it names.
DivergencesStopCanaries ==
    JobsOnly =>
        \A days \in {Shadow(problem, Intended, Executed)} :
            \A c \in Canaries :
                LET mine == SelectSeq(days, LAMBDA d : d.depot_id = c.depot)
                IN  DOMAIN c.criteria = {"adherence"} /\ Decide(c, days).go
                        => Divergences(mine, c.criteria.adherence) = <<>>

-----------------------------------------------------------------------------
(* Several periods.                                                        *)

\* The period before: every route was the next vehicle's.
Rotated ==
    LET n == Cardinality(DOMAIN acts)
    IN  [v \in DOMAIN Assignment |-> Assignment[(v % n) + 1]]

Length(plan) ==
    SumOver({v \in DOMAIN plan : plan[v] # <<>>},
            LAMBDA v : RouteLength(problem, v, plan[v]))
ChurnIsCounted(horizon) ==
    LET before == horizon[1]
        now == horizon[2]
        served == Served(Assignment)
    IN  /\ ChurnCost(before, now, 1, 0)
            = Cardinality({o \in served : DistinctDrivers(horizon, o) > 1})
        /\ (\A o \in served : /\ DistinctDrivers(horizon, o) = 1
                              /\ ArrivalSpread(horizon, o) = 0)
                => ChurnCost(before, now, 1, 1) = 0
        /\ ConsistencyPrice(problem, before, now).delta
                = Length(Assignment) - Length(Rotated)
WindowsStayKept(leave) ==
    \A v \in {u \in DOMAIN acts : Assignment[u] # <<>>} :
        ShiftFits(problem, v, Assignment[v],
                  problem.vehicles[v].shift.start, {})
            => ShiftFits(problem, v, Assignment[v], leave[v], {})

\* stability and consistency: a customer whose driver and arrival never vary
\* costs no churn, each change of driver is one move, the price of a period is
\* the difference of its routes; departures that are aligned keep the windows
\* the route kept; territories split the customers evenly.
PeriodsAreComparable ==
    JobsOnly /\ FreeFlow /\ DOMAIN acts = 1..Cardinality(DOMAIN acts) =>
        /\ \A horizon \in {<<EvaluatedOf(Rotated), Evaluated>>} :
                /\ ChurnIsCounted(horizon)
                /\ WindowsStayKept(AlignDepartures(problem, horizon, {}))
        /\ \A n \in 1..3 :
            \A zones \in {Territories(SetToSortSeq(DOMAIN problem.orders, <), n)} :
                /\ UNION Range(zones) = DOMAIN problem.orders
                /\ \A a, b \in DOMAIN zones :
                        /\ a # b => zones[a] \cap zones[b] = {}
                        /\ Cardinality(zones[a]) <= Cardinality(zones[b]) + 1

\* scenarios: no mix is cheaper than the one recommended, and none as cheap
\* carries more; what is not carried is paid for; the average day lies
\* between the days it is the average of.
FleetIsRecommended ==
    JobsOnly /\ FreeFlow /\ AllServed =>
        LET first == Min(DOMAIN acts)
            mixes == <<problem.vehicles,
                       [v \in {first} |-> problem.vehicles[first]]>>
            Planned(mix, days) ==
                [d \in DOMAIN days |-> [v \in DOMAIN mix |->
                    SelectSeq(Assignment[v], LAMBDA o : o \in days[d])]]
            Seen(days) == {[m \in DOMAIN mixes |->
                        Measure(problem, mixes[m], days,
                                Planned(mixes[m], days))]}
        IN  \A quiet \in SampledDays(problem, {2}, 0) :
            LET days == <<DOMAIN problem.orders, quiet>>
            IN  \A seen \in Seen(days) :
              LET chosen == seen[Recommend(seen)]
              IN  /\ ServiceLevel(seen[1]) = PPT /\ seen[1].failure = 0
                  /\ \A m \in DOMAIN seen :
                        /\ MixTotal(chosen) <= MixTotal(seen[m])
                        /\ MixTotal(chosen) = MixTotal(seen[m]) =>
                            ServiceLevel(chosen) >= ServiceLevel(seen[m])
                        /\ seen[m].served <= seen[m].offered
                  /\ quiet \subseteq AverageDay(days)
                  /\ AverageDay(days) \subseteq DOMAIN problem.orders

-----------------------------------------------------------------------------
(* What is said of a refusal, and to an integrator.                        *)

\* One change of those an order's refusal offers, made.
Changed(p, o, change) ==
    LET what == change[1]
        to == change[2]
        Longer(s) == [s EXCEPT !.windows = [i \in DOMAIN @ |->
                        IF i = Len(@) /\ @[i].hard
                        THEN [@[i] EXCEPT !.end = Max({@, to})] ELSE @[i]]]
    IN  CASE what = "window_end" ->
                [p EXCEPT !.orders[o].delivery = {Longer(s) : s \in @}]
          [] what = "vehicle_capacity" ->
                [p EXCEPT !.vehicles = [v \in DOMAIN @ |->
                    [@[v] EXCEPT !.cap = (to[1] :> to[2]) @@ @]]]
          [] what = "vehicle_skill" ->
                [p EXCEPT !.vehicles = [v \in DOMAIN @ |->
                    [@[v] EXCEPT !.skills = @ \cup {to}]]]
          [] what = "release_time" -> [p EXCEPT !.orders[o].release = to]
          [] what = "vehicle_access_class" ->
                [p EXCEPT !.vehicles = [v \in DOMAIN @ |->
                    [@[v] EXCEPT !.access = {to}]]]
          [] what = "vehicle_gross_weight_kg" ->
                [p EXCEPT !.vehicles = [v \in DOMAIN @ |->
                    [@[v] EXCEPT !.kg = {to}]]]
          [] what = "depot_inventory" ->
                [p EXCEPT !.locations = [l \in DOMAIN @ |->
                    [@[l] EXCEPT !.inventory = (to[1] :> to[2]) @@ @]]]
          [] what = "vehicle_shift_end" ->
                [p EXCEPT !.vehicles = [v \in DOMAIN @ |->
                    [@[v] EXCEPT !.shift.end = Max({@, to})]]]

\* All the changes an order's refusal offers, made at once.
Remedied(p, o, changes) == FoldSet(LAMBDA c, q : Changed(q, o, c), p, changes)

\* What an order asks of a vehicle, to be allowed to take it.
Asks(p, o) ==
    LET site == p.locations[StopOf(p.orders[o]).at]
    IN  (IF p.orders[o].skills # {} THEN {"skills"} ELSE {})
        \cup (IF site.access # {} THEN {"access"} ELSE {})
        \cup (IF site.maxKg # {} THEN {"weight"} ELSE {})
Named(change) ==
    CASE change = "vehicle_skill" -> "skills"
      [] change = "vehicle_access_class" -> "access"
      [] change = "vehicle_gross_weight_kg" -> "weight"

\* The edits that leave the order where it was: a longer shift is no longer
\* duty; the window is opened to the quickest van, which may not be one that
\* can take the order; and of several things asked one is offered.
Unavailing(p, o) ==
    LET order == p.orders[o]
        Arrival(v) == Max({v.shift.start, order.release})
                        + p.dur[v.start][StopOf(order).at]
    IN  CASE Obstacle(p, o) = "DUTY_LIMIT" -> TRUE
          [] Obstacle(p, o) = "TIME_WINDOW_UNREACHABLE" ->
                \A v \in Usable(p, o) :
                    \/ ~Reachable(p, p.vehicles[v].start, StopOf(order).at)
                    \/ Arrival(p.vehicles[v]) > Min(EarliestArrival(p, order))
          [] Obstacle(p, o) = "NO_ELIGIBLE_VEHICLE" ->
                Cardinality(Asks(p, o)) > 1
          [] OTHER -> FALSE

\* explain, "concrete edits": an order is offered a remedy exactly of what
\* pre-flight found, and once it is applied that is no longer what stands in
\* its way, but for what Unavailing names; and the sentence that says why no
\* vehicle is eligible names what the remedy is for.
RemedyHelps ==
    (\A v \in DOMAIN acts : acts[v] = <<>>) => \A o \in DOMAIN problem.orders :
        \A changes \in {WouldFitIf(problem, o)} :
            /\ changes # {} => o \in DOMAIN Findings(problem)
            /\ changes = {} \/ Unavailing(problem, o)
                \/ Obstacle(Remedied(problem, o, changes), o)
                        # Obstacle(problem, o)
            /\ Obstacle(problem, o) = "NO_ELIGIBLE_VEHICLE"
                    /\ ~Unavailing(problem, o) =>
                \A c \in changes : WhyNoneEligible(problem, o) = Named(c[1])

\* explain: what an order is said to cost its route is what the routes of the
\* instance without it are shorter by; a van left with nothing to do is said
\* to drive to its end all the same.
MarginalIsRefunded ==
    JobsOnly => \A o \in Served(Assignment) :
        LET shorter == [v \in DOMAIN Assignment |-> Without(Assignment[v], o)]
            Idle(v) == IF Assignment[v] = <<o>>
                       THEN RouteLength(problem, v, <<>>) ELSE 0
            said == ExplainAssignment(problem, Evaluated, o)
        IN  DistanceOf(problem, Evaluated)
                - DistanceOf(WithoutOrder(problem, o), EvaluatedOf(shorter))
              = said.marginal + Idle(said.vehicle)

\* allocate.marginal_values: to an engine that leaves the other rounds as they
\* are, a van is worth what its orders would be charged at, less what the
\* allocation block says it costs.
VanIsWorthItsWork ==
    JobsOnly /\ Spec_.mode = "MIN_COST" =>
        LET Charged(o) == Max({problem.orders[o].prize, 1})
        IN  \A block \in {Allocate(problem, Assignment, Spec_)} :
            \A v \in DOMAIN acts :
            \A worth \in MarginalValue(problem, Evaluated, Spec_, v,
                        {EvaluatedOf([Assignment EXCEPT ![v] = <<>>])}) :
                FleetPricesItself(problem)
                    = FleetPricesItself(WithoutVehicle(problem, v)) =>
                  worth = SumOver(Range(Assignment[v]), Charged)
                            - block[v].fixed - block[v].operating

\* api.verify_request: of a day whose times are the defaults of the fields
\* that the request does not carry, what verifies is told to be so, and
\* nothing is called passed that was not looked at.
RequestIsAnswered ==
    LET plain == /\ \A o \in Range(problem.orders) :
                        \A s \in o.pickup \cup o.delivery : s.perUnit = 0
                 /\ \A l \in Range(problem.locations) : l.dwell = 0
                 /\ \A v \in Range(problem.vehicles) : v.factor = PPT
                        /\ v.reloadAt = {} /\ v.battery = {}
    IN  \A answer \in {Answer} : \A said \in {VerifyRequest(problem, answer)} :
            /\ plain /\ FreeFlow /\ Verify(problem, answer) = {} => said.ok
            /\ said.passed \cap (said.hard \cup said.notApplicable) = {}
=============================================================================
