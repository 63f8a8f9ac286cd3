---------------------------- MODULE PlanReports ----------------------------
(***************************************************************************)
(* What is said of a plan to the people who use it: quotes (vrp/quote.py), *)
(* the allocation block (vrp/allocate.py), explanations (vrp/explain.py)   *)
(* and the verification request (vrp/api.py).  Plans here are the          *)
(* evaluator's assignments, functions from vehicles to sequences of        *)
(* orders, or the verifier's solutions.                                    *)
(***************************************************************************)
EXTENDS Objective, Preflight

\* _length of quote.py and explain.py: depot to depot.
RouteLength(p, vid, seq) ==
    LET places == Places(p, vid, seq)
    IN  SumOver(2..Len(places), LAMBDA i : p.dist[places[i - 1]][places[i]])

\* current[:position] + [order] + current[position:]
Placed(seq, position, o) ==
    SubSeq(seq, 1, position) \o <<o>> \o SubSeq(seq, position + 1, Len(seq))

Without(seq, o) == SelectSeq(seq, LAMBDA x : x # o)

-----------------------------------------------------------------------------
(* Quotes.                                                                 *)

\* _cost_of_serving: the objective, without what is charged for the rest.
CostOfServing(p, plan, w) ==
    Evaluate(p, plan, w)
        - SumOver(DOMAIN p.orders \ Served(plan), LAMBDA o :
            IF p.orders[o].prize # 0 THEN p.orders[o].prize ELSE w.unassigned)

Placements(p, plan, o) ==
    {x \in (DOMAIN plan) \X (0..Cardinality(DOMAIN p.orders)) :
        /\ x[2] <= Len(plan[x[1]])
        /\ RouteIsLegal(p, x[1], Placed(plan[x[1]], x[2], o))}

\* quote_insertion: the least detour picks, the first one found among equals,
\* and the objective prices.  Empty when there is no room.
QuoteInsertion(p, plan, o, w) ==
    LET Detour(x) == RouteLength(p, x[1], Placed(plan[x[1]], x[2], o))
                        - RouteLength(p, x[1], plan[x[1]])
        Sooner(x, y) == \/ Detour(x) < Detour(y)
                        \/ /\ Detour(x) = Detour(y)
                           /\ x[1] < y[1] \/ (x[1] = y[1] /\ x[2] <= y[2])
        Best(placements) ==
            {x \in placements : \A y \in placements : Sooner(x, y)}
        Trial(x) == [plan EXCEPT ![x[1]] = Placed(@, x[2], o)]
    IN  {[vehicle |-> x[1], route |-> Placed(plan[x[1]], x[2], o),
          price |-> CostOfServing(p, Trial(x), w) - CostOfServing(p, plan, w)]
            : x \in Best(Placements(p, plan, o))}

\* quote_removal, of an order some route carries.
QuoteRemoval(p, plan, o, w) ==
    LET carrier == Min({v \in DOMAIN plan : o \in Range(plan[v])})
        trial == [plan EXCEPT ![carrier] = Without(@, o)]
    IN  [vehicle |-> carrier, route |-> trial[carrier],
         price |-> CostOfServing(p, trial, w) - CostOfServing(p, plan, w)]

-----------------------------------------------------------------------------
(* Allocation.                                                             *)

\* _utilisation: the peak load, in every dimension the vehicle declares.
Utilisation(p, vid, line) ==
    LET cap == p.vehicles[vid].cap
        Peak(d) == Max({0} \cup {Get(line[i].load, d) : i \in DOMAIN line})
    IN  [d \in DOMAIN cap |->
            IF cap[d] = 0 THEN 0 ELSE (Peak(d) * PPT) \div cap[d]]

\* _entry and _travelled: an idle vehicle is reported and costs nothing.
EntryOf(p, vid, seq, line, rates) ==
    LET v == p.vehicles[vid]
        idle == seq = <<>>
        available == v.shift.end - v.shift.start
        used == IF idle THEN 0 ELSE Last(line).arrival - line[1].departure
    IN  [ deployed |-> ~idle, orders |-> Len(seq),
          utilisation |-> IF idle THEN [d \in DOMAIN v.cap |-> 0]
                          ELSE Utilisation(p, vid, line),
          dutyUsed |-> used, dutyAvailable |-> available,
          dutyPpt |-> IF available <= 0 THEN 0
                      ELSE (used * PPT) \div available,
          fixed |-> IF idle THEN 0 ELSE rates.fixed,
          operating |-> IF idle THEN 0
                        ELSE Along(p.dist, line) * rates.metre
                                + Along(p.dur, line) * rates.second
                                + Len(seq) * rates.order ]

AllocationEntry(p, spec, vid, seq) ==
    EntryOf(p, vid, seq, Timeline(p, vid, seq), Rates(p, spec, vid))

Allocate(p, plan, spec) ==
    [v \in DOMAIN p.vehicles |->
        AllocationEntry(p, spec, v,
                        IF v \in DOMAIN plan THEN plan[v] ELSE <<>>)]

\* _cost_of: the tiers that are money.
Money(values) == values.FLEET + values.OPERATING + values.UNSERVED
PlanPrice(p, sol, spec) == Money(Score(p, sol, spec, {}))

\* _abandoned: the re-solve failed, dropped must-serve work or is illegal.
Abandoned(p, replanned) ==
    \/ replanned = {}
    \/ \E sol \in replanned :
        \/ \E o \in DOMAIN p.orders :
                p.orders[o].tier = 0 /\ o \notin DOMAIN ServedBy(sol)
        \/ \E v \in DOMAIN p.vehicles :
                /\ Sequence(sol, v) # <<>>
                /\ ~RouteIsLegal(p, v, Sequence(sol, v))

\* _without, where a vehicle is left.
WithoutVehicle(p, vid) ==
    [p EXCEPT !.vehicles = [v \in DOMAIN p.vehicles \ {vid} |-> p.vehicles[v]],
              !.locks = {k \in @ : "vehicle" \in DOMAIN k => k.vehicle # vid}]

\* marginal_values: the value of each vehicle, empty where the fleet cannot
\* manage without it.  replanned is what the caller's engine makes of the
\* instance without the vehicle.
MarginalValue(p, sol, spec, vid, replanned) ==
    IF DOMAIN p.vehicles = {vid} \/ Abandoned(p, replanned) THEN {}
    ELSE {PlanPrice(p, s, spec) - PlanPrice(p, sol, spec) : s \in replanned}

-----------------------------------------------------------------------------
(* Explanations.                                                           *)

\* explain_assignment: where the order is, and what skipping it would save.
ExplainAssignment(p, sol, o) ==
    LET x == CHOOSE y \in Serving(sol) : /\ At(sol, y).serves = {o}
                /\ \A z \in Serving(sol) : At(sol, z).serves = {o} =>
                        y[1] < z[1] \/ (y[1] = z[1] /\ y[2] <= z[2])
        vid == sol.routes[x[1]].vehicle
        carried == Sequence(sol, vid)
    IN  [ vehicle |-> vid, position |-> FirstIndex(carried, o),
          arrival |-> At(sol, x).arrival,
          marginal |-> RouteLength(p, vid, carried)
                        - RouteLength(p, vid, Without(carried, o)) ]

\* _earliest_arrival: straight out, any vehicle.
EarliestArrival(p, o) ==
    LET at == StopOf(o).at
    IN  {Max({v.shift.start, o.release}) + p.dur[v.start][at] :
            v \in {w \in Range(p.vehicles) : Reachable(p, w.start, at)}}

\* _round_trip: out, served and back the way it came.
RoundTrip(p, o) ==
    Min({v.shift.start + 2 * p.dur[v.start][StopOf(o).at] + StopOf(o).fixed :
            v \in Range(p.vehicles)})

\* _remedy: the edits offered for a reason code, as <<what, to what>>.
Remedy(p, oid, code) ==
    LET o == p.orders[oid]
        site == p.locations[StopOf(o).at]
        Each(what, S) == {<<what, x>> : x \in S}
        amounts == {<<d, o.qty[d]>> : d \in DOMAIN o.qty}
    IN  CASE code = "TIME_WINDOW_UNREACHABLE" ->
                IF EarliestArrival(p, o) = {} THEN {}
                ELSE {<<"window_end", Min(EarliestArrival(p, o))>>}
          [] code = "CAPACITY_EXCEEDED" -> Each("vehicle_capacity", amounts)
          [] code = "NO_ELIGIBLE_VEHICLE" ->
                IF o.skills # {} THEN Each("vehicle_skill", o.skills)
                ELSE IF site.access # {}
                THEN Each("vehicle_access_class", site.access)
                ELSE Each("vehicle_gross_weight_kg", site.maxKg)
          [] code = "DEPOT_STOCKOUT" -> Each("depot_inventory", amounts)
          [] code = "RELEASE_AFTER_WINDOW" ->
                {<<"release_time", Min({w.start : w \in HardWindows(o)})>>}
          [] code = "DUTY_LIMIT" -> {<<"vehicle_shift_end", RoundTrip(p, o)>>}
          [] OTHER -> {}

RemedyFor(p, o, found) ==
    IF o \in DOMAIN found THEN Remedy(p, o, found[o]) ELSE {}
WouldFitIf(p, o) == RemedyFor(p, o, Findings(p))

\* explain: every order, one way or the other.
Rejected(p, o, found) ==
    LET code == IF o \in DOMAIN found THEN found[o] ELSE "FLEET_EXHAUSTED"
    IN  [code |-> code, changes |-> Remedy(p, o, code)]
ExplainWith(p, sol, served, found) ==
    [ assigned |-> [o \in served |-> ExplainAssignment(p, sol, o)],
      rejected |-> [o \in DOMAIN p.orders \ served |-> Rejected(p, o, found)] ]
Explain(p, sol) == ExplainWith(p, sol, DOMAIN ServedBy(sol), Findings(p))

WithoutOrder(p, o) ==
    [p EXCEPT !.orders = [x \in DOMAIN p.orders \ {o} |-> p.orders[x]]]

-----------------------------------------------------------------------------
(* The verification request.  What _problem, _order, _stop, _window and    *)
(* _vehicle do not read has the default of its class.                      *)

ReadWindow(w) == [w EXCEPT !.early = 0, !.late = 0]

ReadStop(s) ==
    [s EXCEPT !.windows = [i \in DOMAIN s.windows |-> ReadWindow(s.windows[i])],
              !.perUnit = 0, !.unit = {}]

ReadOrder(o) ==
    [o EXCEPT !.pickup = {ReadStop(s) : s \in o.pickup},
              !.delivery = {ReadStop(s) : s \in o.delivery},
              !.release = 0, !.skills = {}, !.maxRide = {}, !.class = {},
              !.incompatible = {}, !.source = "COMMERCIAL"]

ReadVehicle(v) ==
    [v EXCEPT !.shift = ReadWindow(v.shift), !.maxDuration = {},
              !.maxDistance = {}, !.skills = {}, !.fixedCost = 0,
              !.perMetre = 0, !.perSecond = 0, !.perOrder = 0, !.overtime = 0,
              !.factor = PPT, !.reloadAt = {}, !.maxReloads = 0,
              !.reloadTime = 0, !.battery = {}, !.whPerKm = 0,
              !.chargers = {}, !.curve = <<>>, !.soc = PPT, !.access = {},
              !.kg = {}, !.carry = {}, !.open = FALSE, !.mode = "driving"]

ReadProblem(p) ==
    [p EXCEPT !.locations = [l \in DOMAIN @ |->
                    [@[l] EXCEPT !.dwell = 0, !.dock = {}, !.access = {},
                                 !.maxKg = {}]],
              !.orders = [o \in DOMAIN @ |-> ReadOrder(@[o])],
              !.vehicles = [v \in DOMAIN @ |-> ReadVehicle(@[v])],
              !.syncs = {}, !.profile = {}, !.profiles = {}]

\* verify_request: the block an integrator reads.
RequestBlock(broken, notApplicable) ==
    LET evaluated == {"INV-1", "INV-2", "INV-3", "INV-4", "INV-5", "INV-6",
                      "INV-7", "INV-8", "INV-9", "INV-10", "INV-11", "INV-12",
                      "INV-13"}
    IN  [ ok |-> broken = {}, hard |-> broken,
          passed |-> (evaluated \ notApplicable) \ broken,
          notApplicable |-> notApplicable ]
VerifyRequest(p, sol) ==
    RequestBlock(Verify(ReadProblem(p), sol), NotApplicable(ReadProblem(p)))
=============================================================================
