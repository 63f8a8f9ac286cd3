----------------------------- MODULE Evaluator -----------------------------
(***************************************************************************)
(* The canonical evaluator, vrp/evaluator.py: the timeline of a sequence,  *)
(* its metrics, its price and whether a vehicle could drive it.            *)
(*                                                                         *)
(* An assignment is a function from vehicles to sequences of orders.  A    *)
(* timeline is defined on routes whose arcs all exist: the code raises     *)
(* UnreachableArc on any other.                                            *)
(***************************************************************************)
EXTENDS HoursOfService

\* The places of a route, depots included.
Places(p, vid, seq) ==
    LET v == p.vehicles[vid]
    IN  <<v.start>> \o [i \in DOMAIN seq |-> StopOf(p.orders[seq[i]]).at]
            \o <<EndsAt(v)>>

Connected(p, places) ==
    \A i \in 1..(Len(places) - 1) : Reachable(p, places[i], places[i + 1])

\* _service_start: the first window that has not closed applies; after the
\* last of them service starts on arrival, and is late.
ServiceStart(arrival, windows) ==
    LET open == {i \in DOMAIN windows : arrival <= windows[i].end}
    IN  IF open = {} THEN arrival
        ELSE Max({arrival, windows[Min(open)].start})

\* _drained: below zero rather than clamped.  Empty for other engines.
Drained(v, soc, metres) ==
    {s - ConsumedPpt(b, v.whPerKm, metres) : s \in soc, b \in v.battery}

\* The van, driven to a place: its clock is its arrival there.
DriveTo(p, v, s, at) ==
    [s EXCEPT !.clock = @ + TravelBetween(p, s.at, at, s.clock), !.at = at,
              !.soc = Drained(v, @, p.dist[s.at][at])]

\* One more step of the timeline, and the van as the step leaves it.
Stepped(s, soc, step) ==
    [s EXCEPT !.clock = step.departure, !.soc = soc, !.load = step.load,
              !.steps = Append(@, [step EXCEPT !.soc = soc])]

\* _charge_step: a stop at the charger it has come to, priced on the curve.
ChargeStep(v, charge, s) ==
    LET battery == CHOOSE b \in v.battery : TRUE
        soc == CHOOSE c \in s.soc : TRUE
    IN  Stepped(s, {charge.to},
            Step("CHARGE", s.at, s.clock, s.clock,
                 s.clock + ChargeSeconds(battery, v.curve, Max({soc, 0}),
                                         charge.to),
                 {}, s.load))

\* One order of build_timeline, at its stop: wait, serve, unload or load.
OrderStep(p, v, o, s) ==
    LET order == p.orders[o]
        begin == ServiceStart(s.clock, StopOf(order).windows)
        type == IF order.delivery # {} THEN "DELIVERY" ELSE "PICKUP"
    IN  Stepped(s, s.soc,
            Step(type, s.at, s.clock, begin,
                 begin + ServiceTime(p, order, v, s.at), {o},
                 LoadAfter(s.load, order)))

\* build_timeline: charges maps a position to the charge before it.
BuildTimeline(p, vid, seq, start, charges) ==
    LET v == p.vehicles[vid]
        soc == IF v.battery = {} THEN {} ELSE {v.soc}
        after[i \in 0..Len(seq)] ==
            IF i = 0
            THEN [clock |-> start, at |-> v.start, soc |-> soc,
                  load |-> Laden(p, seq),
                  steps |-> <<[Step("START", v.start, start, start, start, {},
                                    Laden(p, seq)) EXCEPT !.soc = soc]>>]
            ELSE OrderStep(p, v, seq[i],
                    DriveTo(p, v,
                        IF i \in DOMAIN charges
                        THEN ChargeStep(v, charges[i],
                                DriveTo(p, v, after[i - 1], charges[i].at))
                        ELSE after[i - 1],
                        StopOf(p.orders[seq[i]]).at))
        End(s) == Stepped(s, s.soc, Step("END", s.at, s.clock, s.clock, s.clock,
                                         {}, s.load)).steps
    IN  End(DriveTo(p, v, after[Len(seq)], EndsAt(v)))

Timeline(p, vid, seq) ==
    BuildTimeline(p, vid, seq, p.vehicles[vid].shift.start, <<>>)

-----------------------------------------------------------------------------
(* Metrics.                                                                *)

WindowsOf(p, step) ==
    IF step.serves = {} THEN <<>>
    ELSE StopOf(p.orders[CHOOSE o \in step.serves : TRUE]).windows

\* soft_penalties: hard windows are never priced.
SoftPenalties(p, step) ==
    LET soft == {i \in DOMAIN WindowsOf(p, step) :
                    ~WindowsOf(p, step)[i].hard}
        Early(i) == LET w == WindowsOf(p, step)[i]
                    IN  Max({0, w.start - step.arrival}) * w.early
        Late(i) == LET w == WindowsOf(p, step)[i]
                   IN  Max({0, step.start - w.end}) * w.late
    IN  [early |-> SumOver(soft, Early), late |-> SumOver(soft, Late)]

\* lateness: seconds past the last window that closed, whatever its hardness.
Lateness(p, step) ==
    LET windows == WindowsOf(p, step)
        closed == {windows[i].end : i \in {j \in DOMAIN windows :
                                             windows[j].end < step.start}}
    IN  IF (\E i \in DOMAIN windows : Within(windows[i], step.start))
           \/ closed = {}
        THEN 0 ELSE step.start - Max(closed)

\* route_metrics: sums over consecutive steps.
RouteMetrics(p, line) ==
    LET legs == 2..Len(line)
        Metres(i) == p.dist[line[i - 1].at][line[i].at]
        Driving(i) == TravelBetween(p, line[i - 1].at, line[i].at,
                                    line[i - 1].departure)
    IN  [ distance |-> SumOver(legs, Metres),
          driving |-> SumOver(legs, Driving),
          waiting |-> SumOver(legs, LAMBDA i : line[i].start
                                                - line[i].arrival),
          service |-> SumOver(legs, LAMBDA i : line[i].departure
                                                - line[i].start),
          early |-> SumOver(legs, LAMBDA i : SoftPenalties(p, line[i]).early),
          late |-> SumOver(legs, LAMBDA i : SoftPenalties(p, line[i]).late) ]

\* window_attainment: stops without a window promise nothing.
WindowAttainment(p, line) ==
    LET promised == {i \in DOMAIN line : WindowsOf(p, line[i]) # <<>>}
        Kept(i) == \E j \in DOMAIN WindowsOf(p, line[i]) :
                        Within(WindowsOf(p, line[i])[j], line[i].start)
    IN  [ promised |-> Cardinality(promised),
          onTime |-> Cardinality({i \in promised : Kept(i)}),
          lateness |-> SumOver(promised, LAMBDA i : Lateness(p, line[i])),
          worst |-> Max({0} \cup {Lateness(p, line[i]) : i \in promised}) ]

AttainedPpt(a) ==
    IF a.promised <= 0 THEN PPT ELSE (a.onTime * PPT) \div a.promised

-----------------------------------------------------------------------------
(* Price.                                                                  *)

\* _fleet_prices_itself: the flat weights are for fleets that state none.
FleetPricesItself(p) ==
    \E v \in Range(p.vehicles) :
        v.fixedCost + v.perMetre + v.perSecond + v.perOrder > 0

\* _vehicle_cost and _operating of one deployed vehicle.
RoutePrice(p, vid, seq, m, w) ==
    LET v == p.vehicles[vid]
        seconds == m.driving + m.waiting + m.service
    IN  IF FleetPricesItself(p)
        THEN v.fixedCost + m.distance * v.perMetre + seconds * v.perSecond
                + Len(seq) * v.perOrder
        ELSE w.perVehicle + m.distance * w.perMetre + seconds * w.perSecond

Priced(p, vid, seq, w, m) == RoutePrice(p, vid, seq, m, w) + m.early + m.late

Served(plan) == UNION {Range(plan[v]) : v \in DOMAIN plan}

\* evaluate: the total of an assignment.  An order nobody serves costs its
\* prize, or the flat penalty.
Evaluate(p, plan, w) ==
    LET deployed == {v \in DOMAIN plan : plan[v] # <<>>}
        Missed(o) == IF p.orders[o].prize # 0 THEN p.orders[o].prize
                     ELSE w.unassigned
    IN  SumOver(deployed,
                LAMBDA v : Priced(p, v, plan[v], w,
                            RouteMetrics(p, Timeline(p, v, plan[v]))))
            + SumOver(DOMAIN p.orders \ Served(plan), Missed)

\* Mutant: a hard window is a wish.
RouteFitsAndEnds(p, vid, seq) ==
    LET v == p.vehicles[vid]
        FitsAndEnds(line) ==
            /\ \A i \in DOMAIN line : \A d \in DOMAIN line[i].load :
                    line[i].load[d] <= Get(v.cap, d)
            /\ Last(line).arrival <= v.shift.end
    IN  /\ FitsAndEnds(Timeline(p, vid, seq))
        /\ \A h \in v.hos :
                ScheduleRoute(p, vid, seq, {RULES[h]}, v.shift.start).legal

\* route_is_legal: load, hard windows and shift on the timeline, then the
\* hours of service on a timeline of their own.
RouteIsLegal(p, vid, seq) ==
    LET v == p.vehicles[vid]
        Kept(hard, at) == hard = {} \/ \E w \in hard : Within(w, at)
        Holds(line) ==
            /\ \A i \in DOMAIN line :
                /\ \A d \in DOMAIN line[i].load :
                        line[i].load[d] <= Get(v.cap, d)
                /\ Kept({w \in Range(WindowsOf(p, line[i])) : w.hard},
                        line[i].start)
            /\ Last(line).arrival <= v.shift.end
    IN  /\ Holds(Timeline(p, vid, seq))
        /\ \A h \in v.hos :
                ScheduleRoute(p, vid, seq, {RULES[h]}, v.shift.start).legal
=============================================================================
