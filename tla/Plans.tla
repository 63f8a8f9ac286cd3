-------------------------------- MODULE Plans --------------------------------
(***************************************************************************)
(* The algorithms of the vrp package that have no state of their own, put  *)
(* to work on every plan an engine could answer with.                      *)
(*                                                                         *)
(* A behaviour builds an answer: an instance, and activities appended to   *)
(* the routes one by one, each route leaving when it leaves.  In every     *)
(* state the plan so far is mapped back, verified, priced, explained and   *)
(* polished, and what one part of the package says of it is held against   *)
(* what another part says.                                                 *)
(***************************************************************************)
EXTENDS Engines, Learning

CONSTANTS Problems,     \* the instances
          Departures,   \* the instants a route may leave at
          Spec_,        \* ObjectiveSpec
          Weights,      \* ObjectiveWeights
          BUCKET,       \* seconds in a bucket of the speed profiles
          HORIZON,      \* days standing commitments are scheduled over
          Canaries      \* what a rollout may be decided by

VARIABLES problem, acts, starts

vars == <<problem, acts, starts>>

Init == /\ problem \in Problems
        /\ acts = [v \in DOMAIN problem.vehicles |-> <<>>]
        /\ starts \in [DOMAIN problem.vehicles -> Departures]

Placeable(kind, o) ==
    \/ kind = "CLIENT" /\ problem.orders[o].kind = "JOB"
    \/ kind = "PICKUP" /\ problem.orders[o].kind = "SHIPMENT"
    \/ kind = "DELIVERY" /\ problem.orders[o].kind = "SHIPMENT"

\* One more activity on one route: a client for one of its windows, an end of
\* a shipment, or a reload between two of them.
Serve(v, o, kind) ==
    /\ Placeable(kind, o)
    /\ \A u \in DOMAIN acts : \A i \in DOMAIN acts[u] :
            acts[u][i].order = o => acts[u][i].kind # kind
    /\ \E w \in ClientWindows(problem.orders[o]) :
            acts' = [acts EXCEPT ![v] = Append(@,
                        [kind |-> kind, order |-> o,
                         window |-> IF kind = "CLIENT" THEN w ELSE 0])]
    /\ UNCHANGED <<problem, starts>>

Reload(v) ==
    /\ acts[v] # <<>> /\ Last(acts[v]).kind # "RELOAD"
    /\ problem.vehicles[v].reloadAt # {}
    /\ acts' = [acts EXCEPT ![v] = Append(@,
                    [kind |-> "RELOAD", order |-> 0, window |-> 0])]
    /\ UNCHANGED <<problem, starts>>

\* A plan need not serve everything.
Answered == UNCHANGED vars

Next == \/ \E v \in DOMAIN acts, o \in DOMAIN problem.orders,
              kind \in {"CLIENT", "PICKUP", "DELIVERY"} : Serve(v, o, kind)
        \/ \E v \in DOMAIN acts : Reload(v)
        \/ Answered

Spec == Init /\ [][Next]_vars

-----------------------------------------------------------------------------
(* The plan in hand, as each part of the package sees it.                  *)

Answer == PyvrpSolution(problem, acts, starts)

Assignment == [v \in DOMAIN acts |->
                LET on == SelectSeq(acts[v], LAMBDA a : a.kind = "CLIENT")
                IN  [i \in DOMAIN on |-> on[i].order]]

\* Nothing says that a road is ever slower than the matrix.
FreeFlow == problem.profile = {} /\ problem.profiles = {}

\* Jobs only: an assignment says nothing of the two ends of a shipment.
JobsOnly == \A o \in Range(problem.orders) : o.kind = "JOB"

\* The solution the evaluator's own timelines make of an assignment.
EvaluatedOf(plan) ==
    LET used == SetToSortSeq({v \in DOMAIN plan : plan[v] # <<>>}, <)
    IN  [ routes |-> [i \in DOMAIN used |-> [vehicle |-> used[i],
                        steps |-> Timeline(problem, used[i], plan[used[i]])]],
          unassigned |-> DOMAIN problem.orders \ Served(plan),
          claimed |-> <<>> ]
Evaluated == EvaluatedOf(Assignment)

\* What the evaluator does not look at, and neither does the engine model.
BeyondTheRoute == {"INV-7", "INV-8", "INV-10", "INV-12", "INV-13", "INV-15",
                   "INV-16", "INV-17"}

-----------------------------------------------------------------------------
(* Where the parts of the package are known to differ: each operator gives *)
(* the invariants that may break, each under the condition it may break    *)
(* under, and everything outside them is claimed.                          *)

\* No way round is shorter than the road there.
Metric(p) ==
    \A a, b, c \in DOMAIN p.dur :
        Reachable(p, a, b) /\ Reachable(p, b, c) =>
            Reachable(p, a, c) /\ p.dur[a][c] <= p.dur[a][b] + p.dur[b][c]

\* Some depot has bays, or stock, to run out of.
Docked(p) == \E l \in Range(p.locations) : l.dock # {}
Stocked(p) == \E l \in Range(p.locations) : l.inventory # <<>>

\* What the model PyVRP is given leaves out: a stop of hard and soft windows
\* is one client for each, the first vehicle's service times are every
\* vehicle's, drivers have no hours, locks on sequences and deployment, stock
\* and couplings are unknown, nobody is barred from a depot, a ride is
\* bounded from the earliest its pickup can end by the direct road, and a
\* trip after a reload waits for its goods, at the bay, while the route has
\* left.
LeftOutOfPyvrp(p, plan) ==
    LET Mixed(o) == {w.hard : w \in Range(StopOf(o).windows)} = BOOLEAN
        Yards == UNION {{v.start, EndsAt(v)} \cup v.reloadAt :
                            v \in Range(p.vehicles)}
        Reloaded(v, i) == \E j \in 1..(i - 1) : plan[v][j].kind = "RELOAD"
        Visits == UNION {{<<v, i>> : i \in DOMAIN plan[v]} : v \in DOMAIN plan}
        Late(x) == plan[x[1]][x[2]].kind = "CLIENT" /\ Reloaded(x[1], x[2])
                    /\ p.orders[plan[x[1]][x[2]].order].release > 0
        AtYard(o) == \E s \in Stops(p.orders[o]) : s.at \in Yards
    IN  Broken("INV-3", \/ \E o \in Range(p.orders) : Mixed(o)
                        \/ \E v, u \in Range(p.vehicles) :
                                v.factor # u.factor)
        \cup Broken("INV-7", \E v \in Range(p.vehicles) : v.hos # {})
        \cup Broken("INV-8", \E k \in p.locks : k.kind \in
                {"FIX_ROUTE_PREFIX", "FIX_SEQUENCE", "FORCE_DEPLOY",
                 "FREEZE_UNTIL"})
        \cup (IF \E o \in DOMAIN p.orders : AtYard(o)
              THEN {"INV-8", "INV-10"} ELSE {})
        \cup Broken("INV-12", Docked(p) /\ \E x \in Visits : Late(x))
        \cup Broken("INV-13", Stocked(p))
        \cup Broken("INV-14", ~Metric(p))
        \cup Broken("INV-15", p.syncs # {})
        \cup Broken("INV-17", \E x \in Visits : Late(x))

\* The round as its driver is given it: with breaks, where hours are declared.
AsDriven(p, v, seq) ==
    LET van == p.vehicles[v]
    IN  [ vehicle |-> v,
          steps |-> IF van.hos = {} THEN Timeline(p, v, seq)
                    ELSE ScheduleRoute(p, v, seq, {RULES[h] : h \in van.hos},
                                       van.shift.start).steps ]
Scheduled ==
    [Evaluated EXCEPT !.routes = [i \in DOMAIN @ |->
        AsDriven(problem, @[i].vehicle, Assignment[@[i].vehicle])]]

\* What route_is_legal does not see.  The limits of a van are not looked at.
\* Windows are looked at before the breaks are put in, which may push a stop
\* out of them; the scheduler reads the first window of a stop only, no
\* profile, and the hours of the duty only while it drives.
UnseenByLegality(p, route) ==
    LET v == p.vehicles[route.vehicle]
        steps == route.steps
        Pushed(i) == \E j \in 1..(i - 1) : steps[j].type = "BREAK"
        Misread(i) == LET windows == WindowsOf(p, steps[i])
                      IN  windows # <<>> /\ (Len(windows) > 1 \/ Pushed(i))
        n == Len(steps)
    IN  Broken("INV-6", v.maxDuration \cup v.maxDistance # {})
        \cup (IF v.hos = {} THEN {} ELSE
              Broken("INV-3", \E i \in DOMAIN steps : Misread(i))
              \cup Broken("INV-4", p.profile \cup p.profiles # {})
              \cup Broken("INV-7", steps[n].arrival = steps[n - 1].departure))

\* Orders that forbid each other, and the vans preflight leaves an order.
Foes(p, o) ==
    {e \in DOMAIN p.orders \ {o} :
        \/ p.orders[e].class \cap p.orders[o].incompatible # {}
        \/ p.orders[o].class \cap p.orders[e].incompatible # {}}
Usable(p, o) ==
    {v \in Eligible(p, o) : Fits(p.orders[o], p.vehicles[v])}

\* What preflight reports of an order that can be served.  Stock is counted
\* against goods to be collected; a dimension a van does not declare holds
\* nothing here and anything in the verifier; "straight out" is the soonest
\* only where no way round is quicker and no profile faster than the matrix;
\* the way home counts for an open van; and a foe is one even on another
\* van, or left behind, so that of two foes with one van between them all
\* that is certain is that they are not served both.
FalseAlarm(p, o, served) ==
    LET order == p.orders[o]
        Quick == \E f \in p.profile \cup UNION {Range(g) : g \in p.profiles} :
                    \E m \in Range(f.multipliers) : m > PPT
    IN  CASE Obstacle(p, o) = "DEPOT_STOCKOUT" -> order.delivery = {}
          [] Obstacle(p, o) = "CAPACITY_EXCEEDED" ->
                \E v \in Eligible(p, o) :
                    ~(DOMAIN order.qty \subseteq DOMAIN p.vehicles[v].cap)
          [] Obstacle(p, o) = "TIME_WINDOW_UNREACHABLE" ->
                ~Metric(p) \/ Quick
          [] Obstacle(p, o) = "DUTY_LIMIT" ->
                ~Metric(p) \/ \E v \in Usable(p, o) : p.vehicles[v].open
          [] Obstacle(p, o) = "INCOMPATIBLE_ONLY" ->
                \A e \in Foes(p, o) \cap served : Usable(p, e) # Usable(p, o)
          [] OTHER -> FALSE

-----------------------------------------------------------------------------

\* What the OR-Tools adapter reads of an instance and does not refuse: one
\* order at a place, one shift, and none of the fields it never looks at.
ReadByOrtools ==
    /\ ~OrtoolsRefuses(problem)
    /\ \A o, x \in DOMAIN problem.orders :
            StopOf(problem.orders[o]).at = StopOf(problem.orders[x]).at => o = x
    /\ \A o \in Range(problem.orders) : o.skills = {} /\ o.release = 0
    /\ \A l \in Range(problem.locations) : l.access = {} /\ l.maxKg = {}
    /\ \A v, u \in Range(problem.vehicles) :
            /\ v.shift = u.shift /\ v.maxDuration = {} /\ v.maxDistance = {}
            /\ v.hos = {} /\ v.battery = {} /\ v.factor = u.factor
    /\ Cardinality(UNION {DOMAIN o.qty : o \in Range(problem.orders)}) <= 1
    /\ FreeFlow /\ problem.syncs = {}
    /\ ~Docked(problem) /\ ~Stocked(problem)

OrtoolsNodes ==
    [v \in DOMAIN acts |-> [i \in DOMAIN Assignment[v] |->
        StopOf(problem.orders[Assignment[v][i]]).at]]
OrtoolsAnswer ==
    LET used == SetToSortSeq({v \in DOMAIN acts : Assignment[v] # <<>>}, <)
    IN  [ routes |-> [i \in DOMAIN used |->
                OrtoolsRoute(problem, used[i], OrtoolsNodes[used[i]],
                             starts[used[i]])],
          unassigned |-> {}, claimed |-> <<>> ]

\* pyvrp_adapter and ortools_adapter: a plan the engine calls feasible, of an
\* instance the adapter accepts, is one the independent verifier passes once
\* it is mapped back: windows, loads, reloads, rides, eligibility, limits and
\* distances, but for what LeftOutOfPyvrp names; of OR-Tools, where it reads
\* all that the instance says.
EngineAnswerVerifies ==
    /\ ~PyvrpRefuses(problem) /\ PyvrpFeasible(problem, acts, starts)
            => /\ ~Raises(problem, Answer)
               /\ Verify(problem, Answer)
                    \subseteq LeftOutOfPyvrp(problem, acts)
    /\ JobsOnly /\ ReadByOrtools
       /\ OrtoolsFeasible(problem, OrtoolsNodes, starts)
            => Verify(problem, OrtoolsAnswer) = {}

\* tier_bonuses: an order of a more protected rank is worth more than all
\* that can be collected from the ranks beneath it.
TiersAreLexicographic ==
    LET Worth(o) == problem.orders[o].prize
                        + TierBonus(problem, o)
        Rank(o) == Precedence(problem.orders[o])
        Below(o) == {x \in DOMAIN problem.orders :
                        \/ Rank(x)[1] > Rank(o)[1]
                        \/ Rank(x)[1] = Rank(o)[1] /\ Rank(x)[2] > Rank(o)[2]}
    IN  \A o \in DOMAIN problem.orders :
            Below(o) # {} => Worth(o) > SumOver(Below(o), Worth)

\* evaluator, hours of service and verifier share no computation over a plan:
\* rounds the evaluator calls legal are, with their breaks, rounds the
\* verifier finds nothing wrong with, but for what UnseenByLegality names.
LegalMeansVerified ==
    JobsOnly /\ (\A v \in DOMAIN acts :
                    /\ Connected(problem, Places(problem, v, Assignment[v]))
                    /\ RouteIsLegal(problem, v, Assignment[v]))
        => \A plan \in {Scheduled} :
            Verify(problem, plan) \subseteq
                (BeyondTheRoute \ {"INV-7"}) \cup
                    UNION {UnseenByLegality(problem, r) :
                                r \in Range(plan.routes)}

\* preflight names an order only if no plan can serve it: an order of a plan
\* that verifies is never among its findings, but for what FalseAlarm names.
PreflightIsSound ==
    \A answer \in {Answer} \cup (IF JobsOnly THEN {Evaluated} ELSE {}) :
        ~Raises(problem, answer) /\ Verify(problem, answer) = {} =>
            \A served \in {DOMAIN ServedBy(answer)} :
                \A o \in DOMAIN Findings(problem) \cap served :
                    FalseAlarm(problem, o, served)

\* minimal_conflict: what it returns conflicts, and without any one of its
\* locks there is no conflict: a deletion filter is irreducible only where
\* dropping a lock never takes feasibility away.
ConflictIsIrreducible ==
    \A conflict \in {MinimalConflict(problem)} :
        conflict # {} =>
            /\ ~FeasibleUnderLocks(WithLocks(problem, conflict))
            /\ \A k \in conflict :
                    FeasibleUnderLocks(WithLocks(problem, conflict \ {k}))

\* polish_route: of all the orders a legal route could be driven in, none is
\* quicker than the one it returns, which is legal again unless some stop has
\* several windows, which it takes for the one around them; and where each
\* stop has one window, a hard one, none of the departures that keep the
\* windows makes a shorter duty.
PolishedIsBest ==
    \A v \in DOMAIN acts :
        LET seq == Assignment[v]
            van == problem.vehicles[v]
            Seconds(s) == AlongRoute(problem, problem.dur, v, s)
            Duty(order, d) ==
                DutyDuration(ScheduleRoute(problem, v, order, {}, d).steps)
            timed == \A o \in Range(seq) :
                        LET windows == StopOf(problem.orders[o]).windows
                        IN  Len(windows) = 1 /\ windows[1].hard
            several == \E o \in Range(seq) :
                          Len(StopOf(problem.orders[o]).windows) > 1
            Best(polished, ways) ==
                /\ several \/ polished.order \in ways
                /\ \A s \in ways : Seconds(polished.order) <= Seconds(s)
                /\ timed => \A d \in van.shift.start..van.shift.end :
                        ShiftFits(problem, v, polished.order, d, {})
                            => polished.duty <= Duty(polished.order, d)
            Polished(ways) ==
                seq \in ways => Best(PolishRoute(problem, v, seq, {}), ways)
        IN  JobsOnly /\ FreeFlow /\ van.hos = {} /\ van.end # {}
            /\ seq # <<>> =>
                Polished({s \in SetToSeqs(Range(seq)) :
                            RouteIsLegal(problem, v, s)})

\* What tier_bounds does not bound: soft penalties, whose rates and distant
\* windows it leaves out; a route that comes by more places than twice each;
\* and seconds at a rate of one where no rate per second is stated.
Unbounded(p, sol, spec) ==
    LET legs == SumOver(DOMAIN sol.routes,
                        LAMBDA r : Len(sol.routes[r].steps) - 1)
        Soft_(o) == \E s \in Stops(o) : \E w \in Range(s.windows) : ~w.hard
        Free == /\ spec.second = 0
                /\ \A v \in Range(p.vehicles) : v.perSecond = 0
    IN  (IF \E o \in Range(p.orders) : Soft_(o) THEN {"SOFT"} ELSE {})
        \cup (IF legs > 2 * Cardinality(DOMAIN p.dur)
                            * Cardinality(DOMAIN p.vehicles)
              THEN {"OPERATING", "QUALITY"} ELSE {})
        \cup (IF spec.mode = "MIN_DURATION" /\ Free THEN {"OPERATING"} ELSE {})

Exceeds(p, score, spec) == {t \in Tiers : score[t] > TierBounds(p, spec)[t]}

Agree(p, old, new, spec) ==
    LET Sign(n) == IF n < 0 THEN -1 ELSE IF n > 0 THEN 1 ELSE 0
        scales == TierScales(p, spec)
    IN  Compare(old, new, spec) = Sign(Total(old, scales) - Total(new, scales))

\* objective, "every bound is a real upper bound": no tier of a plan is above
\* its bound, but for what Unbounded names; and where none is, in any mode,
\* the scaled total the search minimises puts two plans in the same order as
\* the comparison of the tiers does.  (A driver's hours are seconds: their
\* totals do not fit TLC's integers.)
TotalsAgreeWithTiers ==
    \A v \in {u \in DOMAIN acts : acts[u] # <<>>} :
        (\A x \in Range(problem.vehicles) : x.hos = {})
            /\ ~Raises(problem, Answer) =>
        LET specs == {[Spec_ EXCEPT !.mode = m] : m \in Modes} \cup
                        {[Spec_ EXCEPT !.mode = "MIN_DURATION", !.second = 0]}
            Fewer == PyvrpSolution(problem, [acts EXCEPT ![v] = Front(@)],
                                   starts)
            Ordered(old, new, s) ==
                /\ Exceeds(problem, new, s)
                        \subseteq Unbounded(problem, Answer, s)
                /\ Exceeds(problem, old, s) \cup Exceeds(problem, new, s) = {}
                        => Agree(problem, old, new, s)
        IN  \A s \in specs :
                Ordered(Score(problem, Fewer, s, {}),
                        Score(problem, Answer, s, {}), s)

-----------------------------------------------------------------------------
(* Reports on a plan.                                                      *)

Quotable(o) == o \in DOMAIN problem.orders \ Served(Assignment)

AddsUp(block, score) ==
    /\ SumOver(DOMAIN block, LAMBDA v : block[v].fixed) = score.FLEET
    /\ SumOver(DOMAIN block, LAMBDA v : block[v].operating) = score.OPERATING
EveryOrderIsExplained(said) ==
    /\ DOMAIN said.assigned \cup DOMAIN said.rejected = DOMAIN problem.orders
    /\ \A o \in DOMAIN said.assigned :
        Assignment[said.assigned[o].vehicle][said.assigned[o].position] = o

\* What is said of one plan in two places agrees.  The allocation block adds
\* up to the money tiers of the score, idle vans and all; taking an order out
\* again refunds what putting it in was quoted at, and nothing is offered on a
\* van that could not drive it; every order is explained, as carried where
\* the plan carries it or as turned away.
ReportsAgree ==
    JobsOnly /\ Spec_.mode = "MIN_COST" =>
        \A plan \in {Evaluated} :
            /\ AddsUp(Allocate(problem, Assignment, Spec_),
                      Score(problem, plan, Spec_, {}))
            /\ EveryOrderIsExplained(Explain(problem, plan))
            /\ \A o \in {x \in DOMAIN problem.orders : Quotable(x)} :
               \A q \in QuoteInsertion(problem, Assignment, o, Weights) :
                LET with == [Assignment EXCEPT ![q.vehicle] = q.route]
                    back == QuoteRemoval(problem, with, o, Weights)
                IN  /\ RouteIsLegal(problem, q.vehicle, q.route)
                    /\ back.vehicle = q.vehicle
                    /\ back.route = Assignment[q.vehicle]
                    /\ back.price = -q.price

-----------------------------------------------------------------------------
(* The plan as it was driven.                                              *)

\* What telematics would record of a plan that was followed to the second.
Telematics(r) ==
    LET on == SelectSeq(r.steps, LAMBDA x : x.serves # {})
        Of(o) == CHOOSE x \in Range(on) : x.serves = {o}
        stops == {OrderOf(x) : x \in Range(on)}
    IN  [ vehicle |-> r.vehicle, driver |-> r.vehicle,
          depot |-> problem.vehicles[r.vehicle].start, territory |-> 1,
          sequence |-> [i \in DOMAIN on |-> OrderOf(on[i])],
          arrivals |-> [o \in stops |-> Of(o).arrival],
          departures |-> [o \in stops |-> Of(o).departure] ]
Recorded(routes) == [i \in DOMAIN routes |-> Telematics(routes[i])]
Executed == Recorded(Evaluated.routes)

\* The same stops as somebody might have planned them: by number.
Intended ==
    [v \in DOMAIN Assignment |-> SetToSortSeq(Range(Assignment[v]), <)]

\* speedfit: every leg is kept, straddles or is unrecorded, and roads driven
\* at the matrix's own speed are learnt as such: the profile is free flow and
\* predicts the week it came from without error.  adherence: a route differs
\* from the plan exactly when its dissimilarity is above nought, and no group
\* of routes is worse than its worst.  zones: the prior puts the stops of each
\* route in an order that visits no zone twice.
SpeedsAreLearnt(driven) ==
    \A seen \in {Traversals(problem, driven, BUCKET)} :
        /\ ~seen.faulty
        /\ Len(seen.kept) + seen.straddled + seen.unrecorded
                = Cardinality(Legs(driven))
        /\ \A fit \in {FitGroups(seen.kept, 1).fitted} :
                /\ \A k \in DOMAIN fit : fit[k] = PPT
                /\ Validate(fit, BUCKET, seen.kept).worst = 0
                /\ DriftOf(fit, fit, 0) = {}
AdherenceIsExact(driven, meant) ==
    \A rows \in {Shadow(problem, meant, driven)} :
    \A i \in DOMAIN rows :
        /\ rows[i].dissimilarity \in 0..PPT
        /\ (rows[i].dissimilarity = 0) <=>
                (driven[i].sequence = meant[driven[i].vehicle])
        /\ Aggregate(rows, "depot_id")[rows[i].depot_id].dissimilarity
                <= Max({rows[j].dissimilarity : j \in DOMAIN rows})
ZonesAreKept(driven, zones) ==
    \A prior \in {LearnPrior(problem, driven, zones)} :
    \A i \in DOMAIN driven :
    \A r \in {OrderByPrior(problem, driven[i].sequence, prior, zones)} :
        /\ Range(r) = Range(driven[i].sequence)
        /\ prior.sequence # <<>> => IsInjective(ZonesVisited(problem, r, zones))
DrivenIsLearnt ==
    JobsOnly /\ FreeFlow =>
        \A driven \in {Executed} :
            /\ SpeedsAreLearnt(driven)
            /\ AdherenceIsExact(driven, Intended)
            /\ ZonesAreKept(driven, [l \in {1, 3} |-> 9])

\* What decide() observes of a day.
MEASURES == {"adherence", "cost_delta"}

\* rollout: a canary whose criteria are measures that are observed goes when
\* it has seen enough days at its depot, each of them within every limit it
\* names, and has a reason when it does not go.  (A criterion of another name
\* is observed at nought, and is met on any day.)
GoIsEarned ==
    JobsOnly =>
        \A days \in {Shadow(problem, Intended, Executed)} :
            \A c \in Canaries :
                LET mine == {i \in DOMAIN days : days[i].depot_id = c.depot}
                    Within_(i) ==
                        /\ "adherence" \in DOMAIN c.criteria =>
                                days[i].dissimilarity <= c.criteria.adherence
                        /\ "cost_delta" \in DOMAIN c.criteria =>
                                days[i].delta <= c.criteria.cost_delta
                    enough == /\ mine # {}
                              /\ Cardinality(mine) >= c.minimumDays
                IN  DOMAIN c.criteria \subseteq MEASURES =>
                        (Decide(c, days).go <=>
                            enough /\ \A i \in mine : Within_(i))

\* periodic: what schedule() accepts, compliance() finds met: the visits, the
\* longest gap, and no visit on a day the commitment does not permit.
CommitmentsAreMet(round) ==
    (\A id \in DOMAIN round : ~ScheduleRefuses(round[id], HORIZON)) =>
        LET due == Schedule(round, HORIZON)
            met == Compliance(due, round)
        IN  \A id \in DOMAIN round :
                /\ met[id].visits /\ met[id].interval
                /\ \A day \in DOMAIN due : id \in due[day] =>
                        day \in EligibleDays(round[id], HORIZON)
                /\ Cardinality({d \in DOMAIN due : id \in due[d]})
                        = round[id].visits
=============================================================================
