----------------------------- MODULE Reoptimise -----------------------------
(* Re-planning while the plan is being driven: vrp/triggers.py with          *)
(* vrp/committed.py.                                                         *)
(*                                                                           *)
(* The state is the plan as it stands and the clock.  A disruption opens the *)
(* route it hits and its nearest neighbours, holds what is committed on      *)
(* them, and puts the rest back by cheapest insertion (reoptimise); an       *)
(* urgent order goes to a full engine behind locks (preempt); a driver who   *)
(* does not come before the shift has the load redistributed                 *)
(* (recover_from_absence).  Execution is read off the plan's own clock, as   *)
(* committed_prefix does when no telematics is given.                        *)
(*                                                                           *)
(* The three are functions that return a Response; the caller then adopts    *)
(* the plan in it or discards it, at the instant it asked for it.            *)
(*                                                                           *)
(* The engine that preempt and recover_from_absence are given is external:   *)
(* it returns any legal plan that honours the locks it was handed.  A route  *)
(* without orders and a vehicle without a route are the same here, and       *)
(* routes are listed by vehicle id, as _rebuild leaves them.                 *)
(*                                                                           *)
(* Of vrp/evaluator.py it needs the day a vehicle would have on a sequence   *)
(* of orders (build_timeline, route_is_legal).                               *)
(* Time and distance are natural numbers.  An order is a JOB with a delivery *)
(* at a location of its own and one window, which is hard; the travel        *)
(* time does not depend on the time of day (travel_between with no speed     *)
(* profile), and no hours-of-service rules, battery or charging apply.  The  *)
(* depot is location 0, where every vehicle starts and ends.                 *)
EXTENDS Integers, Sequences, FiniteSets, SequencesExt, Subsequences

CONSTANTS
    Vehicles,      \* the vehicle ids, integers: they are compared to sort
    Orders,        \* the order ids, integers
    At,            \* [Orders -> Nat]: the matrix index of an order's location
    Duration,      \* [Places -> [Places -> Nat]]: the matrix, seconds
    Distance,      \* [Places -> [Places -> Nat]]: the matrix, metres
    Window,        \* [Orders -> [start : Nat, end : Nat]], a hard window
    Service,       \* [Orders -> Nat]: service_time, dwell included
    Quantity,      \* [Orders -> Nat]
    Capacity,      \* [Vehicles -> Nat]
    Shift,         \* [start : Nat, end : Nat], of every vehicle
    Neighbours,    \* how many nearby routes a trigger opens
    ChurnWeights,  \* the churn_weight values a caller may pass
    MaxTime        \* bound on the clock

Depot == 0
Places == {Depot} \cup {At[o] : o \in Orders}

\* The construction below reads only these facts of an instance.  Detours do
\* not shorten a way: osrm's matrices have this up to rounding.
ASSUME TimelineAssumption ==
    /\ Vehicles \subseteq Nat /\ Orders \subseteq Nat
    /\ At \in [Orders -> Nat \ {Depot}]
    /\ Duration \in [Places -> [Places -> Nat]]
    /\ Distance \in [Places -> [Places -> Nat]]
    /\ Window \in [Orders -> [start : Nat, end : Nat]]
    /\ Service \in [Orders -> Nat] /\ Quantity \in [Orders -> Nat]
    /\ Capacity \in [Vehicles -> Nat]
    /\ Shift \in [start : Nat, end : Nat]
    /\ \A a, b, c \in Places :
            Duration[a][c] <= Duration[a][b] + Duration[b][c]

ASSUME ReoptimiseAssumption ==
    /\ Neighbours \in Nat
    /\ ChurnWeights \subseteq Nat
    /\ MaxTime \in Nat /\ Shift.start <= MaxTime
    /\ IsFiniteSet(Orders)
    /\ IsFiniteSet(Vehicles) /\ Vehicles = 1..Cardinality(Vehicles)

(***************************************************************************)
(* The timeline.                                                           *)
(***************************************************************************)

\* Where the vehicle is after i stops of seq.
NodeAfter(seq, i) == IF i = 0 THEN Depot ELSE At[seq[i]]

\* When service may begin: on arrival, or when the window opens; a vehicle
\* that arrives after the window starts at once and is late.
ServiceStart(arrival, w) ==
    IF arrival <= w.end /\ arrival < w.start THEN w.start ELSE arrival

\* The steps of the day.  A step also carries what has been dropped and
\* driven by then.
StartOfDay == [start |-> Shift.start, departure |-> Shift.start,
               dropped |-> 0, metres |-> 0]

StopAfter(prev, here, o) ==
    LET begin == ServiceStart(prev.departure + Duration[here][At[o]],
                              Window[o])
    IN  [start |-> begin, departure |-> begin + Service[o],
         dropped |-> prev.dropped + Quantity[o],
         metres |-> prev.metres + Distance[here][At[o]]]

\* START is step 0, the stop at seq[i] is step i.
Timeline(seq) ==
    LET step[i \in 0..Len(seq)] ==
            IF i = 0 THEN StartOfDay
            ELSE StopAfter(step[i - 1], NodeAfter(seq, i - 1), seq[i])
    IN  step

\* route_is_legal: load within the capacity, service inside every hard
\* window, the duty ends inside the shift.  Deliveries only, so the load is
\* largest on the START step, where the vehicle carries all it will drop.
RouteIsLegal(v, seq) ==
    LET line == Timeline(seq)
        last == line[Len(seq)]
    IN  /\ last.dropped <= Capacity[v]
        /\ \A i \in DOMAIN seq :
                line[i].start \in Window[seq[i]].start..Window[seq[i]].end
        /\ last.departure + Duration[NodeAfter(seq, Len(seq))][Depot]
                <= Shift.end

\* _length: the metres of the round trip.
Length(seq) ==
    Timeline(seq)[Len(seq)].metres + Distance[NodeAfter(seq, Len(seq))][Depot]

VARIABLES
    now,           \* the instant the callers pass
    plan,          \* [Vehicles -> sequence of orders]: the plan in force
    response       \* the Response the caller holds, or NoResponse

vars == <<now, plan, response>>

(***************************************************************************)
(* The committed state (vrp/committed.py).                                 *)
(***************************************************************************)

\* Stops in or past service, then the stop the vehicle has left for.
Done(seq, t) == Cardinality({i \in DOMAIN seq : Timeline(seq)[i].start <= t})

Committed(seq, t) ==
    LET done == Done(seq, t)
        enRoute == done < Len(seq) /\ Timeline(seq)[done].departure < t
    IN  IF enRoute THEN done + 1 ELSE done

CommittedPrefix(seq, t) == SubSeq(seq, 1, Committed(seq, t))

\* The FIX_ROUTE_PREFIX locks of commit_locks, an empty one for a vehicle
\* that gets none.  FREEZE_UNTIL is at the instant t.
CommitLocksVisited(p, t) == [v \in Vehicles |-> SubSeq(p[v], 1, Done(p[v], t))]
CommitLocks(p, t) == [v \in Vehicles |-> CommittedPrefix(p[v], t)]

Served(p) == UNION {ToSet(p[v]) : v \in Vehicles}
Owner(p, o) == CHOOSE v \in Vehicles : o \in ToSet(p[v])

\* moved_since: the orders that changed vehicle, with 0 for no vehicle.
OwnerOrNone(p, o) == IF o \in Served(p) THEN Owner(p, o) ELSE 0
MovedSince(before, after) ==
    [o \in {x \in Served(before) : OwnerOrNone(after, x) # Owner(before, x)}
        |-> <<Owner(before, o), OwnerOrNone(after, o)>>]

(***************************************************************************)
(* What a trigger opens.                                                   *)
(***************************************************************************)

Triggers ==
    [kind : {"BREAKDOWN", "ETA_DRIFT"}, vehicle : Vehicles]
        \cup [kind : {"CANCELLATION", "PRIORITY_ORDER"}, order : Orders]

Breaks(trigger, v) == trigger.kind = "BREAKDOWN" /\ trigger.vehicle = v

DirectlyHit(p, trigger) ==
    IF trigger.kind \in {"BREAKDOWN", "ETA_DRIFT"}
    THEN {trigger.vehicle}
    ELSE {v \in Vehicles : trigger.order \in ToSet(p[v])}

\* The mean matrix index of a route's stops as a fraction <<sum, count>>.
Centre(p, v) ==
    LET sum[i \in 0..Len(p[v])] ==
            IF i = 0 THEN 0 ELSE sum[i - 1] + At[p[v][i]]
    IN  <<sum[Len(p[v])], IF p[v] = <<>> THEN 1 ELSE Len(p[v])>>

Abs(n) == IF n < 0 THEN -n ELSE n

\* v's centre is nearer to the anchor than w's; the lower id wins a tie.
Nearer(p, anchor, v, w) ==
    LET gap(x) == Abs(Centre(p, x)[1] * anchor[2]
                        - anchor[1] * Centre(p, x)[2])
        left == gap(v) * Centre(p, w)[2]
        right == gap(w) * Centre(p, v)[2]
    IN  left < right \/ (left = right /\ v < w)

AffectedRoutes(p, trigger) ==
    LET hit == DirectlyHit(p, trigger)
        others == {v \in Vehicles : v \notin hit /\ p[v] # <<>>}
        anchor == Centre(p, CHOOSE v \in hit : TRUE)
        rank(v) == Cardinality({w \in others : Nearer(p, anchor, w, v)})
    IN  IF hit = {} THEN {}
        ELSE hit \cup {v \in others : rank(v) < Neighbours}

(***************************************************************************)
(* Cheapest insertion.                                                     *)
(***************************************************************************)

\* The places of the usable routes that can take order o.
LegalPlaces(assignment, o, usable) ==
    {c \in usable \X (1..Cardinality(Orders) + 1) :
        /\ c[2] <= Len(assignment[c[1]]) + 1
        /\ RouteIsLegal(c[1], InsertAt(assignment[c[1]], c[2], o))}

InsertCost(assignment, o, c, weight, home) ==
    Length(InsertAt(assignment[c[1]], c[2], o))
        + (IF c[1] # home THEN weight ELSE 0)

\* Mutant: only the vehicle the order was on is tried.
InsertHomeOnly(assignment, o, usable, weight, home) ==
    LET places == LegalPlaces(assignment, o, usable \cap {home})
    IN  IF places = {} THEN assignment
        ELSE LET c == CHOOSE c \in places : TRUE
             IN  [assignment EXCEPT ![c[1]] = InsertAt(@, c[2], o)]

\* _insert: the cheapest legal place, of equals the first in order of
\* vehicle and position; the order is left out when there is no place.
Insert(assignment, o, usable, weight, home) ==
    LET places == LegalPlaces(assignment, o, usable)
        cost(c) == InsertCost(assignment, o, c, weight, home)
        best == CHOOSE c \in places : \A d \in places :
                    \/ cost(c) < cost(d)
                    \/ /\ cost(c) = cost(d)
                       /\ c[1] < d[1] \/ (c[1] = d[1] /\ c[2] <= d[2])
    IN  IF places = {} THEN assignment
        ELSE [assignment EXCEPT ![best[1]] = InsertAt(@, best[2], o)]

(***************************************************************************)
(* The specification.                                                      *)
(***************************************************************************)

\* The sequences of orders without a repetition.
Rounds == {seq \in SeqOf(Orders, Cardinality(Orders)) : IsInjective(seq)}

Disjoint(p) ==
    \A v, w \in Vehicles : v # w => ToSet(p[v]) \cap ToSet(p[w]) = {}

\* The plans an engine can return, listed so that TLC computes them once.
LegalPlan(p) == Disjoint(p) /\ \A v \in Vehicles : RouteIsLegal(v, p[v])
LegalPlans == {p : p \in {q \in [Vehicles -> Rounds] : LegalPlan(q)}}

Reasons == {"NOT_PLACED", "PREEMPTED"}

\* _rebuild: every order of the problem that is served nowhere has a row in
\* unassigned.
Rows(p) == [o \in Orders \ Served(p) |-> "NOT_PLACED"]

NoResponse == [op |-> "none"]

Init ==
    /\ now = Shift.start
    /\ plan \in LegalPlans
    /\ response = NoResponse

Idle == response = NoResponse

Advance ==
    /\ Idle /\ now < MaxTime
    /\ now' = now + 1
    /\ UNCHANGED <<plan, response>>

Adopt ==
    /\ ~Idle
    /\ plan' = response.plan /\ response' = NoResponse
    /\ UNCHANGED now

Discard ==
    /\ ~Idle
    /\ response' = NoResponse
    /\ UNCHANGED <<now, plan>>

\* What reoptimise keeps in place: routes it does not open whole, the
\* committed work of those it opens.
Frozen(opened) ==
    [v \in Vehicles |->
        IF v \in opened THEN CommittedPrefix(plan[v], now) ELSE plan[v]]

\* The open work of the opened routes, route by route; a cancelled order is
\* not put back.
Loose(held, trigger) ==
    Kept(FlattenSeq(plan), {o \in Orders \ Served(held) :
        ~(trigger.kind = "CANCELLATION" /\ trigger.order = o)})

Usable(opened, trigger) == {v \in opened : ~Breaks(trigger, v)}

\* The loop over the loose work: the plan after each of its orders.
PutBack(held, loose, usable, weight) ==
    LET placed[i \in 0..Len(loose)] ==
            IF i = 0 THEN held
            ELSE Insert(placed[i - 1], loose[i], usable, weight,
                        Owner(plan, loose[i]))
    IN  placed

ReoptimiseFor(trigger, weight) ==
    LET opened == AffectedRoutes(plan, trigger)
        usable == Usable(opened, trigger)
        held == Frozen(opened)
        loose == Loose(held, trigger)
        after == PutBack(held, loose, usable, weight)[Len(loose)]
    IN  /\ Idle
        /\ response' = [op |-> "reoptimise", trigger |-> trigger,
                        weight |-> weight, usable |-> usable,
                        plan |-> after, rows |-> Rows(after),
                        moved |-> MovedSince(plan, after)]
        /\ UNCHANGED <<now, plan>>

\* external: what a solver may return under the locks of commit_locks.  The
\* prefixes stand, and nothing else is served before the freeze.
HonoursCommitLocks(p, locks) ==
    \A v \in Vehicles :
        /\ IsPrefix(locks[v], p[v])
        /\ \A i \in DOMAIN p[v] :
                i > Len(locks[v]) => Timeline(p[v])[i].start >= now

\* _report_displaced: the rows of the orders the preemption put out.
ReportDisplaced(before, after) ==
    [o \in DOMAIN Rows(after) |->
        IF o \in Served(before) THEN "PREEMPTED" ELSE "NOT_PLACED"]

\* preempt raises for an order that is planned already, and when the engine
\* leaves the arriving order out: the plan then stays as it was.
Preempt(arriving) ==
    /\ Idle
    /\ arriving \notin Served(plan)
    /\ \E after \in LegalPlans :
        /\ arriving \in Served(after)
        /\ HonoursCommitLocks(after, CommitLocks(plan, now))
        /\ response' = [op |-> "preempt", plan |-> after,
                        rows |-> ReportDisplaced(plan, after),
                        moved |-> MovedSince(plan, after)]
    /\ UNCHANGED <<now, plan>>

\* recover_from_absence: before the shift the load of the vehicles that come
\* is pinned to them (loading_locks) and the others may not be deployed.
HonoursLoading(p, absent) ==
    \A v \in Vehicles :
        IF v \in absent THEN p[v] = <<>>
        ELSE ToSet(plan[v]) \subseteq ToSet(p[v])

RecoverFromAbsence(absent) ==
    /\ Idle
    /\ now = Shift.start
    /\ absent # {}
    /\ \E after \in LegalPlans :
        /\ HonoursLoading(after, absent)
        /\ response' = [op |-> "recover", absent |-> absent, plan |-> after,
                        rows |-> Rows(after),
                        moved |-> MovedSince(plan, after)]
    /\ UNCHANGED <<now, plan>>

Next ==
    \/ Advance \/ Adopt \/ Discard
    \/ \E t \in Triggers, w \in ChurnWeights : ReoptimiseFor(t, w)
    \/ \E o \in Orders : Preempt(o)
    \/ \E a \in SUBSET Vehicles : RecoverFromAbsence(a)

Spec == Init /\ [][Next]_vars

(***************************************************************************)
(* Properties.                                                             *)
(***************************************************************************)

Accounted(p) == Disjoint(p) /\ \A v \in Vehicles : IsInjective(p[v])

\* The state has its shape, and every order of the problem is on one route of
\* a returned plan, once, or has a row in unassigned, never both: _rebuild
\* and the engine account for all the work.
TypeOK ==
    /\ now \in 0..MaxTime
    /\ plan \in [Vehicles -> Rounds] /\ Accounted(plan)
    /\ ~Idle =>
        /\ response.plan \in [Vehicles -> Rounds] /\ Accounted(response.plan)
        /\ response.rows \in [Orders \ Served(response.plan) -> Reasons]

\* Through any sequence of disruptions every route stays one that
\* route_is_legal accepts: holding a prefix, stripping a van and inserting
\* order after order never leaves a route nobody could drive.
PlanStaysLegal ==
    \A v \in Vehicles :
        /\ RouteIsLegal(v, plan[v])
        /\ ~Idle => RouteIsLegal(v, response.plan[v])

Cancelled(r) ==
    IF r.trigger.kind = "CANCELLATION" THEN {r.trigger.order} ELSE {}

\* reoptimise leaves a planned order out only when it was cancelled or has no
\* legal place on any usable route of the plan that is returned: insertions
\* after it never make room for it, and it is never merely forgotten.
DroppedOnlyWithoutRoom ==
    response.op = "reoptimise" =>
        \A o \in Served(plan)
                    \ (Served(response.plan) \cup Cancelled(response)) :
            LegalPlaces(response.plan, o, response.usable) = {}

LongestRoute == Max({Length(seq) : seq \in Rounds})

\* A churn weight above every route length keeps an order on its vehicle
\* unless the vehicle broke or cannot take the order in the plan that is
\* returned: the weight prevents every move that is not forced.
HeavyChurnStays ==
    (response.op = "reoptimise" /\ response.weight > LongestRoute) =>
        \A o \in DOMAIN response.moved \ Cancelled(response) :
            LegalPlaces(response.plan, o,
                        response.usable \cap {Owner(plan, o)}) = {}

\* s is what is left of t, which has no entry twice, after leaving out some.
IsSubsequence(s, t) ==
    /\ ToSet(s) \subseteq ToSet(t)
    /\ \A i, j \in DOMAIN t : \A k, l \in DOMAIN s :
            t[i] = s[k] /\ t[j] = s[l] /\ k < l => i < j

\* No answer to a disruption takes committed work, visited or en route, off
\* its vehicle or changes its order.
CommittedWorkKept ==
    ~Idle => \A v \in Vehicles :
                IsSubsequence(CommittedPrefix(plan[v], now), response.plan[v])

\* "nothing is executed" (triggers.py:372) when recover_from_absence runs: no
\* order is so near and so early that its service begins as the shift does.
NothingBeginsAtOnce ==
    \A o \in Orders :
        ServiceStart(Shift.start + Duration[Depot][At[o]], Window[o])
            > Shift.start

\* What is committed only ever grows as time passes and plans of the engine
\* are adopted: the locks of commit_locks hold it in place.
CommittedOnlyGrows ==
    [][\A v \in Vehicles :
        \/ response.op = "reoptimise"
        \/ IsPrefix(CommittedPrefix(plan[v], now),
                    CommittedPrefix(plan'[v], now'))]_vars

\* A disruption is local.  reoptimise changes no more than the route that was
\* hit and its neighbours, and a broken vehicle keeps its committed work and
\* gets none; a recovery moves nothing between the vehicles that come.
DisruptionIsLocal ==
    /\ response.op = "reoptimise" =>
        /\ Cardinality({v \in Vehicles : response.plan[v] # plan[v]})
                <= Neighbours + 1
        /\ \A v \in Vehicles : Breaks(response.trigger, v) =>
                response.plan[v] = CommittedPrefix(plan[v], now)
    /\ response.op = "recover" =>
        \A o \in DOMAIN response.moved : Owner(plan, o) \in response.absent

\* A plan reoptimise returns honours the FIX_ROUTE_PREFIX locks it returns
\* beside it: no stop visited or en route is moved (AC-2.2).
LocksHold ==
    response.op = "reoptimise" => \A v \in Vehicles :
        IsPrefix(CommittedPrefix(plan[v], now), response.plan[v])

\* triggers.py: whatever sequence of disruptions, the plan that is returned is
\* legal and accounts for all work, drops and moves only what it must, touches
\* only what was hit and its neighbours, and keeps what is committed.
DisruptionsAreAbsorbed ==
    /\ TypeOK /\ PlanStaysLegal /\ DroppedOnlyWithoutRoom /\ HeavyChurnStays
    /\ CommittedWorkKept /\ DisruptionIsLocal
=============================================================================
