----------------------------- MODULE Preflight -----------------------------
(***************************************************************************)
(* Pre-flight diagnosis, vrp/diagnose.py, and the minimal conflicting lock *)
(* set of vrp/locks.py.  Each order is judged alone, against any vehicle.  *)
(***************************************************************************)
EXTENDS HoursOfService

NamesOrder(k, o) == "order" \in DOMAIN k /\ k.order = o

Grounded(p) == {k.vehicle : k \in {j \in p.locks : j.kind = "FORBID_DEPLOY"}}

\* _eligible: skills, site and the locks that name the order.
Eligible(p, o) ==
    LET order == p.orders[o]
        Allows(k, v) ==
            CASE k.kind = "PIN_ORDER_TO_VEHICLE" -> v = k.vehicle
              [] k.kind = "FORBID_ORDER_ON_VEHICLE" -> v # k.vehicle
              [] k.kind = "PIN_DEPOT" -> p.vehicles[v].start = k.depot
              [] OTHER -> TRUE
    IN  {v \in DOMAIN p.vehicles \ Grounded(p) :
            /\ HasSkillsFor(p.vehicles[v], order)
            /\ MayEnter(p.vehicles[v], p.locations[StopOf(order).at])
            /\ \A k \in p.locks : NamesOrder(k, o) => Allows(k, v)}

\* _why_none_eligible: the first filter that rejects the whole fleet.
WhyNoneEligible(p, o) ==
    LET order == p.orders[o]
        site == p.locations[StopOf(order).at]
        fleet == Range(p.vehicles)
    IN  IF \A v \in fleet : ~HasSkillsFor(v, order) THEN "skills"
        ELSE IF site.access # {}
                /\ \A v \in fleet : v.access \cap site.access = {}
        THEN "access"
        ELSE IF site.maxKg # {} /\ \A v \in fleet : ~MayEnter(v, site)
        THEN "weight"
        ELSE "none"

\* _pinned: a grounded vehicle counts for every order.
Pinned(p, o) ==
    \/ Grounded(p) # {}
    \/ \E k \in p.locks : NamesOrder(k, o) /\ k.kind \in
            {"PIN_ORDER_TO_VEHICLE", "PIN_DEPOT", "FORBID_ORDER_ON_VEHICLE"}

\* _fits: a dimension the vehicle does not declare holds nothing.
Fits(o, v) == \A d \in DOMAIN o.qty : o.qty[d] <= Get(v.cap, d)

HardWindows(o) == {w \in Range(StopOf(o).windows) : w.hard}

\* Mutant: a vehicle must be there when the window opens.
ReachesOpening(p, o, v, notBefore) ==
    LET at == StopOf(o).at
        arrival == Max({v.shift.start, o.release, notBefore})
                        + p.dur[v.start][at]
    IN  \/ HardWindows(o) = {}
        \/ /\ Reachable(p, v.start, at)
           /\ \E w \in HardWindows(o) : arrival <= w.start

\* _reachable: straight out of the depot, nothing else on board.
ReachesWindow(p, o, v, notBefore) ==
    LET at == StopOf(o).at
        arrival == Max({v.shift.start, o.release, notBefore})
                        + p.dur[v.start][at]
    IN  \/ HardWindows(o) = {}
        \/ /\ Reachable(p, v.start, at)
           /\ \E w \in HardWindows(o) : arrival <= w.end

\* _duty_fits: out and back is the cheapest duty that holds the order.
DutyFits(p, o, v) ==
    LET at == StopOf(o).at
    IN  \A h \in v.hos :
            /\ Reachable(p, v.start, at) /\ Reachable(p, at, EndsAt(v))
            /\ p.dur[v.start][at] + p.dur[at][EndsAt(v)]
                    <= RemainingDrive(RULES[h], Or(v.carry, Rested))

\* _forced_together_with_an_enemy.
ForcedTogether(p, o, usable) ==
    /\ Cardinality(usable) <= 1
    /\ \E e \in DOMAIN p.orders \ {o} :
            \/ p.orders[e].class \cap p.orders[o].incompatible # {}
            \/ p.orders[o].class \cap p.orders[e].incompatible # {}

\* _stocked_out: every depot of the eligible fleet is short of something.
StockedOut(p, o, fleet) ==
    LET homes == {p.vehicles[v].start : v \in fleet}
        Lacking(l) == \E d \in DOMAIN p.orders[o].qty :
                        /\ d \in DOMAIN p.locations[l].inventory
                        /\ p.locations[l].inventory[d] < p.orders[o].qty[d]
    IN  homes # {} /\ \A l \in homes : Lacking(l)

\* The first check of preflight that the order fails; "" when it fails none.
Obstacle(p, o) ==
    LET order == p.orders[o]
        fleet == Eligible(p, o)
        usable == {v \in fleet : Fits(order, p.vehicles[v])}
        hard == HardWindows(order)
    IN  CASE fleet = {} -> "NO_ELIGIBLE_VEHICLE"
          [] fleet # {} /\ usable = {} -> "CAPACITY_EXCEEDED"
          [] usable # {} /\ StockedOut(p, o, fleet) -> "DEPOT_STOCKOUT"
          [] OTHER ->
             IF hard # {} /\ \A w \in hard : order.release > w.end
             THEN "RELEASE_AFTER_WINDOW"
             ELSE IF \A v \in usable :
                        ~ReachesWindow(p, order, p.vehicles[v], 0)
             THEN "TIME_WINDOW_UNREACHABLE"
             ELSE IF \A v \in usable : ~DutyFits(p, order, p.vehicles[v])
             THEN "DUTY_LIMIT"
             ELSE IF ForcedTogether(p, o, usable)
             THEN "INCOMPATIBLE_ONLY"
             ELSE ""

\* preflight: the code reported for each order that fails; a lock that
\* narrowed the order's options takes the blame.
Findings(p) ==
    [o \in {x \in DOMAIN p.orders : Obstacle(p, x) # ""} |->
        IF Pinned(p, o) THEN "LOCK_CONFLICT" ELSE Obstacle(p, o)]

-----------------------------------------------------------------------------
(* Locks.                                                                  *)

Deployable(p) ==
    Grounded(p) = {} \/ DOMAIN p.vehicles \ Grounded(p) # {}

FeasibleUnderLocks(p) == Deployable(p) /\ DOMAIN Findings(p) = {}

\* _replace_locks: couplings and speed profiles are not carried over.
WithLocks(p, locks) ==
    [p EXCEPT !.locks = locks, !.syncs = {}, !.profile = {}, !.profiles = {}]

\* minimal_conflict: the deletion filter, over the locks in the order of the
\* instance (here any fixed order: SetToSeq).
MinimalConflict(p) ==
    LET order == SetToSeq(p.locks)
        kept[i \in 0..Len(order)] ==
            IF i = 0 THEN p.locks
            ELSE LET without == kept[i - 1] \ {order[i]}
                 IN  IF FeasibleUnderLocks(WithLocks(p, without))
                     THEN kept[i - 1] ELSE without
    IN  IF FeasibleUnderLocks(p) \/ ~FeasibleUnderLocks(WithLocks(p, {}))
        THEN {} ELSE kept[Len(order)]
=============================================================================
