----------------------------- MODULE VrpDomain -----------------------------
(***************************************************************************)
(* The domain of the planner: vrp/model.py, with the battery arithmetic of *)
(* vrp/battery.py and the speed profiles of vrp/timedependent.py that it   *)
(* imports.  Everything here is an operator over values; nothing changes.  *)
(*                                                                         *)
(* An instance ("problem") is a record.  Locations, orders and vehicles    *)
(* are functions from their ids, the natural numbers, in the order of the  *)
(* instance, so ids are distinct by construction; a location's id is its   *)
(* matrix index.  Times, distances and quantities are whole numbers, as in *)
(* the code.  An optional field is a set with at most one element, and a   *)
(* dictionary a function whose domain is its keys.  Wording, coordinates   *)
(* and the JSON text are left out.                                         *)
(***************************************************************************)
EXTENDS Integers, Sequences, FiniteSets, SequencesExt, FiniteSetsExt,
        Functions

CONSTANT PPT        \* a whole in parts: FULL_PPT and PPT, 1000 in the code
ASSUME PPTAssumption == PPT \in Nat \ {0}

UNREACHABLE == -1
IsOptNat(x) == x \subseteq Nat /\ Cardinality(x) <= 1

\* -(-a // b): division that rounds up.
CeilDiv(a, b) == (a + b - 1) \div b

\* d.get(key, 0) of a dictionary of numbers.
Get(d, key) == IF key \in DOMAIN d THEN d[key] ELSE 0

\* value or default, for an optional value.
Or(opt, default) == IF opt = {} THEN default ELSE CHOOSE x \in opt : TRUE

SumOver(S, Op(_)) == MapThenSumSet(Op, S)

-----------------------------------------------------------------------------
(* What construction refuses: the __post_init__ of each class.             *)

ValidWindow(w) ==
    /\ w.start \in Int /\ w.end \in Int /\ w.end >= w.start
    /\ w.early \in Nat /\ w.late \in Nat
    /\ w.hard => w.early = 0 /\ w.late = 0

Within(w, t) == w.start <= t /\ t <= w.end

ValidLocation(l) ==
    /\ l.dwell \in Nat /\ IsOptNat(l.dock) /\ IsOptNat(l.maxKg)
    /\ \A d \in DOMAIN l.inventory : l.inventory[d] \in Nat

\* time_windows are sorted and disjoint.
ValidStop(s) ==
    /\ s.fixed \in Nat /\ s.perUnit \in Nat
    /\ \A i \in DOMAIN s.windows : ValidWindow(s.windows[i])
    /\ \A i \in 1..(Len(s.windows) - 1) :
            s.windows[i + 1].start > s.windows[i].end

PRIORITY_SOURCES == <<"STATUTORY", "SLA", "COMMERCIAL">>

\* A SHIPMENT has both ends, a JOB exactly one; a ride bound belongs to a
\* shipment, a prize never to a statutory order, and an order that forbids
\* classes has one itself.
ValidOrder(o) ==
    /\ o.kind \in {"JOB", "SHIPMENT"}
    /\ \A d \in DOMAIN o.qty : o.qty[d] \in Nat
    /\ Cardinality(o.pickup) + Cardinality(o.delivery)
            = (IF o.kind = "SHIPMENT" THEN 2 ELSE 1)
    /\ Cardinality(o.pickup) <= 1
    /\ \A s \in o.pickup \cup o.delivery : ValidStop(s)
    /\ \A m \in o.maxRide : m > 0 /\ o.kind = "SHIPMENT"
    /\ o.source \in Range(PRIORITY_SOURCES)
    /\ o.source = "STATUTORY" => o.prize = 0
    /\ o.incompatible # {} => o.class # {}

\* Charging bands ascend to a full battery and none has zero power.
ValidCurve(bands) ==
    /\ bands # <<>> /\ Last(bands)[1] = PPT
    /\ \A i \in 1..(Len(bands) - 1) : bands[i][1] < bands[i + 1][1]
    /\ \A i \in DOMAIN bands : bands[i][2] > 0

\* _require_coherent_battery: all of an electric vehicle's fields or none.
ValidBattery(v) ==
    IF v.battery = {}
    THEN v.chargers = {} /\ v.curve = <<>> /\ v.whPerKm = 0
    ELSE /\ \A b \in v.battery : b > 0
         /\ v.whPerKm > 0 /\ ValidCurve(v.curve) /\ v.soc \in 0..PPT

ValidVehicle(v) ==
    /\ \A d \in DOMAIN v.cap : v.cap[d] \in Nat
    /\ ValidWindow(v.shift)
    /\ IsOptNat(v.maxDuration) /\ IsOptNat(v.maxDistance)
    /\ {v.fixedCost, v.perMetre, v.perSecond, v.perOrder, v.overtime}
            \subseteq Nat
    /\ v.maxReloads \in Nat /\ v.reloadTime \in Nat
    /\ v.maxReloads > 0 => v.reloadAt # {}
    /\ v.factor > 0
    /\ ValidBattery(v)

ValidGrid(grid, n) ==
    \A i, j \in 0..(n - 1) : grid[i][j] \in Nat \cup {UNREACHABLE}

LockKinds ==
    [ PIN_ORDER_TO_VEHICLE |-> {"order", "vehicle"},
      FORBID_ORDER_ON_VEHICLE |-> {"order", "vehicle"},
      FIX_ROUTE_PREFIX |-> {"vehicle", "orders"},
      FIX_SEQUENCE |-> {"vehicle", "orders"},
      FORCE_DEPLOY |-> {"vehicle"},
      FORBID_DEPLOY |-> {"vehicle"},
      PIN_DEPOT |-> {"order", "depot"},
      FREEZE_UNTIL |-> {"instant"} ]

\* A lock names what its kind needs.  A lock is a record whose domain is its
\* kind and the fields it carries.
ValidLock(k) ==
    /\ k.kind \in DOMAIN LockKinds
    /\ LockKinds[k.kind] \subseteq DOMAIN k
    /\ "orders" \in LockKinds[k.kind] => k.orders # <<>>

LockOrders(k) ==
    (IF "order" \in DOMAIN k THEN {k.order} ELSE {})
        \cup (IF "orders" \in DOMAIN k THEN Range(k.orders) ELSE {})

ValidSync(s) ==
    /\ s.kind \in {"TRANSFER", "CONVOY"} /\ s.first # s.second
    /\ s.minGap \in Nat /\ \A m \in s.maxGap : m >= s.minGap
    /\ s.kind = "CONVOY" => s.maxGap # {}

-----------------------------------------------------------------------------
(* Speed profiles: a day of equal buckets, each with a multiplier of the   *)
(* free-flow speed.                                                        *)

ValidProfile(f) ==
    /\ f.bucket > 0 /\ f.multipliers # <<>>
    /\ \A i \in DOMAIN f.multipliers : f.multipliers[i] > 0

MultiplierAt(f, t) ==
    f.multipliers[(t % (f.bucket * Len(f.multipliers))) \div f.bucket + 1]

ToBoundary(f, t) == f.bucket - (t % f.bucket)

ArcClass(freeFlow) ==
    IF freeFlow <= 300 THEN "local"
    ELSE IF freeFlow <= 1200 THEN "arterial" ELSE "trunk"

\* How long the arc takes when it is left at depart: the speed changes at
\* each bucket boundary crossed on the way.
Travel(freeFlow, depart, f) ==
    LET walk[remaining \in Nat, clock \in Nat] ==
        IF CeilDiv(remaining, MultiplierAt(f, clock)) <= ToBoundary(f, clock)
        THEN CeilDiv(remaining, MultiplierAt(f, clock))
        ELSE ToBoundary(f, clock)
                + walk[remaining - ToBoundary(f, clock) * MultiplierAt(f, clock),
                       clock + ToBoundary(f, clock)]
    IN  IF freeFlow = 0 THEN 0 ELSE walk[freeFlow * PPT, depart]

\* The arc at the best speed the profile ever offers.
FastestPossible(freeFlow, f) ==
    IF freeFlow <= 0 THEN 0
    ELSE CeilDiv(freeFlow * PPT, Max(Range(f.multipliers)))

\* filter_moves: what the bound prunes, and what passes it and is late all
\* the same.  A move is <<free flow, departure, deadline>>.
FilterMoves(moves, f) ==
    LET Pruned(m) == m[2] + FastestPossible(m[1], f) > m[3]
    IN  [ pruned |-> {m \in moves : Pruned(m)},
          missed |-> {m \in moves :
                        ~Pruned(m) /\ m[2] + Travel(m[1], m[2], f) > m[3]} ]

-----------------------------------------------------------------------------
(* Battery.                                                                *)

\* The band in force at a state of charge; the last one when it is full.
BandAt(bands, soc) ==
    LET above == {i \in DOMAIN bands : soc < bands[i][1]}
    IN  bands[IF above = {} THEN Len(bands) ELSE Min(above)]

ConsumedPpt(battery, whPerKm, metres) ==
    IF metres <= 0 THEN 0
    ELSE CeilDiv(CeilDiv(whPerKm * metres, 1000) * PPT, battery)

\* Seconds on the plug, band by band; each slice rounds up.
ChargeSeconds(battery, bands, from, to) ==
    LET walk[soc \in Nat] ==
        LET Slice(band) == Min({to, IF soc < band[1] THEN band[1] ELSE PPT})
            Fill(power, ceiling) ==
                CeilDiv(CeilDiv(battery * (ceiling - soc), PPT) * 3600, power)
                    + walk[ceiling]
        IN  IF soc >= to THEN 0
            ELSE Fill(BandAt(bands, soc)[2], Slice(BandAt(bands, soc)))
    IN  walk[Max({from, 0})]

-----------------------------------------------------------------------------
(* The instance.                                                           *)

Reachable(p, a, b) == p.dur[a][b] # UNREACHABLE

\* _require_coherent_profiles: one profile, or one for every class of arc
\* the matrix holds, never both.
CoherentProfiles(p) ==
    \A profiles \in p.profiles :
        /\ p.profile = {}
        /\ {ArcClass(p.dur[arc[1]][arc[2]]) : arc \in
                {pair \in (DOMAIN p.dur) \X (DOMAIN p.dur) :
                    pair[1] # pair[2] /\ p.dur[pair[1]][pair[2]] > 0}}
                \subseteq DOMAIN profiles
        /\ DOMAIN profiles # {}

\* Problem.__post_init__: whatever is named exists.
ValidProblem(p) ==
    /\ \A l \in DOMAIN p.locations : ValidLocation(p.locations[l])
    /\ \A o \in DOMAIN p.orders : ValidOrder(p.orders[o])
    /\ \A v \in DOMAIN p.vehicles : ValidVehicle(p.vehicles[v])
    /\ ValidGrid(p.dur, Cardinality(DOMAIN p.dur))
    /\ ValidGrid(p.dist, Cardinality(DOMAIN p.dur))
    /\ DOMAIN p.locations \subseteq DOMAIN p.dur
    /\ CoherentProfiles(p)
    /\ \A o \in DOMAIN p.orders :
            \A s \in p.orders[o].pickup \cup p.orders[o].delivery :
                s.at \in DOMAIN p.locations
    /\ \A s \in p.syncs : ValidSync(s)
                /\ {s.first, s.second} \subseteq DOMAIN p.orders
    /\ \A v \in DOMAIN p.vehicles :
            {p.vehicles[v].start} \cup p.vehicles[v].end
                \subseteq DOMAIN p.locations
    /\ \A k \in p.locks :
            /\ ValidLock(k)
            /\ LockOrders(k) \subseteq DOMAIN p.orders
            /\ "vehicle" \in DOMAIN k => k.vehicle \in DOMAIN p.vehicles

\* ends_at, of a closed route.
EndsAt(v) == Or(v.end, v.start)

\* delivery or pickup: the stop that stands for an order.
StopOf(o) == Or(o.delivery, CHOOSE s \in o.pickup : TRUE)

ProfileForArc(p, freeFlow) ==
    IF p.profiles = {} THEN p.profile
    ELSE UNION {{f[c] : c \in DOMAIN f \cap {ArcClass(freeFlow)}} :
                    f \in p.profiles}

\* The arc under the profile it has, if it has one.
TravelUnder(profile, freeFlow, depart) ==
    IF profile = {} \/ freeFlow <= 0 THEN freeFlow
    ELSE Travel(freeFlow, depart, CHOOSE f \in profile : TRUE)

TravelBetween(p, a, b, depart) ==
    TravelUnder(ProfileForArc(p, p.dur[a][b]), p.dur[a][b], depart)

MayEnter(v, site) ==
    /\ site.access # {} => v.access \cap site.access # {}
    /\ \A limit \in site.maxKg, kg \in v.kg : kg <= limit

HasSkillsFor(v, o) == o.skills \subseteq v.skills

MustBeServed(o) == o.tier = 0 \/ o.prize = 0

\* Lower is more protected.
Precedence(o) ==
    <<o.tier, CHOOSE i \in DOMAIN PRIORITY_SOURCES :
                    PRIORITY_SOURCES[i] = o.source>>

SlaWindow(reported, within, opens) ==
    [start |-> Max({opens, reported}), end |-> reported + within,
     hard |-> TRUE, early |-> 0, late |-> 0]

\* _stop_served_at: the pickup where the location tells the two ends apart.
StopServedAt(o, at) ==
    IF \E s \in o.pickup, t \in o.delivery : s.at = at /\ t.at # at
    THEN CHOOSE s \in o.pickup : TRUE
    ELSE StopOf(o)

Handling(o, stop) ==
    stop.fixed + stop.perUnit *
        IF stop.unit = {} THEN SumOver(DOMAIN o.qty, LAMBDA d : o.qty[d])
        ELSE Get(o.qty, CHOOSE d \in stop.unit : TRUE)

\* The vehicle's factor scales the handling, not the dwell overhead.
ServiceTime(p, o, v, at) ==
    (Handling(o, StopServedAt(o, at)) * v.factor) \div PPT
        + p.locations[at].dwell

-----------------------------------------------------------------------------
(* The parts small instances are made of: each has the defaults of its     *)
(* class in vrp/model.py, and an instance overrides what it is about.      *)

W(a, b) == [start |-> a, end |-> b, hard |-> TRUE, early |-> 0, late |-> 0]
Soft(a, b, rate) == [W(a, b) EXCEPT !.hard = FALSE, !.early = rate,
                                    !.late = rate]

PlainSite ==
    [dwell |-> 0, dock |-> {}, inventory |-> <<>>, access |-> {}, maxKg |-> {}]

Stop(l, windows) == [at |-> l, windows |-> windows, fixed |-> 1,
                     perUnit |-> 0, unit |-> {}]

Job(l, windows) ==
    [kind |-> "JOB", qty |-> [kg |-> 1], pickup |-> {},
     delivery |-> {Stop(l, windows)}, tier |-> 0, prize |-> 0, release |-> 0,
     skills |-> {}, maxRide |-> {}, source |-> "COMMERCIAL", class |-> {},
     incompatible |-> {}]

Van == [cap |-> [kg |-> 2], shift |-> W(0, 60), start |-> 0, end |-> {},
        maxDuration |-> {}, maxDistance |-> {}, skills |-> {},
        fixedCost |-> 0, perMetre |-> 0, perSecond |-> 0, perOrder |-> 0,
        overtime |-> 0, factor |-> PPT, reloadAt |-> {}, maxReloads |-> 0,
        reloadTime |-> 0, battery |-> {}, whPerKm |-> 0, chargers |-> {},
        curve |-> <<>>, soc |-> PPT, access |-> {}, kg |-> {}, hos |-> {},
        carry |-> {}, open |-> FALSE, mode |-> "driving"]

\* Places on a line, this far apart.
OnALine(n, gap) ==
    [a \in 0..n |-> [b \in 0..n |-> gap * IF a > b THEN a - b ELSE b - a]]

Instance(orders, fleet, grid) ==
    [locations |-> [l \in DOMAIN grid |-> PlainSite], orders |-> orders,
     vehicles |-> fleet, dur |-> grid, dist |-> grid, locks |-> {},
     syncs |-> {}, profile |-> {}, profiles |-> {}, degraded |-> FALSE]
=============================================================================
