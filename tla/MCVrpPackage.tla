---------------------------- MODULE MCVrpPackage ----------------------------
(***************************************************************************)
(* The vrp package and the tools it is measured with, on small cases.  One *)
(* process runs one of the parts: work says which, and the variables of    *)
(* every other part rest.  Five of the parts are those of PackageParts,    *)
(* whose PartsSpec this Spec implies: it starts where a part starts or     *)
(* with another part at work, and takes a step of a part or one that       *)
(* leaves work as it is.                                                   *)
(***************************************************************************)
EXTENDS PackageParts, Evaluator, TLC

-----------------------------------------------------------------------------
(* Orchestrators: couplings of orders, and stock at depot 0.               *)

LoopJobs ==
    <<Job(1, <<W(0, 12)>>),
      [Job(2, <<W(2, 9), W(12, 30)>>) EXCEPT !.tier = 1],
      [Job(1, <<>>) EXCEPT !.tier = 2]>>

Coupling(kind, a, b, least, most) ==
    [kind |-> kind, first |-> a, second |-> b, minGap |-> least,
     maxGap |-> most]

\* Two depots, 0 and 3, one van each.
LoopBase == Instance(LoopJobs, <<Van, [Van EXCEPT !.start = 3]>>, OnALine(3, 4))

LoopInstances ==
    {[LoopBase EXCEPT !.syncs = s, !.locations[0].inventory = stock,
                      !.locations[3].inventory = other] :
        s \in {{}, {Coupling("TRANSFER", 1, 2, 3, {10})},
               {Coupling("CONVOY", 1, 2, 0, {1})},
               {Coupling("TRANSFER", 1, 2, 0, {}),
                Coupling("CONVOY", 2, 3, 0, {2})}},
        stock \in {[kg |-> n] : n \in 0..1},
        other \in {<<>>, [kg |-> 1]}}

-----------------------------------------------------------------------------
(* RouteSearch: four customers on a plane.                                 *)

\* Places on a plane, by the metric of a city of square blocks.
City(at) ==
    [a \in 0..4 |-> [b \in 0..4 |->
        LET Gap(i) == IF at[a][i] > at[b][i] THEN at[a][i] - at[b][i]
                      ELSE at[b][i] - at[a][i]
        IN  Gap(1) + Gap(2)]]

SearchGrids == {City(at) : at \in
    {(0 :> <<0, 0>> @@ 1 :> <<1, 0>> @@ 2 :> <<3, 1>> @@ 3 :> <<0, 2>>
        @@ 4 :> <<2, 2>>)}}
SearchStarts == {<<<<1, 2>>, <<3>>, <<4>>>>, <<<<3, 2, 1, 4>>>>}
SearchDemand == <<1, 2, 1, 2>>
SearchWindows == <<{}, {<<2, 6>>}, {}, {<<0, 9>>}>>
SearchService == <<1, 1, 1, 1>>

-----------------------------------------------------------------------------
(* Decomposition.                                                          *)

\* Two depots at the ends of a line; one of them has a single bay.
LargeSites == [l \in 0..3 |->
            IF l = 0 THEN [PlainSite EXCEPT !.dock = {1}, !.dwell = 2]
            ELSE IF l = 3 THEN [PlainSite EXCEPT !.dwell = 2] ELSE PlainSite]

LargeFleet == <<[Van EXCEPT !.end = {0}], [Van EXCEPT !.end = {0}],
           [Van EXCEPT !.start = 3, !.end = {3}]>>

LargeBase(orders) ==
    [Instance(orders, LargeFleet, OnALine(3, 4)) EXCEPT !.locations = LargeSites]

LargeProblems ==
    {LargeBase(<<Job(1, <<w>>), Job(2, <<>>), Job(1, <<>>), Job(2, <<x>>)>>) :
        w \in {W(0, 8), W(6, 20)}, x \in {W(0, 40), W(6, 14)}}
LargeBearing == <<0, 2, 1, 2>>
LargeWeights == [perVehicle |-> 3, perMetre |-> 1, perSecond |-> 0,
              unassigned |-> 100]

-----------------------------------------------------------------------------
(* MatrixBuild.                                                            *)

LocationLists == {<<10, 20, 31>>, <<21, 10>>, <<11, 40, 30>>, <<40>>}
\* No road from 4 to 1; halves to round either way; no two pairs alike.
Roads(e, a, b) ==
    IF a = b THEN 0 ELSE IF a = 4 /\ b = 1 THEN -2
    ELSE 100 * a + 35 * b + 1000 * e

-----------------------------------------------------------------------------
(* Portfolio.                                                              *)

\* Two jobs two apart and one van that may or may not take both in time.
Round(closing) ==
    Instance([o \in {1, 2} |-> Job(o, <<W(0, IF o = 1 THEN 60 ELSE closing)>>)],
             [v \in {1, 2} |-> [Van EXCEPT !.fixedCost = 4, !.perMetre = 1]],
             OnALine(2, 4))
\* The same with no road home from the second.
OneWay == [Round(60) EXCEPT !.dur[2][0] = -1, !.dist[2][0] = -1]
RacedInstances == {Round(8), Round(9), OneWay}
Entrants == 1..3
RacedWeights == [perVehicle |-> 0, perMetre |-> 1, perSecond |-> 0,
              unassigned |-> 100]

RouteAs(p, v, seq) == [vehicle |-> v, steps |-> Timeline(p, v, seq)]
Plan(p, routes, missed) ==
    {[routes |-> routes, unassigned |-> missed, claimed |-> <<>>]}
\* Raised; a legal plan of one van or two; a stop forgotten; a stop dropped.
Lost(p) == <<[Step("START", 0, 0, 0, 0, {}, <<>>) EXCEPT !.at = 2],
             Step("END", 0, 4, 4, 4, {}, <<>>)>>
MemberOffers(p) ==
    IF p = OneWay
    THEN {{}, Plan(p, <<>>, {1, 2}),
          Plan(p, <<[vehicle |-> 1, steps |-> Lost(p)]>>, {1, 2})} ELSE
    {{}, Plan(p, <<RouteAs(p, 1, <<1, 2>>)>>, {}),
     Plan(p, <<RouteAs(p, 1, <<1>>), RouteAs(p, 2, <<2>>)>>, {}),
     Plan(p, <<RouteAs(p, 1, <<2>>)>>, {}),
     Plan(p, <<RouteAs(p, 1, <<2>>)>>, {1})}

-----------------------------------------------------------------------------
(* Plans.                                                                  *)

\* Places 0..3 on a line, two apart; vans leave from 0 or from 3.
Grid == OnALine(3, 2)
TwoVans == <<[Van EXCEPT !.end = {0}],
             [Van EXCEPT !.start = 3, !.end = {3}, !.shift = W(2, 40)]>>

Declinable(job, tier, prize) == [job EXCEPT !.tier = tier, !.prize = prize]

\* Hard and soft windows, two of them at one stop, and prizes in three tiers.
Windowed ==
    Instance(<<Job(1, <<W(2, 6), W(12, 20)>>),
               Declinable(Job(2, <<W(0, 9)>>), 1, 5),
               Declinable(Job(3, <<Soft(4, 6, 1)>>), 2, 3)>>,
             TwoVans, Grid)

\* A short shift of stops with one hard window each: when to leave, and in
\* which order.
Appointments ==
    Instance(<<Job(1, <<W(8, 10)>>), Job(2, <<W(4, 12)>>),
               Job(3, <<SlaWindow(2, 7, 0)>>)>>,
             <<[Van EXCEPT !.shift = W(0, 24), !.end = {0}]>>, Grid)

\* What either engine takes: one depot, one window at most, all served.
Plain ==
    Instance(<<Job(1, <<W(2, 9)>>), Job(2, <<>>),
               Job(3, <<Soft(0, 4, 1)>>)>>,
             <<Van, Van>>, Grid)

\* Goods to be collected, and goods there on the way out, with limits.
Limits ==
    Instance(<<Job(1, <<>>),
               [Job(2, <<>>) EXCEPT !.pickup = {Stop(2, <<>>)},
                                    !.delivery = {}, !.release = 3],
               [Job(3, <<W(0, 30)>>) EXCEPT !.qty = [kg |-> 2]]>>,
             <<[Van EXCEPT !.maxDuration = {13}, !.maxDistance = {12}],
               [Van EXCEPT !.cap = [kg |-> 3], !.open = TRUE]>>, Grid)

\* A shipment whose ride is bounded, and a job on the way.
Ride ==
    Instance(<<[Job(2, <<>>) EXCEPT !.kind = "SHIPMENT",
                   !.pickup = {Stop(1, <<W(0, 8)>>)}, !.maxRide = {6}],
               Job(2, <<>>)>>,
             <<Van>>, Grid)

\* A van that holds one of three drops and may come back for more.
Reloads ==
    Instance(<<Job(1, <<>>), Job(2, <<W(0, 14)>>), Job(1, <<>>)>>,
             <<[Van EXCEPT !.cap = [kg |-> 1], !.reloadAt = {0},
                           !.maxReloads = 1]>>, Grid)

\* Skills, sites and locks.
Qualified ==
    [Instance(<<[Job(1, <<>>) EXCEPT !.skills = {"lift"}],
                Job(2, <<>>), Job(3, <<W(0, 4)>>)>>,
              <<[Van EXCEPT !.skills = {"lift"}, !.kg = {8}, !.end = {0}],
                [Van EXCEPT !.start = 3, !.end = {3}, !.access = {"quay"}]>>,
              Grid)
        EXCEPT !.locations[2] = [PlainSite EXCEPT !.maxKg = {5},
                                             !.access = {"quay"}]]

Pin(o, v) == [kind |-> "PIN_ORDER_TO_VEHICLE", order |-> o, vehicle |-> v]
Forbid(o, v) == [kind |-> "FORBID_ORDER_ON_VEHICLE", order |-> o, vehicle |-> v]
Ground(v) == [kind |-> "FORBID_DEPLOY", vehicle |-> v]

Locked(locks) == [Qualified EXCEPT !.locks = locks]

\* An electric van: each leg between neighbours takes a fifth of its
\* charge, and there is a charger between.
Electric ==
    Instance([o \in 1..3 |-> Job(o, <<>>)],
             <<[Van EXCEPT !.cap = [kg |-> 3], !.battery = {1000},
                           !.whPerKm = 100000, !.chargers = {1}, !.soc = 7,
                           !.curve = <<<<8, 900000>>, <<PPT, 360000>>>>,
                           !.end = {0}, !.shift = W(0, 120)]>>, Grid)

\* Roads at half speed every other while.
Traffic ==
    [Instance(<<Job(1, <<W(0, 9)>>), Job(2, <<>>), Job(3, <<>>)>>,
              <<[Van EXCEPT !.cap = [kg |-> 3], !.end = {0}]>>, Grid)
        EXCEPT !.profile = {[bucket |-> 5, multipliers |-> <<5, 10>>]}]

\* Hours of driving, and a driver who must rest on the way.
Tired ==
    Instance(<<Job(1, <<>>), Job(2, <<>>), Job(3, <<>>)>>,
             <<[Van EXCEPT !.hos = {"EU_561"}, !.cap = [kg |-> 3],
                           !.shift = W(0, 50000), !.end = {0}]>>,
             OnALine(3, 7000))

\* Windows on a long road: a break pushes the third stop out of its window,
\* the first has a window the scheduler does not read, and the last is the end
\* of the duty as well as of the road.
Pushed ==
    Instance(<<Job(1, <<W(0, 5000), W(10000, 20000)>>),
               Job(2, <<W(0, 15000)>>), Job(3, <<W(0, 22000)>>),
               Job(3, <<W(47000, 50000)>>)>>,
             <<[Van EXCEPT !.hos = {"EU_561"}, !.cap = [kg |-> 4],
                           !.shift = W(0, 60000), !.end = {3}]>>,
             OnALine(3, 7000))

\* Orders no vehicle can take, or not in time.
Hopeless ==
    Instance(<<[Job(1, <<>>) EXCEPT !.qty = [kg |-> 5]],
               Job(3, <<W(0, 4)>>),
               [Job(2, <<>>) EXCEPT !.skills = {"lift"}],
               [Job(1, <<W(2, 6)>>) EXCEPT !.release = 9]>>,
             <<[Van EXCEPT !.end = {0}]>>, Grid)

\* Sites that admit none of the fleet: by class, by weight, and one by class
\* for an order that asks for a skill too.
Barred ==
    [Instance(<<Job(1, <<>>), Job(2, <<>>),
                [Job(1, <<>>) EXCEPT !.skills = {"lift"}]>>,
              <<[Van EXCEPT !.kg = {8}]>>, Grid)
        EXCEPT !.locations[1] = [PlainSite EXCEPT !.access = {"quay"}],
               !.locations[2] = [PlainSite EXCEPT !.maxKg = {5}]]

\* The van that is next door lacks the skill, and the other is late.
NextDoor ==
    Instance(<<[Job(3, <<W(0, 1)>>) EXCEPT !.skills = {"lift"}]>>,
             <<[Van EXCEPT !.skills = {"lift"}],
               [Van EXCEPT !.start = 3, !.shift = W(2, 40)]>>, Grid)

\* A depot with one bay, that holds less than one order needs and than one
\* gives back.
Short ==
    [Instance(<<[Job(1, <<>>) EXCEPT !.qty = [kg |-> 2]],
                [Job(2, <<>>) EXCEPT !.qty = [kg |-> 2],
                    !.pickup = {Stop(2, <<>>)}, !.delivery = {}]>>,
              <<Van, Van>>, Grid)
        EXCEPT !.locations[0] = [PlainSite EXCEPT !.inventory = [kg |-> 1],
                                                  !.dock = {1}, !.dwell = 2]]

\* Orders of two classes that exclude each other: one lift for two of them,
\* and a van that would take the third.
Foes ==
    Instance(<<[Job(1, <<>>) EXCEPT !.class = {"food"}, !.skills = {"lift"},
                                    !.incompatible = {"waste"}],
               [Job(2, <<>>) EXCEPT !.class = {"waste"}],
               [Job(3, <<>>) EXCEPT !.class = {"waste"}, !.skills = {"lift"},
                                    !.tier = 1, !.prize = 2]>>,
             <<[Van EXCEPT !.skills = {"lift"}], Van>>, Grid)

\* A long way out for a van that need not come back.
OneWayTrip ==
    Instance(<<Job(1, <<>>)>>,
             <<[Van EXCEPT !.hos = {"US_HOS"}, !.open = TRUE,
                           !.shift = W(0, 60000)]>>,
             OnALine(1, 24000))

\* A dimension no van declares.
Undeclared ==
    Instance(<<[Job(1, <<>>) EXCEPT !.qty = [litres |-> 1]]>>, <<Van>>, Grid)

\* The road to place 2 is longer than the way round by place 1.
ByPlaceOne == [OnALine(2, 2) EXCEPT ![0][2] = 10]
WayRound ==
    Instance(<<Job(1, <<>>), Job(2, <<W(0, 6)>>)>>, <<Van>>, ByPlaceOne)
LongWay ==
    Instance(<<Job(1, <<>>), Job(2, <<>>)>>,
             <<[Van EXCEPT !.hos = {"US_HOS"}, !.shift = W(0, 60000)]>>,
             [ByPlaceOne EXCEPT ![0][2] = 24000, ![2][0] = 24000])
RideByDetour ==
    Instance(<<[Job(1, <<>>) EXCEPT !.kind = "SHIPMENT",
                   !.pickup = {Stop(2, <<>>)}, !.maxRide = {3}],
               [Job(2, <<>>) EXCEPT !.kind = "SHIPMENT",
                   !.pickup = {Stop(1, <<>>)},
                   !.delivery = {[Stop(2, <<>>) EXCEPT !.fixed = 5]}]>>,
             <<Van>>, ByPlaceOne)
\* There is none, but for the way round.
Stranded ==
    [Instance(<<[Job(1, <<>>) EXCEPT !.kind = "SHIPMENT",
                    !.pickup = {Stop(2, <<>>)}], Job(1, <<>>)>>,
              <<Van>>, ByPlaceOne)
        EXCEPT !.dur[0][2] = -1, !.dist[0][2] = -1]

\* Roads that are quicker than the matrix says, and slower for a driver.
Downhill ==
    [Instance(<<Job(1, <<W(0, 3)>>)>>, <<Van>>, OnALine(1, 4))
        EXCEPT !.profile = {[bucket |-> 5, multipliers |-> <<20>>]}]
Jammed ==
    [Instance(<<Job(1, <<>>)>>, <<[Van EXCEPT !.hos = {"EU_561"}]>>,
              OnALine(1, 4))
        EXCEPT !.profile = {[bucket |-> 60, multipliers |-> <<5>>]}]

\* Goods that come in after the first trip has left.
LateGoods ==
    Instance(<<Job(1, <<>>), [Job(2, <<>>) EXCEPT !.release = 5]>>,
             <<[Van EXCEPT !.cap = [kg |-> 1], !.reloadAt = {0},
                           !.maxReloads = 1]>>, Grid)

\* A stop that has a hard window and a soft one, and a clumsy second driver.
Mixed ==
    Instance(<<Job(1, <<W(0, 4), Soft(6, 8, 1)>>), Job(3, <<>>)>>,
             <<Van>>, Grid)
Clumsy ==
    Instance(<<Job(1, <<>>), Job(2, <<>>)>>,
             <<Van, [Van EXCEPT !.factor = 2 * PPT]>>, Grid)

\* An order at the depot, for a skill nobody has, and not for this van.
AtTheYard ==
    [Instance(<<[Job(0, <<>>) EXCEPT !.skills = {"lift"}]>>, <<Van>>, Grid)
        EXCEPT !.locks = {Forbid(1, 1)}]

\* Orders that are to come one after the other, apart, or pinned, and a van
\* that is to go out.
InOrder(changes) ==
    [Instance(<<Declinable(Job(1, <<>>), 1, 5),
                Declinable(Job(2, <<>>), 1, 4)>>,
              <<Van>>, Grid) EXCEPT !.locks = changes.locks,
                                    !.syncs = changes.syncs]
Bidden ==
    {InOrder([locks |-> {k}, syncs |-> {}]) :
        k \in {[kind |-> "FIX_ROUTE_PREFIX", vehicle |-> 1, orders |-> <<2>>],
               [kind |-> "FIX_SEQUENCE", vehicle |-> 1, orders |-> <<2, 1>>],
               [kind |-> "FORCE_DEPLOY", vehicle |-> 1],
               [kind |-> "FREEZE_UNTIL", instant |-> 5]}} \cup
    {InOrder([locks |-> {},
              syncs |-> {Coupling("TRANSFER", 1, 2, 30, {})}])}

\* Lateness at a rate that outweighs the rest, and a promise far ahead.
Fined ==
    Instance(<<Declinable(Job(1, <<Soft(0, 1, 3000)>>), 1, 1),
               Declinable(Job(2, <<Soft(900, 901, 1)>>), 1, 1)>>,
             <<Van>>, OnALine(2, 2))

\* More trips than there are places, and vans paid by the metre.
Shuttle ==
    Instance([o \in 1..3 |-> Job(1, <<>>)],
             <<[Van EXCEPT !.cap = [kg |-> 1], !.reloadAt = {0},
                           !.maxReloads = 2, !.perMetre = 2]>>, OnALine(1, 2))
PaidByTheMetre ==
    [Instance(<<Job(1, <<>>)>>, <<[Van EXCEPT !.perMetre = 1]>>, OnALine(1, 9))
        EXCEPT !.dist = OnALine(1, 1)]

\* A stop with a gap between its windows.
Gapped ==
    Instance(<<Job(1, <<W(0, 1), W(20, 30)>>), Job(3, <<W(0, 12)>>)>>,
             <<[Van EXCEPT !.end = {3}]>>, Grid)

PlanProblems ==
    {Windowed, Plain, Appointments, Limits, Ride, Reloads, Electric, Traffic,
     Tired, Hopeless, Pushed, Barred, NextDoor, Short, Foes, OneWayTrip,
     Undeclared, WayRound, LongWay, RideByDetour, Stranded, Downhill, Jammed,
     LateGoods, Mixed, Clumsy, AtTheYard, Fined, Shuttle, PaidByTheMetre,
     Gapped} \cup Bidden \cup
    {Locked(k) : k \in {{}, {Pin(1, 1)}, {Forbid(1, 1), Pin(3, 2)},
                        {Ground(1), Forbid(2, 1), Pin(1, 2)},
                        {Pin(2, 1), Pin(3, 2), Forbid(3, 2)}}}

PlanBands == <<<<1, "small">>, <<10, "medium">>>>
PlanParts == <<<<6, "early">>, <<100, "late">>>>
PlanSpec == [mode |-> "MIN_COST", fixed |-> 3, metre |-> 1, second |-> 1]
PlanWeights == [perVehicle |-> 3, perMetre |-> 1, perSecond |-> 1,
              unassigned |-> 50]

PlanRounds ==
    {<<[visits |-> n, maxInterval |-> gap, permitted |-> days],
       [visits |-> 2, maxInterval |-> 4, permitted |-> {}]>> :
        n \in 1..4, gap \in 2..6, days \in {{}, {0, 1, 2}, {1, 3, 5}, {0, 4}}}
PlanCanaries ==
    {[depot |-> d, minimumDays |-> n, criteria |-> c] :
        d \in {0, 3}, n \in 0..2,
        c \in {[adherence |-> 3], [adherence |-> 5, cost_delta |-> 0],
               [overtime |-> 0]}}

-----------------------------------------------------------------------------
(* DeliveryModels.                                                         *)

ModelRequired == {"name", "problem_id", "quantity", "service", "windows",
                  "shift", "route", "assignment", "fleet"}
ModelContract ==
    ModelRequired \cup {"run", "order", "declinable", "applies_to", "base",
                        "tunable", "use", "set"}
ModelStrategies == {"nearest", "spread"}

Shop == [quantity |-> [kg |-> [fixed |-> 1]],
         assignment |-> [depot |-> "nearest"],
         route |-> [closed |-> TRUE], run |-> [engine |-> "pyvrp",
            mode |-> "MIN_COST", fixed |-> 2, per_metre |-> 1, per_second |-> 0]]
Calm == [shift |-> [start |-> 0, end |-> 30], windows |-> <<>>,
         service |-> [fixed |-> 2]]
Bikes == [fleet |-> [bike |-> [capacities |-> [kg |-> 2], per_depot |-> 1]]]
Vans == [fleet |-> [van |-> [capacities |-> [kg |-> 4], per_depot |-> 1]]]
Named(n) == [name |-> n, problem_id |-> n]

File(body, use, tunable) ==
    [body |-> body, base |-> {}, use |-> use, tunable |-> tunable,
     set |-> <<>>]
Variant(master) == [File(<<>>, <<>>, {}) EXCEPT !.base = {master}]

Surface == {<<"shift", "end">>, <<"fleet", "bike", "per_depot">>,
            <<"run", "engine">>, <<"windows">>, <<"service", "fixed">>}

Parcel == File(Named("parcel") @@ Shop, <<"calm", "bikes">>, Surface)
Country == File(Named("country") @@ Shop @@ Vans, <<"calm">>, {})
Contested == File(Named("contested") @@ Shop @@ Vans, <<"calm", "bikes">>, {})

ModelFragments ==
    [calm |-> File(Calm, <<>>, {}), bikes |-> File(Bikes, <<>>, {})]
ModelLibraries ==
    {<<[models |-> [parcel |-> Parcel], categories |-> [box |-> "parcel"],
        fragments |-> ModelFragments]>>,
     \* a private directory before the shipped one
     <<[models |-> <<>>, categories |-> <<>>,
        fragments |-> [bikes |-> File(Vans, <<>>, {})]],
       [models |-> [parcel |-> Parcel, country |-> Country,
                    city |-> Variant("parcel")],
        categories |-> [box |-> "parcel"],
        fragments |-> ModelFragments]>>}
ModelDrafts == {[name |-> "city", file |-> Variant("parcel")],
             [name |-> "parcel", file |-> Parcel],
             [name |-> "country", file |-> Country],
             [name |-> "contested", file |-> Contested]}
ModelEdits ==
           {<<<<"shift", "end">>, 8>>, <<<<"fleet", "bike", "per_depot">>, 2>>,
            <<<<"fleet", "bike", "per_depot">>, 0>>,
            <<<<"run", "engine">>, "guess">>,
            <<<<"windows">>, <<W(0, 3)>>>>, <<<<"service", "fixed">>, 9>>,
            <<<<"route", "closed">>, FALSE>>}
ModelDemands == {<<<<>>, <<>>>>, <<<<>>, <<>>, <<>>>>}
ModelMap == OnALine(4, 2)

\* An engine that serves as much as one legal plan can.
FullestPlan(p) ==
    LET plans == {a \in [DOMAIN p.vehicles ->
                            UNION {SetToSeqs(s) : s \in SUBSET DOMAIN p.orders}] :
                    /\ \A v, u \in DOMAIN p.vehicles :
                            v # u => Range(a[v]) \cap Range(a[u]) = {}
                    /\ \A v \in DOMAIN a : RouteIsLegal(p, v, a[v])}
        fullest == CHOOSE a \in plans : \A b \in plans :
                        Cardinality(Served(a)) >= Cardinality(Served(b))
        used == SetToSortSeq({v \in DOMAIN fullest : fullest[v] # <<>>}, <)
    IN  [ routes |-> [i \in DOMAIN used |->
            [vehicle |-> used[i],
             steps |-> Timeline(p, used[i], fullest[used[i]])]],
          unassigned |-> DOMAIN p.orders \ Served(fullest), claimed |-> <<>>,
          status |-> "FEASIBLE" ]
-----------------------------------------------------------------------------
(* Parity: a gateway, and ports of it that are each wrong in one way.      *)

ParityCorpus ==
    [i \in 1..5 |-> [endpoint |-> <<"route", "matrix", "tile", "vrp",
                                    "vrp-allocate">>[i],
                     stops |-> 2, depots |-> 2, capacity |-> 2]]

Number(n) == [type |-> "number", value |-> n, negative |-> n < 0]
Tree(type, value) == [type |-> type, value |-> value]
Answering(body) == [status |-> 200, kind |-> "json", body |-> body]
RouteAnswer(metres, legs) ==
    Answering(Tree("dict", [code |-> Tree("string", "Ok"),
                            distance |-> Number(metres),
                            legs |-> Tree("list", legs)]))
TwoLegs == <<Number(30), Number(0)>>
Driven(depot, stops, metres) ==
    [depot |-> depot, stops |-> stops, metres |-> metres, points |-> 2]
VrpAnswer(routes, metres) ==
    Answering([code |-> "Ok", routes |-> routes, distance |-> metres])
AllocateAnswer(allocations, missed) ==
    Answering([code |-> "Ok", allocations |-> allocations, unreachable |-> missed])
Turn(path, params, reply) ==
    [ask |-> {[path |-> path, params |-> params]}, reply |-> reply]

Incumbent ==
    << Turn("route", <<1, 2>>, RouteAnswer(100, TwoLegs)),
       Turn("table", <<1>>, RouteAnswer(100, TwoLegs)),
       [ask |-> {}, reply |-> Answering(<<1, 2>>)],
       Turn("table", <<2>>, VrpAnswer(<<Driven(0, <<0, 1>>, 20)>>, 20)),
       Turn("table", <<3>>, AllocateAnswer(<<<<0>>, <<1>>>>, <<>>)) >>

Ports == {Incumbent} \cup
    {[Incumbent EXCEPT ![1].ask = {[path |-> "route", params |-> <<2, 1>>]}],
     [Incumbent EXCEPT ![1].ask = {[path |-> "route", params |-> <<1, 3>>]}]} \cup
    {[Incumbent EXCEPT ![1].reply = r] : r \in
        {RouteAnswer(101, TwoLegs), RouteAnswer(100, <<Number(30)>>),
         RouteAnswer(100, <<[Number(30) EXCEPT !.value = 33],
                            [Number(0) EXCEPT !.negative = TRUE]>>),
         RouteAnswer(100, <<Number(30), Tree("bool", FALSE)>>),
         [RouteAnswer(100, TwoLegs) EXCEPT !.kind = "html"],
         Answering(Tree("dict", [code |-> Tree("string", "Ok")])),
         Answering(Tree("dict", [code |-> Tree("string", "Ok"),
                                 distance |-> Number(100),
                                 legs |-> Tree("list", TwoLegs),
                                 weight |-> Number(1)]))}} \cup
    {[Incumbent EXCEPT ![2].reply = RouteAnswer(101, TwoLegs)],
     [Incumbent EXCEPT ![3].reply = Answering(<<1, 3>>)]} \cup
    {[Incumbent EXCEPT ![4].reply = r] : r \in
        {VrpAnswer(<<Driven(0, <<0>>, 10)>>, 10),
         VrpAnswer(<<Driven(0, <<0, 1>>, 10), Driven(1, <<1>>, 10)>>, 20),
         VrpAnswer(<<Driven(1, <<1>>, 10), Driven(0, <<0>>, 14)>>, 24)}} \cup
    {[Incumbent EXCEPT ![5].reply = r] : r \in
        {AllocateAnswer(<<<<0, 1>>, <<>>>>, <<>>),
         AllocateAnswer(<<<<0>>, <<>>>>, <<>>),
         AllocateAnswer(<<<<0>>, <<>>>>, <<1>>)}}

ParityPairs == {[reference |-> Incumbent, candidate |-> p] : p \in Ports}
ParityFaults == {[status |-> s, kind |-> "", body |-> Tree("null", 0)] :
                    s \in {0, 429}}

-----------------------------------------------------------------------------
(* A load test, a run that is replayed, and what a change is measured with. *)

AssessedPhases == <<"smoke", "leak", "ramp", "ramp", "vrp", "vrp", "matrix">>

PlannedInputs == [problem : 1..2, config : 1..2]
Solves(p, c) ==
    <<<<0, 10 + p>>, <<2, IF c = 1 THEN 12 ELSE 9>>, <<3, 8>>>>
Breaks(p, c) == IF c = 1 THEN <<"INV-1", "INV-1">> ELSE <<"INV-3">>
CacheCounters == {[hits |-> 0, misses |-> 0], [hits |-> 2, misses |-> 1]}

Drawn(at, qty, fleet, scale) ==
    [at |-> at, qty |-> qty, fleet |-> fleet, scale |-> scale]
Draws == {Drawn(<<0, 10, -15, 25, 8>>, <<0, 1, 2, 1, 2>>, 2, 360),
          Drawn(<<0, 12, -12, 6, -6>>, <<0, 3, 1, 2, 2>>, 3, 720),
          Drawn(<<5, 9, 1, 7, 3>>, <<0, 1, 1, 1, 1>>, 2, 3600)}
Shapes == {"SLACK", "TIGHT_CAPACITY", "TIGHT_WINDOWS", "MULTI_DEPOT",
           "DRIVING_HOURS"}

\* A file of customers, and one of pickups and the deliveries they name.
Row(d, p, q) == [demand |-> d, pickup |-> p, delivery |-> q]
Paired(rows) == [i \in 0..4 |-> IF i = 0 THEN Row(0, 0, 0) ELSE rows[i]]
Tables ==
    {<<Row(1, 0, 3), Row(-1, 2, 0), Row(2, 0, 5), Row(-2, 4, 0)>>,
     <<Row(1, 0, 2), Row(-1, 1, 0), Row(2, 0, 4), Row(-2, 3, 0)>>,
     <<Row(1, 0, 4), Row(-1, 3, 0), Row(2, 0, 3), Row(-2, 4, 0)>>,
     <<Row(1, 0, 3), Row(-1, 2, 0), Row(-2, 5, 0), Row(2, 0, 4)>>,
     <<Row(1, 0, 4), Row(2, 0, 5), Row(-1, 2, 0), Row(-2, 3, 0)>>,
     <<Row(1, 0, 3), Row(2, 0, 4), Row(-1, 1, 0), Row(-2, 2, 0)>>}
Files ==
    [demand : {[i \in 0..4 |-> i]}, comment : {{}, {90}}, sol : {{}, {91}},
     depots : {{0}}, vehicles : {2}, capacity : {<<5>>, <<5, 6>>},
     homes : {<<>>, <<1, 1>>, <<1, 2>>},
     table : {<<>>} \cup {Paired(rows) : rows \in Tables}]

BenchSubjects ==
    [kind : {"drawn"}, shape : {"CORPUS"}, draw : Draws,
     spec : [capacity : {3, 4}, tight : BOOLEAN]]
    \cup [kind : {"drawn"}, shape : {"LARGE"} \cup Shapes, draw : Draws]
    \cup [kind : {"file"}, raw : Files]
    \cup {[kind |-> "none"]}

Visit(o, latitude, longitude) ==
    [order_id |-> o, hub |-> 1, latitude |-> latitude, longitude |-> longitude]
BenchDeliveries ==
    {<<Visit(1, 26, 130), Visit(2, 75, 25)>>,
     <<[latitude |-> 10, longitude |-> 20, units |-> 3]>>,
     <<[latitude |-> 10, longitude |-> 20, phone |-> 3]>>}

\* What construction would refuse is no instance.
ASSUME CasesAreValid ==
    \A p \in PlanProblems \cup LoopInstances \cup LargeProblems
                \cup RacedInstances : ValidProblem(p)

-----------------------------------------------------------------------------
(* The parts together.                                                     *)

CONSTANT ModelEngine(_)

VARIABLES
    promised,       \* standing commitments to be scheduled
    loop, current, state,
    clusters, pending, assignment, screened, confirmed,
    acts, starts,
    library, demand, called, draft,
    solution, round,
    pair, mode, at, fixtures, misses, seen, verdicts, ratios,
    subject, solver, corpus, baseline, verdict, written

loopVars == <<loop, current, state>>
largeVars == <<clusters, pending, assignment, screened, confirmed>>
planVars == <<acts, starts>>
modelVars == <<library, demand, called, draft>>
answerVars == <<solution, round>>
parityVars == <<pair, mode, at, fixtures, misses, seen, verdicts, ratios>>
benchVars == <<subject, solver, corpus, baseline, verdict, written>>
vars == <<work, loopVars, searchVars, largeVars, matrixVars, raceVars, planVars,
          modelVars, answerVars, problem, phase, stage, exit, parityVars,
          loadVars, recordVars, benchVars, promised>>

Loops == INSTANCE Orchestrators WITH
    MAX_ROUNDS <- 3, Instances <- LoopInstances

Large == INSTANCE Decomposition WITH
    Problems <- LargeProblems, Bearing <- LargeBearing, TARGET_SIZE <- 2,
    RADIUS <- 1, ROUNDS <- 2, BUDGET <- 2, Weights <- LargeWeights

OnePlan == INSTANCE PlanUses WITH
    Problems <- PlanProblems, Departures <- {0, 3}, Spec_ <- PlanSpec,
    Weights <- PlanWeights, MaxPrize <- 1000000, BANDS <- PlanBands,
    PARTS <- PlanParts,
    SLOWEST_PPT <- 1, BUCKETS <- 24, BUCKET <- 12, RESERVE_PPT <- 1,
    HORIZON <- 6, Canaries <- PlanCanaries

Models == INSTANCE DeliveryModels WITH
    Contract <- ModelContract, REQUIRED_KEYS <- ModelRequired,
    STRATEGIES <- ModelStrategies, ENGINES <- {"pyvrp", "ortools"},
    UNASSIGNED_PENALTY <- 100, Libraries <- ModelLibraries, Drafts <- ModelDrafts,
    Edits <- ModelEdits, Demands <- ModelDemands, DEPOTS <- 1, Map <- ModelMap,
    Engine <- ModelEngine

Gateways == INSTANCE Parity WITH
    Corpus <- ParityCorpus, Pairs <- ParityPairs, Faults <- ParityFaults,
    ABS_TOL <- 1, REL_TOL <- 10, CHUNK <- 3, MAX_RATIO <- 110

Yardstick == INSTANCE Benchmarks WITH
    Subjects <- BenchSubjects, Specs <- {"a", "b"}, Costs <- {400, 402, 409},
    Deliveries <- BenchDeliveries, CELL <- 50

ASSUME PackageAssumption == Loops!RoundsAssumption /\ GridsAreSymmetric

-----------------------------------------------------------------------------
(* The cases the properties of Plans and PlanUses leave open do occur: for *)
(* each of them there is a plan that shows the parts of the package differ *)
(* there, so that no property passes by a case that cannot happen.         *)

Client(o, w) == [kind |-> "CLIENT", order |-> o, window |-> w]
Refill == [kind |-> "RELOAD", order |-> 0, window |-> 0]
EndOf(kind, o) == [kind |-> kind, order |-> o, window |-> 0]

\* A plan PyVRP calls feasible breaks this invariant of the verifier.
PyvrpBreaks(p, tours, invariant) ==
    \E leaves \in [DOMAIN p.vehicles -> {0, 3}] :
        /\ ~OnePlan!PyvrpRefuses(p) /\ OnePlan!PyvrpFeasible(p, tours, leaves)
        /\ invariant \in
                OnePlan!Verify(p, OnePlan!PyvrpSolution(p, tours, leaves))
                    \cap OnePlan!LeftOutOfPyvrp(p, tours)

\* Two vans, each of them back at the one bay of a depot for goods that are
\* late.
OneBay ==
    [Instance(<<Job(1, <<>>), [Job(2, <<>>) EXCEPT !.release = 12],
                Job(1, <<>>), [Job(2, <<>>) EXCEPT !.release = 12]>>,
              [v \in 1..2 |-> [Van EXCEPT !.cap = [kg |-> 1],
                                   !.reloadAt = {0}, !.maxReloads = 1]], Grid)
        EXCEPT !.locations[0].dock = {1}]

\* EngineAnswerVerifies: each invariant that LeftOutOfPyvrp gives is broken,
\* and INV-3 and INV-8 for each of the reasons it gives.
ASSUME WhatPyvrpIsNotTold ==
    /\ PyvrpBreaks(Mixed, <<<<Client(1, 2), Client(2, 0)>>>>, "INV-3")
    /\ PyvrpBreaks(Clumsy, <<<<Client(2, 0)>>, <<Client(1, 0)>>>>, "INV-3")
    /\ PyvrpBreaks(Tired, <<[o \in 1..3 |-> Client(o, 0)]>>, "INV-7")
    /\ \A p \in {q \in Bidden : q.locks # {}} :
            \E tours \in {<<<<>>>>, <<<<Client(1, 0), Client(2, 0)>>>>} :
                PyvrpBreaks(p, tours, "INV-8")
    /\ PyvrpBreaks(AtTheYard, <<<<Client(1, 0)>>>>, "INV-8")
    /\ PyvrpBreaks(AtTheYard, <<<<Client(1, 0)>>>>, "INV-10")
    /\ PyvrpBreaks(OneBay,
            <<<<Client(1, 0), Refill, Client(2, 0)>>,
              <<Client(3, 0), Refill, Client(4, 0)>>>>, "INV-12")
    /\ PyvrpBreaks(Short, <<<<Client(1, 0), Client(2, 0)>>, <<>>>>, "INV-13")
    /\ PyvrpBreaks(RideByDetour,
            <<<<EndOf("PICKUP", 2), EndOf("PICKUP", 1),
                EndOf("DELIVERY", 2), EndOf("DELIVERY", 1)>>>>, "INV-14")
    /\ \A p \in {q \in Bidden : q.syncs # {}} :
            PyvrpBreaks(p, <<<<Client(1, 0), Client(2, 0)>>>>, "INV-15")
    /\ PyvrpBreaks(LateGoods, <<<<Client(1, 0), Refill, Client(2, 0)>>>>,
                   "INV-17")

\* A round the evaluator calls legal breaks this invariant once it is given
\* to its driver.
LegalBreaks(p, v, seq, invariant) ==
    LET route == OnePlan!AsDriven(p, v, seq)
    IN  /\ RouteIsLegal(p, v, seq)
        /\ invariant \in OnePlan!UnseenByLegality(p, route)
        /\ \A sol \in Plan(p, <<route>>, DOMAIN p.orders \ Range(seq)) :
                invariant \in OnePlan!Verify(p, sol)

\* LegalMeansVerified: a window that is not read, a break that pushes a stop
\* out of its window, a profile, a limit, and hours that end with the road.
ASSUME WhatLegalityDoesNotSee ==
    /\ LegalBreaks(Pushed, 1, <<1>>, "INV-3")
    /\ LegalBreaks(Pushed, 1, <<2, 3>>, "INV-3")
    /\ LegalBreaks(Jammed, 1, <<1>>, "INV-4")
    /\ LegalBreaks(Limits, 1, <<3, 2>>, "INV-6")
    /\ LegalBreaks(Pushed, 1, <<4>>, "INV-7")

\* An order that preflight names is served by a plan that verifies: a round as
\* the evaluator times it, or as PyVRP's is mapped back.
ServedAllTheSame(p, o, seq) ==
    LET tour == [i \in DOMAIN seq |->
                    Client(seq[i], IF StopOf(p.orders[seq[i]]).windows = <<>>
                                   THEN 0 ELSE 1)]
    IN  /\ o \in Range(seq) \cap DOMAIN OnePlan!Findings(p)
        /\ \E route \in {RouteAs(p, 1, seq), OnePlan!MapRoute(p, 1, tour, 0)} :
           \A sol \in Plan(p, <<route>>, DOMAIN p.orders \ Range(seq)) :
                OnePlan!Verify(p, sol) = {}

\* RefusalsAreSound: every reason preflight can give is given; each of those
\* FalseAlarm doubts is given to an order that can be served; and each kind of
\* edit Unavailing doubts is offered and leaves the order where it was.
ASSUME WhatPreflightGetsWrong ==
    /\ UNION {{OnePlan!Obstacle(p, o) : o \in DOMAIN p.orders} :
                    p \in PlanProblems}
            = {"", "NO_ELIGIBLE_VEHICLE", "CAPACITY_EXCEEDED",
               "DEPOT_STOCKOUT", "RELEASE_AFTER_WINDOW", "DUTY_LIMIT",
               "TIME_WINDOW_UNREACHABLE", "INCOMPATIBLE_ONLY"}
    /\ ServedAllTheSame(Short, 2, <<2>>)
    /\ ServedAllTheSame(Undeclared, 1, <<1>>)
    /\ ServedAllTheSame(WayRound, 2, <<1, 2>>)
    /\ ServedAllTheSame(Downhill, 1, <<1>>)
    /\ ServedAllTheSame(OneWayTrip, 1, <<1>>)
    /\ ServedAllTheSame(LongWay, 2, <<1, 2>>)
    /\ ServedAllTheSame(Foes, 3, <<3>>)
    /\ \A x \in {<<OneWayTrip, 1>>, <<NextDoor, 1>>, <<Barred, 3>>} :
        \A changes \in {OnePlan!WouldFitIf(x[1], x[2])} :
            /\ changes # {} /\ OnePlan!Unavailing(x[1], x[2])
            /\ OnePlan!Obstacle(x[1], x[2])
                = OnePlan!Obstacle(OnePlan!Remedied(x[1], x[2], changes), x[2])

\* Seven trips for one van, and one for the other.
Lopsided ==
    Instance([o \in 1..7 |-> Job(1, <<>>)],
             [v \in 1..2 |-> [Van EXCEPT !.cap = [kg |-> 1], !.reloadAt = {0},
                                 !.maxReloads = 6, !.shift = W(0, 100)]],
             OnALine(1, 2))
BackAndForth ==
    <<[i \in 1..11 |->
        IF i % 2 = 1 THEN Client((i + 1) \div 2, 0) ELSE Refill],
      <<Client(7, 0)>>>>

\* In this mode a tier of the plan is above its bound.
TierExceeds(p, tours, spec, tier) ==
    \A sol \in {OnePlan!PyvrpSolution(p, tours, [v \in DOMAIN tours |-> 0])} :
        tier \in OnePlan!Exceeds(p, OnePlan!Score(p, sol, spec, {}), spec)
                    \cap OnePlan!Unbounded(p, sol, spec)
Unpaid == [PlanSpec EXCEPT !.mode = "MIN_DURATION", !.second = 0]

\* ReportsAgree: a tier exceeds its bound for each reason Unbounded gives, and
\* one that does puts two plans in an order the tiers do not.
ASSUME WhatTheBoundsLeaveOut ==
    /\ TierExceeds(Fined, <<<<Client(1, 1)>>>>, PlanSpec, "SOFT")
    /\ TierExceeds(Fined, <<<<Client(2, 1)>>>>, PlanSpec, "SOFT")
    /\ TierExceeds(Shuttle, <<<<Client(1, 0), Refill, Client(2, 0), Refill,
                               Client(3, 0)>>>>, PlanSpec, "OPERATING")
    /\ TierExceeds(Lopsided, BackAndForth, PlanSpec, "QUALITY")
    /\ TierExceeds(PaidByTheMetre, <<<<Client(1, 0)>>>>, Unpaid, "OPERATING")
    /\ \E tours \in {<<<<Client(1, 1)>>>>} :
        LET Of(made) ==
                OnePlan!Score(Fined, OnePlan!PyvrpSolution(Fined, made, <<0>>),
                              PlanSpec, {})
        IN  ~OnePlan!Agree(Fined, Of(<<<<>>>>), Of(tours), PlanSpec)

\* PracticeIsLearnt: a limit on something that is not observed is met by any
\* day, however bad.
ASSUME WhatACanaryMisses ==
    OnePlan!Decide([depot |-> 0, minimumDays |-> 1,
                    criteria |-> [overtime |-> 0]],
                   <<[depot_id |-> 0, dissimilarity |-> PPT, delta |-> 9]>>).go

\* PolishedIsBest: a gap between two windows is not seen.
ASSUME WhatPolishingMisses ==
    \A polished \in {OnePlan!PolishRoute(Gapped, 1, <<2, 1>>, {})} :
    \A sol \in Plan(Gapped, <<RouteAs(Gapped, 1, polished.order)>>, {}) :
        /\ RouteIsLegal(Gapped, 1, <<2, 1>>)
        /\ "INV-3" \in OnePlan!Verify(Gapped, sol)

-----------------------------------------------------------------------------

LoopRests ==
    /\ loop = RESTING /\ current = RESTING /\ state = RESTING
LargeRests ==
    /\ clusters = RESTING /\ pending = RESTING /\ assignment = RESTING
    /\ screened = RESTING /\ confirmed = RESTING
PlanRests ==
    /\ acts = RESTING /\ starts = RESTING
ModelRests ==
    /\ library = RESTING /\ demand = RESTING /\ called = RESTING
    /\ draft = RESTING
AnswerRests ==
    /\ solution = RESTING /\ round = RESTING
ProblemRests ==
    /\ problem = RESTING
PhaseRests ==
    /\ phase = RESTING
StageRests ==
    /\ stage = RESTING
ExitRests ==
    /\ exit = RESTING
ParityRests ==
    /\ pair = RESTING /\ mode = RESTING /\ at = RESTING /\ fixtures = RESTING
    /\ misses = RESTING /\ seen = RESTING /\ verdicts = RESTING
    /\ ratios = RESTING
BenchRests ==
    /\ subject = RESTING /\ solver = RESTING /\ corpus = RESTING
    /\ baseline = RESTING /\ verdict = RESTING /\ written = RESTING
CommitmentRests ==
    /\ promised = RESTING

StartLoops ==
    /\ work = "loops" /\ Loops!Init
    /\ SearchRests /\ LargeRests /\ MatrixRests /\ RaceRests /\ PlanRests
    /\ ModelRests /\ PhaseRests /\ StageRests /\ ExitRests /\ ParityRests
    /\ LoadRests /\ RecordRests /\ BenchRests /\ CommitmentRests
StartLarge ==
    /\ work = "large" /\ Large!Init
    /\ LoopRests /\ SearchRests /\ MatrixRests /\ RaceRests /\ PlanRests
    /\ ModelRests /\ PhaseRests /\ ExitRests /\ ParityRests /\ LoadRests
    /\ RecordRests /\ BenchRests /\ CommitmentRests
StartOnePlan ==
    /\ work = "plans" /\ OnePlan!Init
    /\ LoopRests /\ SearchRests /\ LargeRests /\ MatrixRests /\ RaceRests
    /\ ModelRests /\ AnswerRests /\ PhaseRests /\ StageRests /\ ExitRests
    /\ ParityRests /\ LoadRests /\ RecordRests /\ BenchRests
    /\ CommitmentRests
StartModels ==
    /\ work = "models" /\ Models!Opened
    /\ LoopRests /\ SearchRests /\ LargeRests /\ MatrixRests /\ RaceRests
    /\ PlanRests /\ AnswerRests /\ ProblemRests /\ PhaseRests /\ StageRests
    /\ ExitRests /\ ParityRests /\ LoadRests /\ RecordRests /\ BenchRests
    /\ CommitmentRests
StartGateways ==
    /\ work = "parity" /\ Gateways!Init
    /\ LoopRests /\ SearchRests /\ LargeRests /\ MatrixRests /\ RaceRests
    /\ PlanRests /\ ModelRests /\ AnswerRests /\ ProblemRests /\ PhaseRests
    /\ StageRests /\ LoadRests /\ RecordRests /\ BenchRests
    /\ CommitmentRests
StartYardstick ==
    /\ work = "bench" /\ Yardstick!Init
    /\ LoopRests /\ SearchRests /\ LargeRests /\ MatrixRests /\ RaceRests
    /\ PlanRests /\ ModelRests /\ AnswerRests /\ ProblemRests /\ PhaseRests
    /\ StageRests /\ ExitRests /\ ParityRests /\ LoadRests /\ RecordRests
    /\ CommitmentRests
StartRounds ==
    /\ work = "rounds" /\ promised \in PlanRounds
    /\ LoopRests /\ SearchRests /\ LargeRests /\ MatrixRests /\ RaceRests
    /\ PlanRests /\ ModelRests /\ AnswerRests /\ ProblemRests /\ PhaseRests
    /\ StageRests /\ ExitRests /\ ParityRests /\ LoadRests /\ RecordRests
    /\ BenchRests

StartOneOfTheParts ==
    /\ StartPart
    /\ LoopRests /\ LargeRests /\ PlanRests /\ ModelRests
    /\ AnswerRests /\ ParityRests /\ BenchRests /\ CommitmentRests

Init == StartLoops \/ StartLarge \/ StartOnePlan \/ StartModels
            \/ StartGateways \/ StartYardstick \/ StartRounds
            \/ StartOneOfTheParts

Next ==
    \/ /\ work = "loops" /\ Loops!Next
       /\ UNCHANGED <<work, searchVars, largeVars, matrixVars, raceVars,
                       planVars, modelVars, phase, stage, exit, parityVars,
                       loadVars, recordVars, benchVars, promised>>
    \/ /\ work = "large" /\ Large!Next
       /\ UNCHANGED <<work, loopVars, searchVars, matrixVars, raceVars,
                       planVars, modelVars, phase, exit, parityVars,
                       loadVars, recordVars, benchVars, promised>>
    \/ /\ work = "plans" /\ OnePlan!Next
       /\ UNCHANGED <<work, loopVars, searchVars, largeVars, matrixVars,
                       raceVars, modelVars, answerVars, phase, stage, exit,
                       parityVars, loadVars, recordVars, benchVars, promised>>
    \/ /\ work = "models" /\ Models!EditNext
       /\ UNCHANGED <<work, loopVars, searchVars, largeVars, matrixVars,
                       raceVars, planVars, answerVars, problem, phase,
                       stage, exit, parityVars, loadVars, recordVars,
                       benchVars, promised>>
    \/ /\ work = "parity" /\ Gateways!Next
       /\ UNCHANGED <<work, loopVars, searchVars, largeVars, matrixVars,
                       raceVars, planVars, modelVars, answerVars, problem,
                       phase, stage, loadVars, recordVars, benchVars,
                       promised>>
    \/ /\ work = "bench" /\ Yardstick!Next
       /\ UNCHANGED <<work, loopVars, searchVars, largeVars, matrixVars,
                       raceVars, planVars, modelVars, answerVars, problem,
                       phase, stage, exit, parityVars, loadVars, recordVars,
                       promised>>
    \/ /\ PartStep
       /\ UNCHANGED <<loopVars, largeVars, planVars, modelVars,
                       answerVars, parityVars, benchVars, promised>>
    \/ work = "rounds" /\ UNCHANGED vars

Spec == Init /\ [][Next]_vars

-----------------------------------------------------------------------------

\* synchronise.solve_synchronised and depots.solve_within_inventory: what is
\* returned is a plan for the problem the loop was called with.  The narrowed
\* windows lie inside the operator's, the couplings are met as the verifier
\* counts them, written apart from unmet(), the stock of every depot holds and
\* no lock was given up, whichever answers the engine gave on the way.
\* depots._withdrawals: while stock is short something is withdrawn that was
\* not before, it is work that draws on the shortage, and nothing of a less
\* protected tier that does so stays behind.
ReturnedPlanHoldsUp ==
    work = "loops" => /\ Loops!CoupledPlanHoldsUp /\ Loops!StockedPlanHoldsUp
                      /\ Loops!LeastProtectedGoFirst

\* decompose: the clusters split orders and fleet exactly, no order is lost or
\* doubled in whatever order they end, and staggering keeps the vehicles that
\* load at a depot within its bays.
NoOrderLost ==
    work = "large" => /\ Large!ClustersPartition /\ Large!NoOrderLost
                      /\ Large!BaysAreRespected

\* decompose: repair across borders and re-optimisation never raise the
\* canonical score, and never take a legal plan to one a vehicle could not
\* drive, though the move was screened against an earlier plan.
ImprovementIsSafe ==
    [][(/\ work = "large" /\ pending = {} /\ assignment' # assignment) =>
        /\ Evaluate(problem, assignment', LargeWeights)
                < Evaluate(problem, assignment, LargeWeights)
        /\ Large!LegalPlan(assignment) => Large!LegalPlan(assignment')]_vars

\* pyvrp_adapter and ortools_adapter: what the engine calls feasible, of an
\* instance the adapter accepts, passes the independent verifier once it is
\* mapped back, but for what LeftOutOfPyvrp names and WhatPyvrpIsNotTold shows
\* to occur; and a tier of prizes outweighs all beneath it.
EngineAnswerVerifies ==
    work = "plans" => OnePlan!EngineAnswerVerifies
                      /\ OnePlan!TiersAreLexicographic

\* evaluator and verifier share no computation over a plan, and agree on it,
\* breaks included, but for what UnseenByLegality names and
\* WhatLegalityDoesNotSee shows to occur;
\* what is made of a legal route elsewhere stays one: charged, it keeps its
\* charge; in traffic, nobody overtakes; resumed from the tachograph, it ends
\* as it would have; and its windows are counted kept in both places.
LegalMeansVerified ==
    work = "plans" => /\ OnePlan!LegalMeansVerified
                      /\ OnePlan!ChargedRoundHoldsOut
                      /\ OnePlan!TrafficKeepsOrder
                      /\ OnePlan!ResumingChangesNothing
                      /\ OnePlan!AttainmentAgrees

\* diagnose, locks and explain: an order that is named before the search is
\* one no verified plan serves, a conflict of locks that is reported conflicts
\* and is irreducible, and the edits offered remove what they are offered for;
\* but for what FalseAlarm and Unavailing name and WhatPreflightGetsWrong shows
\* to occur.
RefusalsAreSound ==
    work = "plans" => /\ OnePlan!PreflightIsSound
                      /\ OnePlan!ConflictIsIrreducible
                      /\ OnePlan!RemedyHelps

\* polish and setpartition: the dynamic program returns the quickest sequence,
\* which is legal unless a stop has several windows (WhatPolishingMisses), and
\* the departure the shortest duty; routes that are recombined cost no more
\* than the plan they came from.
PolishedIsBest ==
    work = "plans" => OnePlan!PolishedIsBest /\ OnePlan!RecombinedIsSound

\* objective, allocate, quote, explain, stability, consistency, api: no tier
\* exceeds its bound, but for what Unbounded names and WhatTheBoundsLeaveOut
\* shows to occur; where none does, the scaled total puts two plans in the
\* order the tiers do; and what is reported of a plan in one place adds up to
\* what is reported in another.
ReportsAgree ==
    work = "plans" => /\ OnePlan!TotalsAgreeWithTiers /\ OnePlan!ReportsAgree
                      /\ OnePlan!PeriodsAreComparable
                      /\ OnePlan!MarginalIsRefunded
                      /\ OnePlan!VanIsWorthItsWork
                      /\ OnePlan!RequestIsAnswered

\* speedfit, calibrate, adherence, zones, scenarios, rollout: what is learnt
\* from routes driven as planned is the plan, a canary goes only on days
\* within its limits, where what it limits is observed (WhatACanaryMisses), and
\* no fleet is cheaper than the one recommended.
\* periodic: a commitment that is accepted is met.
PracticeIsLearnt ==
    /\ work = "plans" => /\ OnePlan!DrivenIsLearnt /\ OnePlan!GoIsEarned
                         /\ OnePlan!PracticeIsCalibrated
                         /\ OnePlan!DivergencesStopCanaries
                         /\ OnePlan!FleetIsRecommended
    /\ work = "rounds" => OnePlan!CommitmentsAreMet(promised)

\* servicemodel and modelcheck: each value of a resolved model comes from the
\* one file its provenance names, what passes the gate can be built, and a
\* setting is blamed for a failing variant exactly when reverting it helps; a
\* variant that sets nothing is its master; every model the registry does not
\* call unreachable is reached.
ModelsAreTraceable ==
    work = "models" => /\ Models!ProvenanceIsTrue /\ Models!GateAndBuilderAgree
                       /\ Models!BlameIsFair /\ Models!CategoriesReach
                       /\ Models!NothingSetNothingChanged

\* parity: a run that exits clean compared every case and found each answer
\* the same up to its rule; a wrong environment has a code of its own, and two
\* failures alike are never agreement.
CleanExitIsEarned == work = "parity" => Gateways!CleanExitIsEarned

\* generate, benchmarks, bench/runner, anonymise: the harness plans only what
\* verifies, a public file loses no customer, the gate passes only what is
\* near a verified baseline, and what is written names nobody.
YardsticksHold == work = "bench" => Yardstick!YardsticksHold
=============================================================================
