--------------------------- MODULE DeliveryModels ---------------------------
(***************************************************************************)
(* Delivery models as data: the registry, the composition and the builder  *)
(* of vrp/servicemodel.py, and the gate of vrp/modelcheck.py.              *)
(*                                                                         *)
(* A library is a sequence of directories, nearest first, each with its    *)
(* models, fragments and categories.  A file is [body, base, use, tunable, *)
(* set]: body maps the sections of the file to their values, base is the   *)
(* optional master of a variant, use the fragments of a master, tunable    *)
(* the paths it declares and set the values a variant gives to paths.  A   *)
(* section's value is a function from its fields; "fleet" is a function    *)
(* from vehicle classes to such functions.  A path is a section, a section *)
(* and a field, or "fleet", a class and a field.                           *)
(***************************************************************************)
EXTENDS PlanReports

CONSTANTS
    Contract,       \* known_keys() and STRUCTURAL_KEYS
    REQUIRED_KEYS,
    STRATEGIES,     \* KNOWN_DEPOT_STRATEGIES
    ENGINES,        \* the engines that ship
    UNASSIGNED_PENALTY, \* of ObjectiveWeights
    Libraries,      \* libraries a variant is tried against
    Drafts,         \* variants and masters, [name, file], before any edit
    Edits,          \* what an operator may set, <<path, value>>
    Demands,        \* rounds of delivery records
    DEPOTS, Map,    \* depots and the matrix of a round
    Engine(_)       \* the engine: a solution for each problem

VARIABLES library, demand,
          called, draft   \* the file being edited, and its name

modelVars == <<library, demand, called, draft>>

-----------------------------------------------------------------------------
(* The registry.                                                           *)

\* Mutant: the last directory that has the file wins.
Farthest(lib, kind, name) ==
    LET has == {i \in DOMAIN lib : name \in DOMAIN lib[i][kind]}
    IN  IF has = {} THEN {} ELSE {lib[Max(has)][kind][name]}

\* The nearest directory that has the file.
Nearest(lib, kind, name) ==
    LET has == {i \in DOMAIN lib : name \in DOMAIN lib[i][kind]}
    IN  {lib[i][kind][name] : i \in {j \in has : \A k \in has : j <= k}}

ModelFor(lib, name) == Nearest(lib, "models", name)
FragmentFor(lib, name) == Nearest(lib, "fragments", name)
Shipped(lib) == UNION {DOMAIN lib[i].models : i \in DOMAIN lib}

\* categories: maps merge, the nearest wins for each category.
Categories(lib) ==
    [c \in UNION {DOMAIN lib[i].categories : i \in DOMAIN lib} |->
        CHOOSE n \in Nearest(lib, "categories", c) : TRUE]

ModelForCategory(lib, c) ==
    IF c \in DOMAIN Categories(lib) THEN ModelFor(lib, Categories(lib)[c])
    ELSE {}

\* unreachable: neither mapped nor based on a mapped master.
Unselectable(lib) ==
    LET mapped == Range(Categories(lib))
    IN  {n \in Shipped(lib) : /\ n \notin mapped
            /\ \A f \in ModelFor(lib, n) : f.base \cap mapped = {}}

-----------------------------------------------------------------------------
(* Composition.  A resolved model is [body, from, tunable]: from names the *)
(* one source of each section, and of each path a variant set.  Empty when *)
(* it is refused.                                                          *)

ModelSource(name) == <<"model", name>>
FragmentSource(name) == <<"fragment", name>>
OverlaySource(name) == <<"overlay", name>>

\* _reach: the path exists already.
HasPath(body, path) ==
    /\ path[1] \in DOMAIN body
    /\ Len(path) = 2 => path[1] # "fleet" /\ path[2] \in DOMAIN body[path[1]]
    /\ Len(path) = 3 => /\ path[1] = "fleet" /\ path[2] \in DOMAIN body.fleet
                        /\ path[3] \in DOMAIN body.fleet[path[2]]

PutAt(body, path, value) ==
    CASE Len(path) = 1 -> [body EXCEPT ![path[1]] = value]
      [] Len(path) = 2 -> [body EXCEPT ![path[1]][path[2]] = value]
      [] Len(path) = 3 -> [body EXCEPT !.fleet[path[2]][path[3]] = value]

\* _overlay: only tunable paths that exist, and the variant's own name.
Overlay(base, variant, name) ==
    LET paths == SetToSeq(DOMAIN variant.set)
        put[i \in 0..Len(paths)] ==
            IF i = 0 THEN [base.body EXCEPT !.name = name]
            ELSE PutAt(put[i - 1], paths[i], variant.set[paths[i]])
    IN  IF paths = <<>> THEN {base}
        ELSE IF \E i \in DOMAIN paths : \/ paths[i] \notin base.tunable
                                        \/ ~HasPath(base.body, paths[i])
        THEN {}
        ELSE {[base EXCEPT !.body = put[Len(paths)],
                           !.from = [k \in DOMAIN @ \cup {<<"name">>}
                                            \cup DOMAIN variant.set |->
                                IF k = <<"name">> \/ k \in DOMAIN variant.set
                                THEN OverlaySource(name) ELSE @[k]]]}

\* resolve_model of a master: fragments first, each section claimed once.
\* _claim refuses the overlap; a fragment may not use fragments.
Compose(lib, file, name) ==
    LET pieces == [i \in DOMAIN file.use |-> FragmentFor(lib, file.use[i])]
        Piece(i) == CHOOSE f \in pieces[i] : TRUE
        claims == {<<FragmentSource(file.use[i]), Piece(i)>> : i \in DOMAIN pieces}
                    \cup {<<ModelSource(name), file>>}
        sections == UNION {DOMAIN c[2].body : c \in claims}
        Claimants(c, s) == {x \in c : s \in DOMAIN x[2].body}
        Composed(c, names) ==
            LET owner == [s \in names |-> CHOOSE x \in Claimants(c, s) : TRUE]
            IN  IF \E s \in names : Cardinality(Claimants(c, s)) > 1 THEN {}
                ELSE {[ body |-> [s \in names |-> owner[s][2].body[s]],
                        from |-> [k \in {<<s>> : s \in names} |->
                                    owner[k[1]][1]],
                        tunable |-> file.tunable ]}
    IN  IF \/ \E i \in DOMAIN pieces : pieces[i] = {} \/ Piece(i).use # <<>>
           \/ \E i, j \in DOMAIN file.use : i # j /\ file.use[i] = file.use[j]
                                             /\ DOMAIN Piece(i).body # {}
        THEN {}
        ELSE Composed(claims, sections)

\* resolve_model: a variant of a variant is refused.  The sections of a
\* variant's own file are not read.
ResolveModel(lib, file, name) ==
    IF file.base = {} THEN Compose(lib, file, name)
    ELSE LET master == CHOOSE b \in file.base : TRUE
             masters == {f \in ModelFor(lib, master) : f.base = {}}
         IN  UNION {UNION {Overlay(r, file, name) :
                        r \in Compose(lib, f, master)} : f \in masters}

-----------------------------------------------------------------------------
(* The gate's structural checks and the builder.                           *)

\* run_config: the section is there and names what ships.
RunComplaint(body) ==
    \/ "run" \notin DOMAIN body
    \/ body.run.engine \notin ENGINES
    \/ body.run.mode \notin Modes

\* structural, with validate_keys and missing_sections.
Structural(lib, file, name) ==
    LET Complaints(resolved) ==
            IF resolved = {} THEN {"unresolved"}
            ELSE UNION {
                {<<"unknown", k>> : k \in DOMAIN r.body \ Contract}
                \cup {<<"missing", k>> : k \in REQUIRED_KEYS \ DOMAIN r.body}
                \cup (IF RunComplaint(r.body) THEN {"run"} ELSE {})
                    : r \in resolved}
    IN  Complaints(ResolveModel(lib, file, name))

\* The sections build reads without asking.
BuilderReads == {"name", "problem_id", "quantity", "service", "windows",
                 "shift", "route", "assignment", "fleet"}

Field(section, key, default) ==
    IF key \in DOMAIN section THEN section[key] ELSE default
Section(body, key) == IF key \in DOMAIN body THEN body[key] ELSE <<>>
Optional(section, key) == IF key \in DOMAIN section THEN {section[key]} ELSE {}

\* _one_quantity: fixed, or a field of the record, rounded.  A record's
\* fields are in tenths, so that rounding is visible.
OneQuantity(spec, record) ==
    IF "fixed" \in DOMAIN spec THEN spec.fixed
    ELSE LET tenths == record[spec.field]
             down == tenths \div 10
             half == tenths % 10
         IN  IF Field(spec, "round", "nearest") = "up" THEN CeilDiv(tenths, 10)
             ELSE IF half > 5 \/ (half = 5 /\ down % 2 = 1) THEN down + 1
             ELSE down

\* _order and _stop, of the record served at a location.
OrderFrom(body, record, at) ==
    LET declinable == Section(body, "declinable")
        spec == Section(body, "order")
        service == body.service
        stop == [ at |-> at, windows |-> body.windows,
                  fixed |-> IF "fixed" \in DOMAIN service THEN service.fixed
                            ELSE record[service.field] * service.scale,
                  perUnit |-> Field(service, "per_unit", 0),
                  unit |-> Optional(service, "dimension") ]
        collects == Field(spec, "collects", FALSE)
    IN  [ kind |-> Field(spec, "kind", "JOB"),
          qty |-> [d \in DOMAIN body.quantity |->
                        OneQuantity(body.quantity[d], record)],
          pickup |-> IF collects THEN {stop} ELSE {},
          delivery |-> IF collects THEN {} ELSE {stop},
          tier |-> Field(declinable, "tier", 0),
          prize |-> Field(declinable, "prize", 0),
          release |-> Field(spec, "release", 0),
          skills |-> Field(spec, "requires", {}),
          maxRide |-> Optional(spec, "max_ride"),
          source |-> Field(spec, "source", "COMMERCIAL"),
          class |-> Optional(spec, "class"),
          incompatible |-> Field(spec, "incompatible", {}) ]

\* _vehicle and _battery: one of a class, at a depot.
VehicleFrom(body, spec, depot) ==
    LET shift == body.shift
        closed == body.route.closed
        battery == Field(spec, "battery", <<>>)
        reload == Field(spec, "reload", <<>>)
    IN  [ cap |-> spec.capacities,
          shift |-> [start |-> shift.start, end |-> shift.end, hard |-> TRUE,
                     early |-> 0, late |-> 0],
          maxDuration |-> Optional(shift, "max_duty"),
          maxDistance |-> Optional(spec, "max_distance"),
          skills |-> Field(spec, "skills", {}),
          fixedCost |-> Field(spec, "fixed_cost", 0),
          perMetre |-> Field(spec, "per_metre", 0),
          perSecond |-> Field(spec, "per_second", 0),
          perOrder |-> Field(spec, "per_order", 0),
          overtime |-> Field(spec, "overtime", 0),
          mode |-> Field(spec, "profile", "driving"),
          factor |-> Field(spec, "factor", PPT),
          reloadAt |-> Field(reload, "locations", {}),
          maxReloads |-> Field(reload, "max", 0),
          reloadTime |-> Field(reload, "seconds", 0),
          access |-> Field(spec, "access", {}), kg |-> Optional(spec, "kg"),
          hos |-> Optional(spec, "hos"), carry |-> {},
          start |-> depot, end |-> IF closed THEN {depot} ELSE {},
          open |-> ~closed,
          battery |-> Optional(battery, "wh"),
          whPerKm |-> Field(battery, "wh_per_km", 0),
          soc |-> Field(battery, "initial", PPT), chargers |-> {},
          curve |-> Field(battery, "curve", <<>>) ]

\* build: depots first, then one location and one order for each delivery;
\* vehicles by depot, then class, then number.  Empty when it is refused.
Build(body, depots, deliveries, grid) ==
    LET strategy == body.assignment.depot
        classes == SetToSeq(DOMAIN body.fleet)
        Of(d, c) == [n \in 1..body.fleet[c].per_depot |->
                        VehicleFrom(body, body.fleet[c], d)]
        fleet == FlattenSeq([d \in 1..depots |->
                    FlattenSeq([c \in DOMAIN classes |-> Of(d - 1, classes[c])])])
        orders == [i \in DOMAIN deliveries |->
                    OrderFrom(body, deliveries[i], depots + i - 1)]
        TooBig == \E o \in Range(orders) : \E d \in DOMAIN o.qty :
                    o.qty[d] > Max({0} \cup {Get(v.cap, d) : v \in Range(fleet)})
        dwell == Field(body.service, "dwell", 0)
    IN  IF \/ DOMAIN body \ Contract # {} \/ strategy \notin STRATEGIES
           \/ TooBig
        THEN {}
        ELSE {[ locations |-> [l \in 0..(depots + Len(deliveries) - 1) |->
                    [dwell |-> IF l < depots THEN 0 ELSE dwell, dock |-> {},
                     inventory |-> <<>>, access |-> {}, maxKg |-> {}]],
                orders |-> orders, vehicles |-> fleet, dur |-> grid,
                dist |-> grid, locks |-> {}, syncs |-> {}, profile |-> {},
                profiles |-> {}, degraded |-> FALSE ]}

-----------------------------------------------------------------------------
(* The gate.                                                               *)

\* _time_slack, _capacity_slack, _fleet_slack: the share of each budget left.
Slacks(p, sol, used) ==
    LET routes == {r \in Range(sol.routes) : r.steps # <<>>}
        V(r) == p.vehicles[r.vehicle]
        Span(r) == V(r).shift.end - V(r).shift.start
        Time(r) == (Max({0, V(r).shift.end - Last(r.steps).arrival}) * PPT)
                        \div Span(r)
        Peak(r, d) == Max({0} \cup {Get(r.steps[i].load, d) :
                                        i \in DOMAIN r.steps})
        Room(r, d) == (Max({0, V(r).cap[d] - Peak(r, d)}) * PPT) \div V(r).cap[d]
        size == Cardinality(DOMAIN p.vehicles)
    IN  {<<"shift", Time(r)>> : r \in {x \in routes : Span(x) > 0}}
        \cup (IF size = 0 THEN {}
              ELSE {<<"fleet", ((size - used) * PPT) \div size>>})
        \cup UNION {{<<d, Room(r, d)>> : d \in {k \in DOMAIN V(r).cap :
                                                V(r).cap[k] > 0}}
                        : r \in Range(sol.routes)}

\* binding_constraint: the least room left.
BindingSlack(p, sol, used) ==
    LET all == {s[2] : s \in Slacks(p, sol, used)}
    IN  IF all = {} THEN {} ELSE {Min(all)}

\* check: refused, rejected by the verifier, or accepted and priced.
Refused == [accepted |-> FALSE, status |-> "REFUSED", unassigned |-> 0,
            used |-> 0, cost |-> {}, binding |-> {}]
Judged(p, run, sol, used, accepted) ==
    [ accepted |-> accepted, status |-> sol.status,
      unassigned |-> Cardinality(sol.unassigned), used |-> used,
      cost |-> IF ~accepted THEN {}
               ELSE {Evaluate(p,
                        [v \in {r.vehicle : r \in Range(sol.routes)} |->
                            Sequence(sol, v)],
                        [perMetre |-> run.per_metre,
                         perSecond |-> run.per_second,
                         perVehicle |-> run.fixed,
                         unassigned |-> UNASSIGNED_PENALTY])},
      binding |-> IF accepted THEN BindingSlack(p, sol, used) ELSE {} ]
Planned(p, run, sol) ==
    Judged(p, run, sol, Cardinality(Working(sol)),
           Verify(p, sol) = {} /\ sol.status = "FEASIBLE")
Solved(built, run) ==
    IF built = {} THEN Refused
    ELSE CHOOSE c \in {Planned(p, run, Engine(p)) : p \in built} : TRUE
Check(lib, file, name, depots, deliveries, grid) ==
    IF Structural(lib, file, name) # {} THEN Refused
    ELSE CHOOSE c \in {Solved(Build(r.body, depots, deliveries, grid), r.body.run)
                            : r \in ResolveModel(lib, file, name)} : TRUE

Passes(result) == result.accepted /\ result.unassigned = 0

\* attribute: the first field whose reversion lets the variant pass.
Reverted(file, path) ==
    [file EXCEPT !.set = [k \in DOMAIN @ \ {path} |-> @[k]]]
First(paths, blamed) == IF blamed = {} THEN {} ELSE {paths[Min(blamed)]}
Attribute(lib, file, name, depots, deliveries, grid) ==
    LET paths == SetToSeq(DOMAIN file.set)
    IN  IF paths = <<>> \/ Passes(Check(lib, file, name, depots, deliveries, grid))
        THEN {}
        ELSE First(paths, {i \in DOMAIN paths :
                    Passes(Check(lib, Reverted(file, paths[i]), name, depots,
                                 deliveries, grid))})

\* compare: every model over the same demand.
CompareModels(lib, files, depots, deliveries, grid) ==
    [n \in DOMAIN files |->
        Check(lib, files[n], n, depots, deliveries, grid)]

-----------------------------------------------------------------------------
(* An operator edits a variant, one setting at a time, and the gate is run *)
(* on every draft.                                                         *)

Opened ==
    /\ library \in Libraries /\ demand \in Demands
    /\ \E d \in Drafts : called = d.name /\ draft = d.file

\* One more setting of a variant; no path of Edits lies below another.
Edit ==
    /\ draft.base # {}
    /\ \E e \in Edits :
        /\ e[1] \notin DOMAIN draft.set
        /\ draft' = [draft EXCEPT !.set = (e[1] :> e[2]) @@ @]
    /\ UNCHANGED <<library, demand, called>>

Kept == UNCHANGED modelVars

EditNext == Edit \/ Kept

ValueAt(body, path) ==
    CASE Len(path) = 1 -> body[path[1]]
      [] Len(path) = 2 -> body[path[1]][path[2]]
      [] Len(path) = 3 -> body[path[1]][path[2]][path[3]]

\* The file a provenance names, as it is on disk: the draft, or the first of
\* that name along the search path.
FileOf(source) ==
    LET kind == source[1] \o "s"
        Has(i) == source[2] \in DOMAIN library[i][kind]
    IN  IF source[1] # "fragment" /\ source[2] = called THEN {draft}
        ELSE {library[i][kind][source[2]] : i \in {j \in DOMAIN library :
                    Has(j) /\ \A k \in 1..(j - 1) : ~Has(k)}}

Gate(f) == Check(library, f, called, DEPOTS, demand, Map)

\* Resolved.provenance names the one source of each value: what a variant
\* set is the variant's, and every other value is the one in the file named,
\* whichever fragments it was composed from.
ProvenanceIsTrue ==
    \A r \in ResolveModel(library, draft, called) :
        /\ \A key \in DOMAIN r.body : <<key>> \in DOMAIN r.from
        /\ \A path \in {e[1] : e \in Edits} : HasPath(r.body, path) =>
            IF path \in DOMAIN draft.set
            THEN /\ r.from[path] = OverlaySource(called)
                 /\ ValueAt(r.body, path) = draft.set[path]
            ELSE \E origin \in FileOf(r.from[<<path[1]>>]) :
                    /\ HasPath(origin.body, path)
                    /\ ValueAt(r.body, path) = ValueAt(origin.body, path)

\* modelcheck: a file the gate has no complaint about has every section the
\* builder reads, and its demand is built whole or refused.
GateAndBuilderAgree ==
    Structural(library, draft, called) = {} =>
        \A r \in ResolveModel(library, draft, called) :
            /\ BuilderReads \subseteq DOMAIN r.body
            /\ \A p \in Build(r.body, DEPOTS, demand, Map) :
                /\ DOMAIN p.orders = DOMAIN demand
                /\ \A o, x \in DOMAIN p.orders :
                    StopOf(p.orders[o]).at = StopOf(p.orders[x]).at => o = x
                /\ \A o \in Range(p.orders) : StopOf(o).at >= DEPOTS
                /\ \A v \in Range(p.vehicles) : v.start < DEPOTS

Fair(blamed, helps) ==
    /\ blamed \subseteq helps
    /\ blamed = {} <=> Passes(Gate(draft)) \/ helps = {}

\* attribute: it blames a setting only of a variant that fails, reverting that
\* setting lets it pass, and where there is such a setting one is blamed.
BlameIsFair ==
    draft.base # {} =>
        Fair(Attribute(library, draft, called, DEPOTS, demand, Map),
             {k \in DOMAIN draft.set : Passes(Gate(Reverted(draft, k)))})

\* registry: a shipped name that is not called unreachable is had by asking
\* for some category, as it is or as the master a category's model is based on
\* or is the base of; and a name that is called so by none.
CategoriesReach ==
    \A n \in Shipped(library) :
        LET Asked == UNION {ModelForCategory(library, c) :
                                c \in DOMAIN Categories(library)}
            Own == ModelFor(library, n)
            Masters == UNION {ModelFor(library, b) :
                                b \in UNION {f.base : f \in Own}}
        IN  n \in Unselectable(library) <=> (Own \cup Masters) \cap Asked = {}

\* compare: over the same demand, a variant that sets nothing is what its
\* master is, to the last metre, and is accepted exactly where that is.
NothingSetNothingChanged ==
    draft.set = <<>> =>
        \A base \in draft.base : \A master \in ModelFor(library, base) :
            \A seen \in {CompareModels(library,
                                (called :> draft) @@ (base :> master),
                                DEPOTS, demand, Map)} :
                seen[called] = seen[base]
=============================================================================
