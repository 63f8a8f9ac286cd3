----------------------------- MODULE Benchmarks -----------------------------
(***************************************************************************)
(* What a change of the solver is measured with: generated and public      *)
(* instances, the gate against a recorded baseline, and the step that lets *)
(* a corpus of real deliveries out.                                        *)
(*                                                                         *)
(* The pseudo-random draws of the generator are an input (draw), as are    *)
(* the rows vrplib parsed of a file; coordinates are whole metres on an    *)
(* axis each, and a salted digest is the tuple it digests.                 *)
(***************************************************************************)
EXTENDS Evaluator, Verifier

CONSTANTS Subjects,     \* instances to be had: drawn, from a file, or none
          Specs,        \* the specs a corpus is chosen from
          Costs,        \* what a plan may cost
          Deliveries,   \* sequences of records as they were collected
          CELL          \* grid_metres

VARIABLES subject,      \* the instance in hand
          solver,       \* what it makes of each spec: [cost, verified]
          corpus,       \* CORPUS
          baseline,     \* baseline.json: at most one, spec -> result
          verdict,      \* of the last run
          written       \* the derived corpus, once there is one

vars == <<subject, solver, corpus, baseline, verdict, written>>

-----------------------------------------------------------------------------
(* generate.py: an instance of a shape, and a legal plan for it.           *)

HOUR == 3600
\* Two-hour windows staggered over the day.
Staggered(index) == W(HOUR + (index % 4) * 2 * HOUR,
                      HOUR + (index % 4) * 2 * HOUR + 2 * HOUR)

\* A PlanarMatrix: cells are computed from the places when they are asked for.
Planar(at, scale) == [at |-> at, scale |-> scale]
Cell(m, a, b) ==
    m.scale * Max({m.at[a + 1] - m.at[b + 1], m.at[b + 1] - m.at[a + 1]})

\* _matrix: the same cells, stored; submatrix: those over some places, in the
\* order they are named; extremes: the box around them all.
Stored(m) ==
    LET nodes == 0..(Len(m.at) - 1)
    IN  [a \in nodes |-> [b \in nodes |-> Cell(m, a, b)]]
Submatrix(m, indices) ==
    LET nodes == 0..(Len(indices) - 1)
    IN  [a \in nodes |-> [b \in nodes |->
            Cell(m, indices[a + 1], indices[b + 1])]]
Extremes(m) == m.scale * (Max(Range(m.at)) - Min(Range(m.at)))

\* bench/corpus.build_instance: a spec of the frozen corpus, from one depot.
BuildInstance(spec, draw) ==
    LET day == W(0, 12 * HOUR)
        customers == 1..(Len(draw.at) - 1)
        opens(o) == HOUR + (o % 5) * 2 * HOUR
    IN  Instance(
            [o \in customers |->
                [Job(o, <<IF spec.tight THEN W(opens(o), opens(o) + 2 * HOUR)
                          ELSE day>>) EXCEPT !.qty.kg = draw.qty[o + 1]]],
            [v \in 0..(draw.fleet - 1) |->
                [Van EXCEPT !.cap.kg = spec.capacity, !.shift = day,
                            !.end = {0}]],
            Stored(Planar(draw.at, draw.scale)))

\* generate_large_instance: about twenty stops a vehicle, with room to spare.
GenerateLarge(draw) ==
    LET day == W(0, 12 * HOUR)
        stops == Len(draw.at) - 1
    IN  Instance(
            [o \in 1..stops |->
                [Job(o, <<day>>) EXCEPT !.qty.kg = draw.qty[o + 1]]],
            [v \in 0..(Max({2, stops \div 20}) - 1) |->
                [Van EXCEPT !.cap.kg = 9 * 30, !.shift = day, !.end = {0}]],
            Stored(Planar(draw.at, draw.scale)))

Generated(shape, draw) ==
    LET depots == IF shape = "MULTI_DEPOT" THEN 3 ELSE 1
        customers == depots..(Len(draw.at) - 1)
        shift == W(0, (IF shape = "DRIVING_HOURS" THEN 24 ELSE 12) * HOUR)
        demand == SumOver(customers, LAMBDA o : draw.qty[o + 1])
    IN  Instance(
            [o \in customers |->
                [Job(o, <<IF shape = "TIGHT_WINDOWS" THEN Staggered(o)
                          ELSE shift>>) EXCEPT !.qty.kg = draw.qty[o + 1]]],
            [v \in 0..(draw.fleet - 1) |->
                [Van EXCEPT
                    !.cap.kg = IF shape = "TIGHT_CAPACITY"
                               THEN demand \div draw.fleet + 1 ELSE demand,
                    !.shift = shift,
                    !.start = v % depots, !.end = {v % depots},
                    !.hos = IF shape = "DRIVING_HOURS"
                            THEN {"EU_561"} ELSE {}]],
            Stored(Planar(draw.at, draw.scale)))

\* What a subject stands for: the tests, the gate and the scale runs each
\* have a generator of their own.
InstanceOf(drawn) ==
    CASE drawn.shape = "LARGE" -> GenerateLarge(drawn.draw)
      [] drawn.shape = "CORPUS" -> BuildInstance(drawn.spec, drawn.draw)
      [] OTHER -> Generated(drawn.shape, drawn.draw)

\* plan_greedily: vehicle by vehicle, the nearest order that fits and keeps
\* the route legal; the earlier order of two as near.
Fits(p, vid, seq) ==
    SumOver(DOMAIN seq, LAMBDA i : p.orders[seq[i]].qty.kg)
        <= Get(p.vehicles[vid].cap, "kg")
\* Mutant: only the load is looked at.
CandidatesThatFit(p, vid, seq, remaining) ==
    {o \in remaining : Fits(p, vid, Append(seq, o))}

Candidates(p, vid, seq, remaining) ==
    {o \in remaining : /\ Fits(p, vid, Append(seq, o))
                       /\ RouteIsLegal(p, vid, Append(seq, o))}
Nearest(p, vid, seq, orders) ==
    LET Place(o) == StopOf(p.orders[o]).at
        here == IF seq = <<>> THEN p.vehicles[vid].start ELSE Place(Last(seq))
    IN  CHOOSE o \in orders : \A x \in orders :
            \/ p.dur[here][Place(o)] < p.dur[here][Place(x)]
            \/ p.dur[here][Place(o)] = p.dur[here][Place(x)] /\ o <= x
Longer(p, vid, before, able) ==
    IF able = {} THEN before
    ELSE Append(before, Nearest(p, vid, before, able))
GreedyRoute(p, vid, taken) ==
    LET route[n \in Nat] ==
            IF n = 0 THEN <<>>
            ELSE Longer(p, vid, route[n - 1],
                    Candidates(p, vid, route[n - 1],
                        DOMAIN p.orders \ (taken \cup Range(route[n - 1]))))
    IN  route[Cardinality(DOMAIN p.orders)]
PlanGreedily(p) ==
    LET plan[n \in Nat] ==
            IF n = 0 THEN <<>>
            ELSE Append(plan[n - 1],
                    GreedyRoute(p, n - 1, UNION {Range(r) : r \in Range(plan[n - 1])}))
    IN  [v \in DOMAIN p.vehicles |-> plan[v + 1][v + 1]]

\* build_plan: under a rule set the timeline comes from the scheduler, with
\* the breaks the law requires.
Steps(p, v, seq) ==
    IF p.vehicles[v].hos = {} THEN Timeline(p, v, seq)
    ELSE ScheduleRoute(p, v, seq, {RULES[h] : h \in p.vehicles[v].hos},
                       p.vehicles[v].shift.start).steps
Built(p, plan) ==
    LET used == SetToSortSeq({v \in DOMAIN plan : plan[v] # <<>>}, <)
    IN  [ routes |-> [i \in DOMAIN used |->
              [vehicle |-> used[i], steps |-> Steps(p, used[i], plan[used[i]])]],
          unassigned |-> DOMAIN p.orders \ Served(plan),
          claimed |-> <<>> ]
BuildPlan(p) == Built(p, PlanGreedily(p))

-----------------------------------------------------------------------------
(* benchmarks.py: the rows of a file are numbered from 0; a row is         *)
(* [demand, pickup, delivery], where 0 names no partner.                   *)

\* _pairing_offset: the numbering under which each pickup's partner names it
\* back, with the opposite demand.
Paired(table, i, offset) ==
    LET partner == table[i].delivery - offset
    IN  /\ partner \in DOMAIN table
        /\ table[partner].pickup - offset = i
        /\ table[partner].demand = -table[i].demand
Symmetric(table, offset) ==
    \A i \in DOMAIN table : table[i].delivery # 0 => Paired(table, i, offset)
PairingOffset(table) ==
    IF Symmetric(table, 1) THEN {1}
    ELSE IF Symmetric(table, 0) THEN {0} ELSE {}

Shipments(table, depots, offset) ==
    {[pickup |-> i, delivery |-> table[i].delivery - offset,
      qty |-> Max({table[i].demand, -table[i].demand})] :
        i \in {i \in DOMAIN table \ depots : table[i].delivery # 0}}

\* _per_vehicle: stated once for the fleet, or once for each vehicle.
PerVehicle(stated, v) == IF Len(stated) = 1 THEN stated[1] ELSE stated[v]

\* _home_of: nodes are numbered from 1 in VEHICLES_DEPOT_SECTION.
HomeOf(raw, v) ==
    IF raw.homes = <<>> THEN Min(raw.depots) ELSE raw.homes[v] - 1

\* _jobs: one order for each customer of a file without pairs.
Jobs(raw) ==
    {[pickup |-> i, delivery |-> i, qty |-> raw.demand[i]] :
        i \in DOMAIN raw.demand \ raw.depots}

\* The optimum of the COMMENT line, else the cost in the file beside it.
BestKnown(raw) == IF raw.comment # {} THEN raw.comment ELSE raw.sol

\* read_benchmark: nothing where the file is refused.
ReadBenchmark(raw) ==
    LET fleet == 1..raw.vehicles
        offset == PairingOffset(raw.table)
    IN  IF offset = {} \/ \E v \in fleet : HomeOf(raw, v) \notin raw.depots
        THEN {}
        ELSE {[ best |-> BestKnown(raw),
                orders |-> IF DOMAIN raw.table = {} THEN Jobs(raw)
                           ELSE Shipments(raw.table, raw.depots, Or(offset, 1)),
                vehicles |-> [v \in fleet |->
                    [cap |-> PerVehicle(raw.capacity, v),
                     home |-> HomeOf(raw, v)]] ]}

-----------------------------------------------------------------------------
(* bench/runner.py: a run of the corpus, recorded or judged.               *)

Init ==
    /\ subject \in Subjects
    /\ solver = [s \in Specs |-> [cost |-> Min(Costs), verified |-> TRUE]]
    /\ corpus = Specs /\ baseline = {} /\ verdict = "none" /\ written = {}

\* The developer: a change of the solver, or of the corpus.
ChangeSolver(s, result) ==
    /\ solver' = [solver EXCEPT ![s] = result] /\ verdict' = "none"
    /\ UNCHANGED <<subject, corpus, baseline, written>>
ChangeCorpus(specs) ==
    /\ corpus' = specs /\ verdict' = "none"
    /\ UNCHANGED <<subject, solver, baseline, written>>

Unverified == {s \in corpus : ~solver[s].verified}

Record ==
    /\ IF Unverified # {} THEN verdict' = "refused" /\ UNCHANGED baseline
       ELSE verdict' = "recorded" /\ baseline' = {[s \in corpus |-> solver[s]]}
    /\ UNCHANGED <<subject, solver, corpus, written>>

\* INSTANCE_TOLERANCE_PCT and MEAN_TOLERANCE_PP.  The mean of the relative
\* changes is compared with a quarter of a point over a common denominator.
PastTheLimit(was, s) == (solver[s].cost - was[s].cost) * 100 > 2 * was[s].cost
MeanRegressed(was) ==
    LET Product(S) == FoldSet(LAMBDA s, n : was[s].cost * n, 1, S)
    IN  SumOver(corpus, LAMBDA s :
            400 * (solver[s].cost - was[s].cost) * Product(corpus \ {s}))
                > Cardinality(corpus) * Product(corpus)

GateVerdict(was) ==
    CASE Unverified # {} -> "fail"
      [] Unverified = {} /\ ~(corpus \subseteq DOMAIN was) -> "fail"
      [] OTHER -> IF \/ \E s \in corpus : PastTheLimit(was, s)
                     \/ MeanRegressed(was)
                  THEN "fail" ELSE "pass"

Gate ==
    /\ verdict' = IF baseline = {} THEN "no baseline"
                  ELSE GateVerdict(CHOOSE was \in baseline : TRUE)
    /\ UNCHANGED <<subject, solver, corpus, baseline, written>>

-----------------------------------------------------------------------------
(* anonymise.py.                                                           *)

IDENTIFYING == {"order_id", "product_id"}
COARSENED == {"latitude", "longitude"}
SAFE == {"hub", "units"}
Fields(records) == UNION {DOMAIN records[i] : i \in DOMAIN records}
Unclassified(records) == Fields(records) \ (IDENTIFYING \cup COARSENED \cup SAFE)

Opaque(record, salt) ==
    <<salt, [f \in IDENTIFYING \cap DOMAIN record |-> record[f]]>>

\* To the nearest line of the grid, halves to even.
OnGrid(metres) ==
    LET line == metres \div CELL
        beyond == 2 * (metres % CELL)
    IN  CELL * (line + IF beyond > CELL \/ (beyond = CELL /\ line % 2 = 1)
                       THEN 1 ELSE 0)

Clean(record, salt) ==
    [f \in (DOMAIN record \cap SAFE) \cup COARSENED \cup {"id"} |->
        IF f = "id" THEN Opaque(record, salt)
        ELSE IF f \in COARSENED THEN OnGrid(record[f]) ELSE record[f]]

\* anonymise, of records whose every field somebody has decided about.
Anonymise(records, salt) ==
    IF Unclassified(records) # {} THEN {}
    ELSE {[i \in DOMAIN records |-> Clean(records[i], salt)]}

\* write_corpus: records that went through anonymise, and are read again, or
\* records that did not.
Leaking(records) == Fields(records) \cap IDENTIFYING # {}
WriteCorpus(records, through) ==
    /\ written' = IF Leaking(records) \/ ~through THEN written
                  ELSE {records}
    /\ UNCHANGED <<subject, solver, corpus, baseline, verdict>>
Export ==
    \E records \in Deliveries :
        \/ \E safe \in Anonymise(records, "s") : WriteCorpus(safe, TRUE)
        \/ WriteCorpus(records, FALSE)

Next ==
    IF subject.kind = "none"
    THEN \/ Record \/ Gate \/ Export
         \/ \E s \in Specs, c \in Costs, v \in BOOLEAN :
                ChangeSolver(s, [cost |-> c, verified |-> v])
         \/ \E specs \in SUBSET Specs \ {{}} : ChangeCorpus(specs)
    ELSE UNCHANGED vars

-----------------------------------------------------------------------------

\* generate: the plan of the harness is one the verifier has no fault with,
\* and leaves out only what would not fit.
GreedyPlanVerifies ==
    subject.kind = "drawn" =>
        \A p \in {InstanceOf(subject)} :
        \A plan \in {PlanGreedily(p)}, built \in {BuildPlan(p)} :
            /\ Verify(p, built) = {}
            /\ \A v \in DOMAIN plan :
                    Candidates(p, v, plan[v], built.unassigned) = {}

\* PlanarMatrix and submatrix: a matrix that computes its cells is the stored
\* one cell for cell, over any of its places, and no pair of them is further
\* apart than the bound that stands for enumerating them.
PlanarAgrees ==
    subject.kind = "drawn" =>
        LET m == Planar(subject.draw.at, subject.draw.scale)
            nodes == 0..(Len(m.at) - 1)
        IN  /\ \A a, b \in nodes : Stored(m)[a][b] \in 0..Extremes(m)
            /\ \A indices \in UNION {SetToSeqs(s) : s \in kSubset(3, nodes)} :
                    Submatrix(m, indices)
                        = Stored(Planar([i \in 1..3 |-> m.at[indices[i] + 1]],
                                        m.scale))

\* _pairing_offset, "a mispaired shipment reads as a valid instance and
\* answers a different problem": of a file with as many deliveries as pickups
\* every customer is one end of one order, and each end named the other under
\* the numbering chosen; a vehicle starts where the file lists a depot.
EveryCustomerIsRead ==
    subject.kind = "file" =>
        LET raw == subject.raw
            table == raw.table
            balanced ==
                /\ \A i \in DOMAIN table \ raw.depots :
                        (table[i].pickup = 0) # (table[i].delivery = 0)
                /\ Cardinality({i \in DOMAIN table : table[i].pickup # 0})
                    = Cardinality({i \in DOMAIN table : table[i].delivery # 0})
        IN  \A read \in ReadBenchmark(raw) :
                /\ read.best \in {raw.comment, raw.sol}
                /\ read.best = {} => raw.comment \cup raw.sol = {}
                /\ balanced => \A i \in DOMAIN raw.demand \ raw.depots :
                        Quantify(read.orders, LAMBDA o :
                                    i \in {o.pickup, o.delivery}) = 1
                /\ \A o \in read.orders : o.pickup # o.delivery =>
                        /\ table[o.pickup].demand + table[o.delivery].demand = 0
                        /\ table[o.pickup].delivery - o.delivery
                                = table[o.delivery].pickup - o.pickup
                /\ \A v \in DOMAIN read.vehicles :
                        read.vehicles[v].home \in raw.depots

\* gate: it passes a run only of plans that verify, none of them far from and
\* all of them on the whole near to plans that verified when they were
\* recorded; and a run that is no worse anywhere passes.
GateIsFair ==
    \A was \in baseline :
        /\ \A s \in DOMAIN was : was[s].verified
        /\ verdict = "pass" =>
            /\ Unverified = {} /\ corpus \subseteq DOMAIN was
            /\ \A s \in corpus : solver[s].cost * 50 <= was[s].cost * 51
        /\ verdict = "fail" =>
            \/ Unverified # {} \/ ~(corpus \subseteq DOMAIN was)
            \/ \E s \in corpus : solver[s].cost > was[s].cost

\* write_corpus, "a partly written corpus is a leaked one": what is written
\* names nobody and carries nothing undecided; a stop moved by half a cell at
\* most, so two that were further apart than a cell are still two.
NothingLeaks ==
    \A records \in written :
        /\ Fields(records) \subseteq SAFE \cup COARSENED \cup {"id"}
        /\ \E collected \in Deliveries :
            /\ Len(collected) = Len(records) /\ Unclassified(collected) = {}
            /\ \A i \in DOMAIN records : \A f \in COARSENED :
                    /\ records[i][f] % CELL = 0
                    /\ 2 * (records[i][f] - collected[i][f]) \in (-CELL)..CELL

YardsticksHold ==
    /\ GreedyPlanVerifies /\ PlanarAgrees /\ EveryCustomerIsRead
    /\ GateIsFair /\ NothingLeaks
=============================================================================
