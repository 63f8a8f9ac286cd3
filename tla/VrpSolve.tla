------------------------------ MODULE VrpSolve ------------------------------
(***************************************************************************)
(* One request to /vrp or /vrp/allocate once it holds its slot: handlers   *)
(* vrp and vrp_allocate of gateway/src/handlers.rs with allocation_for,    *)
(* depot_to_stop_matrix, build_chunk_requests, solve_depot_routes and      *)
(* solve_chunk of gateway/src/vrp/solve.rs.                                *)
(*                                                                         *)
(* The handler fetches the cost tables batch by batch, allocates, and then *)
(* takes the depots one by one; a depot's chunks are tasks that race for   *)
(* VRP_CHUNK_CONCURRENCY slots and end in any order.  A task is polled to  *)
(* its next await in one step, and an abort takes effect between polls.    *)
(* What client.get does is OsrmClient; here it answers or fails.           *)
(***************************************************************************)
EXTENDS Naturals, Sequences, SequencesExt, Subsequences

(***************************************************************************)
(* The pure part: which depot serves a stop (allocate.rs) and how a        *)
(* depot's stops are cut into vehicle loads (sweep_order,                  *)
(* build_chunk_requests and reorder_waypoints of solve.rs).                *)
(*                                                                         *)
(* Depots and stops are numbered from 1.  Costs, air distances and         *)
(* bearings are naturals; the floating-point geometry behind them is not   *)
(* modelled.  A matrix is a sequence of rows, one per depot.               *)
(***************************************************************************)
CONSTANTS
    Hysteresis,     \* hysteresis_m
    Speed,          \* HYSTERESIS_SPEED_MS
    SanityLimit,    \* sanity_limit_m
    MaxRadius,      \* max_radius_m, or NoRadius
    NoRadius,
    Unreachable,    \* UNREACHABLE, above every real cost
    Tau             \* the full circle, in units of bearing

ASSUME AllocationAssumption ==
    /\ Hysteresis \in Nat /\ SanityLimit \in Nat /\ Unreachable \in Nat
    /\ Speed \in Nat \ {0} /\ Tau \in Nat \ {0}
    /\ NoRadius \notin Nat
    /\ MaxRadius \in Nat \cup {NoRadius}

Modes == {"distance", "travel_time", "radial"}

-----------------------------------------------------------------------------
(* The index of the smallest value, ties going to the lowest index.        *)
Argmin(v) ==
    CHOOSE i \in DOMAIN v :
       \A j \in DOMAIN v : v[i] <= v[j] /\ (v[i] = v[j] => i <= j)

(* The cost matrix of a mode, and its hysteresis band in the same unit.    *)
Target(mode, durations, distances) ==
    IF mode = "travel_time" THEN durations ELSE distances

Band(mode) == IF mode = "travel_time" THEN Hysteresis \div Speed
              ELSE Hysteresis

(* The depot chosen for a stop at air distances air and road costs column. *)
(* x - y > z is written x > y + z: the naturals have no negatives.         *)
SelectDepot(mode, air, column) ==
    LET anchor == Argmin(air)
        best == Argmin(column)
    IN IF /\ mode # "radial"
          /\ air[best] <= air[anchor] + SanityLimit
          /\ column[best] < Unreachable
          /\ \/ column[anchor] >= Unreachable
             \/ column[best] + Band(mode) < column[anchor]
       THEN best ELSE anchor

(* matrix_width: every row of both matrices has the same length, and there *)
(* are no more columns than stops.                                         *)
WellShaped(durations, distances, depots, stops) ==
    LET width == Len(distances[1])
    IN /\ Len(distances) = depots /\ Len(durations) = depots
       /\ \A d \in 1..depots : /\ Len(distances[d]) = width
                               /\ Len(durations[d]) = width
       /\ width <= stops

(* Whether a stop at road distance road from its depot goes unserved.      *)
Unserved(road) ==
    \/ road >= Unreachable
    \/ MaxRadius # NoRadius /\ road > MaxRadius

(* The depot of each stop the matrices have a column for.                  *)
DepotOf(mode, air, durations, distances) ==
    LET target == Target(mode, durations, distances)
    IN [s \in 1..Len(distances[1]) |->
          SelectDepot(mode, air[s], [d \in DOMAIN target |-> target[d][s]])]

(* allocate_stops on well-shaped matrices: the stops of each depot and the *)
(* unserved ones, each in the caller's order.                              *)
AllocateStops(mode, air, durations, distances) ==
    LET depot == DepotOf(mode, air, durations, distances)
        Served(s) == ~Unserved(distances[depot[s]][s])
        columns == [s \in DOMAIN depot |-> s]
    IN [assignments |-> [d \in DOMAIN distances |->
           Kept(columns, {s \in DOMAIN depot : depot[s] = d /\ Served(s)})],
        unreachable |-> Kept(columns, {s \in DOMAIN depot : ~Served(s)})]

-----------------------------------------------------------------------------
(* keyed is sorted by bearing b.                                           *)
SortedBy(keyed, b) ==
    \A i \in 1..(Len(keyed) - 1) : b[keyed[i]] <= b[keyed[i + 1]]

(* How many places widest_gap_start has the order rotated: the first of    *)
(* the widest gaps between neighbours, if it is wider than the wrap.       *)
WidestGapStart(keyed, b) ==
    LET n == Len(keyed)
        Gap(i) == IF i = 0 THEN b[keyed[1]] + Tau - b[keyed[n]]
                  ELSE b[keyed[i + 1]] - b[keyed[i]]
    IN CHOOSE i \in 0..(n - 1) :
          \A j \in 0..(n - 1) :
             Gap(i) >= Gap(j) /\ (Gap(i) = Gap(j) => i <= j)

(* sweep_order, given the stops sorted by bearing.                         *)
Rotated(keyed, b) ==
    LET n == Len(keyed)
        start == WidestGapStart(keyed, b)
    IN [i \in 1..n |-> keyed[((i - 1 + start) % n) + 1]]

(* Slices of size stops, the last one possibly shorter.                    *)
Chunks(order, size) ==
    [c \in 1..((Len(order) + size - 1) \div size) |->
        SubSeq(order, (c - 1) * size + 1,
               IF c * size <= Len(order) THEN c * size ELSE Len(order))]

(* reorder_waypoints: the waypoints of OSRM, depot dropped, name places of *)
(* the chunk; a place outside the chunk is an error, told by InChunk.      *)
InChunk(places, chunk) == \A i \in DOMAIN places : places[i] <= Len(chunk)

Reordered(places, chunk) == [i \in DOMAIN places |-> chunk[places[i]]]

(***************************************************************************)
(* The request.                                                            *)
(***************************************************************************)

CONSTANTS
    NDepots, NStops,   \* the request's depots and stops
    Air,               \* air distance of each stop to each depot
    Ids,               \* the id of each depot, or NoId
    NoId,
    Capacities,        \* the capacities a request may ask for
    Legs,              \* <<duration, distance>> pairs the engine may answer
    Angles,            \* the bearings a stop may have
    BatchSize,         \* MATRIX_BATCH_SIZE
    MaxCells,          \* MATRIX_MAX_CELLS
    ChunkLimit,        \* VRP_CHUNK_SIZE
    TripBound,         \* bounds::TRIP_COORDINATES.1 - 1
    Concurrency        \* VRP_CHUNK_CONCURRENCY

Depots == 1..NDepots
Stops == 1..NStops

ASSUME VrpAssumption ==
    /\ NDepots \in Nat \ {0} /\ NStops \in Nat \ {0}
    /\ Air \in [Stops -> [Depots -> Nat]]
    /\ Capacities \subseteq Nat \ {0}
    /\ Legs \subseteq (0..Unreachable) \X (0..Unreachable)
    /\ Angles \subseteq 0..(Tau - 1)
    /\ {BatchSize, MaxCells, ChunkLimit, TripBound, Concurrency}
          \subseteq Nat \ {0}
    \* ids are told apart from each other and from the numbers that stand in
    /\ \A d \in Depots : Ids[d] \notin Nat
    /\ \A d, e \in Depots : d # e /\ Ids[d] # NoId => Ids[d] # Ids[e]

Endpoints == {"vrp", "allocate"}

(* "table": the next batch is under way; "depot": the next depot's turn;   *)
(* "join": waiting for its chunk tasks; then the answer.                   *)
Phases == {"table", "depot", "join", "ok", "error", "gone"}

VARIABLES
    endpoint, mode, capacity,   \* the request
    pc,
    durations, distances,       \* the matrices, as far as they are fetched
    fetched,                    \* stops whose batch was answered
    allocation,                 \* what AllocateStops answered
    depot,                      \* depots finished with
    chunks,                     \* the current depot's chunks
    bearing,                    \* of the current depot's stops
    task,                       \* each chunk's task
    result,                     \* what an ended task brings
    routes,                     \* the routes so far
    faithful                    \* the engine answered in the shape asked

requestVars == <<endpoint, mode, capacity>>
tableVars == <<durations, distances, fetched>>
depotVars == <<chunks, bearing, task, result>>
vars == <<requestVars, pc, tableVars, allocation, depot, depotVars, routes,
          faithful>>

TaskStates == {"waiting", "calling", "ended", "joined"}
Failed == <<0>>     \* no route holds a stop 0
NoAllocation == [assignments |-> [d \in Depots |-> <<>>],
                 unreachable |-> <<>>]
NoRows == [d \in Depots |-> <<>>]
NoDepot ==
    /\ chunks' = <<>>
    /\ bearing' = [s \in Stops |-> 0]
    /\ task' = <<>>
    /\ result' = <<>>

(* What each variable ranges over.                                         *)
TypeOK ==
    /\ endpoint \in Endpoints /\ mode \in Modes /\ capacity \in Capacities
    /\ pc \in Phases
    /\ \A d \in Depots : /\ durations[d] \in Seq(0..Unreachable)
                         /\ distances[d] \in Seq(0..Unreachable)
    /\ fetched \in 0..NStops
    /\ \A d \in Depots : allocation.assignments[d] \in Seq(Stops)
    /\ allocation.unreachable \in Seq(Stops)
    /\ depot \in 0..NDepots
    /\ chunks \in Seq(Seq(Stops))
    /\ bearing \in [Stops -> 0..(Tau - 1)]
    /\ task \in [DOMAIN chunks -> TaskStates]
    /\ result \in [DOMAIN chunks -> Seq(Stops) \cup {Failed}]
    /\ \A i \in DOMAIN routes : /\ routes[i].depot \in Depots
                                /\ routes[i].stops \in Seq(Stops)
    /\ faithful \in BOOLEAN

Init ==
    /\ endpoint \in Endpoints /\ mode \in Modes /\ capacity \in Capacities
    /\ pc = "table"
    /\ durations = NoRows /\ distances = NoRows
    /\ fetched = 0
    /\ allocation = NoAllocation
    /\ depot = 0
    /\ chunks = <<>> /\ bearing = [s \in Stops |-> 0]
    /\ task = <<>> /\ result = <<>>
    /\ routes = <<>>
    /\ faithful = TRUE

Least(m, n) == IF m <= n THEN m ELSE n
Most(m, n) == IF m >= n THEN m ELSE n

-----------------------------------------------------------------------------

(* The stops of a batch, so that it stays within the engine's cells.       *)
Batch == Least(Most(Least(BatchSize, MaxCells \div NDepots), 1),
               NStops - fetched)

(* Tables of n columns as asked for; and tables of another shape, rows of  *)
(* lengths lens filled with one leg.                                       *)
Tables(n) == [Depots -> [1..n -> Legs]]
Table(lens, leg) == [d \in Depots |-> [i \in 1..lens[d] |-> leg]]

(* One answer is taken apart and its rows are appended.  Null cells became *)
(* Unreachable in prepare_matrix.                                          *)
Extended(rows, table, part) ==
    [d \in Depots |->
        rows[d] \o [i \in DOMAIN table[d] |-> table[d][i][part]]]

Fetch(n) ==
    \/ \E table \in Tables(n) :
          /\ durations' = Extended(durations, table, 1)
          /\ distances' = Extended(distances, table, 2)
          /\ UNCHANGED faithful
    \/ \E leg \in Legs, lens \in [Depots -> (n - 1)..(n + 1)],
          both \in BOOLEAN :
          LET asked == [d \in Depots |-> n]
          IN /\ lens # asked
             /\ durations' = Extended(durations, Table(lens, leg), 1)
             /\ distances' = Extended(distances,
                               Table(IF both THEN lens ELSE asked, leg), 2)
             /\ faithful' = FALSE

(* The matrices are complete: allocate_stops, or its refusal.  The answer  *)
(* of /vrp/allocate is the allocation itself.                              *)
Allocate(durs, dists) ==
    IF WellShaped(durs, dists, NDepots, NStops)
    THEN /\ allocation' = AllocateStops(mode, Air, durs, dists)
         /\ pc' = IF endpoint = "vrp" THEN "depot" ELSE "ok"
    ELSE /\ UNCHANGED allocation
         /\ pc' = "error"

(* One batch is answered; with the last one the allocation follows.        *)
FetchTable ==
    /\ pc = "table"
    /\ Fetch(Batch)
    /\ fetched' = fetched + Batch
    /\ IF fetched' < NStops THEN UNCHANGED <<pc, allocation>>
       ELSE Allocate(durations', distances')
    /\ UNCHANGED <<requestVars, depot, depotVars, routes>>

(* client.get fails or the body cannot be decoded.                         *)
FetchFailed ==
    /\ pc = "table"
    /\ pc' = "error"
    /\ UNCHANGED <<requestVars, tableVars, allocation, depot, depotVars,
                   routes, faithful>>

-----------------------------------------------------------------------------
(* The stops of one vehicle: bounded by the setting, by the capacity and   *)
(* by what one /trip call may carry.                                       *)
ChunkSize == Least(Least(ChunkLimit, capacity), TripBound)

(* The label of the n-th of m vehicles of depot d, after r routes: its id, *)
(* its id and a number, or a running number.                               *)
VehicleLabel(d, n, m, r) ==
    IF Ids[d] # NoId
    THEN IF m > 1 THEN <<Ids[d], n>> ELSE <<Ids[d]>>
    ELSE <<r + n - 1>>

(* The answer of /vrp/allocate: the stops under each depot's key, its id   *)
(* or its number.                                                          *)
Key(d) == IF Ids[d] # NoId THEN <<Ids[d]>> ELSE <<d - 1>>

Report ==
    [k \in {Key(d) : d \in Depots} |->
        allocation.assignments[CHOOSE d \in Depots :
           Key(d) = k /\ \A e \in Depots : Key(e) = k => e <= d]]

(* The matrices ended with allocation_for.                                 *)
DropTables == durations' = NoRows /\ distances' = NoRows /\ fetched' = 0

(* A depot without stops is passed over.                                   *)
SkipDepot ==
    /\ pc = "depot"
    /\ depot < NDepots
    /\ allocation.assignments[depot + 1] = <<>>
    /\ depot' = depot + 1
    /\ DropTables
    /\ UNCHANGED <<requestVars, pc, allocation, depotVars, routes, faithful>>

(* build_chunk_requests and the spawning of the tasks.  The stops are put  *)
(* in sweep order only if there is more than one chunk.  The bearings are  *)
(* the request's data; equal ones fall back to radius and index, so any    *)
(* order of theirs can be the one.                                         *)
BeginDepot ==
    /\ pc = "depot"
    /\ depot < NDepots
    /\ LET stops == allocation.assignments[depot + 1]
       IN /\ stops # <<>>
          /\ \/ /\ Len(stops) <= ChunkSize
                /\ chunks' = Chunks(stops, ChunkSize)
                /\ UNCHANGED bearing
             \/ /\ Len(stops) > ChunkSize
                /\ \E b \in [ToSet(stops) -> Angles],
                      keyed \in SetToSeqs(ToSet(stops)) :
                      /\ SortedBy(keyed, b)
                      /\ chunks' = Chunks(Rotated(keyed, b), ChunkSize)
                      /\ bearing' = [s \in Stops |->
                            IF s \in ToSet(stops) THEN b[s] ELSE 0]
    /\ task' = [c \in DOMAIN chunks' |-> "waiting"]
    /\ result' = [c \in DOMAIN chunks' |-> <<>>]
    /\ pc' = "join"
    /\ DropTables
    /\ UNCHANGED <<requestVars, allocation, depot, routes, faithful>>

(* The semaphore of the depot has a permit left.                           *)
SlotFree ==
    Cardinality({c \in DOMAIN task : task[c] = "calling"}) < Concurrency

(* A task gets its permit and sends its /trip call.                        *)
Acquire(c) ==
    /\ c \in DOMAIN task
    /\ task[c] = "waiting"
    /\ SlotFree
    /\ task' = [task EXCEPT ![c] = "calling"]
    /\ UNCHANGED <<requestVars, pc, tableVars, allocation, depot, chunks,
                   bearing, result, routes, faithful>>

(* The places of the chunk in the order of OSRM's waypoints: as many as    *)
(* were asked for, or one fewer or more.                                   *)
Waypoints(n) == UNION {SetToSeqs(1..k) : k \in (Most(n, 1) - 1)..(n + 1)}

(* solve_chunk ends, with a route or an error, and the permit is released. *)
TripAnswered(c) ==
    /\ c \in DOMAIN task
    /\ task[c] = "calling"
    /\ \E places \in Waypoints(Len(chunks[c])) :
          /\ result' = [result EXCEPT ![c] =
                IF InChunk(places, chunks[c])
                THEN Reordered(places, chunks[c]) ELSE Failed]
          /\ faithful' = (faithful /\ Len(places) = Len(chunks[c]))
    /\ task' = [task EXCEPT ![c] = "ended"]
    /\ UNCHANGED <<requestVars, pc, tableVars, allocation, depot, chunks,
                   bearing, routes>>

(* client.get fails, or the engine found no trip.                          *)
TripFailed(c) ==
    /\ c \in DOMAIN task
    /\ task[c] = "calling"
    /\ result' = [result EXCEPT ![c] = Failed]
    /\ task' = [task EXCEPT ![c] = "ended"]
    /\ UNCHANGED <<requestVars, pc, tableVars, allocation, depot, chunks,
                   bearing, routes, faithful>>

(* join_next hands over a route; it keeps its chunk's position.            *)
JoinRoute(c) ==
    /\ pc = "join"
    /\ task[c] = "ended"
    /\ result[c] # Failed
    /\ task' = [task EXCEPT ![c] = "joined"]
    /\ UNCHANGED <<requestVars, pc, tableVars, allocation, depot, chunks,
                   bearing, result, routes, faithful>>

(* Mutant: the siblings of a failed chunk are left running.                *)
AbortAllNot == UNCHANGED depotVars

(* abort_all, and the drop of the JoinSet: no task is polled again.        *)
AbortAll == NoDepot

(* Mutant: an error is put aside and its siblings are waited for.          *)
JoinErrorWaits(c) == pc = "join" /\ task[c] = "ended" /\ UNCHANGED vars

(* join_next hands over an error: the siblings are aborted and the request *)
(* answers 500.                                                            *)
JoinError(c) ==
    /\ pc = "join"
    /\ task[c] = "ended"
    /\ result[c] = Failed
    /\ AbortAll
    /\ pc' = "error"
    /\ UNCHANGED <<requestVars, tableVars, allocation, depot, routes,
                   faithful>>

(* The current depot's routes in chunk order.                              *)
DepotRoutes(d) ==
    [c \in DOMAIN chunks |->
        [depot |-> d, stops |-> result[c],
         label |-> VehicleLabel(d, c, Len(chunks), Len(routes))]]

(* The set is empty: the depot's routes join the others.                   *)
EndDepot ==
    /\ pc = "join"
    /\ \A c \in DOMAIN task : task[c] = "joined"
    /\ routes' = routes \o DepotRoutes(depot + 1)
    /\ depot' = depot + 1
    /\ pc' = "depot"
    /\ NoDepot
    /\ UNCHANGED <<requestVars, tableVars, allocation, faithful>>

(* Every depot had its turn: 200 with the routes.                          *)
Respond ==
    /\ pc = "depot"
    /\ depot = NDepots
    /\ pc' = "ok"
    /\ UNCHANGED <<requestVars, tableVars, allocation, depot, depotVars,
                   routes, faithful>>

(* The client disconnects and the handler is dropped with its JoinSet.     *)
Disconnect ==
    /\ pc \in {"table", "depot", "join"}
    /\ pc' = "gone"
    /\ AbortAll
    /\ UNCHANGED <<requestVars, tableVars, allocation, depot, routes,
                   faithful>>

-----------------------------------------------------------------------------
Handler == \/ FetchTable \/ FetchFailed \/ SkipDepot \/ BeginDepot
           \/ EndDepot \/ Respond
           \/ \E c \in DOMAIN task : JoinRoute(c) \/ JoinError(c)
Task(c) == Acquire(c) \/ TripAnswered(c) \/ TripFailed(c)

Next == Handler \/ (\E c \in Stops : Task(c)) \/ Disconnect

(* The runtime polls the handler and every task that can go on; each call  *)
(* of the client ends.                                                     *)
Fairness == WF_vars(Handler) /\ \A c \in Stops : WF_vars(Task(c))

Spec == Init /\ [][Next]_vars /\ Fairness

-----------------------------------------------------------------------------
(* Properties.                                                             *)

Places(seqs, s) ==
    {p \in UNION {{i} \X DOMAIN seqs[i] : i \in DOMAIN seqs} :
        seqs[p[1]][p[2]] = s}

(* Where stop s turns up in the answer.                                    *)
Answered(s) ==
    IF endpoint = "vrp"
    THEN Places([i \in DOMAIN routes |-> routes[i].stops], s)
    ELSE Places(Report, s)

(* No answer serves a stop twice or both serves it and calls it            *)
(* unreachable, whatever shape the engine's answers had; and if they had   *)
(* the shape asked for, every stop is served or unreachable.  No chunk,    *)
(* depot or batch is lost on the way, in whatever order the tasks end.     *)
EveryStopOnce ==
    pc = "ok" =>
       \A s \in Stops :
          LET found == Cardinality(Answered(s))
                          + Cardinality(Places(<<allocation.unreachable>>, s))
          IN found <= 1 /\ (faithful => found = 1)

(* The vehicles of an answer have labels of their own, although they are   *)
(* labelled before their chunks are solved and depot by depot; and one     *)
(* labelled with a running number stands at that place of the answer.      *)
LabelsInOrder ==
    \A i, j \in DOMAIN routes :
       /\ i # j => routes[i].label # routes[j].label
       /\ Ids[routes[i].depot] = NoId => routes[i].label = <<i - 1>>

(* What an allocated stop means: its depot is one the engine has a road    *)
(* from, within the radius, and no further by air than the sanity limit    *)
(* above any other; and unless the mode is radial, no depot would have     *)
(* been better by more than the band, save when the best one was too far   *)
(* by air.                                                                 *)
AllocationSound ==
    (pc \in {"depot", "ok"} /\ depot = 0 /\ fetched = NStops) =>
       \A d \in Depots : \A s \in ToSet(allocation.assignments[d]) :
          LET cost(e) == Target(mode, durations, distances)[e][s]
              best == Argmin([e \in Depots |-> cost(e)])
          IN /\ ~Unserved(distances[d][s])
             /\ \A e \in Depots : Air[s][d] <= Air[s][e] + SanityLimit
             /\ \/ mode = "radial"
                \/ cost(d) <= cost(best) + Band(mode)
                \/ \E e \in Depots : Air[s][best] > Air[s][e] + SanityLimit

(* The vehicles of a depot are cut where the stops leave the widest wedge  *)
(* empty: no two neighbours in the sweep are further apart than its last   *)
(* and its first stop.                                                     *)
SweepCutsWidestGap ==
    Len(chunks) > 1 =>
       LET order == FlattenSeq(chunks)
           n == Len(order)
           Wedge(s, t) == (bearing[t] + Tau - bearing[s]) % Tau
       IN \A i \in 1..(n - 1) :
             \/ Wedge(order[i], order[i + 1]) <= Wedge(order[n], order[1])
             \/ \A s \in ToSet(order) : bearing[s] = bearing[order[1]]

(* At most VRP_CHUNK_CONCURRENCY /trip calls of a request are under way,   *)
(* none once it is answered, has failed or was given up, and none with     *)
(* more stops than the vehicle or the engine takes.                        *)
CallsBounded ==
    LET calling == {c \in DOMAIN task : task[c] = "calling"}
    IN /\ Cardinality(calling) <= Concurrency
       /\ pc # "join" => task = <<>>
       /\ \A c \in calling : /\ Len(chunks[c]) <= capacity
                             /\ Len(chunks[c]) <= TripBound

(* Every request is answered or given up: the chunks never wait for each   *)
(* other in a circle and no failed sibling leaves the handler waiting.     *)
EveryRequestAnswered == <>(pc \in {"ok", "error", "gone"})

(* The two handlers: what is answered is whole, labelled, allocated and    *)
(* swept as promised, and no call outlives its request, in whatever order  *)
(* the chunks end, fail or are aborted.                                    *)
AnswerIsSound ==
    /\ TypeOK /\ EveryStopOnce /\ LabelsInOrder /\ AllocationSound
    /\ SweepCutsWidestGap /\ CallsBounded
=============================================================================
