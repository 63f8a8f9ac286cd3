---------------------------- MODULE MatrixBuild ----------------------------
(***************************************************************************)
(* Travel matrices: vrp/matrix.py (tiling and the pair cache) and          *)
(* vrp/osrm.py (snapping and the unchunked build).                         *)
(*                                                                         *)
(* One cache serves build after build.  A build snaps its locations, then  *)
(* takes its tiles in turn: what the cache knows is copied, and a tile     *)
(* with anything missing is asked of the gateway, which may fail.  The map *)
(* behind the gateway is re-imported now and then.                         *)
(*                                                                         *)
(* A location is a number; equal quotients by GRAIN are one doorway, which *)
(* is what the rounding of _key leaves of a coordinate.  The gateway's     *)
(* numbers are tenths of a unit.                                           *)
(***************************************************************************)
EXTENDS Integers, Sequences, FiniteSets, SequencesExt, FiniteSetsExt,
        Subsequences

CONSTANTS Rounds,       \* the lists of locations builds are asked for
          Travel(_, _, _), \* extract, doorway, doorway -> tenths, or NULL
          MaxCells,     \* the gateway's cell cap
          MaxEntries,   \* the cache's size
          Extracts,     \* how many extracts are imported
          MaxBuilds     \* bound: builds in a behaviour

VARIABLES phase,      \* "idle", "tiling", "built", "raised"
          locations,  \* of the build
          extract,    \* the extract the gateway serves now
          version,    \* the extract the caller named, part of the version
          todo,       \* the tiles to go
          durations,  \* the cells so far
          failed,     \* the tiles that were not fetched
          entries,    \* the cache, oldest first
          builds

vars == <<phase, locations, extract, version, todo, durations, failed,
          entries, builds>>

UNREACHABLE == -1
NULL == -2
GRAIN == 10

Doorway(location) == location \div GRAIN

\* plan_tiles: the whole matrix, or squares within the cap in row-major order.
Block == Max({1} \cup {b \in 1..MaxCells : b * b <= MaxCells})

PlanTiles(size) ==
    IF size * size <= MaxCells
    THEN <<[sources |-> 0..(size - 1), destinations |-> 0..(size - 1)]>>
    ELSE LET across == (size + Block - 1) \div Block
             Span(k) == (k * Block)..(Min({(k + 1) * Block, size}) - 1)
         IN  [t \in 1..(across * across) |->
                [sources |-> Span((t - 1) \div across),
                 destinations |-> Span((t - 1) % across)]]

\* round(): half to even.
Whole(tenths) ==
    LET down == tenths \div 10
    IN  IF tenths = NULL THEN UNREACHABLE
        ELSE IF tenths % 10 > 5 \/ (tenths % 10 = 5 /\ down % 2 = 1)
        THEN down + 1 ELSE down

-----------------------------------------------------------------------------
(* The pair cache.  The profile is the same throughout.                    *)

Key(from, to) == <<Doorway(from), Doorway(to)>>

Found(cache, key) == {i \in DOMAIN cache : cache[i].key = key}

\* get: a hit becomes the youngest entry.
CacheGet(cache, key) ==
    IF Found(cache, key) = {} THEN cache
    ELSE LET i == CHOOSE j \in Found(cache, key) : TRUE
         IN  Append(RemoveAt(cache, i), cache[i])

\* Mutant: one entry too many stays.
CachePutAndOne(cache, key, value) ==
    LET others == Kept(cache, {e \in ToSet(cache) : e.key # key})
        all == Append(others, [key |-> key, value |-> value])
    IN  IF Len(all) > MaxEntries + 1 THEN Tail(all) ELSE all

\* put: the oldest entries go while there are too many.
CachePut(cache, key, value) ==
    LET others == Kept(cache, {e \in ToSet(cache) : e.key # key})
        all == Append(others, [key |-> key, value |-> value])
    IN  IF Len(all) > MaxEntries
        THEN SubSeq(all, Len(all) - MaxEntries + 1, Len(all)) ELSE all

\* The cells of a tile in the order the two loops visit them.
CellsOf(tile) ==
    LET rows == Ascending(tile.sources)
        columns == Ascending(tile.destinations)
    IN  [n \in 1..(Len(rows) * Len(columns)) |->
            <<rows[1 + ((n - 1) \div Len(columns))],
              columns[1 + ((n - 1) % Len(columns))]>>]

-----------------------------------------------------------------------------
(* The gateway (external), and one /matrix call of _fetch_tile.            *)

\* The coordinates a tile sends: its own, and one to make two of a lone one.
Needed(tile) ==
    LET own == tile.sources \cup tile.destinations
        others == (0..(Len(locations) - 1)) \ own
    IN  IF Cardinality(own) < 2 /\ others # {} THEN own \cup {Min(others)}
        ELSE own

\* The request: coordinates, and indices renumbered into them.
Request(tile) ==
    LET needed == Ascending(Needed(tile))
        Local(i) == CHOOSE n \in DOMAIN needed : needed[n] = i
    IN  [coordinates |-> [n \in DOMAIN needed |-> locations[needed[n] + 1]],
         sources |-> [n \in DOMAIN Ascending(tile.sources) |->
                        Local(Ascending(tile.sources)[n])],
         destinations |-> [n \in DOMAIN Ascending(tile.destinations) |->
                        Local(Ascending(tile.destinations)[n])]]

\* MATRIX_COORDINATES: fewer than two are refused.
Accepts(request) == Len(request.coordinates) >= 2

Respond(request) ==
    [row \in DOMAIN request.sources |->
        [column \in DOMAIN request.destinations |->
            Travel(extract,
                   Doorway(request.coordinates[request.sources[row]]),
                   Doorway(request.coordinates[request.destinations[column]]))]]

\* The rounded answer, row after row: the values of CellsOf(tile) in turn.
Answered(tile) ==
    LET body == Respond(Request(tile))
        width == Cardinality(tile.destinations)
    IN  [n \in DOMAIN CellsOf(tile) |->
            Whole(body[1 + ((n - 1) \div width)][1 + ((n - 1) % width)])]

MapIsKnown ==
    /\ MaxCells \in Nat \ {0} /\ MaxEntries \in Nat
    /\ \A round \in Rounds : round \in Seq(Int)

-----------------------------------------------------------------------------

Init == /\ phase = "idle" /\ locations = <<>>
        /\ extract = 1 /\ version = 1
        /\ todo = <<>> /\ durations = <<>> /\ failed = {}
        /\ entries = <<>> /\ builds = 0

\* The start of build_large_matrix: the snaps, then an unreachable matrix.
Start(round) ==
    /\ phase # "tiling" /\ builds < MaxBuilds
    /\ builds' = builds + 1
    /\ locations' = round /\ version' = extract
    /\ phase' = "tiling" /\ failed' = {}
    /\ todo' = PlanTiles(Len(round))
    /\ durations' = [c \in (0..(Len(round) - 1)) \X (0..(Len(round) - 1)) |->
                        UNREACHABLE]
    /\ UNCHANGED <<extract, entries>>

\* An empty list, or a batch of _snap_all that the gateway refuses or answers
\* with another number of results: nothing is built.
SnapRaises(round) ==
    /\ phase # "tiling" /\ builds < MaxBuilds
    /\ builds' = builds + 1
    /\ locations' = round /\ version' = extract
    /\ phase' = "raised" /\ failed' = {}
    /\ todo' = <<>> /\ durations' = <<>>
    /\ UNCHANGED <<extract, entries>>

KeyOf(c) == Key(locations[c[1] + 1], locations[c[2] + 1])

\* The cache after it was asked for cells in turn, and told their values.
AskedFor(cells) ==
    LET after[n \in 0..Len(cells)] ==
            IF n = 0 THEN entries
            ELSE CacheGet(after[n - 1], KeyOf(cells[n]))
    IN  after[Len(cells)]

Filled(cache, cells, values) ==
    LET after[n \in 0..Len(cells)] ==
            IF n = 0 THEN cache
            ELSE CachePut(after[n - 1], KeyOf(cells[n]), values[n])
    IN  after[Len(cells)]

\* The cells of a tile the cache knows, and the cache after asking for them.
Known(c) == Found(entries, KeyOf(c)) # {}
ValueOf(c) == entries[CHOOSE i \in Found(entries, KeyOf(c)) : TRUE].value
Looked(tile) ==
    LET cells == CellsOf(tile)
        hit == {c \in ToSet(cells) : Known(c)}
    IN  [cache |-> AskedFor(cells), hit |-> hit,
         cells |-> [c \in DOMAIN durations |->
                        IF c \in hit THEN ValueOf(c) ELSE durations[c]]]

\* A tile the cache holds whole never leaves the process.
Cached ==
    /\ phase = "tiling" /\ todo # <<>>
    /\ LET looked == Looked(Head(todo))
       IN  /\ looked.hit = ToSet(CellsOf(Head(todo)))
           /\ durations' = looked.cells
           /\ entries' = looked.cache
    /\ todo' = Tail(todo)
    /\ UNCHANGED <<phase, locations, extract, version, failed, builds>>

\* A tile fetched and answered: every cell is written and cached.
Fetched ==
    /\ phase = "tiling" /\ todo # <<>>
    /\ LET tile == Head(todo)
           looked == Looked(tile)
           cells == CellsOf(tile)
           values == Answered(tile)
       IN  /\ looked.hit # ToSet(cells)
           /\ Accepts(Request(tile))
           /\ durations' = [c \in DOMAIN durations |->
                IF c \in ToSet(cells)
                THEN values[CHOOSE n \in DOMAIN cells : cells[n] = c]
                ELSE durations[c]]
           /\ entries' = Filled(looked.cache, cells, values)
    /\ todo' = Tail(todo)
    /\ UNCHANGED <<phase, locations, extract, version, failed, builds>>

\* A tile that is not fetched: the build goes on with what the cache knew.
Unfetched ==
    /\ phase = "tiling" /\ todo # <<>>
    /\ LET looked == Looked(Head(todo))
       IN  /\ looked.hit # ToSet(CellsOf(Head(todo)))
           /\ durations' = looked.cells
           /\ entries' = looked.cache
    /\ failed' = failed \cup {Head(todo)}
    /\ todo' = Tail(todo)
    /\ UNCHANGED <<phase, locations, extract, version, builds>>

\* The matrix is returned, degraded if a tile was not fetched.
Finish ==
    /\ phase = "tiling" /\ todo = <<>>
    /\ phase' = "built"
    /\ UNCHANGED <<locations, extract, version, todo, durations, failed,
                   entries, builds>>

Degraded == failed # {}

\* The operator re-imports the map, between two builds.
Reimport ==
    /\ phase # "tiling" /\ extract < Extracts
    /\ extract' = extract + 1
    /\ UNCHANGED <<phase, locations, version, todo, durations, failed,
                   entries, builds>>

Done == /\ phase \in {"built", "raised"} /\ builds = MaxBuilds
        /\ UNCHANGED vars

Next == \/ \E round \in Rounds : Start(round)
        \/ \E round \in Rounds : SnapRaises(round)
        \/ Cached \/ Fetched \/ Unfetched \/ Finish
        \/ Reimport
        \/ Done

Spec == Init /\ [][Next]_vars

-----------------------------------------------------------------------------

\* build_matrix: the unchunked answer, of an extract.
BuildMatrix(of, e) ==
    [c \in (0..(Len(of) - 1)) \X (0..(Len(of) - 1)) |->
        Whole(Travel(e, Doorway(of[c[1] + 1]), Doorway(of[c[2] + 1])))]

InTile(c, tile) == c[1] \in tile.sources /\ c[2] \in tile.destinations

\* plan_tiles promises that the tiles cover every cell exactly once and stay
\* within the cap.
TilesCoverOnce ==
    phase = "tiling" =>
        LET tiles == PlanTiles(Len(locations))
        IN  /\ \A c \in DOMAIN durations :
                 Cardinality({t \in DOMAIN tiles : InTile(c, tiles[t])}) = 1
            /\ \A t \in DOMAIN tiles : Len(CellsOf(tiles[t])) <= MaxCells

\* build_large_matrix promises the cells of the unchunked build: whatever was
\* cached, evicted or renumbered on the way, a cell of a finished matrix is
\* the cell build_matrix gives, or it is unknown, lies in a tile that was
\* never fetched, and the matrix says it is degraded.  A key of the cache does
\* not name the extract, so the cell may be of one that was served before.
EveryCellIsTrueOrOwnedUp ==
    phase = "built" => \A c \in DOMAIN durations :
        \/ \E e \in 1..version : durations[c] = BuildMatrix(locations, e)[c]
        \/ /\ durations[c] = UNREACHABLE /\ Degraded
           /\ \E tile \in failed : InTile(c, tile)

\* PairCache stays within max_entries with one entry per pair, and what it
\* answers a later build is what a gateway once said of that pair.
CacheIsTrue ==
    /\ Len(entries) <= MaxEntries
    /\ \A i, j \in DOMAIN entries :
            entries[i].key = entries[j].key => i = j
    /\ \A i \in DOMAIN entries : \E e \in 1..extract : entries[i].value =
            Whole(Travel(e, entries[i].key[1], entries[i].key[2]))
=============================================================================
