---------------------------- MODULE PackageParts ----------------------------
(***************************************************************************)
(* Five parts of the vrp package and its tools in one process: the search  *)
(* over routes, the travel matrix build, the portfolio race, the capacity  *)
(* assessment and the run record.  One part runs at a time: work says      *)
(* which, and the variables of the others rest.  MCVrpPackage adds the     *)
(* remaining parts.                                                        *)
(***************************************************************************)
EXTENDS VrpDomain, RouteSearch

CONSTANTS
    MatrixRounds,           \* the lists of locations a build is asked for
    MatrixTravel(_, _, _),  \* what the gateway says, per extract
    MatrixCells,            \* its cell cap
    MatrixEntries,          \* the size of the pair cache
    MatrixExtracts,         \* how many extracts are imported
    MatrixBuilds,           \* bound: builds in a behaviour
    RaceProblems,           \* the instances that are raced
    RaceMembers,            \* the engines, 1..n
    RaceOffers(_),          \* the answers an engine may give to an instance
    RaceWeights,            \* what the race weighs
    LoadPhases,             \* the phases of the assessment
    LoadLaunches,           \* bound: requests in a phase
    LoadReadings,           \* what a memory probe may find
    RunInputs,              \* what may be planned and recorded
    RunSearch(_, _),        \* the trials a solve goes through
    RunReport(_, _),        \* what the verifier finds broken in its plan
    RunTicks,               \* instants its clock may read
    RunHits                 \* cache counters it may end with

VARIABLES
    work,           \* the part at work
    problem,        \* the instance: race
    phase,          \* matrix, race, load
    stage,          \* record
    exit,           \* the exit code: load
    locations, extract, version, todo, durations, failed, entries, builds,
    answers, workers, executor, racing, unsendable, queued, running,
    results, outcome, wins,
    pc, issued, inFlight, ended, enabled, watcher, last, breached, broken,
    envelope, late,
    caller, held, file, step, clock, began, trajectory, records

matrixVars ==
    <<locations, extract, version, todo, durations, failed, entries, builds>>
raceVars ==
    <<answers, workers, executor, racing, unsendable, queued, running,
      results, outcome, wins>>
loadVars ==
    <<pc, issued, inFlight, ended, enabled, watcher, last, breached, broken,
      envelope, late>>
recordVars == <<caller, held, file, step, clock, began, trajectory, records>>
partVars == <<work, problem, phase, stage, exit, searchVars, matrixVars,
              raceVars, loadVars, recordVars>>

Matrix == INSTANCE MatrixBuild WITH
    Rounds <- MatrixRounds, Travel <- MatrixTravel, MaxCells <- MatrixCells,
    MaxEntries <- MatrixEntries, Extracts <- MatrixExtracts,
    MaxBuilds <- MatrixBuilds

Race == INSTANCE Portfolio WITH
    Problems <- RaceProblems, Members <- RaceMembers, Offers <- RaceOffers,
    Weights <- RaceWeights, SIZE_BANDS <- {10, 50, 200, 1000}

Capacity == INSTANCE LoadTest WITH
    Phases <- LoadPhases, MaxLaunches <- LoadLaunches,
    Readings <- LoadReadings

Run == INSTANCE RunRecord WITH
    Inputs <- RunInputs, Search <- RunSearch, Report <- RunReport,
    Ticks <- RunTicks, Hits <- RunHits

ASSUME PartsAssumption == /\ SearchAssumption
                          /\ Matrix!MapIsKnown /\ Race!EnginesAreKnown
                          /\ Capacity!PhasesAreKnown /\ Run!RunsAreKnown

PARTS == {"search", "matrix", "race", "load", "record"}

RESTING == "resting"
SearchRests ==
    /\ search = RESTING /\ dist = RESTING /\ start = RESTING
    /\ plan = RESTING /\ best = RESTING /\ queue = RESTING
    /\ absence = RESTING /\ left = RESTING
MatrixRests ==
    /\ locations = RESTING /\ extract = RESTING /\ version = RESTING
    /\ todo = RESTING /\ durations = RESTING /\ failed = RESTING
    /\ entries = RESTING /\ builds = RESTING
RaceRests ==
    /\ answers = RESTING /\ workers = RESTING /\ executor = RESTING
    /\ racing = RESTING /\ unsendable = RESTING /\ queued = RESTING
    /\ running = RESTING /\ results = RESTING /\ outcome = RESTING
    /\ wins = RESTING
LoadRests ==
    /\ pc = RESTING /\ issued = RESTING /\ inFlight = RESTING
    /\ ended = RESTING /\ enabled = RESTING /\ watcher = RESTING
    /\ last = RESTING /\ breached = RESTING /\ broken = RESTING
    /\ envelope = RESTING /\ late = RESTING
RecordRests ==
    /\ caller = RESTING /\ held = RESTING /\ file = RESTING /\ step = RESTING
    /\ clock = RESTING /\ began = RESTING /\ trajectory = RESTING
    /\ records = RESTING

StartSearch ==
    /\ work = "search" /\ SearchInit
    /\ MatrixRests /\ RaceRests /\ LoadRests /\ RecordRests
    /\ problem = RESTING /\ phase = RESTING /\ stage = RESTING
    /\ exit = RESTING
StartMatrix ==
    /\ work = "matrix" /\ Matrix!Init
    /\ SearchRests /\ RaceRests /\ LoadRests /\ RecordRests
    /\ problem = RESTING /\ stage = RESTING /\ exit = RESTING
StartRace ==
    /\ work = "race" /\ Race!Init
    /\ SearchRests /\ MatrixRests /\ LoadRests /\ RecordRests
    /\ stage = RESTING /\ exit = RESTING
StartCapacity ==
    /\ work = "load" /\ Capacity!Init
    /\ SearchRests /\ MatrixRests /\ RaceRests /\ RecordRests
    /\ problem = RESTING /\ stage = RESTING
StartRun ==
    /\ work = "record" /\ Run!Init
    /\ SearchRests /\ MatrixRests /\ RaceRests /\ LoadRests
    /\ problem = RESTING /\ phase = RESTING /\ exit = RESTING
StartPart ==
    StartSearch \/ StartMatrix \/ StartRace \/ StartCapacity \/ StartRun

SearchStep ==
    /\ work = "search" /\ SearchNext
    /\ UNCHANGED <<work, problem, phase, stage, exit, matrixVars, raceVars,
                   loadVars, recordVars>>
MatrixStep ==
    /\ work = "matrix" /\ Matrix!Next
    /\ UNCHANGED <<work, problem, stage, exit, searchVars, raceVars, loadVars,
                   recordVars>>
RaceStep ==
    /\ work = "race" /\ Race!Next
    /\ UNCHANGED <<work, stage, exit, searchVars, matrixVars, loadVars,
                   recordVars>>
CapacityStep ==
    /\ work = "load" /\ Capacity!Next
    /\ UNCHANGED <<work, problem, stage, searchVars, matrixVars, raceVars,
                   recordVars>>
RunStep ==
    /\ work = "record" /\ Run!Next
    /\ UNCHANGED <<work, problem, phase, exit, searchVars, matrixVars, raceVars,
                   loadVars>>
PartStep == SearchStep \/ MatrixStep \/ RaceStep \/ CapacityStep \/ RunStep

\* A part that is not one of these does what it does.
PartsInit == StartPart \/ work \notin PARTS
PartsNext == PartStep \/ (work \notin PARTS /\ UNCHANGED work)
PartsSpec == PartsInit /\ [][PartsNext]_partVars

-----------------------------------------------------------------------------

\* lns, fleet and localsearch: no ruin, ejection or move loses a customer or
\* serves one twice; the incumbent is the cheapest plan seen, whatever the
\* annealer accepted; a fleet attempt adds no route and fills none beyond its
\* capacity or windows.
SearchKeepsFaith ==
    work = "search" => NobodyLost /\ IncumbentIsCheapest /\ FleetOnlyShrinks

\* Going somewhere is as far as coming back.
GridsAreSymmetric == \A d \in Grids : \A a, b \in Nodes : d[a][b] = d[b][a]

\* localsearch: the gain of a move, computed from the edges it changes, is the
\* gain of summing the tour again, so every move shortens the tour and the
\* don't-look bits run out.
TourOnlyShortens ==
    [][(/\ work = "search" /\ search \in {"accelerated", "naive"}
        /\ plan' # plan) => TourLength(dist, plan'[1])
                                < TourLength(dist, plan[1])]_partVars

\* matrix.build_large_matrix: tiled, cached, evicted and in part refused, each
\* cell is the one the unchunked build gives, or it is unknown in a matrix
\* that says it is degraded; and the cache stays in its bounds and true.
EveryCellIsTrueOrOwnedUp ==
    work = "matrix" => /\ Matrix!TilesCoverOnce /\ Matrix!CacheIsTrue
                       /\ Matrix!EveryCellIsTrueOrOwnedUp

\* portfolio.run_portfolio, "timing does not decide anything": each member
\* runs once, at most `workers` at a time, and whatever the order they end in
\* the winner's own plan verifies, no legal plan is cheaper and a tie goes to
\* the first name.
TimingDecidesNothing ==
    work = "race" => Race!EveryMemberRunsOnce /\ Race!TimingDecidesNothing

\* loadtest: at most one launch follows a breach of the memory guard, nothing
\* is in flight once a phase is over, and only the guard ends one early.
GuardIsKept == work = "load" => Capacity!GuardIsKept

\* snapshot and observe: a replay that is not refused agrees with the sealed
\* run in all that is said to be replayable, whatever was edited meanwhile.
ReplayAgrees == work = "record" => Run!ReplayAgrees
=============================================================================
