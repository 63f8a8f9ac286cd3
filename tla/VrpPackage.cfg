SPECIFICATION Spec
CONSTANTS
    N = 4
    Grids <- SearchGrids
    Starts <- SearchStarts
    CAPACITY = 4
    Demand <- SearchDemand
    Windows <- SearchWindows
    Service <- SearchService
    MAX_STRING = 2
    CAP = 1
    K = 2
    ITERATIONS = 2
    ATTEMPTS = 3
    PPT = 10
    ModelEngine <- FullestPlan
    MatrixRounds <- LocationLists
    MatrixTravel <- Roads
    MatrixCells = 4
    MatrixEntries = 5
    MatrixExtracts = 2
    MatrixBuilds = 2
    RaceProblems <- RacedInstances
    RaceMembers <- Entrants
    RaceOffers <- MemberOffers
    RaceWeights <- RacedWeights
    LoadPhases <- AssessedPhases
    LoadLaunches = 2
    LoadReadings = {"low", "fair", "ample"}
    RunInputs <- PlannedInputs
    RunSearch <- Solves
    RunReport <- Breaks
    RunTicks = {0, 1, 2}
    RunHits <- CacheCounters
INVARIANTS
    ReturnedPlanHoldsUp SearchKeepsFaith NoOrderLost
    EveryCellIsTrueOrOwnedUp TimingDecidesNothing EngineAnswerVerifies
    LegalMeansVerified RefusalsAreSound PolishedIsBest ReportsAgree
    PracticeIsLearnt ModelsAreTraceable CleanExitIsEarned GuardIsKept
    ReplayAgrees YardsticksHold
PROPERTIES TourOnlyShortens ImprovementIsSafe
