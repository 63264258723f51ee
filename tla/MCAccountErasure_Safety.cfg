SPECIFICATION Spec
SYMMETRY WorkerSymmetry
CONSTANTS
    Members = {m1}
    Workers = {w1, w2}
    Providers = {kakao}
    Targets = {files}
    HistoricalFiles = files
    HasProcessor = TRUE
    MaxFaults = 1
    Free = Free
INVARIANTS
    TypeOK
    CompletedMeansErased
    CancelledMeansUntouched
    HandoffSurvivesErasure
PROPERTIES
    ManualKeepsWorkersOut
    ImplementsContract
CHECK_DEADLOCK FALSE
