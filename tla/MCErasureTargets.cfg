SPECIFICATION MCSpec
CONSTANTS
    Members = {m1}
    Workers = {w1}
    Providers = {kakao}
    Targets = {files, backups}
    HistoricalFiles = files
    HasProcessor = TRUE
    MaxFaults = 2
    Free = Free
PROPERTIES
    EvidenceIsBacked
    QueuedFilesAreDeleted
    NoSilentStall
CHECK_DEADLOCK FALSE
