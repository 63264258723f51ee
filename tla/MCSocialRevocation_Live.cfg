SPECIFICATION FairSpec
CONSTANTS
    Workers = {w1, w2}
    Disconnects = {}
    KakaoDeletes = {}
    AppleDeletes = {a}
    BatchLimit = 1
    MaxAttempts = 3
    MaxFaults = 3
    NoClaim = NoClaim
    Orphan = Orphan
PROPERTIES
    RowsSettle
    ImplementsContract
