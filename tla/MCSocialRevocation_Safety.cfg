SPECIFICATION Spec
SYMMETRY WorkerSymmetry
CONSTANTS
    Workers = {w1, w2}
    Disconnects = {d}
    KakaoDeletes = {k}
    AppleDeletes = {}
    BatchLimit = 1
    MaxAttempts = 2
    MaxFaults = 2
    NoClaim = NoClaim
    Orphan = Orphan
INVARIANTS
    TypeOK
    ProofIsReal
    RelinkIsSafe
PROPERTIES
    StolenLeaseChangesNothing
