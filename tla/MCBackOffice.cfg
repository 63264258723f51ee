SPECIFICATION MCSpec
CONSTANTS
    m1 = m1
    m2 = m2
    d1 = d1
    d2 = d2
    p1 = p1
    txn1 = txn1
    a1 = a1
    Nil = Nil
    Requests = {r1}
    Editors = {e1, e2}
    Texts <- MCTexts
    MaxVersion = 3
    Admins = {a1, a2}
    Clients = {c1}
    Policies <- MCPolicies
    OSVersions <- MCOSVersions
    MaxBuild = 2
    MaxSaves = 2
    MaxSecond = 1
    NoMember = NoMember
    NoOrder = NoOrder
    NoReview = NoReview
    NoTxn = NoTxn
    NoKey = NoKey
    NoContext = NoContext
    Idle = Idle
    Broken = Broken
    Members = {m1, m2}
    Donors = {d1, d2}
    Operators = {p1, p2}
    OrderInputs <- MCOrderInputs
    Sheets <- MCSheets
    Template = TRUE
    TokenTTL = 1
    MaxImportRows = 2
    PageSize = 1
    MaxOrders = 2
    MaxClock = 1
    MaxTokens = 1
INVARIANTS
    TextsAreSound
    PolicyIsSound
PROPERTIES
    LedgerIsConsistent
    SavesLoseNothing
CHECK_DEADLOCK FALSE
