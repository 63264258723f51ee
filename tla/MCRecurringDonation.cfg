SPECIFICATION MCSpec
CONSTANTS
    Nil = Nil
    Writers = {w1, w2}
    Readers = {p1}
    ConfigInputs <- MCConfigInputs
    CacheTTL = 2
    TicksPerDay = 1
    MaxTotal = 2
    MaxTick = 2
    Members = {m1}
    Requests = {r1}
    Confirms = {c1, c2}
    Runs = {b1, b2}
    OperatorDays = {0, 1, 2}
    Amounts = {9999, 10000}
    DaysPerMonth = 2
    LastBillDay = 1
    MaxConsecutiveFails = 2
    MaxDay = 3
    MaxOrders = 3
    MaxCharges = 2
    MaxFails = 2
    MaxLost = 1
    MaxOneTime = 1
    MaxSubs = 1
SYMMETRY Interchangeable
INVARIANTS
    ChargesAreAccounted
    BillingIsFair
PROPERTIES
    SummaryIsCurrent
CHECK_DEADLOCK FALSE
