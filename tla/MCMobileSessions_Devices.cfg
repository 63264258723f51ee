SPECIFICATION MCSpec
SYMMETRY SessionSymmetry
CONSTANTS
    Accounts = {a1, a2}
    Sids = {s1, s2}
    MaxGen = 1
    Devices = {d1}
    Browsers = {b1}
    Requests = {r1, r2}
    Workload = {"logout", "logoutall", "proof"}
    MaxFaults = 1
    None = None
INVARIANTS
    SweptDevicesStayGone
PROPERTIES
    ReachableUntilReleased
CHECK_DEADLOCK FALSE
