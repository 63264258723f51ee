SPECIFICATION MCSpec
SYMMETRY SessionSymmetry
CONSTANTS
    Accounts = {a1}
    Sids = {s1, s2}
    MaxGen = 3
    Devices = {d1}
    Browsers = {}
    Requests = {r1, r2}
    Workload = {"refresh", "logout", "logoutall", "withdraw", "apple", "reset", "suspend", "proof", "expiry", "push"}
    MaxFaults = 1
    None = None
INVARIANTS
    OneLiveToken
    ActiveMeansRefreshable
    GlobalLogoutOnce
    OneLateSend
PROPERTIES
    ImplementsLifecycle
CHECK_DEADLOCK FALSE
