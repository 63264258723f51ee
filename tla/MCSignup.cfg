SPECIFICATION MCSpec
CONSTANTS
    Phones = {p1}
    Requesters = {q1, q2}
    Checkers = {c1, c2}
    CodeMaxAttempts = 2
    RequestsPerWindow = 1
    MaxCodes = 3
    MaxStoreFaults = 1
    Tokens = {t1, t2}
    Identities = {i1, i2}
    Usernames = {u1}
    Forms = {s1, s2}
    Files = {f1, f2}
    NoFile = NoFile
    DiscardTries = 2
    MaxMembers = 2
    MaxCommitFaults = 1
    Providers = {"LOCAL_USERNAME", "EMAIL"}
    Words = {"w1", "w2"}
    FirstWord = "w1"
    Logins = {l1, l2}
    Confirmations = {r1, r2}
    Adopted = {"LOCAL_USERNAME"}
    MaxResetTokens = 2
    MaxHashes = 4
SYMMETRY Interchangeable
INVARIANTS
    CodesBounded
    PhotosAccountedFor
    MembersAreEarned
    PasswordsStaySet
CHECK_DEADLOCK FALSE
