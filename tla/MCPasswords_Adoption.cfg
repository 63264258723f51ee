SPECIFICATION Spec
CONSTANTS
    Providers = {"LOCAL_USERNAME", "EMAIL"}
    Words = {"w1", "w2"}
    FirstWord = "w1"
    Logins = {l1}
    Confirmations = {r1}
    Adopted = {}
    MaxResetTokens = 1
    MaxHashes = 4
INVARIANT OldPasswordNotRestored
CHECK_DEADLOCK FALSE
