\* One caller, failing saves and a crash; and every call returns.
SPECIFICATION LiveSpec
CONSTANTS
    Callers = {c1}
    Boot = boot
    Coins = {k1}
    MaxChains = 2
    MaxEvents = 1
    MaxCrashes = 1
    WritesFail = TRUE
    Forks = TRUE
    Unpinned = FALSE
INVARIANTS
    RegistrationKept
PROPERTIES
    EveryCallReturns
