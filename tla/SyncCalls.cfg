\* Two callers, pinned or not, on a chain that forks and is replaced.
SPECIFICATION Spec
CONSTANTS
    Callers = {c1, c2}
    Boot = boot
    Coins = {k1}
    MaxChains = 3
    MaxEvents = 2
    MaxCrashes = 0
    WritesFail = FALSE
    Forks = TRUE
    Unpinned = TRUE
SYMMETRY CallerSymmetry
INVARIANTS
    PlanIsCurrent
    SwapIsCaught
    FoundIsHeld
    ForgottenStays
PROPERTIES
    KeepsItsPlace
