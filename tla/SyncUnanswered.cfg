\* One caller whose node has no answer for the pinned block.
SPECIFICATION Spec
CONSTANTS
    Callers = {c1}
    Boot = boot
    Coins = {k1}
    MaxChains = 2
    MaxEvents = 1
    MaxCrashes = 0
    WritesFail = FALSE
    Forks = FALSE
    Unpinned = FALSE
INVARIANTS
    DeadChainIsCaught
