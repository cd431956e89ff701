\* Calls one after the other, with failing writes and two crashes; or saves of the wallet
\* that fail, stop or lose power at any file operation.
SPECIFICATION Stores
CONSTANTS
    NoSnapshot = NoSnapshot
    Calls = {c1, c2, c3, c4}
    Overlap = FALSE
    WritesFail = TRUE
    Maintenance = {}
    MaxCrashes = 2
    MaxSaves = 4
    ReadsFail = FALSE
INVARIANTS
    BaselineIsApplied
    KeptSurvives
PROPERTIES
    ImplementsLog
    EveryCallSettles
    ImplementsStore
CHECK_DEADLOCK FALSE
