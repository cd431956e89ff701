\* Two calls that overlap, with failing writes, a crash, forget and import.
SPECIFICATION Spec
CONSTANTS
    NoSnapshot = NoSnapshot
    Calls = {c1, c2}
    Overlap = TRUE
    WritesFail = TRUE
    Maintenance = {"forget", "import"}
    MaxCrashes = 1
SYMMETRY CallSymmetry
INVARIANTS
    JournalIsChain
    LeafHeld
    ConfirmedMeansApplied
CHECK_DEADLOCK FALSE
