\* Two builds over two Dust outputs, one of which another holder of the seed can spend.
SPECIFICATION Spec
CONSTANTS
    Builds = {b1, b2}
    Unshielded = {}
    Shielded = {}
    Dust = {d1, d2}
    Foreign = {d1}
    GlobalTtl = 2
    DustGrace = 2
    Ttls = {2}
    BlockInterval = 2
    MaxTime = 4
    MaxRestarts = 0
    WritesFail = FALSE
SYMMETRY BuildSymmetry
INVARIANTS
    NoDoubleHold
    WalletBehindChain
    LiveBuildIsHeld
PROPERTIES
    EntryLeavesForAReason
CHECK_DEADLOCK FALSE
