\* Failed writes and a restart.
SPECIFICATION Spec
CONSTANTS
    Builds = {b1, b2}
    Unshielded = {u1}
    Shielded = {}
    Dust = {}
    Foreign = {}
    GlobalTtl = 2
    DustGrace = 1
    Ttls = {2}
    BlockInterval = 2
    MaxTime = 4
    MaxRestarts = 1
    WritesFail = TRUE
SYMMETRY BuildSymmetry
INVARIANTS
    ReservationInv
    InFlightDisjoint
CHECK_DEADLOCK FALSE
