\* Guards of a call hand back pins and fee, stamped at different times, next to another wallet.
SPECIFICATION FairSpec
CONSTANTS
    Builds = {b1}
    Unshielded = {u1}
    Shielded = {s1}
    Dust = {d1}
    Foreign = {u1}
    GlobalTtl = 2
    DustGrace = 1
    Ttls = {2}
    BlockInterval = 2
    MaxTime = 4
    MaxRestarts = 0
    WritesFail = FALSE
PROPERTIES
    HandedBack
CHECK_DEADLOCK FALSE
