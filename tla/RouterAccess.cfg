\* 4 clock values, a timeout of 2 at least: the switch can be armed, renewed
\* and expire, and an under-age timeout is tried.
CONSTANTS
    a1 = a1
    a2 = a2
    a3 = a3
    Addr = {a1, a2, a3}
    NoAddr = NoAddr
    NoTime = NoTime
    Role = {"SuperAdmin", "Pauser", "SecurityOfficer"}
    Timeouts = {1, 2}
    PauseArgs = {"SwapsOnly"}
    MinDmsTimeout = 2
    MaxTime = 3
SYMMETRY AddrSymmetry
SPECIFICATION AccessSpec
INVARIANTS
    RoleHasOneHolder
    SuperAdminSeated
    ExpiryViewAgrees
PROPERTY
    TakeoverNeedsSilence
