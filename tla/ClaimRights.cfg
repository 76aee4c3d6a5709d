\* The instance of RouterAccess.cfg; one property, what a claim hands over.
CONSTANTS
    a1 = a1
    a2 = a2
    a3 = a3
    Addr = {a1, a2, a3}
    NoAddr = NoAddr
    NoTime = NoTime
    Role = {"SuperAdmin", "Pauser", "SecurityOfficer"}
    Timeouts = {1, 2}
    PauseArgs = {"SwapsOnly"}
    MinDmsTimeout = 2
    MaxTime = 3
SYMMETRY AddrSymmetry
SPECIFICATION AccessSpec
PROPERTY
    ClaimTransfersAdminRights
