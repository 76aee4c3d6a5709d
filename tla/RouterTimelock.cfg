\* Admin keys and switches, upgrades and rotations, and every parameter, direct
\* and queued; the integers straddle the caps.
CONSTANTS
    a1 = a1
    a2 = a2
    Addr = {a1, a2}
    NoAddr = NoAddr
    NoTime = NoTime
    Role = {"SuperAdmin", "Pauser", "FeeManager", "TreasuryManager"}
    Timeouts = {1, 2}
    PauseArgs = {}
    MinDmsTimeout = 2
    MaxTime = 3
    h1 = h1
    Hash = {h1}
    NoHash = NoHash
    Groups <- MCGroups
    Thresholds = {1, 2}
    MaxSignatures = 3
    Delay = 1
    Queueable <- QueueEvery
    Amounts = {1, 2}
    MaxSlippage = 1
    MaxPairSlippage = 1
    NoValue = NoValue
    MaxNonce = 2
CONSTRAINT OneQuestion
SPECIFICATION RouterSpec
INVARIANTS
    EntriesSettleOnce
    InstallsArePaidFor
PROPERTIES
    AccessSpec
    QuorumDecides
