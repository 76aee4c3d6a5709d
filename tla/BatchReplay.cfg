\* The same instance; one property, the accounting of upgrade approvals.
CONSTANTS
    a1 = a1
    a2 = a2
    Addr = {a1, a2}
    NoAddr = NoAddr
    NoTime = NoTime
    Role = {"SuperAdmin", "Pauser", "FeeManager", "TreasuryManager"}
    Timeouts = {2}
    PauseArgs = {}
    MinDmsTimeout = 2
    MaxTime = 1
    h1 = h1
    Hash = {h1}
    NoHash = NoHash
    Groups <- MCGroups
    Thresholds = {1, 2}
    MaxSignatures = 2
    Delay = 1
    Queueable <- QueueBatch
    Amounts = {0}
    MaxSlippage = 1
    MaxPairSlippage = 1
    NoValue = NoValue
    MaxNonce = 2
    MaxBatch = 2
CONSTRAINT BatchFocus
SPECIFICATION BatchSpec
INVARIANT
    InstallsArePaidFor
