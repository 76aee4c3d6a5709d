\* The yield escrow of the contracts run; one property, the release of matured
\* escrows.
INIT YieldOnlyInit
NEXT MCNext
CONSTANTS
    p1 = p1
    p2 = p2
    c1 = c1
    c2 = c2
    l1 = l1
    l2 = l2
    Party = {p1, p2}
    NoParty = NoParty
    Coin = {c1, c2}
    MaxClock = 5
    LockVault = LockVault
    LockFunds = 2
    LockAmounts = {1, 2}
    LockTimes = {3, 4, 5}
    MaxLocks = 2
    Provider = Provider
    LoanCoins = {c1, c2}
    LoanReserve = 10000
    LoanFunds = 14
    LoanAmounts = {4000, 8000, 8100}
    LoanPayments = {4000, 4004, 8110}
    MaxFrames = 2
    MaxLoans = 2
    TokenAmounts = {0, 1}
    SupplyCaps = {1, 2}
    DefaultCap = 2
    MintBatches <- MCMintBatches
    MaxBatchSize = 2
    Approvals <- MCApprovals
    Permits <- MCPermits
    PermitLifetime = 1
    Forever = 9
    Freezable = {p2}
    FreezeTimes = {4, 5}
    Hooks = {"strict"}
    HookAllows <- MCHookAllows
    Logics = {"r1", "r2"}
    SessionKeys = {p1}
    SessionLimits = {2, 3}
    SessionTimes = {4, 5}
    Forwards <- MCForwards
    Intents <- MCIntents
    IntentBatches <- MCIntentBatches
    MetaPayments <- MCMetaPayments
    ProxyFunds = 3
    ProxyAllowances <- MCAllowances
    Payers = {p1}
    Beneficiaries = {p2}
    Pool = {l1, l2}
    PoolRate <- MCPoolRate
    Portfolios <- MCPortfolios
    Weights = {1, 2}
    MaxStrategies = 2
    BPS = 2
    IndexScale = 1
    YearScale = 2
    EscrowIds = {1, 2}
    YieldCoins = {c1, c2}
    Principals = {1, 2}
    InterestShares = {1}
    UnwindBounds = {0, 2}
    YieldFunds = 3
    MaxAccrual = 1
    MaxLoss = 1
    Pair = {"A", "B"}
    OracleArgs <- MCOracleArgs
    DevCaps = {4}
    DefaultDevCap = 2
    OracleBps = 4
    StaleTimes = {0}
    DefaultStale = 2
    MinInterval = 1
    MaxWindow = 3
    MaxObservations = 3
    MaxPrice = 4
    Word = 13
    Commitment = {"k1", "k2"}
    Nullifier = {"n1", "n2"}
    Provable <- MCProvable
    KeyLengths = {2, 3}
    MaxSubmits = 3
    WordBits = 8
    ByteBits = 4
INVARIANT
    MaturedIsReleasable
CHECK_DEADLOCK FALSE
