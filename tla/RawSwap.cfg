\* The same instance; one property, the terms of the raw route.
CONSTANTS
    op = op
    a1 = a1
    a2 = a2
    d1 = d1
    d2 = d2
    t1 = t1
    t2 = t2
    t3 = t3
    Addr = {op, a1, a2, d1, d2}
    NoAddr = NoAddr
    NoTime = NoTime
    Role = {"SuperAdmin", "Pauser", "TreasuryManager", "ComplianceOfficer"}
    Timeouts = {}
    PauseArgs = {"SwapsOnly"}
    MinDmsTimeout = 2
    MaxTime = 1
    Router = Router
    Deployer = op
    Treasury = op
    Token <- MCTokens
    Funds = 3
    PaymentArgs <- MCPayments
    BatchArgs <- MCBatches
    Quotes <- MCQuotes
    Relays <- MCRelays
    Approvals <- MCApprovals
    Suspects = {a2}
    Partners = {a1}
    Withdrawals = {1, 2}
    MaxAmount = 3
    MinLimit = 1
    KycThreshold = 2
    Verified = {a2}
    FeeBps = 5
    FeeCap = 1
    BpsDivisor = 10
    VolumeThreshold = 2
    LimitEntries <- MCEntries
    UnchargedEntries <- MCUncharged
    MaxBatch = 2
    NoRecord = NoRecord
    LegacyRecords <- MCLegacy
    Day = 1
    DailyMax = 3
    RateLimits = {2}
    DefaultRateLimit = 1
    MaxRateLimit = 3
    Dexes = {d1}
    SwapArgs <- MCSwaps
    SwapBatches <- MCSwapBatches
    SplitArgs <- MCSplits
    HopArgs <- MCHops
    RawArgs <- MCRaws
    Answers <- MCAnswers
    MaxSlippage = 2
    Protocols = {d1, d2}
    YieldAmounts = {1, 2}
    LeafLists <- MCLeafLists
    MaxEpoch = 1
SPECIFICATION MCSpec
PROPERTY
    RawSwapsKeepTheirTerms
