\* A window of 2 ledgers out of 5, amounts that fill it in two or three
\* payments, and batches of 2.  The cap starts at 1 and may become 0 (no cap),
\* 1 or 2; 3 is refused.
CONSTANTS
    a1 = a1
    a2 = a2
    Addr = {a1, a2}
    NoRecord = NoRecord
    NoTime = NoTime
    LegacyRecords <- MCLegacy
    Entries <- MCEntries
    UnchargedEntries <- MCEntries
    MaxBatch = 2
    Day = 2
    DailyMax = 3
    RateLimits = {0, 1, 2, 3}
    DefaultRateLimit = 1
    MaxRateLimit = 2
    Start = 1
    MaxTime = 4
SYMMETRY AddrSymmetry
SPECIFICATION MCSpec
INVARIANTS
    SpendingIsExact
    DailySpanBound
PROPERTY
    RateCapHolds
