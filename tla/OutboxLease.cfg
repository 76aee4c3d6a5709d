\* Two workers and two notifications while nothing fails and the database takes
\* no time; the lease outlasts the publish timeout.
CONSTANTS
    w1 = w1
    w2 = w2
    Worker = {w1, w2}
    Message = {1, 2}
    BatchSize = 2
    Lease = 3
    Timeout = 2
    Interval = 1
    RetryMin = 1
    RetryMax = 2
    MaxRetries = 2
    MaxAge = 4
    NoRow = NoRow
    NoOwner = NoOwner
    NoLock = NoLock
SPECIFICATION QuietSpec
INVARIANT
    NoConcurrentDuplicates
