\* Two workers and one notification, with failures of every kind at any time;
\* two requests with one key on three Redis instances, and one thing that goes
\* wrong at any moment; three payments on two shards, two runs that overlap, and
\* one restart.
CONSTANTS
    w1 = w1
    w2 = w2
    Worker = {w1, w2}
    Message = {1}
    BatchSize = 2
    Lease = 2
    Timeout = 1
    Interval = 1
    RetryMin = 1
    RetryMax = 2
    MaxRetries = 2
    MaxAge = 3
    NoRow = NoRow
    NoOwner = NoOwner
    NoLock = NoLock
    i1 = i1
    i2 = i2
    i3 = i3
    Client = {i1, i2, i3}
    q1 = q1
    q2 = q2
    Request = {q1, q2}
    Fingerprint = {"a", "b"}
    RetryCount = 1
    NoRecord = NoRecord
    MaxTroubles = 1
    p1 = p1
    p2 = p2
    Payload = {p1, p2}
    Enqueues = {1, 2, 3}
    Key = {"k1", "k2", "k3"}
    Shard = {1, 2}
    ShardOf <- MCShardOf
    Runs = {1, 2}
    DefaultBatchSize = 2
    MinBatchSize = 1
    MaxBatchSize = 3
    EngineRetries = 2
    NoId = NoId
    NoReceipt = NoReceipt
    MaxLives = 2
SPECIFICATION MCSpec
INVARIANTS
    LeaseRespected
    BackoffIsCurrent
    KeyHasOneHolder
    PaymentsSettleOnce
    ReceiptsVerify
PROPERTIES
    DeliveryIsSafe
    DeliveryHappens
