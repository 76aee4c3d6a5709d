-------------------------- MODULE SettlementEngine --------------------------
(***************************************************************************)
(* The settlement engine of the server (settlement/outboxEngine.js, behind *)
(* routes/v1/settlementRoutes.js): payments are enqueued under idempotency *)
(* keys into the queues of shards, taken from there in batches, given to a *)
(* processor one by one, and receipted in Merkle batches that are chained. *)
(*                                                                         *)
(* Everything lives in the memory of one process; only the copy of the     *)
(* keys in Redis outlives it.  What runs between two awaits is one step:   *)
(* the answers of Redis and of the processor are where calls interleave.   *)
(* Tracking ids are numbers in the order of their creation; hashes of      *)
(* payloads are the payloads.  The processor is the caller's processorFn;  *)
(* the server installs none, and without one every payment succeeds.       *)
(***************************************************************************)
EXTENDS Naturals, FiniteSets, MerkleTree

CONSTANTS
    Enqueues,     \* the calls of enqueuePayment
    Key,          \* idempotency keys
    Payload,
    Shard,
    ShardOf,      \* computeShard of the payload's account and asset
    Runs,         \* the calls of processShard
    DefaultBatchSize,
    MinBatchSize, \* 5
    MaxBatchSize, \* 200
    EngineRetries,   \* maxRetries
    NoId,         \* no tracking id
    NoReceipt,
    MaxLives      \* bound on the processes started one after the other

ASSUME EngineAssumption ==
    /\ ShardOf \in [Payload -> Shard]
    /\ {DefaultBatchSize, MinBatchSize, MaxBatchSize} \subseteq Nat \ {0}
    /\ {EngineRetries, MaxLives} \subseteq Nat
    /\ NoId \notin Nat

VARIABLES
    hasRedis,         \* this.redisClient
    items,            \* this.items: what is under way or done, by tracking id
    shards,           \* this.shards: the queues of tracking ids
    idempotencyStore, \* this.idempotencyStore
    batches,          \* this.batches, in the order in which they were made
    lastBatchHash,
    adaptiveBatchSize,
    enqueues,         \* where each call of enqueuePayment is
    runs,             \* where each call of processShard is
    redisKeys,        \* the tracking ids Redis holds
    lives,            \* how often the process was started
    created           \* history: what each tracking id was made for, and how
                      \* often its payment was made

memoryVars == <<items, shards, idempotencyStore, batches, lastBatchHash, adaptiveBatchSize>>
engineVars == <<hasRedis, memoryVars, enqueues, runs, redisKeys, lives, created>>

NewCall == [at |-> "new"]
Idle == [at |-> "idle"]

Empty == [items |-> <<>>, shards |-> [s \in Shard |-> <<>>],
          idempotencyStore |-> [k \in Key |-> NoId], runs |-> [c \in Runs |-> Idle]]

EngineInit ==
    /\ hasRedis \in BOOLEAN
    /\ items = Empty.items /\ shards = Empty.shards
    /\ idempotencyStore = Empty.idempotencyStore /\ runs = Empty.runs
    /\ batches = <<>> /\ lastBatchHash = Genesis
    /\ adaptiveBatchSize = DefaultBatchSize
    /\ enqueues = [r \in Enqueues |-> NewCall]
    /\ redisKeys = [k \in Key |-> NoId]
    /\ lives = 1
    /\ created = <<>>

-----------------------------------------------------------------------------
(* enqueuePayment.                                                         *)

\* A key that is known answers with its payment, and refuses another payload.
KnownKey(k, p, id) ==
    [at |-> "done", key |-> k, payload |-> p, id |-> id,
     reply |-> IF created[id].payload = p THEN "replay" ELSE "conflict"]

Stored(k, p) ==
    LET id == Len(created) + 1
    IN /\ created' = Append(created, [key |-> k, payload |-> p, paid |-> 0])
       /\ items' = [i \in DOMAIN items \cup {id} |->
                      IF i = id THEN [status |-> "PENDING", attempts |-> 0,
                                      updatedAt |-> 0, receipt |-> NoReceipt]
                      ELSE items[i]]
       /\ shards' = [shards EXCEPT ![ShardOf[p]] = Append(@, id)]
       /\ idempotencyStore' = [idempotencyStore EXCEPT ![k] = id]
       /\ UNCHANGED <<hasRedis, batches, lastBatchHash, adaptiveBatchSize, runs, redisKeys, lives>>

Becomes(r, call) == enqueues' = [enqueues EXCEPT ![r] = call]
OnlyEnqueues ==
    UNCHANGED <<hasRedis, memoryVars, runs, redisKeys, lives, created>>

Accepted(k, p, at) ==
    [at |-> at, key |-> k, payload |-> p, id |-> Len(created) + 1, reply |-> "accepted"]

enqueuePayment(r, k, p) ==
    /\ enqueues[r] = NewCall
    /\ \/ /\ idempotencyStore[k] # NoId
          /\ Becomes(r, KnownKey(k, p, idempotencyStore[k]))
          /\ OnlyEnqueues
       \/ /\ idempotencyStore[k] = NoId /\ hasRedis
          /\ Becomes(r, [at |-> "asking", key |-> k, payload |-> p])
          /\ OnlyEnqueues
       \/ /\ idempotencyStore[k] = NoId /\ ~hasRedis
          /\ Stored(k, p)
          /\ Becomes(r, Accepted(k, p, "done"))

\* Redis looks the key up; a lookup that fails counts as a miss.
redis_get(r) ==
    /\ enqueues[r].at = "asking"
    /\ \E found \in {redisKeys[enqueues[r].key], NoId} :
          Becomes(r, [at |-> "asked", key |-> enqueues[r].key,
                      payload |-> enqueues[r].payload, found |-> found])
    /\ OnlyEnqueues

redis_answered(r) ==
    LET call == enqueues[r]
    IN /\ call.at = "asked"
       /\ \/ /\ call.found # NoId
             /\ Becomes(r, KnownKey(call.key, call.payload, call.found))
             /\ OnlyEnqueues
          \/ /\ call.found = NoId
             /\ Stored(call.key, call.payload)
             /\ Becomes(r, Accepted(call.key, call.payload, "telling"))

\* The copy in Redis; the call succeeds whether or not it was made.
redis_set(r) ==
    /\ enqueues[r].at = "telling"
    /\ redisKeys' \in {redisKeys, [redisKeys EXCEPT ![enqueues[r].key] = enqueues[r].id]}
    /\ Becomes(r, [enqueues[r] EXCEPT !.at = "done"])
    /\ UNCHANGED <<hasRedis, memoryVars, runs, lives, created>>

redis_expires(k) ==
    /\ redisKeys[k] # NoId
    /\ redisKeys' = [redisKeys EXCEPT ![k] = NoId]
    /\ UNCHANGED <<hasRedis, memoryVars, enqueues, runs, lives, created>>

-----------------------------------------------------------------------------
(* processShard.                                                           *)

\* Mutant: slice for splice, the ids stay in the queue.
left_in_place(queue, n) == queue

left_in(queue, n) == SubSeq(queue, n + 1, Len(queue))

\* Of the ids taken from a queue, those whose items wait to be processed.
Waiting == {"PENDING", "FAILED"}
take(todo, id) == IF items[id].status \in Waiting THEN Append(todo, id) ELSE todo

\* processAllShards starts one of these for each shard with a queue.
processShard(c, s) ==
    LET n == Min({Len(shards[s]), adaptiveBatchSize})
        todo == FoldLeft(take, <<>>, SubSeq(shards[s], 1, n))
    IN /\ runs[c] = Idle
       /\ shards[s] # <<>>
       /\ shards' = [shards EXCEPT ![s] = left_in(@, n)]
       /\ items' = [id \in DOMAIN items |->
                      IF id \in Range(todo)
                      THEN [items[id] EXCEPT !.status = "PROCESSING", !.updatedAt = @ + 1]
                      ELSE items[id]]
       /\ runs' = [runs EXCEPT ![c] = IF todo = <<>> THEN Idle
                                      ELSE [at |-> "processing", shard |-> s, todo |-> todo,
                                            settled |-> <<>>]]
       /\ UNCHANGED <<hasRedis, idempotencyStore, batches, lastBatchHash, adaptiveBatchSize,
                      enqueues, redisKeys, lives, created>>

\* The item after the answer of the processor.
settled_item(item) == [item EXCEPT !.status = "SETTLED", !.updatedAt = @ + 1]

failed_item(item, fatal) ==
    LET dead == fatal \/ item.attempts + 1 >= EngineRetries
    IN [item EXCEPT !.status = IF dead THEN "DLQ" ELSE "FAILED",
                    !.attempts = @ + 1, !.updatedAt = @ + 1]

\* updateAdaptiveConcurrency: what latencies make of the batch size.
updateAdaptiveConcurrency(size) ==
    LET smaller == Max({MinBatchSize, (size * 3) \div 4})
        larger == IF size < MaxBatchSize THEN Min({MaxBatchSize, (size * 5) \div 4}) ELSE size
    IN {smaller, size, larger}

\* The leaf of an item.
LeafOf(its, id) == <<id, its[id].updatedAt>>

Chained(prev, root, s, settled) ==
    LET batchId == Len(batches) + 1
    IN [batchId |-> batchId, shardId |-> s, merkleRoot |-> root, prevBatchHash |-> prev,
        chainHash |-> computeBatchChainHash(prev, root, batchId), items |-> settled]

\* Mutant: every batch is chained to the first.
batch_record_of_genesis(root, s, settled) == Chained(Genesis, root, s, settled)

batch_record(root, s, settled) == Chained(lastBatchHash, root, s, settled)

\* The end of a call: the batch of what it settled, and the receipts.
Receipted(its, s, settled) ==
    LET leaves == [i \in DOMAIN settled |-> LeafOf(its, settled[i])]
        record == batch_record(getRoot(leaves), s, settled)
    IN /\ batches' = Append(batches, record)
       /\ lastBatchHash' = record.chainHash
       /\ items' = [id \in DOMAIN its |->
                      IF id \in Range(settled)
                      THEN LET i == CHOOSE i \in DOMAIN settled : settled[i] = id
                           IN [its[id] EXCEPT !.receipt =
                                 [batchId |-> record.batchId, merkleRoot |-> record.merkleRoot,
                                  chainHash |-> record.chainHash, leafIndex |-> i,
                                  proof |-> getProof(leaves, i)]]
                      ELSE its[id]]

\* The run goes on with its items: those of its batch that are left, or the end.
Continue(c, its, settled) ==
    LET run == runs[c]
    IN IF Len(run.todo) > 1
       THEN /\ runs' = [runs EXCEPT ![c].todo = Tail(@), ![c].settled = settled]
            /\ items' = its
            /\ UNCHANGED <<batches, lastBatchHash, adaptiveBatchSize>>
       ELSE /\ runs' = [runs EXCEPT ![c] = Idle]
            /\ adaptiveBatchSize' \in updateAdaptiveConcurrency(adaptiveBatchSize)
            /\ IF settled # <<>> THEN Receipted(its, run.shard, settled)
               ELSE items' = its /\ UNCHANGED <<batches, lastBatchHash>>

processor_succeeds(c) ==
    LET id == Head(runs[c].todo)
    IN /\ runs[c] # Idle
       /\ created' = [created EXCEPT ![id].paid = @ + 1]
       /\ Continue(c, [items EXCEPT ![id] = settled_item(@)], Append(runs[c].settled, id))
       /\ UNCHANGED <<hasRedis, shards, idempotencyStore, enqueues, redisKeys, lives>>

\* Mutant: what has failed for good is queued as well.
requeued_always(queue, item, id) == Append(queue, id)

requeued(queue, item, id) == IF item.status = "FAILED" THEN Append(queue, id) ELSE queue

processor_fails(c, fatal) ==
    LET id == Head(runs[c].todo)
        item == failed_item(items[id], fatal)
    IN /\ runs[c] # Idle
       /\ shards' = [shards EXCEPT ![runs[c].shard] = requeued(@, item, id)]
       /\ Continue(c, [items EXCEPT ![id] = item], runs[c].settled)
       /\ UNCHANGED <<hasRedis, idempotencyStore, enqueues, redisKeys, lives, created>>

\* The process dies and another is started.  What was on its way to Redis may
\* arrive.
engine_restarts ==
    /\ lives < MaxLives
    /\ lives' = lives + 1
    /\ items' = Empty.items /\ shards' = Empty.shards
    /\ idempotencyStore' = Empty.idempotencyStore /\ runs' = Empty.runs
    /\ batches' = <<>> /\ lastBatchHash' = Genesis
    /\ adaptiveBatchSize' = DefaultBatchSize
    /\ enqueues' = [r \in Enqueues |->
                      IF enqueues[r].at \in {"new", "done"} THEN enqueues[r] ELSE [at |-> "lost"]]
    /\ redisKeys' \in {redisKeys} \cup
          {[redisKeys EXCEPT ![enqueues[r].key] = enqueues[r].id] :
              r \in {q \in Enqueues : enqueues[q].at = "telling"}}
    /\ UNCHANGED <<hasRedis, created>>

EngineNext ==
    \/ \E r \in Enqueues :
          \/ \E k \in Key, p \in Payload : enqueuePayment(r, k, p)
          \/ redis_get(r)
          \/ redis_answered(r)
          \/ redis_set(r)
    \/ \E k \in Key : redis_expires(k)
    \/ \E c \in Runs :
          \/ \E s \in Shard : processShard(c, s)
          \/ processor_succeeds(c)
          \/ \E fatal \in BOOLEAN : processor_fails(c, fatal)
    \/ engine_restarts

EngineSpec == EngineInit /\ [][EngineNext]_engineVars

-----------------------------------------------------------------------------

\* Where an item waits in a queue, and where it is in the hands of a run.
Where(id, sequences) ==
    UNION {{x} \X {i \in DOMAIN sequences[x] : sequences[x][i] = id} : x \in DOMAIN sequences}
Todos == [c \in {d \in Runs : runs[d] # Idle} |-> runs[c].todo]
Places(id) == Cardinality(Where(id, shards)) + Cardinality(Where(id, Todos))

\* However runs overlap, on one shard or several, with retries in between and
\* payments enqueued meanwhile: an item that is not done is in exactly one
\* place, one that is done in none, it was paid once if it is settled and else
\* never, and a reply names a payment made for the key and the payload it
\* answers (outboxEngine.js:149-267, 296-359).  Without Redis a key has one
\* payment as long as the process lives.
PaymentsSettleOnce ==
    /\ \A id \in DOMAIN items :
          /\ Places(id) = (IF items[id].status \in {"SETTLED", "DLQ"} THEN 0 ELSE 1)
          /\ created[id].paid = (IF items[id].status = "SETTLED" THEN 1 ELSE 0)
    /\ \A r \in Enqueues :
          (enqueues[r].at = "done" /\ enqueues[r].reply # "conflict") =>
              /\ created[enqueues[r].id].key = enqueues[r].key
              /\ created[enqueues[r].id].payload = enqueues[r].payload
    /\ ~hasRedis => \A i, j \in DOMAIN items : created[i].key = created[j].key => i = j

\* verifyItemProof, for a leaf.
Verifies(leaf, receipt) ==
    LET batch == batches[receipt.batchId]
    IN /\ verifyProof(leaf, receipt.proof, receipt.merkleRoot)
       /\ computeBatchChainHash(batch.prevBatchHash, batch.merkleRoot, batch.batchId)
              = receipt.chainHash

\* The audit trail: batches of all shards form one chain whatever runs made
\* them at once, everything settled is in one batch, and its receipt verifies
\* for it, at any later time, and for no other item (outboxEngine.js:369-422,
\* 528-566, merkleTree.js:99-219).
ReceiptsVerify ==
    /\ \A n \in DOMAIN batches :
          batches[n].prevBatchHash = (IF n = 1 THEN Genesis ELSE batches[n - 1].chainHash)
    /\ \A id \in DOMAIN items :
          (/\ items[id].status = "SETTLED"
           /\ \A c \in Runs : runs[c] # Idle => id \notin Range(runs[c].settled))
              => /\ {n \in DOMAIN batches : id \in Range(batches[n].items)}
                        = {items[id].receipt.batchId}
                 /\ \A other \in DOMAIN items :
                       Verifies(LeafOf(items, other), items[id].receipt) <=> other = id
=============================================================================
