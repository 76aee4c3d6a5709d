-------------------------- MODULE SettlementOutbox --------------------------
(***************************************************************************)
(* The transactional outbox of the backend: notifications committed with   *)
(* their payments, and workers that poll for them, lease a batch row by    *)
(* row, publish to the broker and record the outcome                       *)
(* (services/settlementOutbox.js, services/rabbitOutboxPublisher.js,       *)
(* settlement-outbox-worker.js).                                           *)
(*                                                                         *)
(* Times are kept relative to the present: `due` and `lock` count the      *)
(* ticks until next_attempt_at and locked_until, `age` the ticks since a   *)
(* worker took the `tick` of its batch.  One clock serves all workers and  *)
(* the database.  An await is a point between two actions; each await on   *)
(* the database has an action for its success and is subject to            *)
(* DatabaseError, and any worker may crash at any of them.                 *)
(***************************************************************************)
EXTENDS Integers, FiniteSets

CONSTANTS
    Worker,      \* competing worker processes
    Message,     \* rows, numbered in their order by createdAt and id
    BatchSize,   \* batchSize
    Lease,       \* leaseMs
    Timeout,     \* timeoutMs of the publisher
    Interval,    \* intervalMs of the poller
    RetryMin,    \* RETRY_MIN_MS
    RetryMax,    \* RETRY_MAX_MS
    MaxRetries,  \* bound: retries are counted up to here
    MaxAge,      \* bound: ticks a batch may take
    NoRow, NoOwner, NoLock

VARIABLES
    row,         \* outbox_messages
    delivered,   \* messages that have reached the broker
    pc,          \* where each worker is in processOutboxBatch
    batch,       \* candidates left, with their retries as they were read
    age,         \* ticks since `tick = now()`
    waited       \* ticks since the publisher was called or failed, or since the
                 \* last batch of an idle worker

vars == <<row, delivered, pc, batch, age, waited>>

AtLeast(a, b) == IF a < b THEN b ELSE a
AtMost(a, b) == IF a < b THEN a ELSE b

Row ==
    [status : {"PENDING", "FAILED", "PROCESSED"},
     due : (-MaxAge)..RetryMax,
     lock : (-MaxAge - 1)..Lease \cup {NoLock},
     owner : Worker \cup {NoOwner},
     retries : 0..MaxRetries]

\* Rows taken with their retries.
Batch == UNION {[taken -> 0..MaxRetries] : taken \in SUBSET Message}

OutboxAssumption ==
    /\ Message \subseteq Nat
    /\ BatchSize \in Nat \ {0}
    /\ {Lease, Timeout, Interval, RetryMin, RetryMax, MaxRetries, MaxAge}
         \subseteq Nat \ {0}
    /\ NoOwner \notin Worker
    /\ NoLock \notin Int
    /\ NoRow \notin Row

ASSUME OutboxAssumption

\* No candidates.
NoBatch == [m \in {} |-> 0]

Created(due) == [status |-> "PENDING", due |-> due, lock |-> NoLock,
                 owner |-> NoOwner, retries |-> 0]

Committed == {m \in Message : row[m] # NoRow}
Processed == {m \in Committed : row[m].status = "PROCESSED"}

Database == {"reading", "claiming", "marking", "failing"}
Busy == Database \cup {"publishing"}

Init ==
    /\ row = [m \in Message |-> NoRow]
    /\ delivered = {}
    /\ pc = [w \in Worker |-> "idle"]
    /\ batch = [w \in Worker |-> NoBatch]
    /\ age = [w \in Worker |-> 0]
    /\ waited = [w \in Worker |-> Interval]
-----------------------------------------------------------------------------
\* A payment change and its notification commit in one transaction; when
\* either insert fails nothing is stored.  The row is due from its insertion,
\* which may lie before the commit.
Commit(m) ==
    /\ row[m] = NoRow
    /\ \E due \in (-MaxAge)..0 : row' = [row EXCEPT ![m] = Created(due)]
    /\ UNCHANGED <<delivered, pc, batch, age, waited>>

\* Mutated form: a lease ends with its owner only, never by expiry.
EligibleUnlocked(w, m) ==
    /\ m \in Committed
    /\ row[m].status \in {"PENDING", "FAILED"}
    /\ row[m].due <= -age[w]
    /\ row[m].lock = NoLock

\* The `eligible` condition, with the tick of w's batch.
Eligible(w, m) ==
    /\ m \in Committed
    /\ row[m].status \in {"PENDING", "FAILED"}
    /\ row[m].due <= -age[w]
    /\ row[m].lock # NoLock => row[m].lock < -age[w]

Earliest(S) == CHOOSE m \in S : \A n \in S : m <= n

\* The row w works on: the earliest of its batch.
Current(w) == Earliest(DOMAIN batch[w])

Rest(w) == [m \in DOMAIN batch[w] \ {Current(w)} |-> batch[w][m]]

Holds(w) == row[Current(w)].owner = w

\* w goes on with `left`, or ends its batch when nothing is left.
GoOn(w, left) ==
    /\ batch' = [batch EXCEPT ![w] = left]
    /\ pc' = [pc EXCEPT ![w] = IF DOMAIN left = {} THEN "idle" ELSE "claiming"]
    /\ age' = [age EXCEPT ![w] = IF DOMAIN left = {} THEN 0 ELSE @]
    /\ waited' = [waited EXCEPT ![w] = 0]

\* w leaves its batch where it is.
Abandon(w, to) ==
    /\ pc' = [pc EXCEPT ![w] = to]
    /\ batch' = [batch EXCEPT ![w] = NoBatch]
    /\ age' = [age EXCEPT ![w] = 0]
    /\ waited' = [waited EXCEPT ![w] = 0]
-----------------------------------------------------------------------------
\* The poll timer fires, `intervalMs` or more after the last batch has ended:
\* the batch takes its tick.
poll(w) ==
    /\ pc[w] = "idle"
    /\ waited[w] = Interval
    /\ pc' = [pc EXCEPT ![w] = "reading"]
    /\ waited' = [waited EXCEPT ![w] = 0]
    /\ UNCHANGED <<row, delivered, batch, age>>

\* The first `batchSize` eligible rows in the order of their creation.
findMany(w) ==
    LET found == {m \in Message : Eligible(w, m)}
        taken == {m \in found : Cardinality({n \in found : n < m}) < BatchSize}
    IN  /\ pc[w] = "reading"
        /\ GoOn(w, [m \in taken |-> row[m].retries])
        /\ UNCHANGED <<row, delivered>>

\* The lease counts from the tick of the batch.
Claimed(w, m) ==
    [row EXCEPT ![m].owner = w, ![m].lock = Lease - age[w]]

\* Mutated form: the update is not conditional on the row being eligible.
claim_unconditionally(w) ==
    /\ pc[w] = "claiming"
    /\ row' = Claimed(w, Current(w))
    /\ pc' = [pc EXCEPT ![w] = "publishing"]
    /\ UNCHANGED <<delivered, batch, age, waited>>

\* The conditional update that takes the lease.
claim(w) ==
    /\ pc[w] = "claiming"
    /\ Eligible(w, Current(w))
    /\ row' = Claimed(w, Current(w))
    /\ pc' = [pc EXCEPT ![w] = "publishing"]
    /\ UNCHANGED <<delivered, batch, age, waited>>

\* claim.count !== 1: somebody else was there.
skip_lost_claim(w) ==
    /\ pc[w] = "claiming"
    /\ ~Eligible(w, Current(w))
    /\ GoOn(w, Rest(w))
    /\ UNCHANGED <<row, delivered>>

\* Mutated form: `routed` is not looked at.
publish_unrouted(w) ==
    /\ pc[w] = "publishing"
    /\ delivered' \in {delivered, delivered \cup {Current(w)}}
    /\ pc' = [pc EXCEPT ![w] = "marking"]
    /\ waited' = [waited EXCEPT ![w] = 0]
    /\ UNCHANGED <<row, batch, age>>

\* The broker routed the message and said so in time.
publish(w) ==
    /\ pc[w] = "publishing"
    /\ delivered' = delivered \cup {Current(w)}
    /\ pc' = [pc EXCEPT ![w] = "marking"]
    /\ waited' = [waited EXCEPT ![w] = 0]
    /\ UNCHANGED <<row, batch, age>>

\* An HTTP error, a timeout or `routed: false`; a request whose answer is
\* lost may have reached the broker.
publish_fails(w) ==
    /\ pc[w] = "publishing"
    /\ delivered' \in {delivered, delivered \cup {Current(w)}}
    /\ pc' = [pc EXCEPT ![w] = "failing"]
    /\ waited' = [waited EXCEPT ![w] = 0]
    /\ UNCHANGED <<row, batch, age>>
-----------------------------------------------------------------------------
\* The powers of two from 2 ** 0 to 2 ** 6.
Doublings == <<1, 2, 4, 8, 16, 32, 64>>

\* RETRY_MIN_MS * 2 ** min(retries - 1, 6), at most RETRY_MAX_MS.
Delay(retries) == AtMost(RetryMax, RetryMin * Doublings[AtMost(retries - 1, 6) + 1])

\* The update that records a publication: only the owner of the lease is
\* listened to.
Marked(w, m) ==
    IF row[m].owner = w
    THEN [row EXCEPT ![m].status = "PROCESSED",
                     ![m].lock = NoLock, ![m].owner = NoOwner]
    ELSE row

\* Mutated form: the next attempt is left where it was.
FailedAtOnce(w, m) ==
    IF row[m].owner = w
    THEN [row EXCEPT ![m].status = "FAILED",
                     ![m].retries = AtMost(@ + 1, MaxRetries),
                     ![m].lock = NoLock, ![m].owner = NoOwner]
    ELSE row

\* The update that schedules a retry: the delay counts from the failure and
\* comes from the retries that were read, the increment from those stored.
Failed(w, m) ==
    IF row[m].owner = w
    THEN [row EXCEPT ![m].status = "FAILED",
                     ![m].retries = AtMost(@ + 1, MaxRetries),
                     ![m].due = AtLeast(Delay(batch[w][m] + 1) - waited[w], -MaxAge),
                     ![m].lock = NoLock, ![m].owner = NoOwner]
    ELSE row

mark_processed(w) ==
    /\ pc[w] = "marking"
    /\ row' = Marked(w, Current(w))
    /\ GoOn(w, Rest(w))
    /\ UNCHANGED delivered

mark_failed(w) ==
    /\ pc[w] = "failing"
    /\ row' = Failed(w, Current(w))
    /\ GoOn(w, Rest(w))
    /\ UNCHANGED delivered

\* The update under way at w, if there is one.
Written(w) ==
    CASE pc[w] = "claiming" /\ Eligible(w, Current(w)) -> Claimed(w, Current(w))
      [] pc[w] = "marking" -> Marked(w, Current(w))
      [] pc[w] = "failing" -> Failed(w, Current(w))
      [] OTHER -> row

\* A query is rejected: the batch is abandoned and the poller logs the error.
\* An update whose answer was lost may have been applied.
database_error(w) ==
    /\ pc[w] \in Database
    /\ row' \in {row, Written(w)}
    /\ Abandon(w, "idle")
    /\ UNCHANGED delivered

\* The process dies at an await; what it had sent may still arrive.
crash(w) ==
    /\ pc[w] # "down"
    /\ row' \in {row, Written(w)}
    /\ delivered' \in {delivered} \cup
         (IF pc[w] = "publishing" THEN {delivered \cup {Current(w)}} ELSE {})
    /\ Abandon(w, "down")

\* SIGTERM: the poller ends after the batch that is running.
stop(w) ==
    /\ pc[w] = "idle"
    /\ Abandon(w, "down")
    /\ UNCHANGED <<row, delivered>>

\* The service manager starts the process again; the first poll runs at once.
restart(w) ==
    /\ pc[w] = "down"
    /\ pc' = [pc EXCEPT ![w] = "reading"]
    /\ UNCHANGED <<row, delivered, batch, age, waited>>

\* The times of a settled row are not read any more and stand still; the
\* others are kept down to the age that tells them apart from no tick.
Tick ==
    /\ \A w \in Worker : pc[w] \in Busy => age[w] < MaxAge
    /\ \A w \in Worker : pc[w] = "publishing" => waited[w] < Timeout
    /\ row' = [m \in Message |->
         IF m \in Committed \ Processed
         THEN [row[m] EXCEPT
                 !.due = AtLeast(@ - 1, -MaxAge),
                 !.lock = IF @ = NoLock THEN NoLock ELSE AtLeast(@ - 1, -MaxAge - 1)]
         ELSE row[m]]
    /\ age' = [w \in Worker |-> IF pc[w] \in Busy THEN age[w] + 1 ELSE age[w]]
    /\ waited' = [w \in Worker |->
         CASE pc[w] \in {"publishing", "failing"} -> waited[w] + 1
           [] pc[w] = "idle" -> AtMost(waited[w] + 1, Interval)
           [] OTHER -> waited[w]]
    /\ UNCHANGED <<delivered, pc, batch>>

Work(w) ==
    \/ poll(w) \/ findMany(w)
    \/ claim(w) \/ skip_lost_claim(w)
    \/ publish(w) \/ mark_processed(w)

Fault(w) ==
    \/ publish_fails(w) \/ mark_failed(w)
    \/ database_error(w)
    \/ crash(w) \/ stop(w) \/ restart(w)

Next ==
    \/ \E m \in Message : Commit(m)
    \/ \E w \in Worker : Work(w) \/ Fault(w)
    \/ Tick

Spec == Init /\ [][Next]_vars

\* No tick passes while a query is under way.
Prompt == \A w \in Worker : pc[w] \notin Database

PromptTick == Tick /\ Prompt

\* Nobody dies and no query fails; the broker may.
CalmNext ==
    \/ \E m \in Message : Commit(m)
    \/ \E w \in Worker : Work(w) \/ publish_fails(w) \/ mark_failed(w) \/ restart(w)
    \/ PromptTick

\* Polls come from a timer, processes are restarted and time passes; the broker
\* does not refuse one message for ever; and from some time on nobody dies and
\* the database answers promptly.
Fairness ==
    /\ WF_vars(PromptTick)
    /\ \A w \in Worker : WF_vars(Work(w) \/ mark_failed(w) \/ restart(w))
    /\ \A w \in Worker, m \in Message : SF_vars(publish(w) /\ Current(w) = m)
    /\ <>[][CalmNext]_vars

FairSpec == Spec /\ Fairness

\* What happens when nothing fails and the database takes no time.
QuietNext ==
    \/ \E m \in Message : Commit(m)
    \/ \E w \in Worker : Work(w)
    \/ PromptTick

QuietSpec == Init /\ [][QuietNext]_vars
-----------------------------------------------------------------------------
Pending(w) == pc[w] \in {"claiming", "publishing", "marking", "failing"}
Sending(w) == pc[w] \in {"publishing", "marking", "failing"}

\* Rows and workers have their types; a batch is only kept by a worker that
\* is working on it.
OutboxTypeOK ==
    /\ row \in [Message -> Row \cup {NoRow}]
    /\ delivered \subseteq Committed
    /\ pc \in [Worker -> Busy \cup {"idle", "down"}]
    /\ batch \in [Worker -> Batch]
    /\ age \in [Worker -> 0..MaxAge]
    /\ waited \in [Worker -> Nat]
    /\ \A w \in Worker :
         /\ waited[w] <= (CASE pc[w] = "idle" -> Interval
                             [] pc[w] = "failing" -> age[w]
                             [] OTHER -> Timeout)
         /\ DOMAIN batch[w] \subseteq Committed
         /\ Pending(w) <=> DOMAIN batch[w] # {}
         /\ pc[w] \notin Busy => age[w] = 0

\* A worker that is publishing a message, or about to record how that went,
\* keeps the row as long as its lease lasts, counted from the tick of its
\* batch: only an expired lease is taken over (settlementOutbox.js:81).
LeaseRespected ==
    \A w \in Worker :
        Sending(w) /\ ~Holds(w) => age[w] > Lease

\* The delay of a retry is computed from the retries that were read with the
\* batch, the count is incremented where it is stored (settlementOutbox.js:102).
\* For a worker that holds the row, what it read is at most one retry behind:
\* that of a predecessor whose lease ran out while it recorded its failure.
BackoffIsCurrent ==
    \A w \in Worker :
        Sending(w) /\ Holds(w) =>
            row[Current(w)].retries - batch[w][Current(w)] \in {0, 1}

Behind(w, m) == row[m].retries - batch[w][m]

\* Settled rows are with the broker and belong to nobody.
SettledRows ==
    \A m \in Processed : m \in delivered /\ row[m].owner = NoOwner

\* The lease counts from the tick of the batch, whose conditions the row meets
\* for as long as it is held.
LeaseCounts(w) ==
    Sending(w) =>
        IF Holds(w)
        THEN /\ row[Current(w)].lock = Lease - age[w]
             /\ row[Current(w)].due <= -age[w]
        ELSE age[w] > Lease

\* What w knows of a candidate, if w can still claim it at all: it has failed
\* at most once since it was read, and if it has, whoever holds it has not
\* failed before w took its tick.
UpToDate(w, m) ==
    \/ row[m].status = "PROCESSED"
    \/ row[m].due > -age[w]
    \/ Behind(w, m) = 0
    \/ /\ Behind(w, m) = 1
       /\ \A v \in Worker :
            pc[v] = "failing" /\ Current(v) = m /\ Holds(v)
              => waited[v] <= age[w]

CountsFollow(w) ==
    \A m \in DOMAIN batch[w] :
        IF Sending(w) /\ m = Current(w)
        THEN Holds(w) => Behind(w, m) \in {0, 1}
        ELSE UpToDate(w, m)

\* The inductive invariant: types, settled rows, and for each worker what it
\* holds, what it has delivered and how far its candidates are behind.
OutboxInv ==
    /\ OutboxTypeOK
    /\ SettledRows
    /\ \A w \in Worker :
         /\ pc[w] = "marking" => Current(w) \in delivered
         /\ LeaseCounts(w)
         /\ CountsFollow(w)

\* "Expiring leases to prevent normal concurrent duplicates"
\* (transactional-outbox.md:37): while nothing fails, no two workers publish
\* one message at the same time.
NoConcurrentDuplicates ==
    \A v, w \in Worker :
        v # w /\ pc[v] = "publishing" /\ pc[w] = "publishing"
          => Current(v) # Current(w)

Promise == INSTANCE AtLeastOnce
             WITH committed <- Committed, settled <- Processed

\* The outbox implements at-least-once delivery: nothing is recorded as
\* published that is not with the broker, and no record is undone.
DeliveryIsSafe == Promise!AtLeastOnceSafety

\* Every committed notification is published and recorded in the end,
\* whatever crashed, failed or expired in between.
DeliveryHappens == Promise!EverythingSettles
=============================================================================
