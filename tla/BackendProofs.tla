---------------------------- MODULE BackendProofs ----------------------------
(***************************************************************************)
(* Theorems about three components of the payment platform that run beside *)
(* each other: the settlement outbox, the idempotency keys, and the        *)
(* settlement engine with its audit tree.                                  *)
(***************************************************************************)
EXTENDS SettlementOutbox, IdempotencyKeys, SettlementEngine, SumTheorems,
        WellFoundedInduction

-----------------------------------------------------------------------------
(***************************************************************************)
(* OutboxInv is an inductive invariant of the settlement outbox, for any   *)
(* workers, notifications, leases, timeouts and delays.  What the outbox   *)
(* promises about leases, backoff and delivery follows from it.            *)
(*                                                                         *)
(* A step of a worker v changes one row at most, in one of three ways      *)
(* (QueryEffect).  What it does to the other workers is proved once, in    *)
(* OthersKeep; what is left for each action is v itself.                   *)
(***************************************************************************)

\* What holds of one worker.
WorkerInv(w) ==
    /\ pc[w] = "marking" => Current(w) \in delivered
    /\ LeaseCounts(w)
    /\ CountsFollow(w)

\* What a query of v does to the table, answered or not.
QueryEffect(v) ==
    \/ row' = row
    \/ /\ pc[v] = "claiming" /\ Eligible(v, Current(v))
       /\ row' = Claimed(v, Current(v))
    \/ pc[v] = "marking" /\ row' = Marked(v, Current(v))
    \/ pc[v] = "failing" /\ row' = Failed(v, Current(v))

\* Nothing of w changes.
Rests(w) ==
    /\ pc'[w] = pc[w]
    /\ batch'[w] = batch[w]
    /\ age'[w] = age[w]
    /\ waited'[w] = waited[w]
-----------------------------------------------------------------------------
\* Natural numbers are well-ordered.
LEMMA LeastNatural ==
    ASSUME NEW T, T \subseteq Nat, T # {}
    PROVE  \E x \in T : \A y \in T : x <= y
  <1> DEFINE R == {ss \in Nat \X Nat : ss[1] < ss[2]}
  <1>1. IsWellFoundedOn(R, Nat)
    BY NatLessThanWellFounded DEF OpToRel
  <1>2. \A y, x \in Nat : y < x => <<y, x>> \in R
    OBVIOUS
  <1> HIDE DEF R
  <1>3. PICK x \in T : \A y \in T : ~ (<<y, x>> \in R)
    BY <1>1, WFMin
  <1>4. \A y \in T : x <= y
    <2> TAKE y \in T
    <2>1. x \in Nat /\ y \in Nat
      OBVIOUS
    <2>2. <<y, x>> \notin R
      BY <1>3
    <2>3. ~(y < x)
      BY <1>2, <2>1, <2>2, Zenon
    <2> QED BY <2>1, <2>3
  <1> QED BY <1>4

\* The table of powers, and the delay of a retry: at least one tick and at
\* most RetryMax.
LEMMA DelayBounds ==
    ASSUME OutboxAssumption, NEW r \in Nat \ {0}
    PROVE  Delay(r) \in 1..RetryMax
  <1>1. AtMost(r - 1, 6) + 1 \in 1..7
    BY DEF AtMost
  <1>2. \A k \in 1..7 : Doublings[k] \in Nat \ {0}
    <2> TAKE k \in 1..7
    <2> QED
      BY k = 1 \/ k = 2 \/ k = 3 \/ k = 4 \/ k = 5 \/ k = 6 \/ k = 7 DEF Doublings
  <1>3. Doublings[AtMost(r - 1, 6) + 1] \in Nat \ {0}
    BY <1>1, <1>2
  <1>4. \A a, b \in Nat \ {0} : a * b \in Nat \ {0}
    OBVIOUS
  <1>5. RetryMin \in Nat \ {0} /\ RetryMax \in Nat \ {0}
    BY DEF OutboxAssumption
  <1>6. RetryMin * Doublings[AtMost(r - 1, 6) + 1] \in Nat \ {0}
    BY <1>3, <1>4, <1>5
  <1> QED
    BY <1>5, <1>6 DEF Delay, AtMost

\* A batch is a function on some of the messages.
LEMMA BatchTyped ==
    ASSUME NEW b \in Batch
    PROVE  /\ DOMAIN b \subseteq Message
           /\ b = [m \in DOMAIN b |-> b[m]]
           /\ \A m \in DOMAIN b : b[m] \in 0..MaxRetries
  BY DEF Batch

LEMMA BatchBuilt ==
    ASSUME NEW D \in SUBSET Message, NEW b \in [D -> 0..MaxRetries]
    PROVE  b \in Batch /\ DOMAIN b = D
  BY DEF Batch

\* The ranges of what is kept of a worker.
LEMMA WorkerRanges ==
    ASSUME OutboxAssumption, OutboxTypeOK, NEW w \in Worker
    PROVE  /\ age[w] \in 0..MaxAge
           /\ waited[w] \in Nat
           /\ pc[w] = "failing" => waited[w] \in 0..age[w]
           /\ \A m \in DOMAIN batch[w] : m \in Committed /\ batch[w][m] \in 0..MaxRetries
  <1>1. batch[w] \in Batch /\ DOMAIN batch[w] \subseteq Committed
    BY DEF OutboxTypeOK
  <1>2. \A m \in DOMAIN batch[w] : batch[w][m] \in 0..MaxRetries
    BY <1>1, BatchTyped
  <1>3. age[w] \in 0..MaxAge /\ waited[w] \in Nat
    BY DEF OutboxTypeOK
  <1>4. pc[w] = "failing" => waited[w] <= age[w]
    BY DEF OutboxTypeOK
  <1> QED BY <1>1, <1>2, <1>3, <1>4 DEF OutboxAssumption

\* A worker with a batch works on a row of it.
LEMMA CurrentInBatch ==
    ASSUME OutboxAssumption, OutboxTypeOK, NEW w \in Worker, Pending(w)
    PROVE  /\ Current(w) \in DOMAIN batch[w]
           /\ Current(w) \in Committed
           /\ Current(w) \in Message
           /\ row[Current(w)] \in Row
  <1>1. DOMAIN batch[w] # {} /\ DOMAIN batch[w] \subseteq Committed
    BY DEF OutboxTypeOK
  <1>2. DOMAIN batch[w] \subseteq Nat
    BY <1>1 DEF OutboxAssumption, Committed
  <1>3. \E m \in DOMAIN batch[w] : \A n \in DOMAIN batch[w] : m <= n
    BY <1>1, <1>2, LeastNatural
  <1>4. Current(w) \in DOMAIN batch[w]
    BY <1>3, Zenon DEF Current, Earliest
  <1> QED
    BY <1>1, <1>4 DEF Committed, OutboxTypeOK

\* The rejected or interrupted query of v had one of its effects or none.
LEMMA WrittenIsEffect ==
    ASSUME NEW v \in Worker, row' \in {row, Written(v)}
    PROVE  QueryEffect(v)
  <1>1. CASE pc[v] = "claiming"
    BY <1>1 DEF QueryEffect, Written
  <1>2. CASE pc[v] = "marking"
    BY <1>2 DEF QueryEffect, Written
  <1>3. CASE pc[v] = "failing"
    BY <1>3 DEF QueryEffect, Written
  <1>4. CASE pc[v] \notin {"claiming", "marking", "failing"}
    BY <1>4 DEF QueryEffect, Written
  <1> QED BY <1>1, <1>2, <1>3, <1>4

\* The row after each of the three updates.
LEMMA ClaimedRow ==
    ASSUME OutboxAssumption, OutboxTypeOK, NEW v \in Worker, pc[v] = "claiming",
           Eligible(v, Current(v)), row' = Claimed(v, Current(v))
    PROVE  /\ row'[Current(v)] = [row[Current(v)] EXCEPT !.owner = v, !.lock = Lease - age[v]]
           /\ row'[Current(v)] \in Row
           /\ row' \in [Message -> Row \cup {NoRow}]
           /\ \A m \in Message : m # Current(v) => row'[m] = row[m]
  <1>1. Current(v) \in Message /\ row[Current(v)] \in Row
    BY CurrentInBatch DEF Pending
  <1>2. row \in [Message -> Row \cup {NoRow}] /\ age[v] \in 0..MaxAge
    BY DEF OutboxTypeOK
  <1>3. Lease - age[v] \in (-MaxAge - 1)..Lease
    BY <1>2 DEF OutboxAssumption
  <1>4. row'[Current(v)] = [row[Current(v)] EXCEPT !.owner = v, !.lock = Lease - age[v]]
    BY <1>1, <1>2 DEF Claimed
  <1>5. row'[Current(v)] \in Row
    BY <1>1, <1>3, <1>4 DEF Row
  <1>6. \A m \in Message : m # Current(v) => row'[m] = row[m]
    BY <1>1, <1>2 DEF Claimed
  <1>7. row' \in [Message -> Row \cup {NoRow}]
    BY <1>1, <1>2, <1>5 DEF Claimed
  <1> QED BY <1>4, <1>5, <1>6, <1>7

LEMMA MarkedRow ==
    ASSUME OutboxAssumption, OutboxTypeOK, NEW v \in Worker, pc[v] = "marking",
           row' = Marked(v, Current(v)), Holds(v)
    PROVE  /\ row'[Current(v)] = [row[Current(v)] EXCEPT !.status = "PROCESSED",
                                      !.lock = NoLock, !.owner = NoOwner]
           /\ row'[Current(v)] \in Row
           /\ row' \in [Message -> Row \cup {NoRow}]
           /\ \A m \in Message : m # Current(v) => row'[m] = row[m]
  <1>1. Current(v) \in Message /\ row[Current(v)] \in Row
    BY CurrentInBatch DEF Pending
  <1>2. row \in [Message -> Row \cup {NoRow}]
    BY DEF OutboxTypeOK
  <1>3. row' = [row EXCEPT ![Current(v)].status = "PROCESSED",
                  ![Current(v)].lock = NoLock, ![Current(v)].owner = NoOwner]
    BY DEF Marked, Holds
  <1>4. row'[Current(v)] = [row[Current(v)] EXCEPT !.status = "PROCESSED",
                               !.lock = NoLock, !.owner = NoOwner]
    BY <1>1, <1>2, <1>3
  <1>5. row'[Current(v)] \in Row
    BY <1>1, <1>4 DEF Row
  <1> QED BY <1>1, <1>2, <1>3, <1>4, <1>5

LEMMA FailedRow ==
    ASSUME OutboxAssumption, OutboxTypeOK, NEW v \in Worker, pc[v] = "failing",
           row' = Failed(v, Current(v)), Holds(v)
    PROVE  /\ row'[Current(v)].status = "FAILED"
           /\ row'[Current(v)].owner = NoOwner
           /\ row'[Current(v)].lock = NoLock
           /\ row'[Current(v)].retries - row[Current(v)].retries \in {0, 1}
           /\ row'[Current(v)].due > -waited[v]
           /\ row'[Current(v)] \in Row
           /\ row' \in [Message -> Row \cup {NoRow}]
           /\ \A m \in Message : m # Current(v) => row'[m] = row[m]
  <1> DEFINE c == Current(v)
             d == Delay(batch[v][c] + 1)
             next == AtLeast(d - waited[v], -MaxAge)
             count == AtMost(row[c].retries + 1, MaxRetries)
  <1>1. c \in Message /\ row[c] \in Row /\ c \in DOMAIN batch[v]
    BY CurrentInBatch DEF Pending
  <1>2. /\ row \in [Message -> Row \cup {NoRow}]
        /\ batch[v][c] \in 0..MaxRetries
        /\ age[v] \in 0..MaxAge
        /\ waited[v] \in 0..age[v]
    BY <1>1, WorkerRanges DEF OutboxTypeOK
  <1>3. d \in 1..RetryMax
    BY <1>2, DelayBounds DEF OutboxAssumption
  <1>4. next \in (-MaxAge)..RetryMax /\ next > -waited[v]
    BY <1>2, <1>3 DEF OutboxAssumption, AtLeast
  <1>5. count \in 0..MaxRetries /\ count - row[c].retries \in {0, 1}
    BY <1>1 DEF OutboxAssumption, AtMost, Row
  <1>6. row' = [row EXCEPT ![c].status = "FAILED", ![c].retries = count,
                  ![c].due = next, ![c].lock = NoLock, ![c].owner = NoOwner]
    BY DEF Failed, Holds
  <1> HIDE DEF c, d, next, count
  <1>7. row'[c] = [row[c] EXCEPT !.status = "FAILED", !.retries = count,
                     !.due = next, !.lock = NoLock, !.owner = NoOwner]
    BY <1>1, <1>2, <1>6
  <1>8. row'[c] \in Row
    BY <1>1, <1>4, <1>5, <1>7 DEF Row
  <1>9. /\ row'[c].status = "FAILED" /\ row'[c].owner = NoOwner
        /\ row'[c].lock = NoLock /\ row'[c].retries = count
        /\ row'[c].due = next
    BY <1>1, <1>7 DEF Row
  <1>10. /\ row' \in [Message -> Row \cup {NoRow}]
         /\ \A m \in Message : m # c => row'[m] = row[m]
    BY <1>1, <1>2, <1>6, <1>8
  <1> QED BY <1>4, <1>5, <1>8, <1>9, <1>10 DEF c

\* A worker that rests stays at its row.
LEMMA RestsAtRow ==
    ASSUME NEW w \in Worker, Rests(w)
    PROVE  Current(w)' = Current(w)
  BY DEF Rests, Current

\* The effects of v keep the types of the rows, the set of rows and what is
\* known of settled ones, and touch the row of v only.
LEMMA EffectOnRows ==
    ASSUME OutboxAssumption, OutboxInv, NEW v \in Worker, QueryEffect(v)
    PROVE  /\ row' \in [Message -> Row \cup {NoRow}]
           /\ Committed' = Committed
           /\ \A m \in Message : m # Current(v) => row'[m] = row[m]
           /\ \A m \in Processed' : m \in delivered /\ row'[m].owner = NoOwner
  <1> DEFINE c == Current(v)
             Typed == row' \in [Message -> Row \cup {NoRow}]
             Local == \A m \in Message : m # c => row'[m] = row[m]
  <1> USE DEF OutboxInv
  <1>1. CASE row' = row
    BY <1>1 DEF OutboxTypeOK, SettledRows, Committed, Processed
  <1>2. CASE Typed /\ Local /\ c \in Committed /\ row'[c] \in Row
             /\ (row'[c].status = "PROCESSED" => c \in delivered /\ row'[c].owner = NoOwner)
    <2>1. row'[c] # NoRow /\ c \in Message
      BY <1>2 DEF OutboxAssumption, Committed
    <2>2. Committed' = Committed
      BY <1>2, <2>1 DEF Committed
    <2>3. \A m \in Processed' : m \in delivered /\ row'[m].owner = NoOwner
      <3> TAKE m \in Processed'
      <3>1. m \in Message /\ m \in Committed /\ row'[m].status = "PROCESSED"
        BY <2>2 DEF Processed, Committed
      <3>2. CASE m = c
        BY <1>2, <3>1, <3>2
      <3>3. CASE m # c
        BY <1>2, <3>1, <3>3 DEF SettledRows, Processed
      <3> QED BY <3>2, <3>3
    <2> QED BY <1>2, <2>2, <2>3
  <1>3. CASE /\ pc[v] = "claiming" /\ Eligible(v, Current(v))
             /\ row' = Claimed(v, Current(v))
    <2>1. c \in Committed /\ row[c] \in Row
      BY <1>3, CurrentInBatch DEF Pending
    <2>2. row[c].status # "PROCESSED"
      BY <1>3 DEF Eligible
    <2>3. Typed /\ Local /\ row'[c] \in Row /\ row'[c].status = row[c].status
      BY <1>3, <2>1, ClaimedRow DEF Row
    <2> QED BY <1>2, <2>1, <2>2, <2>3
  <1>4. CASE pc[v] = "marking" /\ row' = Marked(v, Current(v)) /\ Holds(v)
    <2>1. c \in Committed /\ row[c] \in Row
      BY <1>4, CurrentInBatch DEF Pending
    <2>2. /\ Typed /\ Local /\ row'[c] \in Row
          /\ row'[c].owner = NoOwner
      BY <1>4, <2>1, MarkedRow DEF Row
    <2>3. c \in delivered
      BY <1>4
    <2> QED BY <1>2, <2>1, <2>2, <2>3
  <1>5. CASE pc[v] = "failing" /\ row' = Failed(v, Current(v)) /\ Holds(v)
    <2>1. c \in Committed
      BY <1>5, CurrentInBatch DEF Pending
    <2>2. Typed /\ Local /\ row'[c] \in Row /\ row'[c].status = "FAILED"
      BY <1>5, FailedRow
    <2> QED BY <1>2, <2>1, <2>2
  <1> HIDE DEF OutboxInv
  <1>6. row' = Marked(v, Current(v)) /\ ~Holds(v) => row' = row
    BY DEF Marked, Holds
  <1>7. row' = Failed(v, Current(v)) /\ ~Holds(v) => row' = row
    BY DEF Failed, Holds
  <1> QED BY <1>1, <1>3, <1>4, <1>5, <1>6, <1>7 DEF QueryEffect
-----------------------------------------------------------------------------
\* What an effect of v does to its row, when it does something.
ClaimedBy(v, c) ==
    /\ row[c].lock # NoLock => row[c].lock < -age[v]
    /\ row'[c].owner = v
    /\ row'[c].status = row[c].status
    /\ row'[c].due = row[c].due
    /\ row'[c].retries = row[c].retries

MarkedBy(v, c) ==
    /\ row[c].owner = v
    /\ row'[c].owner = NoOwner
    /\ row'[c].status = "PROCESSED"

FailedBy(v, c) ==
    /\ pc[v] = "failing"
    /\ row[c].owner = v
    /\ row'[c].owner = NoOwner
    /\ row'[c].due > -waited[v]
    /\ row'[c].retries - row[c].retries \in {0, 1}

LEMMA EffectOnCurrent ==
    ASSUME OutboxAssumption, OutboxTypeOK, NEW v \in Worker, QueryEffect(v)
    PROVE  \/ row' = row
           \/ ClaimedBy(v, Current(v))
           \/ MarkedBy(v, Current(v))
           \/ FailedBy(v, Current(v))
  <1> DEFINE c == Current(v)
  <1>1. CASE /\ pc[v] = "claiming" /\ Eligible(v, Current(v))
             /\ row' = Claimed(v, Current(v))
    <2>1. row[c] \in Row
      BY <1>1, CurrentInBatch DEF Pending
    <2>2. row'[c] = [row[c] EXCEPT !.owner = v, !.lock = Lease - age[v]]
      BY <1>1, ClaimedRow
    <2> QED BY <1>1, <2>1, <2>2 DEF Row, ClaimedBy, Eligible
  <1>2. CASE pc[v] = "marking" /\ row' = Marked(v, Current(v)) /\ Holds(v)
    <2>1. row[c] \in Row
      BY <1>2, CurrentInBatch DEF Pending
    <2>2. row'[c] = [row[c] EXCEPT !.status = "PROCESSED",
                        !.lock = NoLock, !.owner = NoOwner]
      BY <1>2, MarkedRow
    <2> QED BY <1>2, <2>1, <2>2 DEF Row, MarkedBy, Holds
  <1>3. CASE pc[v] = "failing" /\ row' = Failed(v, Current(v)) /\ Holds(v)
    BY <1>3, FailedRow DEF FailedBy, Holds
  <1>4. row' = Marked(v, Current(v)) /\ ~Holds(v) => row' = row
    BY DEF Marked, Holds
  <1>5. row' = Failed(v, Current(v)) /\ ~Holds(v) => row' = row
    BY DEF Failed, Holds
  <1> QED BY <1>1, <1>2, <1>3, <1>4, <1>5 DEF QueryEffect

\* Whatever v does, the other workers keep what the invariant says of them.
LEMMA OthersKeep ==
    ASSUME OutboxAssumption, OutboxInv, NEW v \in Worker, QueryEffect(v),
           pc'[v] = "failing" => waited'[v] = 0,
           delivered \subseteq delivered',
           \A u \in Worker \ {v} : Rests(u)
    PROVE  \A w \in Worker \ {v} : WorkerInv(w)'
  <1> TAKE w \in Worker \ {v}
  <1> DEFINE c == Current(v)
  <1>1. Rests(w) /\ Current(w)' = Current(w)
    BY RestsAtRow
  <1>2. OutboxTypeOK /\ SettledRows /\ WorkerInv(w) /\ LeaseCounts(v)
    BY DEF OutboxInv, WorkerInv
  <1>3. age[w] \in 0..MaxAge /\ age[v] \in 0..MaxAge /\ MaxAge \in Nat /\ Lease \in Nat
    BY <1>2 DEF OutboxTypeOK, OutboxAssumption
  <1>4. \A m \in Message : m # c => row'[m] = row[m]
    BY EffectOnRows
  <1>5. row' = row \/ ClaimedBy(v, c) \/ MarkedBy(v, c) \/ FailedBy(v, c)
    BY <1>2, EffectOnCurrent
  <1>6. pc[v] = "failing" => waited[v] \in 0..age[v]
    BY <1>2 DEF OutboxTypeOK
  <1>7. (pc[w] = "marking" => Current(w) \in delivered)'
    BY <1>1, <1>2 DEF Rests, WorkerInv
  <1>8. LeaseCounts(w)'
    <2> SUFFICES ASSUME Sending(w)'
                 PROVE  LeaseCounts(w)'
      BY DEF LeaseCounts
    <2>1. Sending(w)
      BY <1>1 DEF Sending, Rests
    <2>2. Current(w) \in Message
      BY <1>2, <2>1, CurrentInBatch DEF Sending, Pending
    <2>3. IF Holds(w)
          THEN row[Current(w)].lock = Lease - age[w] /\ row[Current(w)].due <= -age[w]
          ELSE age[w] > Lease
      BY <1>2, <2>1 DEF WorkerInv, LeaseCounts
    <2>4. CASE row'[Current(w)] = row[Current(w)]
      BY <1>1, <2>3, <2>4 DEF LeaseCounts, Holds, Rests
    <2>5. CASE Current(w) = c /\ ClaimedBy(v, c)
      <3>1. ~Holds(w)'
        BY <1>1, <2>5 DEF Holds, ClaimedBy
      <3>2. age[w] > Lease
        <4>1. CASE Holds(w)
          <5>1. row[c].lock = Lease - age[w]
            BY <2>3, <2>5, <4>1
          <5>2. row[c].lock # NoLock
            BY <1>3, <5>1 DEF OutboxAssumption
          <5>3. Lease - age[w] < -age[v]
            BY <2>5, <5>1, <5>2 DEF ClaimedBy
          <5> QED BY <1>3, <5>3
        <4> QED BY <2>3, <4>1
      <3> QED BY <1>1, <3>1, <3>2 DEF LeaseCounts, Rests
    <2>6. CASE Current(w) = c /\ (MarkedBy(v, c) \/ FailedBy(v, c))
      <3>1. row[c].owner = v /\ row'[c].owner = NoOwner
        BY <2>6 DEF MarkedBy, FailedBy
      <3>2. ~Holds(w) /\ ~Holds(w)'
        BY <1>1, <2>6, <3>1 DEF Holds, OutboxAssumption
      <3> QED BY <1>1, <2>3, <3>2 DEF LeaseCounts, Rests
    <2>7. Current(w) # c => row'[Current(w)] = row[Current(w)]
      BY <1>4, <2>2
    <2> QED BY <1>5, <2>4, <2>5, <2>6, <2>7
  <1>9. CountsFollow(w)'
    <2> SUFFICES ASSUME NEW m \in (DOMAIN batch[w])'
                 PROVE  (IF Sending(w) /\ m = Current(w)
                         THEN Holds(w) => Behind(w, m) \in {0, 1}
                         ELSE UpToDate(w, m))'
      BY DEF CountsFollow
    <2>1. m \in DOMAIN batch[w]
      BY <1>1 DEF Rests
    <2>2. IF Sending(w) /\ m = Current(w)
          THEN Holds(w) => Behind(w, m) \in {0, 1}
          ELSE UpToDate(w, m)
      BY <1>2, <2>1 DEF WorkerInv, CountsFollow
    <2>3. m \in Message
      BY <1>2, <2>1 DEF OutboxTypeOK, Committed
    <2>4. /\ Sending(w)' <=> Sending(w)
          /\ batch'[w] = batch[w] /\ age'[w] = age[w]
      BY <1>1 DEF Sending, Rests
    <2>5. \A u \in Worker \ {v} :
            /\ pc'[u] = pc[u] /\ waited'[u] = waited[u]
            /\ Current(u)' = Current(u)
      BY RestsAtRow DEF Rests
    <2>6. pc'[v] = "failing" => waited'[v] <= age'[w]
      BY <1>3, <2>4
    <2>7. CASE row'[m] = row[m]
      <3>1. (\A u \in Worker :
               pc[u] = "failing" /\ Current(u) = m /\ Holds(u) => waited[u] <= age[w])
              => (\A u \in Worker :
                    pc[u] = "failing" /\ Current(u) = m /\ Holds(u)
                      => waited[u] <= age[w])'
        BY <2>4, <2>5, <2>6, <2>7 DEF Holds
      <3>2. Behind(w, m)' = Behind(w, m)
        BY <2>4, <2>7 DEF Behind
      <3>3. m = Current(w) => (Holds(w)' <=> Holds(w))
        BY <1>1, <2>7 DEF Holds
      <3> QED BY <1>1, <2>2, <2>4, <2>7, <3>1, <3>2, <3>3 DEF UpToDate
    <2>8. CASE m = c /\ ClaimedBy(v, c)
      <3>1. Sending(w) /\ m = Current(w) => ~Holds(w)'
        BY <1>1, <2>8 DEF Holds, ClaimedBy
      <3>2. \A u \in Worker : (Current(u)' = m /\ Holds(u)') => u = v
        BY <2>8 DEF Holds, ClaimedBy
      <3>3. Behind(w, m)' = Behind(w, m)
        BY <2>4, <2>8 DEF Behind, ClaimedBy
      <3> QED BY <1>1, <2>2, <2>4, <2>6, <2>8, <3>1, <3>2, <3>3 DEF ClaimedBy, UpToDate
    <2>9. CASE m = c /\ MarkedBy(v, c)
      BY <1>1, <2>4, <2>9 DEF MarkedBy, Holds, OutboxAssumption, UpToDate
    <2>10. CASE m = c /\ FailedBy(v, c)
      <3>1. /\ row[m].owner = v /\ row'[m].owner = NoOwner /\ pc[v] = "failing"
            /\ row'[m].due > -waited[v]
            /\ row'[m].retries - row[m].retries \in {0, 1}
        BY <2>10 DEF FailedBy
      <3>2. CASE Sending(w) /\ m = Current(w)
        BY <1>1, <2>4, <3>1, <3>2 DEF Holds, OutboxAssumption
      <3>3. CASE ~(Sending(w) /\ m = Current(w))
        <4>1. Holds(v)
          BY <2>10, <3>1 DEF Holds
        <4>2. m \in Committed /\ row[m] \in Row /\ row'[m] \in Row
          <5>1. m \in Committed /\ row[m] \in Row
            BY <1>2, <2>10, <3>1, CurrentInBatch DEF Pending
          <5>2. row' \in [Message -> Row \cup {NoRow}] /\ Committed' = Committed
            BY EffectOnRows
          <5> QED BY <5>1, <5>2 DEF Committed
        <4>3. /\ row[m].due \in Int /\ row'[m].due \in Int
              /\ row[m].retries \in Int /\ row'[m].retries \in Int
              /\ batch[w][m] \in Int /\ waited[v] \in 0..age[v]
          BY <1>2, <2>1, <3>1, <4>2, WorkerRanges DEF Row, OutboxAssumption
        <4>4. row[m].due <= -age[v]
          BY <1>2, <2>10, <3>1, <4>1 DEF LeaseCounts, Sending
        <4>5. row[m].status # "PROCESSED"
          BY <1>2, <3>1, <4>2 DEF SettledRows, Processed, OutboxAssumption
        <4>6. CASE row[m].due > -age[w]
          BY <1>1, <1>3, <2>4, <3>1, <3>3, <4>3, <4>4, <4>6 DEF UpToDate
        <4>7. CASE Behind(w, m) = 0
          <5>1. Behind(w, m)' \in {0, 1}
            BY <2>4, <3>1, <4>3, <4>7 DEF Behind
          <5>2. \A u \in Worker : ~(Current(u)' = m /\ Holds(u)')
            BY <3>1 DEF Holds, OutboxAssumption
          <5> QED BY <1>1, <2>4, <3>3, <5>1, <5>2 DEF UpToDate
        <4>8. CASE /\ Behind(w, m) = 1
                   /\ \A u \in Worker :
                        pc[u] = "failing" /\ Current(u) = m /\ Holds(u)
                          => waited[u] <= age[w]
          <5>1. waited[v] <= age[w]
            BY <2>10, <3>1, <4>1, <4>8
          <5> QED BY <1>1, <1>3, <2>4, <3>1, <3>3, <4>3, <5>1 DEF UpToDate
        <4> QED BY <2>2, <3>3, <4>5, <4>6, <4>7, <4>8 DEF UpToDate
      <3> QED BY <3>2, <3>3
    <2> QED BY <1>4, <1>5, <2>3, <2>7, <2>8, <2>9, <2>10
  <1> QED BY <1>7, <1>8, <1>9 DEF WorkerInv
-----------------------------------------------------------------------------
\* The workers' variables are functions of their types, and what is known of
\* the variables of one worker.
WorkersTyped ==
    /\ pc \in [Worker -> Busy \cup {"idle", "down"}]
    /\ batch \in [Worker -> Batch]
    /\ age \in [Worker -> 0..MaxAge]
    /\ waited \in [Worker -> Nat]

OneTyped(w) ==
    /\ waited[w] <= (CASE pc[w] = "idle" -> Interval
                        [] pc[w] = "failing" -> age[w]
                        [] OTHER -> Timeout)
    /\ DOMAIN batch[w] \subseteq Committed
    /\ Pending(w) <=> DOMAIN batch[w] # {}
    /\ pc[w] \notin Busy => age[w] = 0

\* A step of v keeps the invariant when it keeps what the invariant says of v.
LEMMA StepOfOne ==
    ASSUME OutboxAssumption, OutboxInv, NEW v \in Worker, QueryEffect(v),
           pc'[v] = "failing" => waited'[v] = 0,
           delivered \subseteq delivered', delivered' \subseteq Committed,
           \A u \in Worker \ {v} : Rests(u),
           WorkersTyped', OneTyped(v)', WorkerInv(v)'
    PROVE  OutboxInv'
  <1>1. OutboxTypeOK
    BY DEF OutboxInv
  <1>2. /\ row' \in [Message -> Row \cup {NoRow}] /\ Committed' = Committed
        /\ \A m \in Processed' : m \in delivered /\ row'[m].owner = NoOwner
    BY EffectOnRows
  <1>3. \A w \in Worker : OneTyped(w)'
    <2> TAKE w \in Worker
    <2>1. OneTyped(w)
      BY <1>1 DEF OutboxTypeOK, OneTyped
    <2>2. CASE w # v
      BY <1>2, <2>1, <2>2 DEF OneTyped, Rests, Pending
    <2> QED BY <2>2
  <1>4. OutboxTypeOK'
    BY <1>2, <1>3 DEF OutboxTypeOK, OneTyped, WorkersTyped
  <1>5. SettledRows'
    BY <1>2 DEF SettledRows
  <1>6. \A w \in Worker : WorkerInv(w)'
    BY OthersKeep
  <1> QED BY <1>4, <1>5, <1>6 DEF OutboxInv, WorkerInv

\* GoOn and Abandon, variable by variable.
LEMMA GoOnTyped ==
    ASSUME OutboxAssumption, OutboxTypeOK, NEW w \in Worker, pc[w] \in Busy,
           NEW left \in Batch, DOMAIN left \subseteq Committed, Committed' = Committed,
           GoOn(w, left)
    PROVE  /\ WorkersTyped' /\ OneTyped(w)'
           /\ \A u \in Worker \ {w} : Rests(u)
           /\ batch'[w] = left /\ waited'[w] = 0
           /\ pc'[w] \in {"idle", "claiming"}
           /\ DOMAIN left # {} => age'[w] = age[w]
  <1>1. WorkersTyped
    BY DEF OutboxTypeOK, WorkersTyped
  <1>2. age[w] \in 0..MaxAge
    BY WorkerRanges
  <1>3. /\ batch'[w] = left /\ waited'[w] = 0
        /\ pc'[w] = IF DOMAIN left = {} THEN "idle" ELSE "claiming"
        /\ age'[w] = IF DOMAIN left = {} THEN 0 ELSE age[w]
    BY <1>1 DEF GoOn, WorkersTyped
  <1>4. WorkersTyped'
    BY <1>1, <1>2 DEF GoOn, WorkersTyped, Busy, Database, OutboxAssumption
  <1>5. OneTyped(w)'
    <2>1. DOMAIN batch'[w] \subseteq Committed'
      BY <1>3
    <2>2. Pending(w)' <=> DOMAIN batch'[w] # {}
      BY <1>3 DEF Pending
    <2>3. waited'[w] <= (CASE pc'[w] = "idle" -> Interval
                           [] pc'[w] = "failing" -> age'[w]
                           [] OTHER -> Timeout)
      BY <1>3 DEF OutboxAssumption
    <2>4. pc'[w] \notin Busy => age'[w] = 0
      BY <1>3 DEF Busy, Database
    <2> QED BY <2>1, <2>2, <2>3, <2>4 DEF OneTyped
  <1>6. \A u \in Worker \ {w} : Rests(u)
    BY <1>1 DEF GoOn, Rests, WorkersTyped
  <1> QED BY <1>3, <1>4, <1>5, <1>6

LEMMA AbandonTyped ==
    ASSUME OutboxAssumption, OutboxTypeOK, NEW w \in Worker,
           NEW to \in {"idle", "down"}, Abandon(w, to)
    PROVE  /\ WorkersTyped' /\ OneTyped(w)'
           /\ \A u \in Worker \ {w} : Rests(u)
           /\ batch'[w] = NoBatch /\ waited'[w] = 0 /\ pc'[w] = to
  <1>1. WorkersTyped
    BY DEF OutboxTypeOK, WorkersTyped
  <1>2. NoBatch \in [{} -> 0..MaxRetries] /\ DOMAIN NoBatch = {}
    BY DEF NoBatch
  <1>3. NoBatch \in Batch
    BY <1>2, BatchBuilt
  <1>4. /\ batch'[w] = NoBatch /\ waited'[w] = 0 /\ pc'[w] = to /\ age'[w] = 0
    BY <1>1 DEF Abandon, WorkersTyped
  <1>5. WorkersTyped'
    BY <1>1, <1>3 DEF Abandon, WorkersTyped, OutboxAssumption
  <1>6. OneTyped(w)'
    <2>1. DOMAIN batch'[w] = {} /\ DOMAIN batch'[w] \subseteq Committed'
      BY <1>2, <1>4
    <2>2. ~Pending(w)'
      BY <1>4 DEF Pending
    <2>3. waited'[w] <= (CASE pc'[w] = "idle" -> Interval
                           [] pc'[w] = "failing" -> age'[w]
                           [] OTHER -> Timeout)
      BY <1>4 DEF OutboxAssumption
    <2> QED BY <1>4, <2>1, <2>2, <2>3 DEF OneTyped
  <1>7. \A u \in Worker \ {w} : Rests(u)
    BY <1>1 DEF Abandon, Rests, WorkersTyped
  <1> QED BY <1>4, <1>5, <1>6, <1>7

\* A worker without a batch has nothing to keep.
LEMMA NothingToKeep ==
    ASSUME NEW w \in Worker, pc[w] \in {"idle", "down", "reading"}, DOMAIN batch[w] = {}
    PROVE  WorkerInv(w)
  BY DEF WorkerInv, LeaseCounts, CountsFollow, Sending

\* While v keeps its tick, a candidate it is not working on stays up to date.
LEMMA StaysUpToDate ==
    ASSUME OutboxAssumption, OutboxTypeOK, NEW v \in Worker, NEW m \in Message,
           UpToDate(v, m), row'[m] = row[m],
           batch'[v][m] = batch[v][m], age'[v] = age[v],
           pc'[v] = "failing" => waited'[v] = 0,
           \A u \in Worker \ {v} : Rests(u)
    PROVE  UpToDate(v, m)'
  <1>1. \A u \in Worker \ {v} :
          /\ pc'[u] = pc[u] /\ waited'[u] = waited[u]
          /\ Current(u)' = Current(u)
    BY RestsAtRow DEF Rests
  <1>2. pc'[v] = "failing" => waited'[v] <= age'[v]
    BY WorkerRanges DEF OutboxAssumption
  <1>3. (\A u \in Worker :
           pc[u] = "failing" /\ Current(u) = m /\ Holds(u) => waited[u] <= age[v])
          => (\A u \in Worker :
                pc[u] = "failing" /\ Current(u) = m /\ Holds(u)
                  => waited[u] <= age[v])'
    BY <1>1, <1>2 DEF Holds
  <1>4. Behind(v, m)' = Behind(v, m)
    BY DEF Behind
  <1> QED BY <1>3, <1>4 DEF UpToDate
-----------------------------------------------------------------------------
\* Leaving a batch, whatever became of the query under way: database_error,
\* crash and stop.
LEMMA AbandonKeeps ==
    ASSUME OutboxAssumption, OutboxInv, NEW w \in Worker,
           NEW to \in {"idle", "down"}, Abandon(w, to), QueryEffect(w),
           delivered \subseteq delivered', delivered' \subseteq Committed
    PROVE  OutboxInv'
  <1>1. OutboxTypeOK
    BY DEF OutboxInv
  <1>2. /\ WorkersTyped' /\ OneTyped(w)'
        /\ \A u \in Worker \ {w} : Rests(u)
        /\ batch'[w] = NoBatch /\ pc'[w] = to
    BY <1>1, AbandonTyped
  <1>3. DOMAIN batch'[w] = {}
    BY <1>2 DEF NoBatch
  <1>4. WorkerInv(w)'
    BY <1>2, <1>3 DEF WorkerInv, LeaseCounts, CountsFollow, Sending
  <1>5. pc'[w] = "failing" => waited'[w] = 0
    BY <1>2
  <1> QED BY <1>2, <1>4, <1>5, StepOfOne

\* Going on to the next row of the batch: skip_lost_claim, mark_processed and
\* mark_failed.
LEMMA GoOnKeeps ==
    ASSUME OutboxAssumption, OutboxInv, NEW w \in Worker,
           pc[w] \in {"claiming", "marking", "failing"},
           GoOn(w, Rest(w)), QueryEffect(w), delivered' = delivered
    PROVE  OutboxInv'
  <1> DEFINE c == Current(w)
  <1>1. OutboxTypeOK /\ WorkerInv(w)
    BY DEF OutboxInv, WorkerInv
  <1>2. batch[w] \in Batch /\ DOMAIN batch[w] \subseteq Committed
    BY <1>1 DEF OutboxTypeOK
  <1>3. /\ Rest(w) \in Batch
        /\ DOMAIN Rest(w) = DOMAIN batch[w] \ {c}
        /\ \A m \in DOMAIN Rest(w) : Rest(w)[m] = batch[w][m]
    <2>1. Rest(w) \in [DOMAIN batch[w] \ {c} -> 0..MaxRetries]
      BY <1>2, BatchTyped DEF Rest
    <2>2. DOMAIN batch[w] \ {c} \in SUBSET Message
      BY <1>2 DEF Committed
    <2> QED BY <2>1, <2>2, BatchBuilt DEF Rest
  <1>4. /\ Committed' = Committed
        /\ \A m \in Message : m # c => row'[m] = row[m]
    BY EffectOnRows
  <1>5. pc[w] \in Busy
    BY DEF Busy, Database
  <1>6. /\ WorkersTyped' /\ OneTyped(w)'
        /\ \A u \in Worker \ {w} : Rests(u)
        /\ batch'[w] = Rest(w) /\ waited'[w] = 0
        /\ pc'[w] \in {"idle", "claiming"}
        /\ DOMAIN Rest(w) # {} => age'[w] = age[w]
    BY <1>1, <1>2, <1>3, <1>4, <1>5, GoOnTyped
  <1>7. CountsFollow(w)'
    <2> SUFFICES ASSUME NEW m \in DOMAIN batch'[w]
                 PROVE  UpToDate(w, m)'
      BY <1>6 DEF CountsFollow, Sending
    <2>1. m \in DOMAIN batch[w] /\ m # c /\ m \in Message
      BY <1>2, <1>3, <1>6 DEF Committed
    <2>2. UpToDate(w, m)
      BY <1>1, <2>1 DEF WorkerInv, CountsFollow
    <2>3. batch'[w][m] = batch[w][m] /\ age'[w] = age[w] /\ row'[m] = row[m]
      BY <1>3, <1>4, <1>6, <2>1
    <2> QED BY <1>1, <1>6, <2>1, <2>2, <2>3, StaysUpToDate
  <1>8. WorkerInv(w)'
    BY <1>6, <1>7 DEF WorkerInv, LeaseCounts, Sending
  <1>9. delivered \subseteq delivered' /\ delivered' \subseteq Committed
    BY <1>1 DEF OutboxTypeOK
  <1>10. pc'[w] = "failing" => waited'[w] = 0
    BY <1>6
  <1> QED BY <1>6, <1>8, <1>9, <1>10, StepOfOne

\* Waking up: poll and restart.
LEMMA WakingKeeps ==
    ASSUME OutboxAssumption, OutboxInv, NEW w \in Worker, poll(w) \/ restart(w)
    PROVE  OutboxInv'
  <1>1. OutboxTypeOK
    BY DEF OutboxInv
  <1>2. /\ pc[w] \in {"idle", "down"} /\ pc' = [pc EXCEPT ![w] = "reading"]
        /\ waited' \in {waited, [waited EXCEPT ![w] = 0]}
        /\ pc[w] = "idle" => waited' = [waited EXCEPT ![w] = 0]
        /\ UNCHANGED <<row, delivered, batch, age>>
    BY DEF poll, restart
  <1>3. WorkersTyped' /\ pc'[w] = "reading" /\ waited'[w] <= Timeout
    BY <1>1, <1>2 DEF OutboxTypeOK, WorkersTyped, Busy, Database, OutboxAssumption
  <1>4. DOMAIN batch[w] = {} /\ DOMAIN batch[w] \subseteq Committed'
    BY <1>1, <1>2 DEF OutboxTypeOK, Pending, Committed
  <1>5. OneTyped(w)'
    BY <1>2, <1>3, <1>4 DEF OneTyped, Pending, Busy, Database
  <1>6. WorkerInv(w)'
    BY <1>2, <1>3, <1>4 DEF WorkerInv, LeaseCounts, CountsFollow, Sending
  <1>7. \A u \in Worker \ {w} : Rests(u)
    BY <1>1, <1>2 DEF Rests, OutboxTypeOK
  <1>8. QueryEffect(w) /\ delivered \subseteq delivered' /\ delivered' \subseteq Committed
    BY <1>1, <1>2 DEF QueryEffect, OutboxTypeOK
  <1> QED BY <1>3, <1>5, <1>6, <1>7, <1>8, StepOfOne

\* What has just been read is up to date.
LEMMA ReadingKeeps ==
    ASSUME OutboxAssumption, OutboxInv, NEW w \in Worker, findMany(w)
    PROVE  OutboxInv'
  <1> DEFINE found == {m \in Message : Eligible(w, m)}
             taken == {m \in found : Cardinality({n \in found : n < m}) < BatchSize}
             left == [m \in taken |-> row[m].retries]
  <1>1. OutboxTypeOK
    BY DEF OutboxInv
  <1>2. /\ pc[w] = "reading" /\ pc[w] \in Busy
        /\ GoOn(w, left) /\ row' = row /\ delivered' = delivered
    BY DEF findMany, Busy, Database
  <1>3. \A m \in taken : m \in Committed /\ m \in Message
    BY DEF Eligible
  <1> HIDE DEF taken
  <1>4. \A m \in taken : row[m].retries \in 0..MaxRetries
    BY <1>1, <1>3 DEF OutboxTypeOK, Committed, Row
  <1>5. left \in Batch /\ DOMAIN left = taken /\ DOMAIN left \subseteq Committed
    <2>1. left \in [taken -> 0..MaxRetries] /\ taken \in SUBSET Message
      BY <1>3, <1>4
    <2> QED BY <1>3, <2>1, BatchBuilt
  <1>6. Committed' = Committed
    BY <1>2 DEF Committed
  <1>7. /\ WorkersTyped' /\ OneTyped(w)'
        /\ \A u \in Worker \ {w} : Rests(u)
        /\ batch'[w] = left /\ waited'[w] = 0
        /\ pc'[w] \in {"idle", "claiming"}
    BY <1>1, <1>2, <1>5, <1>6, GoOnTyped
  <1>8. CountsFollow(w)'
    <2> SUFFICES ASSUME NEW m \in DOMAIN batch'[w]
                 PROVE  UpToDate(w, m)'
      BY <1>7 DEF CountsFollow, Sending
    <2>1. m \in taken /\ batch'[w][m] = row'[m].retries
      BY <1>2, <1>5, <1>7
    <2>2. row[m].retries - row[m].retries = 0
      BY <1>4, <2>1
    <2> QED BY <1>2, <2>1, <2>2 DEF UpToDate, Behind
  <1>9. WorkerInv(w)'
    BY <1>7, <1>8 DEF WorkerInv, LeaseCounts, Sending
  <1>10. QueryEffect(w) /\ delivered \subseteq delivered' /\ delivered' \subseteq Committed
    BY <1>1, <1>2 DEF QueryEffect, OutboxTypeOK
  <1>11. pc'[w] = "failing" => waited'[w] = 0
    BY <1>7
  <1> QED BY <1>7, <1>9, <1>10, <1>11, StepOfOne

\* The row that is claimed is up to date and eligible: not settled, due and
\* free, by the tick of the batch.
LEMMA ClaimKeeps ==
    ASSUME OutboxAssumption, OutboxInv, NEW w \in Worker, claim(w)
    PROVE  OutboxInv'
  <1> DEFINE c == Current(w)
  <1>1. OutboxTypeOK /\ WorkerInv(w)
    BY DEF OutboxInv, WorkerInv
  <1>2. /\ pc[w] = "claiming" /\ Eligible(w, c) /\ row' = Claimed(w, c)
        /\ pc' = [pc EXCEPT ![w] = "publishing"]
        /\ UNCHANGED <<delivered, batch, age, waited>>
    BY DEF claim
  <1>3. /\ c \in DOMAIN batch[w] /\ c \in Message /\ row[c] \in Row
        /\ DOMAIN batch[w] \subseteq Message
    BY <1>1, <1>2, CurrentInBatch DEF Pending, OutboxTypeOK, Committed
  <1>4. /\ row'[c] = [row[c] EXCEPT !.owner = w, !.lock = Lease - age[w]]
        /\ \A m \in Message : m # c => row'[m] = row[m]
    BY <1>1, <1>2, ClaimedRow
  <1>5. /\ row'[c].owner = w /\ row'[c].lock = Lease - age[w]
        /\ row'[c].due = row[c].due /\ row'[c].retries = row[c].retries
    BY <1>3, <1>4 DEF Row
  <1>6. QueryEffect(w)
    BY <1>2 DEF QueryEffect
  <1>7. /\ WorkersTyped' /\ pc'[w] = "publishing"
        /\ \A u \in Worker \ {w} : Rests(u)
    BY <1>1, <1>2 DEF OutboxTypeOK, WorkersTyped, Busy, Rests
  <1>8. OneTyped(w)'
    <2>1. Committed' = Committed
      BY <1>6, EffectOnRows
    <2>2. waited[w] <= Timeout /\ DOMAIN batch[w] \subseteq Committed
      BY <1>1, <1>2 DEF OutboxTypeOK
    <2> QED BY <1>2, <1>3, <1>7, <2>1, <2>2 DEF OneTyped, Pending, Busy
  <1>9. Current(w)' = c /\ Holds(w)'
    BY <1>2, <1>5 DEF Current, Holds
  <1>10. row[c].due <= -age[w] /\ row[c].status # "PROCESSED"
    BY <1>2 DEF Eligible
  <1>11. LeaseCounts(w)'
    BY <1>2, <1>5, <1>9, <1>10 DEF LeaseCounts
  <1>12. CountsFollow(w)'
    <2> SUFFICES ASSUME NEW m \in DOMAIN batch[w]
                 PROVE  (IF Sending(w) /\ m = Current(w)
                         THEN Holds(w) => Behind(w, m) \in {0, 1}
                         ELSE UpToDate(w, m))'
      BY <1>2 DEF CountsFollow
    <2>1. UpToDate(w, m)
      BY <1>1, <1>2 DEF WorkerInv, CountsFollow, Sending
    <2>2. CASE m = c
      <3>1. row[c].due \in Int /\ age[w] \in Int
        BY <1>1, <1>3, WorkerRanges DEF Row, OutboxAssumption
      <3>2. Behind(w, c) \in {0, 1}
        BY <1>10, <2>1, <2>2, <3>1 DEF UpToDate
      <3>3. Behind(w, m)' = Behind(w, m)
        BY <1>2, <1>5, <2>2 DEF Behind
      <3> QED BY <1>7, <1>9, <2>2, <3>2, <3>3 DEF Sending
    <2>3. CASE m # c
      <3>1. m \in Message /\ row'[m] = row[m]
        BY <1>3, <1>4, <2>3
      <3>2. batch'[w][m] = batch[w][m] /\ age'[w] = age[w]
        BY <1>2
      <3>3. UpToDate(w, m)'
        BY <1>1, <1>7, <2>1, <3>1, <3>2, StaysUpToDate
      <3> QED BY <1>9, <2>3, <3>3
    <2> QED BY <2>2, <2>3
  <1>13. WorkerInv(w)'
    BY <1>7, <1>11, <1>12 DEF WorkerInv
  <1>14. delivered \subseteq delivered' /\ delivered' \subseteq Committed
    BY <1>1, <1>2 DEF OutboxTypeOK
  <1> QED BY <1>6, <1>7, <1>8, <1>13, <1>14, StepOfOne

\* An answer of the publisher, or its absence, changes nothing in the table.
LEMMA PublishKeeps ==
    ASSUME OutboxAssumption, OutboxInv, NEW w \in Worker,
           publish(w) \/ publish_fails(w)
    PROVE  OutboxInv'
  <1> DEFINE c == Current(w)
  <1>1. OutboxTypeOK /\ WorkerInv(w)
    BY DEF OutboxInv, WorkerInv
  <1>2. /\ pc[w] = "publishing"
        /\ delivered' \in {delivered, delivered \cup {c}}
        /\ \E to \in {"marking", "failing"} :
             /\ pc' = [pc EXCEPT ![w] = to]
             /\ to = "marking" => delivered' = delivered \cup {c}
        /\ waited' = [waited EXCEPT ![w] = 0]
        /\ UNCHANGED <<row, batch, age>>
    BY DEF publish, publish_fails
  <1>3. /\ c \in DOMAIN batch[w] /\ c \in Committed
        /\ DOMAIN batch[w] \subseteq Committed /\ DOMAIN batch[w] \subseteq Message
    BY <1>1, <1>2, CurrentInBatch DEF Pending, OutboxTypeOK, Committed
  <1>4. /\ WorkersTyped' /\ pc'[w] \in {"marking", "failing"} /\ waited'[w] = 0
        /\ pc'[w] = "marking" => delivered' = delivered \cup {c}
        /\ \A u \in Worker \ {w} : Rests(u)
    BY <1>1, <1>2 DEF OutboxTypeOK, WorkersTyped, Busy, Database, Rests
  <1>5. Committed' = Committed /\ Current(w)' = c /\ (Holds(w)' <=> Holds(w))
    BY <1>2 DEF Committed, Current, Holds
  <1>6. OneTyped(w)'
    <2>1. age'[w] \in 0..MaxAge /\ DOMAIN batch'[w] # {}
      BY <1>1, <1>2, <1>3, WorkerRanges
    <2>2. waited'[w] <= (CASE pc'[w] = "idle" -> Interval
                           [] pc'[w] = "failing" -> age'[w]
                           [] OTHER -> Timeout)
      BY <1>4, <2>1 DEF OutboxAssumption
    <2> QED BY <1>2, <1>3, <1>4, <1>5, <2>1, <2>2 DEF OneTyped, Pending, Busy, Database
  <1>7. LeaseCounts(w)'
    BY <1>1, <1>2, <1>4, <1>5 DEF WorkerInv, LeaseCounts, Sending
  <1>8. CountsFollow(w)'
    <2> SUFFICES ASSUME NEW m \in DOMAIN batch[w]
                 PROVE  (IF Sending(w) /\ m = Current(w)
                         THEN Holds(w) => Behind(w, m) \in {0, 1}
                         ELSE UpToDate(w, m))'
      BY <1>2 DEF CountsFollow
    <2>1. IF m = c THEN Holds(w) => Behind(w, m) \in {0, 1} ELSE UpToDate(w, m)
      BY <1>1, <1>2 DEF WorkerInv, CountsFollow, Sending
    <2>2. CASE m = c
      <3>1. Behind(w, m)' = Behind(w, m)
        BY <1>2 DEF Behind
      <3> QED BY <1>4, <1>5, <2>1, <2>2, <3>1 DEF Sending
    <2>3. CASE m # c
      <3>1. m \in Message /\ row'[m] = row[m] /\ batch'[w][m] = batch[w][m]
        BY <1>2, <1>3
      <3>2. UpToDate(w, m)'
        BY <1>1, <1>2, <1>4, <2>1, <2>3, <3>1, StaysUpToDate
      <3> QED BY <1>5, <2>3, <3>2
    <2> QED BY <2>2, <2>3
  <1>9. WorkerInv(w)'
    BY <1>4, <1>5, <1>7, <1>8 DEF WorkerInv
  <1>10. QueryEffect(w) /\ delivered \subseteq delivered' /\ delivered' \subseteq Committed
    BY <1>1, <1>2, <1>3 DEF QueryEffect, OutboxTypeOK
  <1> QED BY <1>4, <1>6, <1>9, <1>10, StepOfOne
-----------------------------------------------------------------------------
\* A new row concerns nobody yet.
LEMMA CommitKeeps ==
    ASSUME OutboxAssumption, OutboxInv, NEW m \in Message, Commit(m)
    PROVE  OutboxInv'
  <1>1. OutboxTypeOK /\ SettledRows
    BY DEF OutboxInv
  <1>2. PICK due \in (-MaxAge)..0 : row' = [row EXCEPT ![m] = Created(due)]
    BY DEF Commit
  <1>3. row[m] = NoRow /\ UNCHANGED <<delivered, pc, batch, age, waited>>
    BY DEF Commit
  <1>4. Created(due) \in Row /\ Created(due) # NoRow
    BY DEF Created, Row, OutboxAssumption
  <1>5. /\ row' \in [Message -> Row \cup {NoRow}] /\ row'[m] = Created(due)
        /\ \A n \in Message : n # m => row'[n] = row[n]
    BY <1>1, <1>2, <1>4 DEF OutboxTypeOK
  <1>6. m \notin Committed /\ Committed' = Committed \cup {m}
    BY <1>3, <1>4, <1>5 DEF Committed
  <1>7. Processed' = Processed
    BY <1>4, <1>5, <1>6 DEF Processed, Committed, Created
  <1>8. \A n \in Committed : row'[n] = row[n] /\ n \in Message
    BY <1>5, <1>6 DEF Committed
  <1>9. OutboxTypeOK'
    BY <1>1, <1>3, <1>5, <1>6 DEF OutboxTypeOK, Pending
  <1>10. SettledRows'
    BY <1>1, <1>3, <1>7, <1>8 DEF SettledRows, Processed
  <1>11. \A u \in Worker : Pending(u) =>
           /\ Current(u)' = Current(u) /\ Current(u) \in Committed
           /\ (Holds(u)' <=> Holds(u)) /\ row'[Current(u)] = row[Current(u)]
    BY <1>1, <1>3, <1>8, CurrentInBatch DEF Current, Holds
  <1>12. ASSUME NEW w \in Worker
         PROVE  WorkerInv(w)'
    <2>1. WorkerInv(w)
      BY DEF OutboxInv, WorkerInv
    <2>2. LeaseCounts(w)'
      BY <1>3, <1>11, <2>1 DEF WorkerInv, LeaseCounts, Sending, Pending
    <2>3. (pc[w] = "marking" => Current(w) \in delivered)'
      BY <1>3, <1>11, <2>1 DEF WorkerInv, Pending
    <2>4. CountsFollow(w)'
      <3> SUFFICES ASSUME NEW n \in DOMAIN batch[w]
                   PROVE  (IF Sending(w) /\ n = Current(w)
                           THEN Holds(w) => Behind(w, n) \in {0, 1}
                           ELSE UpToDate(w, n))'
        BY <1>3 DEF CountsFollow
      <3>1. IF Sending(w) /\ n = Current(w)
            THEN Holds(w) => Behind(w, n) \in {0, 1}
            ELSE UpToDate(w, n)
        BY <2>1 DEF WorkerInv, CountsFollow
      <3>2. row'[n] = row[n] /\ Behind(w, n)' = Behind(w, n)
        BY <1>1, <1>3, <1>8 DEF OutboxTypeOK, Behind
      <3>3. UpToDate(w, n) => UpToDate(w, n)'
        <4>1. \A u \in Worker : (pc[u] = "failing" /\ Current(u) = n /\ Holds(u))'
                                => pc[u] = "failing" /\ Current(u) = n /\ Holds(u)
          BY <1>3, <1>11 DEF Pending
        <4> QED BY <1>3, <3>2, <4>1 DEF UpToDate
      <3>4. Sending(w)' <=> Sending(w)
        BY <1>3 DEF Sending
      <3>5. Sending(w) => Pending(w)
        BY DEF Sending, Pending
      <3> QED BY <1>11, <3>1, <3>2, <3>3, <3>4, <3>5
    <2> QED BY <2>2, <2>3, <2>4 DEF WorkerInv
  <1> QED BY <1>9, <1>10, <1>12 DEF OutboxInv, WorkerInv

\* What a tick does to one row.
LEMMA TickRow ==
    ASSUME OutboxAssumption, OutboxTypeOK, Tick, NEW m \in Committed
    PROVE  /\ m \in Message /\ row[m] \in Row /\ row'[m] \in Row
           /\ row'[m].status = row[m].status /\ row'[m].owner = row[m].owner
           /\ row'[m].retries = row[m].retries
           /\ m \notin Processed =>
                /\ row'[m].due = AtLeast(row[m].due - 1, -MaxAge)
                /\ row[m].lock \in Int =>
                     row'[m].lock = AtLeast(row[m].lock - 1, -MaxAge - 1)
  <1>1. MaxAge \in Nat /\ Lease \in Nat \ {0} /\ RetryMax \in Nat
    BY DEF OutboxAssumption
  <1>2. \A n \in Message :
          row'[n] = IF n \in Committed \ Processed
                    THEN [row[n] EXCEPT
                            !.due = AtLeast(@ - 1, -MaxAge),
                            !.lock = IF @ = NoLock THEN NoLock
                                     ELSE AtLeast(@ - 1, -MaxAge - 1)]
                    ELSE row[n]
    BY DEF Tick
  <1>3. m \in Message /\ row[m] \in Row
    BY DEF Committed, OutboxTypeOK
  <1>4. CASE m \in Processed
    BY <1>2, <1>3, <1>4
  <1>5. CASE m \notin Processed
    <2> DEFINE due == AtLeast(row[m].due - 1, -MaxAge)
               lock == IF row[m].lock = NoLock THEN NoLock
                       ELSE AtLeast(row[m].lock - 1, -MaxAge - 1)
    <2>1. due \in (-MaxAge)..RetryMax
      BY <1>1, <1>3 DEF Row, AtLeast
    <2>2. lock \in (-MaxAge - 1)..Lease \cup {NoLock}
      BY <1>1, <1>3 DEF Row, AtLeast
    <2>3. row'[m] = [row[m] EXCEPT !.due = due, !.lock = lock]
      BY <1>2, <1>3, <1>5 DEF Row
    <2>4. row[m].lock \in Int => lock = AtLeast(row[m].lock - 1, -MaxAge - 1)
      BY DEF OutboxAssumption
    <2> HIDE DEF due, lock
    <2>5. row'[m] \in Row /\ row'[m].due = due /\ row'[m].lock = lock
      BY <1>3, <2>1, <2>2, <2>3 DEF Row
    <2>6. /\ row'[m].status = row[m].status /\ row'[m].owner = row[m].owner
          /\ row'[m].retries = row[m].retries
      BY <1>3, <2>3 DEF Row
    <2> QED BY <1>3, <1>5, <2>4, <2>5, <2>6 DEF due
  <1> QED BY <1>4, <1>5

\* Time passes for rows and workers alike, and no worker gets so old that the
\* bounds would blur what it knows.
LEMMA TickKeeps ==
    ASSUME OutboxAssumption, OutboxInv, Tick
    PROVE  OutboxInv'
  <1>1. OutboxTypeOK /\ SettledRows
    BY DEF OutboxInv
  <1>2. /\ MaxAge \in Nat /\ Lease \in Nat \ {0} /\ RetryMax \in Nat
        /\ Interval \in Nat /\ Timeout \in Nat
    BY DEF OutboxAssumption
  <1>3. /\ UNCHANGED <<delivered, pc, batch>>
        /\ \A w \in Worker : pc[w] \in Busy => age[w] < MaxAge
        /\ \A w \in Worker : pc[w] = "publishing" => waited[w] < Timeout
    BY DEF Tick
  <1>4. \A m \in Message :
          row'[m] = IF m \in Committed \ Processed
                    THEN [row[m] EXCEPT
                            !.due = AtLeast(@ - 1, -MaxAge),
                            !.lock = IF @ = NoLock THEN NoLock
                                     ELSE AtLeast(@ - 1, -MaxAge - 1)]
                    ELSE row[m]
    BY DEF Tick
  <1>5. \A w \in Worker : age'[w] = IF pc[w] \in Busy THEN age[w] + 1 ELSE age[w]
    BY DEF Tick
  <1>6. \A w \in Worker :
          waited'[w] = CASE pc[w] \in {"publishing", "failing"} -> waited[w] + 1
                         [] pc[w] = "idle" -> AtMost(waited[w] + 1, Interval)
                         [] OTHER -> waited[w]
    BY DEF Tick
  <1>7. \A m \in Committed :
          /\ m \in Message /\ row[m] \in Row /\ row'[m] \in Row
          /\ row'[m].status = row[m].status /\ row'[m].owner = row[m].owner
          /\ row'[m].retries = row[m].retries
          /\ m \notin Processed =>
               /\ row'[m].due = AtLeast(row[m].due - 1, -MaxAge)
               /\ row[m].lock \in Int =>
                    row'[m].lock = AtLeast(row[m].lock - 1, -MaxAge - 1)
    BY <1>1, TickRow
  <1>8. Committed' = Committed /\ Processed' = Processed
    <2>1. \A m \in Message : m \notin Committed => row'[m] = row[m]
      BY <1>4
    <2>2. \A m \in Committed : row'[m] # NoRow
      BY <1>7 DEF OutboxAssumption
    <2>3. Committed' = Committed
      BY <2>1, <2>2 DEF Committed
    <2> QED BY <1>7, <2>3 DEF Processed
  <1>9. SettledRows'
    BY <1>1, <1>3, <1>7, <1>8 DEF SettledRows, Processed
  <1>10. OutboxTypeOK'
    <2>1. row' \in [Message -> Row \cup {NoRow}]
      <3>1. row' = [m \in Message |-> row'[m]]
        BY DEF Tick
      <3>2. \A m \in Message : row'[m] \in Row \cup {NoRow}
        BY <1>1, <1>4, <1>7 DEF OutboxTypeOK
      <3> QED BY <3>1, <3>2
    <2>2. age' \in [Worker -> 0..MaxAge]
      <3>1. age' = [w \in Worker |-> age'[w]]
        BY DEF Tick
      <3>2. \A w \in Worker : age'[w] \in 0..MaxAge
        BY <1>1, <1>2, <1>3, <1>5 DEF OutboxTypeOK
      <3> QED BY <3>1, <3>2
    <2>3. \A w \in Worker :
            /\ waited'[w] \in Nat
            /\ waited'[w] <= (CASE pc'[w] = "idle" -> Interval
                                [] pc'[w] = "failing" -> age'[w]
                                [] OTHER -> Timeout)
      <3> TAKE w \in Worker
      <3>1. waited[w] \in Nat /\ age[w] \in Nat
        BY <1>1, <1>2, WorkerRanges
      <3>2. waited[w] <= (CASE pc[w] = "idle" -> Interval
                            [] pc[w] = "failing" -> age[w]
                            [] OTHER -> Timeout)
        BY <1>1 DEF OutboxTypeOK
      <3>3. pc[w] = "failing" => age'[w] = age[w] + 1
        BY <1>5 DEF Busy, Database
      <3> QED BY <1>2, <1>3, <1>6, <3>1, <3>2, <3>3 DEF AtMost
    <2>4. waited' \in [Worker -> Nat]
      <3>1. waited' = [w \in Worker |-> waited'[w]]
        BY DEF Tick
      <3> QED BY <2>3, <3>1
    <2>5. \A w \in Worker : pc'[w] \notin Busy => age'[w] = 0
      BY <1>1, <1>3, <1>5 DEF OutboxTypeOK
    <2> QED BY <1>1, <1>3, <1>8, <2>1, <2>2, <2>3, <2>4, <2>5 DEF OutboxTypeOK, Pending
  <1>11. \A u \in Worker : Pending(u) =>
           /\ Current(u)' = Current(u) /\ Current(u) \in Committed
           /\ (Holds(u)' <=> Holds(u)) /\ age'[u] = age[u] + 1
    BY <1>1, <1>3, <1>5, <1>7, CurrentInBatch DEF Current, Holds, Pending, Busy, Database
  <1>12. ASSUME NEW w \in Worker
         PROVE  WorkerInv(w)'
    <2>1. WorkerInv(w)
      BY DEF OutboxInv, WorkerInv
    <2>2. age[w] \in 0..MaxAge /\ (Pending(w) => age[w] < MaxAge)
      BY <1>1, <1>3, WorkerRanges DEF Pending, Busy, Database
    <2>3. (pc[w] = "marking" => Current(w) \in delivered)'
      BY <1>3, <1>11, <2>1 DEF WorkerInv, Pending
    <2>4. LeaseCounts(w)'
      <3> SUFFICES ASSUME Sending(w)
                   PROVE  LeaseCounts(w)'
        BY <1>3 DEF LeaseCounts, Sending
      <3>1. Pending(w)
        BY DEF Sending, Pending
      <3>2. CASE ~Holds(w)
        BY <1>2, <1>11, <2>1, <2>2, <3>1, <3>2 DEF WorkerInv, LeaseCounts
      <3>3. CASE Holds(w)
        <4>1. row[Current(w)].lock = Lease - age[w] /\ row[Current(w)].due <= -age[w]
          BY <2>1, <3>3 DEF WorkerInv, LeaseCounts
        <4>2. Current(w) \in Committed \ Processed
          BY <1>1, <1>11, <3>1, <3>3 DEF SettledRows, Holds, OutboxAssumption
        <4>3. row[Current(w)].due \in Int
          BY <1>7, <4>2 DEF Row, OutboxAssumption
        <4>4. /\ row'[Current(w)].lock = Lease - (age[w] + 1)
              /\ row'[Current(w)].due <= -(age[w] + 1)
          BY <1>2, <1>7, <2>2, <3>1, <4>1, <4>2, <4>3 DEF AtLeast
        <4> QED BY <1>11, <3>1, <3>3, <4>4 DEF LeaseCounts
      <3> QED BY <3>2, <3>3
    <2>5. CountsFollow(w)'
      <3> SUFFICES ASSUME NEW m \in DOMAIN batch[w]
                   PROVE  (IF Sending(w) /\ m = Current(w)
                           THEN Holds(w) => Behind(w, m) \in {0, 1}
                           ELSE UpToDate(w, m))'
        BY <1>3 DEF CountsFollow
      <3>1. IF Sending(w) /\ m = Current(w)
            THEN Holds(w) => Behind(w, m) \in {0, 1}
            ELSE UpToDate(w, m)
        BY <2>1 DEF WorkerInv, CountsFollow
      <3>2. Pending(w) /\ m \in Committed /\ (Sending(w)' <=> Sending(w))
        BY <1>1, <1>3 DEF OutboxTypeOK, Sending
      <3>3. Behind(w, m)' = Behind(w, m)
        BY <1>3, <1>7, <3>2 DEF Behind
      <3>4. UpToDate(w, m) => UpToDate(w, m)'
        <4>1. CASE m \notin Processed /\ row[m].due > -age[w]
          <5>1. row[m].due \in Int /\ row'[m].due = AtLeast(row[m].due - 1, -MaxAge)
            BY <1>7, <3>2, <4>1 DEF Row, OutboxAssumption
          <5>2. row'[m].due > -(age[w] + 1)
            BY <1>2, <2>2, <4>1, <5>1 DEF AtLeast
          <5> QED BY <1>11, <3>2, <5>2 DEF UpToDate
        <4>2. CASE row[m].status = "PROCESSED"
          BY <1>7, <3>2, <4>2 DEF UpToDate
        <4>3. CASE Behind(w, m) = 0
          BY <3>3, <4>3 DEF UpToDate
        <4>4. CASE /\ Behind(w, m) = 1
                   /\ \A v \in Worker :
                        pc[v] = "failing" /\ Current(v) = m /\ Holds(v)
                          => waited[v] <= age[w]
          <5>1. ASSUME NEW v \in Worker, (pc[v] = "failing" /\ Current(v) = m /\ Holds(v))'
                PROVE  waited'[v] <= age'[w]
            <6>1. pc[v] = "failing" /\ Current(v) = m /\ Holds(v)
              BY <1>3, <1>11, <5>1 DEF Pending
            <6>2. waited'[v] = waited[v] + 1 /\ waited[v] \in Nat
              BY <1>1, <1>6, <6>1, WorkerRanges
            <6> QED BY <1>11, <2>2, <3>2, <4>4, <6>1, <6>2
          <5> QED BY <3>3, <4>4, <5>1 DEF UpToDate
        <4> QED BY <3>2, <4>1, <4>2, <4>3, <4>4 DEF UpToDate, Processed
      <3> QED BY <1>11, <3>1, <3>2, <3>3, <3>4
    <2> QED BY <2>3, <2>4, <2>5 DEF WorkerInv
  <1> QED BY <1>9, <1>10, <1>12 DEF OutboxInv, WorkerInv
-----------------------------------------------------------------------------
LEMMA OutboxInit ==
    ASSUME OutboxAssumption, Init
    PROVE  OutboxInv
  <1>1. Committed = {} /\ Processed = {}
    BY DEF Init, Committed, Processed
  <1>2. DOMAIN NoBatch = {} /\ NoBatch \in Batch
    <2>1. NoBatch \in [{} -> 0..MaxRetries]
      BY DEF NoBatch
    <2> QED BY <2>1, BatchBuilt
  <1>3. \A w \in Worker : pc[w] = "idle" /\ batch[w] = NoBatch /\ waited[w] = Interval /\ age[w] = 0
    BY DEF Init
  <1>4. OutboxTypeOK
    BY <1>1, <1>2, <1>3 DEF OutboxTypeOK, Init, Pending, Busy, Database, OutboxAssumption
  <1>5. \A w \in Worker : WorkerInv(w)
    BY <1>2, <1>3, NothingToKeep
  <1> QED BY <1>1, <1>4, <1>5 DEF OutboxInv, SettledRows, WorkerInv

\* Every step of every worker, every commit and every tick keeps the
\* invariant.
LEMMA OutboxNext ==
    ASSUME OutboxAssumption, OutboxInv, [Next]_vars
    PROVE  OutboxInv'
  <1>1. OutboxTypeOK
    BY DEF OutboxInv
  <1>2. ASSUME NEW w \in Worker, Work(w)
        PROVE  OutboxInv'
    <2>1. CASE poll(w)
      BY <2>1, WakingKeeps
    <2>2. CASE findMany(w)
      BY <2>2, ReadingKeeps
    <2>3. CASE claim(w)
      BY <2>3, ClaimKeeps
    <2>4. CASE skip_lost_claim(w)
      BY <2>4, GoOnKeeps DEF skip_lost_claim, QueryEffect
    <2>5. CASE publish(w)
      BY <2>5, PublishKeeps
    <2>6. CASE mark_processed(w)
      BY <2>6, GoOnKeeps DEF mark_processed, QueryEffect
    <2> QED BY <1>2, <2>1, <2>2, <2>3, <2>4, <2>5, <2>6 DEF Work
  <1>3. ASSUME NEW w \in Worker, Fault(w)
        PROVE  OutboxInv'
    <2>1. CASE publish_fails(w)
      BY <2>1, PublishKeeps
    <2>2. CASE mark_failed(w)
      BY <2>2, GoOnKeeps DEF mark_failed, QueryEffect
    <2>3. CASE database_error(w)
      <3>1. delivered' = delivered /\ delivered \subseteq Committed
        BY <1>1, <2>3 DEF database_error, OutboxTypeOK
      <3>2. QueryEffect(w)
        BY <2>3, WrittenIsEffect DEF database_error
      <3> QED BY <2>3, <3>1, <3>2, AbandonKeeps DEF database_error
    <2>4. CASE crash(w)
      <3>1. QueryEffect(w)
        BY <2>4, WrittenIsEffect DEF crash
      <3>2. delivered \subseteq delivered' /\ delivered' \subseteq Committed
        BY <1>1, <2>4, CurrentInBatch DEF crash, OutboxTypeOK, Pending
      <3> QED BY <2>4, <3>1, <3>2, AbandonKeeps DEF crash
    <2>5. CASE stop(w)
      BY <1>1, <2>5, AbandonKeeps DEF stop, QueryEffect, OutboxTypeOK
    <2>6. CASE restart(w)
      BY <2>6, WakingKeeps
    <2> QED BY <1>3, <2>1, <2>2, <2>3, <2>4, <2>5, <2>6 DEF Fault
  <1>4. CASE \E m \in Message : Commit(m)
    BY <1>4, CommitKeeps
  <1>5. CASE Tick
    BY <1>5, TickKeeps
  <1>6. CASE UNCHANGED vars
    BY <1>6 DEF vars, OutboxInv, OutboxTypeOK, SettledRows, LeaseCounts, CountsFollow,
       UpToDate, Behind, Holds, Current, Sending, Pending, Committed, Processed
  <1> QED BY <1>2, <1>3, <1>4, <1>5, <1>6 DEF Next

\* The invariant holds in every reachable state of the outbox, for any number
\* of workers and notifications.
THEOREM OutboxInvariant ==
    Spec => []OutboxInv
  <1>1. Init => OutboxInv
    BY OutboxInit, OutboxAssumption
  <1>2. OutboxInv /\ [Next]_vars => OutboxInv'
    BY OutboxNext, OutboxAssumption
  <1> QED BY <1>1, <1>2, PTL DEF Spec

\* Rows and workers keep their types, whatever fails
\* (services/settlementOutbox.js).
THEOREM OutboxTyping ==
    Spec => []OutboxTypeOK
  <1>1. OutboxInv => OutboxTypeOK
    BY DEF OutboxInv
  <1> QED BY <1>1, OutboxInvariant, PTL

\* No lease is taken over before it has expired, counted from the tick of the
\* batch: the conditional update of settlementOutbox.js:88-93 is enough,
\* however the workers' steps, failures and restarts interleave.
THEOREM LeasesAreRespected ==
    Spec => []LeaseRespected
  <1>1. OutboxInv => LeaseRespected
    BY DEF OutboxInv, LeaseCounts, LeaseRespected
  <1> QED BY <1>1, OutboxInvariant, PTL

\* The count of retries that a delay is computed from is at most one behind
\* (settlementOutbox.js:102), for any number of workers.
THEOREM BackoffIsBounded ==
    Spec => []BackoffIsCurrent
  <1>1. OutboxInv => BackoffIsCurrent
    <2> SUFFICES ASSUME OutboxInv, NEW w \in Worker, Sending(w), Holds(w)
                 PROVE  row[Current(w)].retries - batch[w][Current(w)] \in {0, 1}
      BY DEF BackoffIsCurrent
    <2>1. Current(w) \in DOMAIN batch[w]
      BY OutboxAssumption, CurrentInBatch DEF OutboxInv, Pending, Sending
    <2> QED BY <2>1 DEF OutboxInv, CountsFollow, Behind
  <1> QED BY <1>1, OutboxInvariant, PTL
-----------------------------------------------------------------------------
\* A query settles the row of its worker, after a delivery, or none.
LEMMA EffectSettles ==
    ASSUME OutboxAssumption, OutboxInv, NEW v \in Worker, QueryEffect(v)
    PROVE  /\ Committed' = Committed
           /\ \/ Processed' = Processed
              \/ /\ pc[v] = "marking"
                 /\ Processed' = Processed \cup {Current(v)}
                 /\ Current(v) \in delivered
                 /\ Current(v) \in Message
  <1> DEFINE c == Current(v)
  <1>1. OutboxTypeOK
    BY DEF OutboxInv
  <1>2. /\ Committed' = Committed
        /\ \A m \in Message : m # c => row'[m] = row[m]
    BY EffectOnRows
  <1>3. CASE row' = row
    BY <1>3 DEF Processed, Committed
  <1>4. CASE c \in Committed /\ row'[c].status # "PROCESSED" /\ row[c].status # "PROCESSED"
    BY <1>2, <1>4 DEF Processed, Committed
  <1>5. CASE /\ pc[v] = "claiming" /\ Eligible(v, Current(v))
             /\ row' = Claimed(v, Current(v))
    <2>1. row[c] \in Row /\ c \in Committed /\ row[c].status # "PROCESSED"
      BY <1>1, <1>5, CurrentInBatch DEF Pending, Eligible
    <2>2. row'[c].status = row[c].status
      BY <1>1, <1>5, <2>1, ClaimedRow DEF Row
    <2> QED BY <1>4, <2>1, <2>2
  <1>6. CASE pc[v] = "marking" /\ row' = Marked(v, Current(v)) /\ Holds(v)
    <2>1. row[c] \in Row /\ c \in Committed /\ c \in Message
      BY <1>1, <1>6, CurrentInBatch DEF Pending
    <2>2. row'[c].status = "PROCESSED"
      BY <1>1, <1>6, <2>1, MarkedRow DEF Row
    <2>3. c \in delivered
      BY <1>6 DEF OutboxInv
    <2>4. Processed' = Processed \cup {c}
      BY <1>2, <2>1, <2>2 DEF Processed, Committed
    <2> QED BY <1>2, <1>6, <2>1, <2>3, <2>4
  <1>7. CASE pc[v] = "failing" /\ row' = Failed(v, Current(v)) /\ Holds(v)
    <2>1. c \in Committed /\ row[c].owner # NoOwner
      BY <1>1, <1>7, CurrentInBatch DEF Pending, Holds, OutboxAssumption
    <2>2. row[c].status # "PROCESSED"
      BY <2>1 DEF OutboxInv, SettledRows, Processed
    <2>3. row'[c].status # "PROCESSED"
      BY <1>1, <1>7, FailedRow
    <2> QED BY <1>4, <2>1, <2>2, <2>3
  <1>8. row' = Marked(v, Current(v)) /\ ~Holds(v) => row' = row
    BY DEF Marked, Holds
  <1>9. row' = Failed(v, Current(v)) /\ ~Holds(v) => row' = row
    BY DEF Failed, Holds
  <1> QED BY <1>3, <1>5, <1>6, <1>7, <1>8, <1>9 DEF QueryEffect

\* A worker's step, seen from the promise: an update may settle, an answer may
\* deliver.
LEMMA WorkerStepPromised ==
    ASSUME OutboxAssumption, OutboxInv, NEW v \in Worker, QueryEffect(v),
           \/ delivered' = delivered
           \/ /\ pc[v] = "publishing" /\ row' = row
              /\ delivered' = delivered \cup {Current(v)}
    PROVE  [Promise!OutboxStep]_(Promise!outboxVars)
  <1>1. CASE delivered' = delivered
    BY <1>1, EffectSettles DEF Promise!OutboxStep, Promise!Settle, Promise!outboxVars
  <1>2. CASE /\ pc[v] = "publishing" /\ row' = row
             /\ delivered' = delivered \cup {Current(v)}
    <2>1. Current(v) \in Committed /\ Current(v) \in Message
      BY <1>2, CurrentInBatch DEF OutboxInv, Pending
    <2>2. Committed' = Committed /\ Processed' = Processed
      BY <1>2 DEF Committed, Processed
    <2> QED BY <1>2, <2>1, <2>2 DEF Promise!OutboxStep, Promise!Deliver, Promise!outboxVars
  <1> QED BY <1>1, <1>2

\* Every step of the outbox is a step of the promise, or none.
LEMMA StepPromised ==
    ASSUME OutboxAssumption, OutboxInv, [Next]_vars
    PROVE  [Promise!OutboxStep]_(Promise!outboxVars)
  <1>1. ASSUME NEW w \in Worker, Work(w) \/ Fault(w)
        PROVE  [Promise!OutboxStep]_(Promise!outboxVars)
    <2>1. CASE row' = row /\ delivered' = delivered
      BY <2>1, WorkerStepPromised DEF QueryEffect
    <2>2. CASE publish(w) \/ publish_fails(w)
      BY <2>2, WorkerStepPromised DEF QueryEffect, publish, publish_fails
    <2>3. CASE claim(w) \/ mark_processed(w) \/ mark_failed(w)
      BY <2>3, WorkerStepPromised DEF QueryEffect, claim, mark_processed, mark_failed
    <2>4. CASE database_error(w)
      BY <2>4, WrittenIsEffect, WorkerStepPromised DEF database_error
    <2>5. CASE crash(w)
      <3>1. QueryEffect(w)
        BY <2>5, WrittenIsEffect DEF crash
      <3>2. pc[w] = "publishing" => row' = row
        BY <2>5 DEF crash, Written
      <3>3. pc[w] # "publishing" => delivered' = delivered
        BY <2>5 DEF crash
      <3>4. delivered' = delivered \/ delivered' = delivered \cup {Current(w)}
        BY <2>5 DEF crash
      <3> QED BY <3>1, <3>2, <3>3, <3>4, WorkerStepPromised
    <2> QED
      BY <1>1, <2>1, <2>2, <2>3, <2>4, <2>5
      DEF Work, Fault, poll, findMany, skip_lost_claim, stop, restart
  <1>2. ASSUME NEW m \in Message, Commit(m)
        PROVE  [Promise!OutboxStep]_(Promise!outboxVars)
    <2>1. PICK due \in (-MaxAge)..0 : row' = [row EXCEPT ![m] = Created(due)]
      BY <1>2 DEF Commit
    <2>2. row[m] = NoRow /\ delivered' = delivered
      BY <1>2 DEF Commit
    <2>3. Created(due) \in Row /\ Created(due) # NoRow
      BY DEF Created, Row, OutboxAssumption
    <2>4. row'[m] = Created(due) /\ \A n \in Message : n # m => row'[n] = row[n]
      BY <2>1 DEF OutboxInv, OutboxTypeOK
    <2>5. Committed' = Committed \cup {m}
      BY <2>2, <2>3, <2>4 DEF Committed
    <2>6. Processed' = Processed
      BY <2>2, <2>3, <2>4, <2>5 DEF Processed, Committed, Created
    <2> QED BY <2>2, <2>5, <2>6 DEF Promise!OutboxStep, Promise!Commit, Promise!outboxVars
  <1>3. CASE Tick
    <2>1. \A m \in Message : m \notin Committed => row'[m] = row[m]
      BY <1>3 DEF Tick
    <2>2. \A m \in Committed : row'[m] # NoRow /\ row'[m].status = row[m].status
      BY <1>3, TickRow DEF OutboxInv, OutboxAssumption
    <2>3. Committed' = Committed
      BY <2>1, <2>2 DEF Committed
    <2>4. Processed' = Processed
      BY <2>2, <2>3 DEF Processed
    <2> QED BY <1>3, <2>3, <2>4 DEF Tick, Promise!outboxVars
  <1>4. CASE UNCHANGED vars
    BY <1>4 DEF vars, Promise!outboxVars, Committed, Processed
  <1> QED BY <1>1, <1>2, <1>3, <1>4 DEF Next

\* The outbox implements at-least-once delivery, for any number of workers and
\* notifications (transactional-outbox.md, settlementOutbox.js:7-10).
THEOREM DeliveryIsAtLeastOnce ==
    Spec => DeliveryIsSafe
  <1>1. Init => Promise!Nothing
    BY DEF Init, Promise!Nothing, Committed, Processed
  <1>2. OutboxInv /\ [Next]_vars => [Promise!OutboxStep]_(Promise!outboxVars)
    BY OutboxAssumption, StepPromised
  <1> QED
    BY <1>1, <1>2, OutboxInvariant, PTL
    DEF Spec, DeliveryIsSafe, Promise!AtLeastOnceSafety

-----------------------------------------------------------------------------
(***************************************************************************)
(* IdempotencyInv is an inductive invariant of the idempotency keys, for   *)
(* any number of Redis instances, requests and attempts.  That a key has   *)
(* one holder follows from it: each holder has a record of its own on a    *)
(* majority of the instances, and two majorities share one.                *)
(*                                                                         *)
(* A call changes the record of one instance, in one of three ways, and    *)
(* spares what other requests have there (OtherRequestsKeep); what is left *)
(* for each action is the request that acts.                               *)
(***************************************************************************)

\* What a call of the request r does to the instance c, or nothing.
Touched(r, c) == stored' \in {stored, claimed(r, c), released(r, c), completed(r, c)}

\* Nothing of the request q changes.
RequestRests(q) ==
    /\ step'[q] = step[q]
    /\ locked'[q] = locked[q]
    /\ overdue'[q] = overdue[q]
    /\ saved'[q] = saved[q]
    /\ closing'[q] = closing[q]
    /\ gone'[q] = gone[q]
    /\ reply'[q] = reply[q]

-----------------------------------------------------------------------------
\* Claims and responses are told apart, and so are those of two requests.
LEMMA RecordsDiffer ==
    ASSUME NEW r \in Request, NEW q \in Request
    PROVE  /\ Claim(r) \in Record /\ Response(r) \in Record
           /\ Claim(r) # NoRecord /\ Response(r) # NoRecord
           /\ Claim(r) # Response(q)
           /\ Claim(r) = Claim(q) => r = q
           /\ Response(r) = Response(q) => r = q
           /\ Claim(r).by = r /\ Response(r).by = r
           /\ Claim(r).state = "pending" /\ Response(r).state = "complete"
  BY IdempotencyAssumption DEF Claim, Response, Record

LEMMA EveryRecord ==
    ASSUME NEW x \in Record
    PROVE  /\ x.by \in Request
           /\ x # NoRecord
           /\ x = Claim(x.by) \/ x = Response(x.by)
           /\ x = Claim(x.by) <=> x.state = "pending"
           /\ x = Response(x.by) <=> x.state = "complete"
  <1>1. PICK s \in {"pending", "complete"}, r \in Request : x = [state |-> s, by |-> r]
    BY DEF Record
  <1>2. x # NoRecord
    BY IdempotencyAssumption DEF Record
  <1>3. x.by = r /\ x.state = s
    BY <1>1
  <1>4. CASE s = "pending"
    BY <1>1, <1>2, <1>3, <1>4 DEF Claim, Response
  <1>5. CASE s = "complete"
    BY <1>1, <1>2, <1>3, <1>5 DEF Claim, Response
  <1> QED BY <1>4, <1>5

\* Two quorums are more than all instances.
LEMMA Quorums == quorum \in Nat /\ quorum + quorum > Cardinality(Client)
  BY FS_CardinalityType, IdempotencyAssumption DEF quorum

\* Sets of instances only grow in number.
LEMMA Grows ==
    ASSUME NEW S \in SUBSET Client, NEW c \in Client
    PROVE  /\ Cardinality(S) \in Nat
           /\ Cardinality(S \cup {c}) \in Nat
           /\ Cardinality(S \cup {c}) >= Cardinality(S)
  <1>1. IsFiniteSet(S)
    BY FS_Subset, IdempotencyAssumption
  <1>2. IsFiniteSet(S \cup {c})
    BY <1>1, FS_AddElement
  <1>3. Cardinality(S) \in Nat /\ Cardinality(S \cup {c}) \in Nat
    BY <1>1, <1>2, FS_CardinalityType
  <1> QED BY <1>1, <1>3, FS_AddElement

-----------------------------------------------------------------------------
(* The types.                                                              *)

LEMMA TouchedType ==
    ASSUME NEW r \in Request, NEW c \in Client,
           stored \in [Client -> Record \cup {NoRecord}], Touched(r, c)
    PROVE  stored' \in [Client -> Record \cup {NoRecord}]
  BY RecordsDiffer DEF Touched, claimed, released, completed

LEMMA TypeStep ==
    ASSUME IdempotencyTypeOK, [IdempotencyNext]_idempotencyVars
    PROVE  IdempotencyTypeOK'
  <1> USE DEF IdempotencyTypeOK
  <1>1. ASSUME NEW r \in Request, RequestStep(r)
        PROVE  IdempotencyTypeOK'
    <2>1. CASE begin(r)
      <3>1. CASE Attempt(r) /\ UNCHANGED reply
        BY <2>1, <3>1 DEF begin, Attempt, Steps
      <3>2. CASE ~(Attempt(r) /\ UNCHANGED reply)
        BY <2>1, <3>2 DEF begin, Steps, Replies
      <3> QED BY <3>1, <3>2
    <2>2. CASE attempt_ends(r)
      BY <2>2 DEF attempt_ends, Steps
    <2>3. CASE undone(r)
      BY <2>3 DEF undone, Steps
    <2>4. CASE look(r)
      <3>1. PICK found \in {stored[c] : c \in Client} \cup {NoRecord} :
              IF attempt[r] < RetryCount
              THEN \/ /\ found # NoRecord /\ found.state = "complete"
                      /\ Refuse(r, Existing(r, found))
                   \/ /\ found # NoRecord => found.state # "complete"
                      /\ attempt' = [attempt EXCEPT ![r] = @ + 1]
                      /\ Attempt(r)
                      /\ UNCHANGED reply
              ELSE Refuse(r, IF found = NoRecord THEN "unavailable" ELSE Existing(r, found))
        BY <2>4 DEF look
      <3>2. Existing(r, found) \in Replies
        BY DEF Existing, Replies
      <3>3. UNCHANGED <<fingerprint, stored, saved, closing, gone, lapsed>>
        BY <2>4 DEF look
      <3>4. attempt' \in [Request -> 0..RetryCount]
        BY <3>1, IdempotencyAssumption DEF Refuse
      <3> QED BY <3>1, <3>2, <3>3, <3>4, ZenonT(30) DEF Refuse, Attempt, Steps, Replies
    <2>5. CASE handler_sends(r)
      BY <2>5 DEF handler_sends, Steps
    <2>6. CASE send_saved(r) \/ send_failed(r)
      BY <2>6 DEF send_saved, send_failed, Reply, Replies
    <2>7. ASSUME NEW c \in Client,
                 acquireInstanceLock(r, c) \/ undo(r, c) \/ complete(r, c) \/ release(r, c)
                 \/ release_closed(r, c) \/ release_closed_fails(r, c)
          PROVE  IdempotencyTypeOK'
      <3>1. Touched(r, c)
        BY <2>7 DEF Touched, acquireInstanceLock, undo, complete, release,
                    release_closed, release_closed_fails
      <3>2. stored' \in [Client -> Record \cup {NoRecord}]
        BY <3>1, TouchedType
      <3>3. CASE acquireInstanceLock(r, c)
        BY <3>2, <3>3 DEF acquireInstanceLock, Answers
      <3>4. CASE undo(r, c) \/ release(r, c)
        BY <3>2, <3>4 DEF undo, release, Sent, Answers
      <3>5. CASE complete(r, c)
        BY <3>2, <3>5 DEF complete, Sent, Answers
      <3>6. CASE release_closed(r, c) \/ release_closed_fails(r, c)
        BY <3>2, <3>6 DEF release_closed, release_closed_fails
      <3> QED BY <2>7, <3>3, <3>4, <3>5, <3>6
    <2> QED BY <1>1, <2>1, <2>2, <2>3, <2>4, <2>5, <2>6, <2>7 DEF RequestStep
  <1>2. ASSUME NEW r \in Request, close(r) \/ attempt_is_slow(r)
        PROVE  IdempotencyTypeOK'
    <2>1. CASE close(r)
      BY <2>1 DEF close
    <2>2. CASE attempt_is_slow(r)
      BY <2>2 DEF attempt_is_slow
    <2> QED BY <1>2, <2>1, <2>2
  <1>3. ASSUME NEW r \in Request, NEW c \in Client, call_fails(r, c)
        PROVE  IdempotencyTypeOK'
    <2>1. Touched(r, c)
      BY <1>3 DEF Touched, call_fails, Effect
    <2>2. stored' \in [Client -> Record \cup {NoRecord}]
      BY <2>1, TouchedType
    <2>3. reply' \in [Request -> Replies]
      BY <1>3 DEF call_fails, Reply, Replies
    <2> QED BY <1>3, <2>2, <2>3 DEF call_fails, Sent, Answers
  <1>4. ASSUME NEW c \in Client, expire(c)
        PROVE  IdempotencyTypeOK'
    <2>1. stored[c].by \in Request
      BY <1>4, EveryRecord DEF expire
    <2> QED BY <1>4, <2>1 DEF expire
  <1>5. CASE UNCHANGED idempotencyVars
    BY <1>5 DEF idempotencyVars, callVars
  <1> QED BY <1>1, <1>2, <1>3, <1>4, <1>5 DEF IdempotencyNext, Trouble

-----------------------------------------------------------------------------
(* The invariant.                                                          *)

\* What a request has on the instances survives the calls of the others.
LEMMA OtherRequestsKeep ==
    ASSUME IdempotencyTypeOK, NEW q \in Request, RequestInv(q),
           RequestRests(q), q \in lapsed => q \in lapsed',
           NEW r \in Request, r # q,
           stored' = stored \/ \E c \in Client : Touched(r, c)
    PROVE  RequestInv(q)'
  <1> DEFINE Q == {Claim(q), Response(q)}
  <1>1. \A x \in Client : stored[x] \in Q => stored'[x] = stored[x]
    <2> TAKE x \in Client
    <2> HAVE stored[x] \in Q
    <2>1. stored[x] # NoRecord /\ stored[x] # Claim(r)
      BY RecordsDiffer
    <2> QED BY <2>1 DEF Touched, claimed, released, completed, saves, IdempotencyTypeOK
  <1>2. locked[q] \subseteq Client /\ saved[q] \subseteq Client
    BY DEF IdempotencyTypeOK
  <1>3. ClaimsAreThere(q)'
    BY <1>1, <1>2 DEF RequestInv, ClaimsAreThere, RequestRests, Claim, Response
  <1>4. ResponsesAreThere(q)'
    BY <1>1, <1>2 DEF RequestInv, ResponsesAreThere, RequestRests, Claim, Response
  <1> QED BY <1>3, <1>4 DEF RequestInv, RequestRests, quorum

\* A step of a request keeps what it has itself.
LEMMA ActorKeeps ==
    ASSUME IdempotencyTypeOK, NEW r \in Request, RequestInv(r), RequestStep(r)
    PROVE  RequestInv(r)'
  <1> USE DEF IdempotencyTypeOK, RequestInv, ClaimsAreThere, ResponsesAreThere
  <1>1. CASE begin(r)
    BY <1>1 DEF begin, Attempt, quorum, Claim, Response
  <1>2. CASE attempt_ends(r)
    BY <1>2 DEF attempt_ends, quorum, Claim, Response
  <1>3. CASE undone(r)
    BY <1>3 DEF undone, quorum, Claim, Response
  <1>4. CASE look(r)
    <2>1. step[r] = "looking" /\ UNCHANGED <<stored, saved, closing, gone, lapsed>>
      BY <1>4 DEF look
    <2>2. CASE step'[r] = "setting" /\ locked'[r] = {} /\ reply'[r] = reply[r]
      BY <2>1, <2>2 DEF quorum, Claim, Response
    <2>3. CASE step'[r] = "refused" /\ reply'[r] # "success"
      BY <2>1, <2>3 DEF quorum, Claim, Response
    <2> QED BY <1>4, <2>2, <2>3 DEF look, Attempt, Refuse, Existing
  <1>5. CASE handler_sends(r)
    BY <1>5 DEF handler_sends, quorum, Claim, Response
  <1>6. CASE send_saved(r) \/ send_failed(r)
    BY <1>6 DEF send_saved, send_failed, Reply, quorum, Claim, Response
  <1>7. ASSUME NEW c \in Client, acquireInstanceLock(r, c)
        PROVE  RequestInv(r)'
    BY <1>7, RecordsDiffer DEF acquireInstanceLock, claimed, quorum, Claim, Response
  <1>8. ASSUME NEW c \in Client, undo(r, c) \/ release(r, c)
        PROVE  RequestInv(r)'
    BY <1>8, RecordsDiffer DEF undo, release, released, quorum, Claim, Response
  <1>9. ASSUME NEW c \in Client, complete(r, c)
        PROVE  RequestInv(r)'
    <2>1. /\ step[r] = "saving" /\ asked[r] # {}
          /\ step' = step /\ locked' = locked /\ reply' = reply
          /\ closing' = closing /\ gone' = gone /\ lapsed' = lapsed
      BY <1>9 DEF complete, Sent, Answers
    <2>2. ClaimsAreThere(r)'
      BY <1>9, <2>1, RecordsDiffer DEF complete, completed, saves, Claim, Response
    <2>3. ResponsesAreThere(r)'
      BY <1>9, RecordsDiffer DEF complete, completed, saves, Claim, Response
    <2>4. /\ Cardinality(saved[r]) \in Nat /\ Cardinality(saved'[r]) \in Nat
          /\ Cardinality(saved'[r]) >= Cardinality(saved[r])
      <3>1. saved'[r] = saved[r] \/ saved'[r] = saved[r] \cup {c}
        BY <1>9 DEF complete
      <3>2. saved[r] \in SUBSET Client
        OBVIOUS
      <3>3. /\ Cardinality(saved[r]) \in Nat /\ Cardinality(saved[r] \cup {c}) \in Nat
            /\ Cardinality(saved[r] \cup {c}) >= Cardinality(saved[r])
        BY <3>2, Grows
      <3>4. Cardinality(saved[r]) >= Cardinality(saved[r])
        BY <3>3
      <3> HIDE DEF IdempotencyTypeOK, RequestInv
      <3> QED BY <3>1, <3>3, <3>4, Zenon
    <2>5. reply'[r] = "success" => Cardinality(saved'[r]) >= quorum
      BY <2>1, <2>4, Quorums
    <2> QED BY <2>1, <2>2, <2>3, <2>5 DEF quorum
  <1>10. ASSUME NEW c \in Client, release_closed(r, c) \/ release_closed_fails(r, c)
         PROVE  RequestInv(r)'
    BY <1>10, RecordsDiffer DEF release_closed, release_closed_fails, released, quorum,
                                Claim, Response
  <1> QED BY <1>1, <1>2, <1>3, <1>4, <1>5, <1>6, <1>7, <1>8, <1>9, <1>10 DEF RequestStep

LEMMA StepKeeps ==
    ASSUME IdempotencyInv, [IdempotencyNext]_idempotencyVars, NEW q \in Request
    PROVE  RequestInv(q)'
  <1>0. IdempotencyTypeOK /\ RequestInv(q)
    BY DEF IdempotencyInv
  <1>1. ASSUME NEW r \in Request, RequestStep(r), r # q
        PROVE  RequestInv(q)'
    <2>1. stored' = stored \/ \E c \in Client : Touched(r, c)
      BY <1>1 DEF RequestStep, Touched, begin, attempt_ends, undone, look, handler_sends,
                  send_saved, send_failed, acquireInstanceLock, undo, complete, release,
                  release_closed, release_closed_fails
    <2>2. RequestRests(q) /\ lapsed' = lapsed
      <3> USE <1>0, <1>1 DEF IdempotencyTypeOK, RequestRests
      <3>1. CASE begin(r) \/ attempt_ends(r) \/ undone(r)
        BY <3>1 DEF begin, attempt_ends, undone, Attempt
      <3>2. CASE look(r)
        BY <3>2 DEF look, Attempt, Refuse
      <3>3. CASE handler_sends(r) \/ send_saved(r) \/ send_failed(r)
        BY <3>3 DEF handler_sends, send_saved, send_failed, Reply
      <3>4. CASE \E c \in Client : acquireInstanceLock(r, c) \/ undo(r, c) \/ complete(r, c)
        BY <3>4 DEF acquireInstanceLock, undo, complete
      <3>5. CASE \E c \in Client : release(r, c) \/ release_closed(r, c)
                                  \/ release_closed_fails(r, c)
        BY <3>5 DEF release, release_closed, release_closed_fails
      <3> QED BY <3>1, <3>2, <3>3, <3>4, <3>5 DEF RequestStep
    <2> QED BY <1>0, <1>1, <2>1, <2>2, OtherRequestsKeep
  <1>2. ASSUME NEW r \in Request, close(r) \/ attempt_is_slow(r)
        PROVE  RequestInv(q)'
    <2> USE <1>0 DEF IdempotencyTypeOK, RequestInv, ClaimsAreThere, ResponsesAreThere
    <2>1. CASE close(r)
      BY <2>1 DEF close, quorum, Claim, Response
    <2>2. CASE attempt_is_slow(r)
      BY <2>2 DEF attempt_is_slow, quorum, Claim, Response
    <2> QED BY <1>2, <2>1, <2>2
  <1>3. ASSUME NEW r \in Request, NEW c \in Client, call_fails(r, c)
        PROVE  RequestInv(q)'
    <2>1. Touched(r, c)
      BY <1>3 DEF Touched, call_fails, Effect
    <2>2. /\ UNCHANGED <<step, locked, overdue, saved, closing, gone, lapsed>>
          /\ reply'[q] = "success" => reply[q] = "success"
          /\ r # q => reply'[q] = reply[q]
      BY <1>0, <1>3 DEF call_fails, Reply, IdempotencyTypeOK
    <2>3. CASE r # q
      <3>1. RequestRests(q)
        BY <2>2, <2>3 DEF RequestRests
      <3> QED BY <1>0, <2>1, <2>2, <2>3, <3>1, OtherRequestsKeep
    <2>4. CASE r = q
      <3> USE <1>0, <2>2, <2>4 DEF IdempotencyTypeOK, RequestInv
      <3>1. stored' \in {stored, IF step[q] = "setting" THEN claimed(q, c)
                                ELSE IF step[q] = "saving" THEN completed(q, c)
                                ELSE released(q, c)}
            /\ step[q] \in {"setting", "undoing", "saving", "releasing"}
        BY <1>3 DEF call_fails, Effect
      <3>2. ClaimsAreThere(q)'
        BY <3>1, RecordsDiffer DEF ClaimsAreThere, claimed, completed, saves, released,
                                   Claim, Response
      <3>3. ResponsesAreThere(q)'
        BY <3>1, RecordsDiffer DEF ResponsesAreThere, claimed, completed, saves, released,
                                   Claim, Response
      <3> QED BY <3>2, <3>3 DEF quorum
    <2> QED BY <2>3, <2>4
  <1>4. ASSUME NEW c \in Client, expire(c)
        PROVE  RequestInv(q)'
    <2> USE <1>0 DEF IdempotencyTypeOK
    <2>1. stored[c] \in Record
      BY <1>4 DEF expire
    <2>2. UNCHANGED <<step, locked, saved, closing, gone, reply>>
      BY <1>4 DEF expire
    <2>3. \A x \in Client : x # c => stored'[x] = stored[x]
      BY <1>4 DEF expire
    <2>4. /\ q \in lapsed => q \in lapsed'
          /\ overdue[q] => overdue'[q]
      BY <1>4, <2>1, EveryRecord DEF expire
    <2>5. c \in locked[q] /\ stored[c] = Claim(q)
          => IF step[q] = "setting" THEN overdue'[q] ELSE q \in lapsed'
      BY <1>4, RecordsDiffer DEF expire
    <2>6. stored[c] = Response(q) => q \in lapsed'
      BY <1>4, RecordsDiffer DEF expire
    <2>7. /\ \A x \in locked[q] : x \in Client
          /\ \A x \in saved[q] : x \in Client
      OBVIOUS
    <2>8. ClaimsAreThere(q)'
      <3>1. CASE step[q] = "setting"
        <4>1. ClaimsAreThere(q)
          BY DEF RequestInv
        <4>2. CASE overdue'[q]
          BY <2>2, <3>1, <4>2 DEF ClaimsAreThere
        <4>3. CASE ~overdue'[q]
          <5>1. \A x \in locked[q] : stored[x] = Claim(q)
            BY <2>4, <3>1, <4>1, <4>3 DEF ClaimsAreThere
          <5>2. c \notin locked[q]
            BY <2>5, <3>1, <4>3, <5>1
          <5>3. \A x \in locked[q] : stored'[x] = Claim(q)
            BY <2>3, <2>7, <5>1, <5>2
          <5> QED BY <2>2, <3>1, <5>3 DEF ClaimsAreThere, Claim
        <4> QED BY <4>2, <4>3
      <3>2. CASE step[q] # "setting"
        <4> SUFFICES ASSUME step[q] \in {"running", "saving"}, ~gone[q], q \notin lapsed',
                            NEW x \in locked[q]
                     PROVE  stored'[x] \in {Claim(q), Response(q)}
          BY <2>2, <3>2 DEF ClaimsAreThere, Claim, Response
        <4>1. stored[x] \in {Claim(q), Response(q)}
          BY <2>4 DEF RequestInv, ClaimsAreThere
        <4>2. x # c
          BY <2>5, <2>6, <3>2, <4>1
        <4> QED BY <2>3, <2>7, <4>1, <4>2
      <3> QED BY <3>1, <3>2
    <2>9. ResponsesAreThere(q)'
      <3> SUFFICES ASSUME q \notin lapsed', NEW x \in saved[q]
                   PROVE  stored'[x] = Response(q)
        BY <2>2 DEF ResponsesAreThere, Response
      <3>1. stored[x] = Response(q)
        BY <2>4 DEF RequestInv, ResponsesAreThere
      <3> QED BY <2>3, <2>6, <2>7, <3>1
    <2> QED BY <2>2, <2>8, <2>9 DEF RequestInv, quorum
  <1>5. CASE UNCHANGED idempotencyVars
    BY <1>0, <1>5 DEF idempotencyVars, callVars, RequestInv, ClaimsAreThere, ResponsesAreThere,
                      Claim, Response, quorum
  <1>6. CASE RequestStep(q)
    BY <1>0, <1>6, ActorKeeps
  <1> QED BY <1>1, <1>2, <1>3, <1>4, <1>5, <1>6 DEF IdempotencyNext, Trouble

\* Whatever fails, every request's claims and responses are where it counts on
\* them (acquireRedlock, the scripts and the two replies to a client).
THEOREM IdempotencyInvariant == IdempotencySpec => []IdempotencyInv
  <1>1. IdempotencyInit => IdempotencyInv
    <2> SUFFICES ASSUME IdempotencyInit
                 PROVE  IdempotencyInv
      OBVIOUS
    <2>1. IdempotencyTypeOK
      BY IdempotencyAssumption DEF IdempotencyInit, IdempotencyTypeOK, Steps, Replies
    <2>2. \A r \in Request : RequestInv(r)
      BY DEF IdempotencyInit, RequestInv, ClaimsAreThere, ResponsesAreThere
    <2> QED BY <2>1, <2>2 DEF IdempotencyInv
  <1>2. IdempotencyInv /\ [IdempotencyNext]_idempotencyVars => IdempotencyInv'
    BY TypeStep, StepKeeps DEF IdempotencyInv
  <1> QED BY <1>1, <1>2, PTL DEF IdempotencySpec

\* A key has one holder at a time, for any number of instances and requests:
\* the guarantee that docs/idempotency.md gives for the handler's executions.
THEOREM OneHolderPerKey == IdempotencySpec => []KeyHasOneHolder
  <1>1. ASSUME IdempotencyInv, NEW r \in Request, Holding(r)
        PROVE  \E S \in SUBSET Client :
                  /\ Cardinality(S) \in Nat /\ Cardinality(S) >= quorum
                  /\ \A c \in S : stored[c] \in {Claim(r), Response(r)}
    <2> USE <1>1 DEF IdempotencyInv, IdempotencyTypeOK, RequestInv
    <2>1. \A S \in SUBSET Client : Cardinality(S) \in Nat
      BY FS_Subset, FS_CardinalityType, IdempotencyAssumption
    <2>2. CASE reply[r] = "success"
      <3> WITNESS saved[r] \in SUBSET Client
      <3> QED BY <2>1, <2>2 DEF Holding, ResponsesAreThere
    <2>3. CASE reply[r] # "success"
      <3> WITNESS locked[r] \in SUBSET Client
      <3> QED BY <2>1, <2>3 DEF Holding, ClaimsAreThere
    <2> QED BY <2>2, <2>3
  <1>2. IdempotencyInv => KeyHasOneHolder
    <2> SUFFICES ASSUME IdempotencyInv, NEW r \in Request, NEW q \in Request,
                        Holding(r), Holding(q)
                 PROVE  r = q
      BY DEF KeyHasOneHolder
    <2>1. PICK S \in SUBSET Client :
             /\ Cardinality(S) \in Nat /\ Cardinality(S) >= quorum
             /\ \A c \in S : stored[c] \in {Claim(r), Response(r)}
      BY <1>1
    <2>2. PICK T \in SUBSET Client :
             /\ Cardinality(T) \in Nat /\ Cardinality(T) >= quorum
             /\ \A c \in T : stored[c] \in {Claim(q), Response(q)}
      BY <1>1
    <2>3. Cardinality(S) + Cardinality(T) > Cardinality(Client)
      BY <2>1, <2>2, Quorums, FS_CardinalityType, IdempotencyAssumption
    <2>4. S \cap T # {}
      BY <2>3, FS_MajoritiesIntersect, IdempotencyAssumption
    <2> QED BY <2>1, <2>2, <2>4, RecordsDiffer
  <1> QED BY <1>2, IdempotencyInvariant, PTL

-----------------------------------------------------------------------------
(***************************************************************************)
(* The audit tree.  Its loops are folds, and what is proved of them is     *)
(* proved of their traces, round by round.                                 *)
(***************************************************************************)

Layering == INSTANCE FoldTheorems WITH Op <- AddLayer
Walking == INSTANCE FoldTheorems WITH Op <- AddStep
Hashing == INSTANCE FoldTheorems WITH Op <- HashUp

\* A sequence of whatever it holds.
IsSeq(s) == s \in Seq({s[i] : i \in DOMAIN s})

LEMMA LayeringIsLoop ==
    ASSUME NEW b, NEW s PROVE FoldLeft(AddLayer, b, s) = Layering!Looped(b, s)
  BY DEF FoldLeft, MapThenFoldSet, Layering!Looped, Layering!IsLoopTable,
         Layering!LoopEntry, AddLayer, Max, Layering!Highest

LEMMA WalkingIsLoop ==
    ASSUME NEW b, NEW s PROVE FoldLeft(AddStep, b, s) = Walking!Looped(b, s)
  BY DEF FoldLeft, MapThenFoldSet, Walking!Looped, Walking!IsLoopTable,
         Walking!LoopEntry, AddStep, Max, Walking!Highest

LEMMA HashingIsLoop ==
    ASSUME NEW b, NEW s PROVE FoldLeft(HashUp, b, s) = Hashing!Looped(b, s)
  BY DEF FoldLeft, MapThenFoldSet, Hashing!Looped, Hashing!IsLoopTable,
         Hashing!LoopEntry, HashUp, Max, Hashing!Highest

LEMMA SeqShape ==
    ASSUME NEW s, IsSeq(s)
    PROVE  Len(s) \in Nat /\ DOMAIN s = 1..Len(s)
  BY DEF IsSeq

LEMMA SeqMade ==
    ASSUME NEW s, NEW n \in Nat, s = [i \in 1..n |-> s[i]]
    PROVE  IsSeq(s) /\ Len(s) = n /\ DOMAIN s = 1..n
  <1> DEFINE S == {s[i] : i \in 1..n}
  <1>1. DOMAIN s = 1..n /\ s \in [1..n -> S]
    OBVIOUS
  <1>2. s \in Seq(S)
    BY <1>1
  <1> QED BY <1>1, <1>2 DEF IsSeq

LEMMA SeqGrows ==
    ASSUME NEW s, IsSeq(s), NEW x
    PROVE  /\ IsSeq(Append(s, x))
           /\ Len(Append(s, x)) = Len(s) + 1
           /\ Append(s, x)[Len(s) + 1] = x
           /\ \A i \in 1..Len(s) : Append(s, x)[i] = s[i]
  <1> DEFINE S == {s[i] : i \in DOMAIN s}
             T == S \cup {x}
             a == Append(s, x)
  <1>1. s \in Seq(T) /\ x \in T
    BY DEF IsSeq
  <1>2. a \in Seq(T) /\ Len(a) = Len(s) + 1 /\ a[Len(s) + 1] = x
        /\ \A i \in 1..Len(s) : a[i] = s[i]
    <2> HIDE DEF T
    <2> QED BY <1>1
  <1> HIDE DEF a
  <1>3. a = [i \in 1..Len(a) |-> a[i]] /\ Len(a) \in Nat
    BY <1>2
  <1> QED BY <1>2, <1>3, SeqMade DEF a

\* The layers of a tree that may still grow.
AreLayers(layers, leaves) ==
    /\ IsSeq(layers) /\ Len(layers) >= 1
    /\ layers[1] = [i \in DOMAIN leaves |-> hashLeaf(leaves[i])]
    /\ \A n \in 1..Len(layers) : IsSeq(layers[n]) /\ Len(layers[n]) >= 1
    /\ \A n \in 1..(Len(layers) - 1) : layers[n + 1] = NextLayer(layers[n])

LEMMA NextIsShorter ==
    ASSUME NEW layer, IsSeq(layer), Len(layer) > 1
    PROVE  /\ IsSeq(NextLayer(layer)) /\ Len(NextLayer(layer)) >= 1
           /\ Len(NextLayer(layer)) < Len(layer)
  <1> DEFINE n == (Len(layer) + 1) \div 2
  <1>1. Len(layer) \in Nat
    BY SeqShape
  <1>2. n \in Nat /\ n >= 1 /\ n < Len(layer)
    BY <1>1
  <1>3. NextLayer(layer) = [i \in 1..n |-> NextLayer(layer)[i]]
    BY DEF NextLayer
  <1> HIDE DEF n
  <1>4. IsSeq(NextLayer(layer)) /\ Len(NextLayer(layer)) = n
    BY <1>2, <1>3, SeqMade
  <1> QED BY <1>2, <1>4

\* buildTree ends with a single node, whatever the number of leaves.
LEMMA TreeIsBuilt ==
    ASSUME NEW leaves, NEW L \in Nat \ {0}, DOMAIN leaves = 1..L
    PROVE  /\ AreLayers(buildTree(leaves), leaves)
           /\ Len(Last(buildTree(leaves))) = 1
  <1> DEFINE first == [i \in DOMAIN leaves |-> hashLeaf(leaves[i])]
             Built(ls, k) == /\ AreLayers(ls, leaves)
                             /\ \/ Len(Last(ls)) = 1
                                \/ Len(Last(ls)) + k <= L
  <1>1. PICK t : /\ Layering!IsTrace(t, <<first>>, leaves, L)
                 /\ Layering!Looped(<<first>>, leaves) = t[L]
    BY Layering!LoopHasTrace
  <1> DEFINE V == {k \in Nat : k <= L => Built(t[k], k)}
  <1>2. 0 \in V
    <2>1. first = [i \in 1..L |-> first[i]]
      OBVIOUS
    <2>2. IsSeq(first) /\ Len(first) = L
      <3> HIDE DEF first
      <3> QED BY <2>1, SeqMade
    <2> HIDE DEF first
    <2> DEFINE ls == <<first>>
    <2>3. ls = [i \in 1..1 |-> ls[i]] /\ ls[1] = first
      OBVIOUS
    <2>4. IsSeq(ls) /\ Len(ls) = 1
      <3> HIDE DEF ls
      <3> QED BY <2>3, SeqMade
    <2>5. Last(ls) = first
      BY <2>3, <2>4 DEF Last
    <2>6. t[0] = ls
      BY <1>1 DEF Layering!IsTrace
    <2>7. AreLayers(ls, leaves)
      <3> HIDE DEF ls
      <3> QED BY <2>2, <2>3, <2>4 DEF AreLayers, first
    <2> HIDE DEF ls
    <2> QED BY <2>2, <2>5, <2>6, <2>7
  <1>3. ASSUME NEW k \in Nat, k \in V PROVE k + 1 \in V
    <2> SUFFICES ASSUME k + 1 <= L PROVE Built(t[k + 1], k + 1)
      OBVIOUS
    <2> DEFINE ls == t[k]
               top == Last(ls)
               n == Len(ls)
    <2>1. Built(ls, k) /\ t[k + 1] = AddLayer(ls, leaves[k + 1])
      <3>1. k + 1 \in 1..L /\ (k + 1) - 1 = k /\ k <= L
        OBVIOUS
      <3> QED BY <1>1, <1>3, <3>1 DEF Layering!IsTrace
    <2>2. /\ n \in Nat /\ n >= 1 /\ top = ls[n] /\ IsSeq(top)
          /\ Len(top) \in Nat /\ Len(top) >= 1 /\ IsSeq(ls)
      <3>1. IsSeq(ls) /\ n \in Nat /\ n >= 1 /\ n \in 1..n
        BY <2>1, SeqShape DEF AreLayers
      <3>2. top = ls[n] /\ IsSeq(top) /\ Len(top) >= 1
        BY <2>1, <3>1 DEF AreLayers, Last
      <3> QED BY <3>1, <3>2, SeqShape
    <2>A. Len(top) = 1 \/ Len(top) + k <= L
      BY <2>1, Zenon
    <2>3. CASE Len(top) > 1
      <3> DEFINE next == NextLayer(top)
                 as == Append(ls, next)
      <3>1. IsSeq(next) /\ Len(next) >= 1 /\ Len(next) < Len(top) /\ Len(next) \in Nat
        BY <2>2, <2>3, NextIsShorter, SeqShape
      <3>2. /\ IsSeq(as) /\ Len(as) = n + 1 /\ as[n + 1] = next
            /\ \A i \in 1..n : as[i] = ls[i]
        BY <2>2, SeqGrows
      <3>3. t[k + 1] = as /\ Last(as) = next
        BY <2>1, <2>3, <3>2 DEF AddLayer, Last
      <3>4. AreLayers(as, leaves)
        <4>1. as[1] = first
          BY <2>1, <2>2, <3>2 DEF AreLayers
        <4>2. \A i \in 1..(n + 1) : IsSeq(as[i]) /\ Len(as[i]) >= 1
          BY <2>1, <2>2, <3>1, <3>2 DEF AreLayers
        <4>3. \A i \in 1..n : as[i + 1] = NextLayer(as[i])
          <5> TAKE i \in 1..n
          <5>1. CASE i = n
            BY <2>2, <3>2, <5>1
          <5>2. CASE i # n
            <6>1. i \in 1..(n - 1) /\ i + 1 \in 1..n
              BY <2>2, <5>2
            <6>2. ls[i + 1] = NextLayer(ls[i])
              BY <2>1, <6>1 DEF AreLayers
            <6> QED BY <3>2, <6>1, <6>2
          <5> QED BY <5>1, <5>2
        <4> HIDE DEF as, first, n
        <4>4. IsSeq(as) /\ Len(as) = n + 1 /\ n + 1 >= 1 /\ (n + 1) - 1 = n
          BY <2>2, <3>2
        <4>5. as[1] = [x \in DOMAIN leaves |-> hashLeaf(leaves[x])]
          BY <4>1 DEF first
        <4> QED BY <4>2, <4>3, <4>4, <4>5 DEF AreLayers
      <3>5. Len(next) + (k + 1) <= L
        <4> DEFINE x == Len(top)
                   y == Len(next)
        <4>1. x \in Nat /\ y \in Nat /\ y < x /\ x > 1 /\ (x = 1 \/ x + k <= L)
          BY <2>2, <2>3, <2>A, <3>1
        <4> HIDE DEF x, y
        <4>2. y + (k + 1) <= L
          BY <4>1
        <4> QED BY <4>2 DEF y
      <3>6. AreLayers(t[k + 1], leaves) /\ Len(Last(t[k + 1])) + (k + 1) <= L
        <4> HIDE DEF as, next
        <4> QED BY <3>3, <3>4, <3>5
      <3> QED BY <3>6
    <2>4. CASE ~(Len(top) > 1)
      <3>1. t[k + 1] = ls
        BY <2>1, <2>4, Zenon DEF AddLayer
      <3>2. Len(top) = 1
        <4> DEFINE x == Len(top)
        <4>1. x \in Nat /\ x >= 1 /\ ~(x > 1)
          BY <2>2, <2>4
        <4> HIDE DEF x
        <4>2. x = 1
          BY <4>1
        <4> QED BY <4>2 DEF x
      <3> QED BY <2>1, <3>1, <3>2, Zenon
    <2> QED BY <2>3, <2>4
  <1> HIDE DEF V
  <1>4. L \in V
    BY <1>2, <1>3, NatSetInduction
  <1>5. buildTree(leaves) = t[L]
    BY <1>1, LayeringIsLoop DEF buildTree
  <1>6. AreLayers(t[L], leaves) /\ (Len(Last(t[L])) = 1 \/ Len(Last(t[L])) + L <= L)
    BY <1>4 DEF V
  <1>7. Len(Last(t[L])) \in Nat /\ Len(Last(t[L])) >= 1
    <2>1. IsSeq(t[L]) /\ Len(t[L]) \in 1..Len(t[L]) /\ Len(t[L]) \in Nat
      BY <1>6, SeqShape DEF AreLayers
    <2>2. IsSeq(Last(t[L])) /\ Len(Last(t[L])) >= 1
      BY <1>6, <2>1 DEF AreLayers, Last
    <2> QED BY <2>2, SeqShape
  <1> QED BY <1>5, <1>6, <1>7

\* Two siblings make the node above them.
LEMMA SiblingsJoin ==
    ASSUME NEW layer, Len(layer) \in Nat, NEW j \in 1..Len(layer)
    PROVE  LET q == (j + 1) \div 2
           IN  /\ q \in 1..((Len(layer) + 1) \div 2)
               /\ HashUp(layer[j], Sibling(layer, j)) = NextLayer(layer)[q]
  <1> DEFINE m == Len(layer)
             q == (j + 1) \div 2
  <1>1. q \in 1..((m + 1) \div 2) /\ m \in Nat
    OBVIOUS
  <1>2. NextLayer(layer)[q] = hashInternal(layer[2 * q - 1],
                                           IF 2 * q <= m THEN layer[2 * q] ELSE layer[2 * q - 1])
    BY <1>1 DEF NextLayer
  <1>3. CASE j % 2 = 0
    <2>1. 2 * q = j /\ 2 * q <= m
      BY <1>3
    <2>2. Sibling(layer, j) = [position |-> "left", hash |-> layer[j - 1]]
      BY <1>3 DEF Sibling
    <2> HIDE DEF q
    <2> QED BY <1>1, <1>2, <2>1, <2>2 DEF HashUp, q
  <1>4. CASE j % 2 = 1 /\ j < m
    <2>1. 2 * q - 1 = j /\ 2 * q = j + 1 /\ 2 * q <= m
      BY <1>4
    <2>2. Sibling(layer, j) = [position |-> "right", hash |-> layer[j + 1]]
      BY <1>4 DEF Sibling
    <2> HIDE DEF q
    <2> QED BY <1>1, <1>2, <2>1, <2>2 DEF HashUp, q
  <1>5. CASE j % 2 = 1 /\ ~(j < m)
    <2>1. 2 * q - 1 = j /\ ~(2 * q <= m)
      BY <1>5
    <2>2. Sibling(layer, j) = [position |-> "right", hash |-> layer[j]]
      BY <1>5 DEF Sibling
    <2> HIDE DEF q
    <2> QED BY <1>1, <1>2, <2>1, <2>2 DEF HashUp, q
  <1>6. j % 2 = 0 \/ j % 2 = 1
    OBVIOUS
  <1> QED BY <1>3, <1>4, <1>5, <1>6

\* What the rounds of verifyProof make of a leaf.
IsClimb(u, proof, n, data) ==
    /\ u[0] = hashLeaf(data)
    /\ \A k \in 1..n : u[k] = HashUp(u[k - 1], proof[k])

LEMMA VerifyingClimbs ==
    ASSUME NEW proof, NEW n \in Nat, DOMAIN proof = 1..n, NEW data
    PROVE  \E u : /\ IsClimb(u, proof, n, data)
                  /\ \A root : verifyProof(data, proof, root) <=> root = u[n]
  <1>1. PICK u : /\ Hashing!IsTrace(u, hashLeaf(data), proof, n)
                 /\ Hashing!Looped(hashLeaf(data), proof) = u[n]
    BY Hashing!LoopHasTrace
  <1>2. IsClimb(u, proof, n, data)
    BY <1>1 DEF Hashing!IsTrace, IsClimb
  <1>3. FoldLeft(HashUp, hashLeaf(data), proof) = u[n]
    BY <1>1, HashingIsLoop
  <1> QED BY <1>2, <1>3 DEF verifyProof

\* A tree of any size has a proof for each of its leaves.
LEMMA ProofsLeadToRoot ==
    ASSUME NEW leaves, NEW L \in Nat \ {0}, DOMAIN leaves = 1..L, NEW i \in 1..L
    PROVE  /\ IsSeq(getProof(leaves, i))
           /\ verifyProof(leaves[i], getProof(leaves, i), getRoot(leaves))
  <1> DEFINE ls == buildTree(leaves)
             H == Len(ls)
             fs == Front(ls)
             start == [node |-> i, proof |-> <<>>]
  <1>1. /\ AreLayers(ls, leaves) /\ Len(Last(ls)) = 1 /\ IsSeq(ls)
        /\ H \in Nat /\ H >= 1 /\ DOMAIN ls = 1..H /\ H - 1 \in Nat
    <2>1. AreLayers(ls, leaves) /\ Len(Last(ls)) = 1
      BY TreeIsBuilt, Zenon
    <2> HIDE DEF ls
    <2>2. IsSeq(ls) /\ H >= 1
      BY <2>1 DEF AreLayers
    <2> QED BY <2>1, <2>2, SeqShape
  <1> HIDE DEF ls
  <1>2. DOMAIN fs = 1..(H - 1) /\ \A n \in 1..(H - 1) : fs[n] = ls[n]
    BY <1>1 DEF Front, IsSeq
  <1>3. PICK t : /\ Walking!IsTrace(t, start, fs, H - 1)
                 /\ Walking!Looped(start, fs) = t[H - 1]
    <2> HIDE DEF start, fs
    <2> QED BY <1>1, <1>2, Walking!LoopHasTrace
  <1> DEFINE P(n) == /\ t[n].node \in 1..Len(ls[n + 1])
                     /\ IsSeq(t[n].proof) /\ Len(t[n].proof) = n
                     /\ \A m \in 1..n : t[n].proof[m] = Sibling(ls[m], t[m - 1].node)
             V == {n \in Nat : n <= H - 1 => P(n)}
  <1>4. 0 \in V
    <2>1. t[0] = start
      BY <1>3 DEF Walking!IsTrace
    <2>2. Len(ls[1]) = L
      <3>1. ls[1] = [x \in 1..L |-> ls[1][x]]
        BY <1>1 DEF AreLayers
      <3> QED BY <3>1, SeqMade
    <2>3. IsSeq(<<>>) /\ Len(<<>>) = 0
      BY DEF IsSeq
    <2> QED BY <2>1, <2>2, <2>3
  <1>5. ASSUME NEW k \in Nat, k \in V PROVE k + 1 \in V
    <2> SUFFICES ASSUME k + 1 <= H - 1 PROVE P(k + 1)
      OBVIOUS
    <2> DEFINE j == t[k].node
               layer == ls[k + 1]
               turn == Sibling(layer, j)
    <2>1. P(k)
      <3>1. k <= H - 1
        BY <1>1
      <3> HIDE DEF P
      <3> QED BY <1>5, <3>1
    <2>2. /\ k + 1 \in 1..(H - 1) /\ (k + 1) - 1 = k /\ k + 1 \in 1..H
          /\ k + 2 \in 1..H /\ (k + 1) + 1 = k + 2
      BY <1>1
    <2>3. t[k + 1] = [node |-> (j + 1) \div 2, proof |-> Append(t[k].proof, turn)]
      BY <1>2, <1>3, <2>2 DEF Walking!IsTrace, AddStep
    <2>4. IsSeq(layer) /\ Len(layer) \in Nat /\ ls[k + 2] = NextLayer(layer)
      <3>1. IsSeq(layer) /\ ls[k + 2] = NextLayer(layer)
        BY <1>1, <2>2 DEF AreLayers
      <3> QED BY <3>1, SeqShape
    <2>5. (j + 1) \div 2 \in 1..Len(ls[k + 2])
      <3> DEFINE n == (Len(layer) + 1) \div 2
      <3>1. (j + 1) \div 2 \in 1..n
        BY <2>1, <2>4, SiblingsJoin
      <3>2. n \in Nat
        <4> HIDE DEF layer
        <4> QED BY <2>4
      <3>3. NextLayer(layer) = [x \in 1..n |-> NextLayer(layer)[x]]
        BY DEF NextLayer
      <3> HIDE DEF n
      <3>4. Len(NextLayer(layer)) = n
        BY <3>2, <3>3, SeqMade
      <3> QED BY <2>4, <3>1, <3>4
    <2>6. /\ IsSeq(t[k + 1].proof) /\ Len(t[k + 1].proof) = k + 1
          /\ t[k + 1].proof[k + 1] = turn
          /\ \A m \in 1..k : t[k + 1].proof[m] = t[k].proof[m]
      <3>1. t[k + 1].proof = Append(t[k].proof, turn)
        BY <2>3
      <3> HIDE DEF turn
      <3> QED BY <2>1, <3>1, SeqGrows
    <2>7. \A m \in 1..(k + 1) : t[k + 1].proof[m] = Sibling(ls[m], t[m - 1].node)
      <3> TAKE m \in 1..(k + 1)
      <3>1. CASE m = k + 1
        BY <2>2, <2>6, <3>1
      <3>2. CASE m # k + 1
        <4>1. m \in 1..k
          BY <3>2
        <4> QED BY <2>1, <2>6, <4>1
      <3> QED BY <3>1, <3>2
    <2>8. t[k + 1].node \in 1..Len(ls[(k + 1) + 1])
      BY <2>2, <2>3, <2>5
    <2> HIDE DEF turn, layer, j
    <2> QED BY <2>6, <2>7, <2>8
  <1> HIDE DEF V
  <1>6. \A n \in Nat : n \in V
    BY <1>4, <1>5, NatSetInduction
  <1> DEFINE proof == t[H - 1].proof
  <1>7. getProof(leaves, i) = proof
    BY <1>3, WalkingIsLoop DEF getProof, ls
  <1>P. P(H - 1)
    <2>1. H - 1 \in V /\ H - 1 <= H - 1
      BY <1>1, <1>6
    <2> HIDE DEF P
    <2> QED BY <2>1 DEF V
  <1>8. IsSeq(proof) /\ Len(proof) = H - 1 /\ DOMAIN proof = 1..(H - 1)
    BY <1>P, SeqShape
  <1>9. \A n \in 1..(H - 1) : proof[n] = Sibling(ls[n], t[n - 1].node)
    BY <1>P
  <1> HIDE DEF proof
  <1>10. PICK u : /\ IsClimb(u, proof, H - 1, leaves[i])
                  /\ \A root : verifyProof(leaves[i], proof, root) <=> root = u[H - 1]
    BY <1>1, <1>8, VerifyingClimbs
  <1> DEFINE U == {n \in Nat : n <= H - 1 => u[n] = ls[n + 1][t[n].node]}
  <1>11. 0 \in U
    <2>1. u[0] = hashLeaf(leaves[i]) /\ t[0].node = i
      BY <1>3, <1>10 DEF IsClimb, Walking!IsTrace
    <2>2. ls[1][i] = hashLeaf(leaves[i])
      BY <1>1 DEF AreLayers
    <2> QED BY <2>1, <2>2
  <1>12. ASSUME NEW k \in Nat, k \in U PROVE k + 1 \in U
    <2> SUFFICES ASSUME k + 1 <= H - 1 PROVE u[k + 1] = ls[(k + 1) + 1][t[k + 1].node]
      OBVIOUS
    <2> DEFINE j == t[k].node
               layer == ls[k + 1]
    <2>1. /\ k + 1 \in 1..(H - 1) /\ (k + 1) - 1 = k /\ k + 1 \in 1..H
          /\ k <= H - 1 /\ (k + 1) + 1 = k + 2
      BY <1>1
    <2>2. u[k] = layer[j] /\ j \in 1..Len(layer)
      <3>1. k \in V
        BY <1>6
      <3> QED BY <1>12, <2>1, <3>1 DEF V
    <2>3. u[k + 1] = HashUp(layer[j], Sibling(layer, j))
      BY <1>9, <1>10, <2>1, <2>2, ZenonT(40) DEF IsClimb
    <2>4. t[k + 1].node = (j + 1) \div 2
      <3>1. t[k + 1] = AddStep(t[k], fs[k + 1])
        BY <1>3, <2>1 DEF Walking!IsTrace
      <3> QED BY <3>1 DEF AddStep
    <2>5. Len(layer) \in Nat /\ ls[k + 2] = NextLayer(layer)
      <3>1. IsSeq(layer) /\ ls[k + 2] = NextLayer(layer)
        BY <1>1, <2>1 DEF AreLayers
      <3> QED BY <3>1, SeqShape
    <2> HIDE DEF j, layer
    <2> QED BY <2>1, <2>2, <2>3, <2>4, <2>5, SiblingsJoin
  <1> HIDE DEF U
  <1>13. H - 1 \in U
    BY <1>1, <1>11, <1>12, NatSetInduction
  <1>14. u[H - 1] = getRoot(leaves)
    <2>1. u[H - 1] = ls[H][t[H - 1].node] /\ t[H - 1].node \in 1..Len(ls[H])
      <3>1. H - 1 \in V /\ (H - 1) + 1 = H
        BY <1>1, <1>6
      <3> QED BY <1>1, <1>13, <3>1 DEF U, V
    <2>2. Last(ls) = ls[H] /\ Len(ls[H]) = 1
      BY <1>1 DEF Last
    <2>3. t[H - 1].node = 1
      BY <2>1, <2>2
    <2> QED BY <2>1, <2>2, <2>3 DEF getRoot, ls
  <1> QED BY <1>7, <1>8, <1>10, <1>14

\* A proof fits one leaf at most.
LEMMA ProofsFitOneLeaf ==
    ASSUME NEW proof, IsSeq(proof), NEW root, NEW d, NEW e,
           verifyProof(d, proof, root), verifyProof(e, proof, root)
    PROVE  d = e
  <1> DEFINE n == Len(proof)
  <1>1. n \in Nat /\ DOMAIN proof = 1..n
    BY SeqShape
  <1> HIDE DEF n
  <1>2. PICK u : /\ IsClimb(u, proof, n, d)
                 /\ \A r : verifyProof(d, proof, r) <=> r = u[n]
    BY <1>1, VerifyingClimbs
  <1>3. PICK v : /\ IsClimb(v, proof, n, e)
                 /\ \A r : verifyProof(e, proof, r) <=> r = v[n]
    BY <1>1, VerifyingClimbs
  <1> DEFINE V == {k \in Nat : k <= n => u[n - k] = v[n - k]}
  <1>4. 0 \in V
    BY <1>1, <1>2, <1>3
  <1>5. ASSUME NEW k \in Nat, k \in V PROVE k + 1 \in V
    <2> SUFFICES ASSUME k + 1 <= n PROVE u[n - (k + 1)] = v[n - (k + 1)]
      OBVIOUS
    <2> DEFINE m == n - k
    <2>1. m \in 1..n /\ n - (k + 1) = m - 1 /\ u[m] = v[m]
      BY <1>1, <1>5
    <2> HIDE DEF m
    <2>2. u[m] = HashUp(u[m - 1], proof[m]) /\ v[m] = HashUp(v[m - 1], proof[m])
      BY <1>2, <1>3, <2>1 DEF IsClimb
    <2>3. u[m - 1] = v[m - 1]
      <3>1. HashUp(u[m - 1], proof[m]) = HashUp(v[m - 1], proof[m])
        BY <2>1, <2>2
      <3>2. CASE proof[m].position = "left"
        <4>1. <<1, proof[m].hash, u[m - 1]>> = <<1, proof[m].hash, v[m - 1]>>
          BY <3>1, <3>2 DEF HashUp, hashInternal
        <4> QED BY <4>1
      <3>3. CASE proof[m].position # "left"
        <4>1. <<1, u[m - 1], proof[m].hash>> = <<1, v[m - 1], proof[m].hash>>
          BY <3>1, <3>3 DEF HashUp, hashInternal
        <4> QED BY <4>1
      <3> QED BY <3>2, <3>3
    <2> QED BY <2>1, <2>3
  <1> HIDE DEF V
  <1>6. n \in V
    BY <1>1, <1>4, <1>5, NatSetInduction
  <1>7. u[0] = v[0]
    BY <1>1, <1>6 DEF V
  <1> QED BY <1>2, <1>3, <1>7 DEF IsClimb, hashLeaf

-----------------------------------------------------------------------------
(***************************************************************************)
(* EngineIInv is an inductive invariant of the settlement engine, for any  *)
(* calls, keys, payloads, shards, runs, batch sizes and retries.  Four kinds *)
(* of sequences of tracking ids carry it: the queues of the shards, what runs *)
(* have in hand, what they have settled, and what the batches hold.  An id is *)
(* in a family of sequences once at most, and the statuses of the items say *)
(* in which: an item waits, is in hand, or is settled.  What happens to a  *)
(* family is proved for any family; what a step does is then a matter of the *)
(* one or two sequences it touches.                                        *)
(***************************************************************************)

\* Families of sequences of tracking ids: the queues of the shards, what runs
\* have in hand, what they have settled, what the batches hold.
Families(S) == [S -> Seq(Nat)]
AtMostOnce(F) ==
    \A x, y \in DOMAIN F : \A i \in DOMAIN F[x], j \in DOMAIN F[y] :
        F[x][i] = F[y][j] => x = y /\ i = j
Held(F) == UNION {Range(F[x]) : x \in DOMAIN F}

TodoOf(run) == IF run = Idle THEN <<>> ELSE run.todo
SettledOf(run) == IF run = Idle THEN <<>> ELSE run.settled
InHand == [c \in Runs |-> TodoOf(runs[c])]
Unbatched == [c \in Runs |-> SettledOf(runs[c])]
Batched == [n \in DOMAIN batches |-> batches[n].items]
WithStatus(its, S) == {id \in DOMAIN its : its[id].status \in S}

Statuses == {"PENDING", "FAILED", "PROCESSING", "SETTLED", "DLQ"}
IsItem(x) ==
    x \in [status : Statuses, attempts : Nat, updatedAt : Nat, receipt : {x.receipt}]
AreItems(its) ==
    /\ its = [id \in DOMAIN its |-> its[id]]
    /\ \A id \in DOMAIN its : IsItem(its[id])
WorkingRun ==
    [at : {"processing"}, shard : Shard, todo : Seq(Nat) \ {<<>>}, settled : Seq(Nat)]
Asking == [at : {"asking"}, key : Key, payload : Payload]
Asked == [at : {"asked"}, key : Key, payload : Payload, found : Nat \cup {NoId}]
Answered == [at : {"telling", "done"}, key : Key, payload : Payload, id : Nat,
             reply : {"accepted", "replay", "conflict"}]
Lost == [at |-> "lost"]

EngineTypeOK ==
    /\ hasRedis \in BOOLEAN
    /\ created \in Seq([key : Key, payload : Payload, paid : Nat])
    /\ AreItems(items) /\ DOMAIN items \subseteq DOMAIN created
    /\ shards \in Families(Shard)
    /\ idempotencyStore \in [Key -> Nat \cup {NoId}]
    /\ redisKeys \in [Key -> Nat \cup {NoId}]
    /\ adaptiveBatchSize \in Nat
    /\ enqueues \in [Enqueues -> {NewCall, Lost} \cup Asking \cup Asked \cup Answered]
    /\ runs \in [Runs -> {Idle} \cup WorkingRun]

\* A queue holds what waits, the hands of the runs what is being processed, and
\* everything settled was paid once.
PlacesAreRight ==
    /\ AtMostOnce(shards) /\ Held(shards) = WithStatus(items, Waiting)
    /\ AtMostOnce(InHand) /\ Held(InHand) = WithStatus(items, {"PROCESSING"})
    /\ \A id \in DOMAIN items :
          created[id].paid = (IF items[id].status = "SETTLED" THEN 1 ELSE 0)

\* Whatever is on record for a key was made for that key.
MadeFor(id, k) == id \in DOMAIN created /\ created[id].key = k
CallFits(call) ==
    /\ (call.at = "asked" /\ call.found # NoId) => MadeFor(call.found, call.key)
    /\ call.at = "telling" => call.reply = "accepted"
    /\ (call.at \in {"telling", "done"} /\ call.reply # "conflict")
          => MadeFor(call.id, call.key) /\ created[call.id].payload = call.payload
KeysAreRight ==
    /\ \A k \in Key : idempotencyStore[k] # NoId => MadeFor(idempotencyStore[k], k)
    /\ \A k \in Key : redisKeys[k] # NoId => MadeFor(redisKeys[k], k)
    /\ \A r \in Enqueues : CallFits(enqueues[r])
    /\ ~hasRedis => /\ \A id \in DOMAIN items : idempotencyStore[created[id].key] = id
                    /\ \A r \in Enqueues : enqueues[r].at \notin {"asking", "asked"}

\* What is settled is in a batch or kept by a run that will make one; batches
\* are chained; a receipt is for the batch that holds its item.
ChainHashOf(n) ==
    computeBatchChainHash(batches[n].prevBatchHash, batches[n].merkleRoot, n)
BatchesAreChained ==
    /\ IsSeq(batches)
    /\ \A n \in DOMAIN batches :
          /\ batches[n].items \in Seq(Nat)
          /\ batches[n].batchId = n /\ batches[n].chainHash = ChainHashOf(n)
          /\ batches[n].prevBatchHash = (IF n = 1 THEN Genesis ELSE batches[n - 1].chainHash)
    /\ lastBatchHash =
          (IF Len(batches) = 0 THEN Genesis ELSE batches[Len(batches)].chainHash)
IsReceipt(receipt, leaf, n) ==
    /\ receipt.batchId = n /\ receipt.chainHash = ChainHashOf(n)
    /\ IsSeq(receipt.proof)
    /\ verifyProof(leaf, receipt.proof, receipt.merkleRoot)
ReceiptsFit(kept, its) ==
    /\ BatchesAreChained
    /\ AtMostOnce(kept) /\ AtMostOnce(Batched)
    /\ Held(kept) \cap Held(Batched) = {}
    /\ Held(kept) \cup Held(Batched) = WithStatus(its, {"SETTLED"})
    /\ \A n \in DOMAIN batches : \A id \in Range(batches[n].items) :
          IsReceipt(its[id].receipt, LeafOf(its, id), n)
ReceiptsAreRight == ReceiptsFit(Unbatched, items)

EngineIInv == EngineTypeOK /\ PlacesAreRight /\ KeysAreRight /\ ReceiptsAreRight

\* What a family holds.
LEMMA FamilyShape ==
    ASSUME NEW S, NEW F \in Families(S)
    PROVE  /\ DOMAIN F = S
           /\ \A x \in S : F[x] \in Seq(Nat) /\ Len(F[x]) \in Nat /\ DOMAIN F[x] = 1..Len(F[x])
  BY DEF Families

LEMMA HeldThere ==
    ASSUME NEW S, NEW F \in Families(S), NEW x \in S, NEW i \in 1..Len(F[x])
    PROVE  F[x][i] \in Held(F)
  BY FamilyShape DEF Held, Range

LEMMA HeldSomewhere ==
    ASSUME NEW S, NEW F \in Families(S), NEW id \in Held(F)
    PROVE  \E x \in S : \E i \in 1..Len(F[x]) : F[x][i] = id
  BY FamilyShape DEF Held, Range

SamePlaces(F, S) ==
    \A x, y \in S : \A i \in 1..Len(F[x]), j \in 1..Len(F[y]) :
        F[x][i] = F[y][j] => x = y /\ i = j

\* Whatever a family holds once at most is in one place of it.
LEMMA SamePlace ==
    ASSUME NEW S, NEW F \in Families(S), AtMostOnce(F)
    PROVE  SamePlaces(F, S)
  <1>1. DOMAIN F = S /\ \A x \in S : DOMAIN F[x] = 1..Len(F[x])
    BY FamilyShape
  <1> QED BY <1>1 DEF AtMostOnce, SamePlaces

LEMMA OnceIfSamePlace ==
    ASSUME NEW S, NEW F \in Families(S),
           \A x, y \in S : \A i \in 1..Len(F[x]), j \in 1..Len(F[y]) :
               F[x][i] = F[y][j] => x = y /\ i = j
    PROVE  AtMostOnce(F)
  <1>1. ASSUME NEW x \in DOMAIN F, NEW y \in DOMAIN F,
               NEW i \in DOMAIN F[x], NEW j \in DOMAIN F[y], F[x][i] = F[y][j]
        PROVE  x = y /\ i = j
    <2>1. x \in S /\ y \in S
      BY FamilyShape
    <2>2. i \in 1..Len(F[x]) /\ j \in 1..Len(F[y])
      BY <2>1, FamilyShape
    <2> QED BY <1>1, <2>1, <2>2
  <1> QED BY <1>1 DEF AtMostOnce

\* The first n ids of a sequence go.
LEMMA FirstGo ==
    ASSUME NEW S, NEW F \in Families(S), AtMostOnce(F), NEW x \in S, NEW n \in 0..Len(F[x]),
           NEW G \in Families(S), G[x] = SubSeq(F[x], n + 1, Len(F[x])),
           \A y \in S \ {x} : G[y] = F[y]
    PROVE  /\ AtMostOnce(G)
           /\ Held(G) = Held(F) \ Range(SubSeq(F[x], 1, n))
           /\ SubSeq(F[x], 1, n) \in Seq(Nat) /\ Len(SubSeq(F[x], 1, n)) = n
           /\ \A i \in 1..n : SubSeq(F[x], 1, n)[i] = F[x][i] /\ F[x][i] \in Held(F)
           /\ Range(SubSeq(F[x], 1, n)) \subseteq Held(F)
  <1> DEFINE q == F[x]
             g == SubSeq(q, n + 1, Len(q))
             h == SubSeq(q, 1, n)
  <1>1. q \in Seq(Nat) /\ Len(q) \in Nat /\ n \in Nat /\ n <= Len(q) /\ DOMAIN F = S
    BY FamilyShape
  <1>2. /\ g \in Seq(Nat) /\ Len(g) = Len(q) - n /\ \A i \in 1..Len(g) : g[i] = q[n + i]
    <2> HIDE DEF q
    <2> QED BY <1>1
  <1>3. /\ h \in Seq(Nat) /\ Len(h) = n /\ \A i \in 1..n : h[i] = q[i]
    <2> HIDE DEF q
    <2> QED BY <1>1
  <1>4. G \in Families(S) /\ G[x] = g /\ \A y \in S : y # x => G[y] = F[y]
    BY <1>1, <1>2
  <1>5. Range(h) = {q[i] : i \in 1..n}
    <2>1. DOMAIN h = 1..n
      BY <1>1, <1>3
    <2> HIDE DEF h
    <2> QED BY <1>3, <2>1 DEF Range
  <1>6. \A i \in 1..Len(g) : n + i \in 1..Len(q) /\ g[i] = q[n + i] /\ i > 0
    <2> DEFINE l == Len(q)
               m == Len(g)
    <2>1. l \in Nat /\ n \in Nat /\ n <= l /\ m = l - n
      BY <1>1, <1>2
    <2> HIDE DEF l, m
    <2>2. \A i \in 1..m : n + i \in 1..l /\ i > 0
      BY <2>1
    <2> QED BY <1>2, <2>2 DEF l, m
  <1>7. \A i \in 1..Len(q) : i \in 1..n \/ (i - n \in 1..Len(g) /\ n + (i - n) = i)
    <2> HIDE DEF g, q
    <2> QED BY <1>1, <1>2
  <1>8. AtMostOnce(G)
    <2> SUFFICES ASSUME NEW y \in S, NEW z \in S, NEW i \in 1..Len(G[y]), NEW j \in 1..Len(G[z]),
                        G[y][i] = G[z][j]
                 PROVE  y = z /\ i = j
      BY <1>4, OnceIfSamePlace, SMTT(40)
    <2>1. PICK a \in 1..Len(F[y]) :
              G[y][i] = F[y][a] /\ (y = x => a = n + i) /\ (y # x => a = i)
      <3>1. CASE y = x
        BY <1>4, <1>6, <3>1
      <3>2. CASE y # x
        BY <1>4, <3>2
      <3> QED BY <3>1, <3>2
    <2>2. PICK b \in 1..Len(F[z]) :
              G[z][j] = F[z][b] /\ (z = x => b = n + j) /\ (z # x => b = j)
      <3>1. CASE z = x
        BY <1>4, <1>6, <3>1
      <3>2. CASE z # x
        BY <1>4, <3>2
      <3> QED BY <3>1, <3>2
    <2>3. F[y][a] = F[z][b] /\ SamePlaces(F, S)
      BY <2>1, <2>2, SamePlace
    <2>4. y = z /\ a = b
      BY <2>3, SMTT(40) DEF SamePlaces
    <2> QED BY <1>1, <2>1, <2>2, <2>4
  <1>9. ASSUME NEW id PROVE id \in Held(G) <=> id \in Held(F) /\ id \notin Range(h)
    <2>1. ASSUME id \in Held(G) PROVE id \in Held(F) /\ id \notin Range(h)
      <3>1. PICK y \in S : \E i \in 1..Len(G[y]) : G[y][i] = id
        BY <1>4, <2>1, HeldSomewhere
      <3>2. PICK i \in 1..Len(G[y]) : G[y][i] = id
        BY <3>1
      <3> DEFINE a == IF y = x THEN n + i ELSE i
      <3>3. a \in 1..Len(F[y]) /\ F[y][a] = id
        BY <1>4, <1>6, <3>2
      <3>4. ASSUME NEW k \in 1..n, q[k] = id PROVE FALSE
        <4>1. k \in 1..Len(F[x])
          BY <1>1
        <4>P. SamePlaces(F, S)
          BY SamePlace
        <4>2. y = x /\ a = k
          <5> HIDE DEF a
          <5> QED BY <3>3, <3>4, <4>1, <4>P DEF SamePlaces
        <4> QED BY <1>1, <1>6, <3>2, <4>2, <1>4
      <3> HIDE DEF a
      <3>5. id \in Held(F)
        BY <3>3, HeldThere
      <3> QED BY <1>5, <3>4, <3>5
    <2>2. ASSUME id \in Held(F), id \notin Range(h) PROVE id \in Held(G)
      <3>1. PICK y \in S : \E i \in 1..Len(F[y]) : F[y][i] = id
        BY <2>2, HeldSomewhere
      <3>2. PICK i \in 1..Len(F[y]) : F[y][i] = id
        BY <3>1
      <3>3. CASE y # x
        BY <1>4, <3>2, <3>3, HeldThere
      <3>4. CASE y = x
        <4>1. i \notin 1..n
          BY <1>5, <2>2, <3>2, <3>4
        <4>2. i - n \in 1..Len(g) /\ n + (i - n) = i
          BY <1>7, <3>2, <3>4, <4>1
        <4>3. G[x][i - n] = id /\ i - n \in 1..Len(G[x])
          BY <1>2, <1>4, <3>2, <3>4, <4>2
        <4> QED BY <1>4, <4>3, HeldThere
      <3> QED BY <3>3, <3>4
    <2> QED BY <2>1, <2>2
  <1>10. ASSUME NEW i \in 1..n PROVE F[x][i] \in Held(F)
    <2>1. i \in 1..Len(F[x])
      BY <1>1
    <2> QED BY <2>1, HeldThere
  <1>11. Range(h) \subseteq Held(F)
    BY <1>5, <1>10
  <1>12. Held(G) = Held(F) \ Range(h)
    BY <1>9
  <1> QED BY <1>3, <1>4, <1>8, <1>10, <1>11, <1>12

\* An id is put at the end of a sequence.
LEMMA OneMore ==
    ASSUME NEW S, NEW F \in Families(S), AtMostOnce(F), NEW x \in S, NEW id \in Nat,
           id \notin Held(F), NEW G \in Families(S), G[x] = Append(F[x], id),
           \A y \in S \ {x} : G[y] = F[y]
    PROVE  AtMostOnce(G) /\ Held(G) = Held(F) \cup {id}
  <1> DEFINE q == F[x]
             g == Append(q, id)
  <1>1. q \in Seq(Nat) /\ Len(q) \in Nat /\ DOMAIN F = S
    BY FamilyShape
  <1>2. /\ g \in Seq(Nat) /\ Len(g) = Len(q) + 1 /\ g[Len(q) + 1] = id
        /\ \A i \in 1..Len(q) : g[i] = q[i]
    <2> HIDE DEF q
    <2> QED BY <1>1
  <1>3. G \in Families(S) /\ G[x] = g /\ \A y \in S : y # x => G[y] = F[y]
    BY <1>1, <1>2
  <1> HIDE DEF g, q
  <1>4. \A i \in 1..Len(g) : (i \in 1..Len(q) /\ g[i] = q[i]) \/ (i = Len(g) /\ g[i] = id)
    BY <1>1, <1>2
  <1>5. \A i \in 1..Len(q) : i \in 1..Len(g) /\ g[i] = q[i]
    BY <1>1, <1>2
  <1>6. Len(g) \in 1..Len(g) /\ g[Len(g)] = id
    BY <1>1, <1>2
  <1>7. \A y \in S : \A i \in 1..Len(G[y]) :
            \/ i \in 1..Len(F[y]) /\ G[y][i] = F[y][i]
            \/ y = x /\ i = Len(g) /\ G[y][i] = id
    <2> SUFFICES ASSUME NEW y \in S, NEW i \in 1..Len(G[y])
                 PROVE  \/ i \in 1..Len(F[y]) /\ G[y][i] = F[y][i]
                        \/ y = x /\ i = Len(g) /\ G[y][i] = id
      OBVIOUS
    <2>1. CASE y = x
      BY <1>3, <1>4, <2>1 DEF q
    <2>2. CASE y # x
      BY <1>3, <2>2
    <2> QED BY <2>1, <2>2
  <1>8. \A y \in S : \A i \in 1..Len(F[y]) : F[y][i] # id
    BY HeldThere
  <1>9. AtMostOnce(G)
    <2> SUFFICES ASSUME NEW y \in S, NEW z \in S, NEW i \in 1..Len(G[y]), NEW j \in 1..Len(G[z]),
                        G[y][i] = G[z][j]
                 PROVE  y = z /\ i = j
      BY <1>3, OnceIfSamePlace
    <2>1. CASE i \in 1..Len(F[y]) /\ G[y][i] = F[y][i]
      <3>1. j \in 1..Len(F[z]) /\ G[z][j] = F[z][j]
        BY <1>7, <1>8, <2>1, ZenonT(40)
      <3>2. SamePlaces(F, S) /\ F[y][i] = F[z][j]
        BY <2>1, <3>1, SamePlace
      <3> QED BY <2>1, <3>1, <3>2 DEF SamePlaces
    <2>2. CASE y = x /\ i = Len(g) /\ G[y][i] = id
      <3>1. z = x /\ j = Len(g)
        BY <1>7, <1>8, <2>2, SMTT(40)
      <3> QED BY <2>2, <3>1
    <2> QED BY <1>7, <2>1, <2>2
  <1>10. ASSUME NEW k PROVE k \in Held(G) <=> k \in Held(F) \/ k = id
    <2>1. ASSUME k \in Held(G) PROVE k \in Held(F) \/ k = id
      <3>1. PICK y \in S : \E i \in 1..Len(G[y]) : G[y][i] = k
        BY <1>3, <2>1, HeldSomewhere
      <3>2. PICK i \in 1..Len(G[y]) : G[y][i] = k
        BY <3>1
      <3> QED BY <1>7, <3>2, HeldThere
    <2>2. ASSUME k \in Held(F) PROVE k \in Held(G)
      <3>1. PICK y \in S : \E i \in 1..Len(F[y]) : F[y][i] = k
        BY <2>2, HeldSomewhere
      <3>2. PICK i \in 1..Len(F[y]) : F[y][i] = k
        BY <3>1
      <3>3. i \in 1..Len(G[y]) /\ G[y][i] = k
        <4>1. CASE y = x
          BY <1>3, <1>5, <3>2, <4>1 DEF q
        <4>2. CASE y # x
          BY <1>3, <3>2, <4>2
        <4> QED BY <4>1, <4>2
      <3> QED BY <1>3, <3>3, HeldThere
    <2>3. ASSUME k = id PROVE k \in Held(G)
      <3>1. G[x][Len(g)] = k /\ Len(g) \in 1..Len(G[x])
        BY <1>3, <1>6, <2>3
      <3> QED BY <1>3, <3>1, HeldThere
    <2> QED BY <2>1, <2>2, <2>3
  <1> QED BY <1>3, <1>9, <1>10

\* A sequence is put where there was none, or taken away.
LEMMA AllCome ==
    ASSUME NEW S, NEW F \in Families(S), AtMostOnce(F), NEW x \in S, F[x] = <<>>,
           NEW s \in Seq(Nat), Range(s) \cap Held(F) = {},
           \A i, j \in 1..Len(s) : s[i] = s[j] => i = j,
           NEW G \in Families(S), G[x] = s, \A y \in S \ {x} : G[y] = F[y]
    PROVE  AtMostOnce(G) /\ Held(G) = Held(F) \cup Range(s)
  <1>1. G \in Families(S) /\ G[x] = s /\ \A y \in S : y # x => G[y] = F[y]
    OBVIOUS
  <1>2. Len(s) \in Nat /\ DOMAIN s = 1..Len(s) /\ Range(s) = {s[i] : i \in 1..Len(s)}
    BY DEF Range
  <1>3. \A i \in 1..Len(F[x]) : FALSE
    OBVIOUS
  <1>4. \A y \in S : \A i \in 1..Len(F[y]) : \A j \in 1..Len(s) : F[y][i] # s[j]
    <2> SUFFICES ASSUME NEW y \in S, NEW i \in 1..Len(F[y]), NEW j \in 1..Len(s), F[y][i] = s[j]
                 PROVE  FALSE
      OBVIOUS
    <2>1. F[y][i] \in Held(F) /\ s[j] \in Range(s)
      BY <1>2, HeldThere
    <2> QED BY <2>1
  <1>5. AtMostOnce(G)
    <2> SUFFICES ASSUME NEW y \in S, NEW z \in S, NEW i \in 1..Len(G[y]), NEW j \in 1..Len(G[z]),
                        G[y][i] = G[z][j]
                 PROVE  y = z /\ i = j
      BY <1>1, OnceIfSamePlace
    <2>1. CASE y = x
      BY <1>1, <1>4, <2>1
    <2>2. CASE z = x
      BY <1>1, <1>4, <2>2
    <2>3. CASE y # x /\ z # x
      <3>1. SamePlaces(F, S)
        BY SamePlace
      <3> QED BY <1>1, <2>3, <3>1 DEF SamePlaces
    <2> QED BY <2>1, <2>2, <2>3
  <1>6. ASSUME NEW k PROVE k \in Held(G) <=> k \in Held(F) \/ k \in Range(s)
    <2>1. ASSUME k \in Held(G) PROVE k \in Held(F) \/ k \in Range(s)
      <3>1. PICK y \in S : \E i \in 1..Len(G[y]) : G[y][i] = k
        BY <1>1, <2>1, HeldSomewhere
      <3>2. CASE y = x
        BY <1>1, <1>2, <3>1, <3>2
      <3>3. CASE y # x
        BY <1>1, <3>1, <3>3, HeldThere
      <3> QED BY <3>2, <3>3
    <2>2. ASSUME k \in Held(F) PROVE k \in Held(G)
      <3>1. PICK y \in S : \E i \in 1..Len(F[y]) : F[y][i] = k
        BY <2>2, HeldSomewhere
      <3>2. y # x
        BY <1>3, <3>1
      <3> QED BY <1>1, <3>1, <3>2, HeldThere
    <2>3. ASSUME k \in Range(s) PROVE k \in Held(G)
      <3>1. \E i \in 1..Len(G[x]) : G[x][i] = k
        BY <1>1, <1>2, <2>3
      <3> QED BY <1>1, <3>1, HeldThere
    <2> QED BY <2>1, <2>2, <2>3
  <1> QED BY <1>1, <1>5, <1>6

Taking == INSTANCE FoldTheorems WITH Op <- take

\* The first id of a sequence goes.
LEMMA OneGoes ==
    ASSUME NEW S, NEW F \in Families(S), AtMostOnce(F), NEW x \in S, F[x] # <<>>,
           NEW G \in Families(S), G[x] = Tail(F[x]), \A y \in S \ {x} : G[y] = F[y]
    PROVE  /\ AtMostOnce(G) /\ Held(G) = Held(F) \ {Head(F[x])}
           /\ Head(F[x]) \in Held(F) /\ Head(F[x]) \in Nat
  <1> DEFINE q == F[x]
  <1>1. q \in Seq(Nat) /\ q # <<>>
    BY FamilyShape
  <1> HIDE DEF q
  <1>2. /\ Tail(q) = SubSeq(q, 1 + 1, Len(q)) /\ Head(q) = q[1] /\ 1 \in 0..Len(q)
        /\ Head(q) \in Nat
    BY <1>1
  <1>3. /\ AtMostOnce(G) /\ Held(G) = Held(F) \ Range(SubSeq(q, 1, 1))
        /\ SubSeq(q, 1, 1) \in Seq(Nat) /\ Len(SubSeq(q, 1, 1)) = 1
        /\ \A i \in 1..1 : SubSeq(q, 1, 1)[i] = q[i] /\ q[i] \in Held(F)
    <2>1. F[x] = q /\ G[x] = SubSeq(F[x], 1 + 1, Len(F[x])) /\ 1 \in 0..Len(F[x])
      BY <1>2 DEF q
    <2>2. /\ AtMostOnce(G) /\ Held(G) = Held(F) \ Range(SubSeq(F[x], 1, 1))
          /\ SubSeq(F[x], 1, 1) \in Seq(Nat) /\ Len(SubSeq(F[x], 1, 1)) = 1
          /\ \A i \in 1..1 : SubSeq(F[x], 1, 1)[i] = F[x][i] /\ F[x][i] \in Held(F)
      BY <2>1, FirstGo, SMTT(40)
    <2> QED BY <2>1, <2>2, Zenon
  <1> DEFINE h == SubSeq(q, 1, 1)
  <1>4. Range(h) = {Head(q)}
    <2>1. DOMAIN h = {1} /\ h[1] = Head(q)
      BY <1>2, <1>3
    <2> HIDE DEF h
    <2> QED BY <2>1 DEF Range
  <1> QED BY <1>2, <1>3, <1>4 DEF q

\* A whole sequence goes.
LEMMA AllGo ==
    ASSUME NEW S, NEW F \in Families(S), AtMostOnce(F), NEW x \in S,
           NEW G \in Families(S), G[x] = <<>>, \A y \in S \ {x} : G[y] = F[y]
    PROVE  AtMostOnce(G) /\ Held(G) = Held(F) \ Range(F[x]) /\ Range(F[x]) \subseteq Held(F)
  <1> DEFINE q == F[x]
             n == Len(q)
  <1>1. q \in Seq(Nat) /\ n \in Nat
    BY FamilyShape
  <1>2. SubSeq(q, n + 1, n) = <<>> /\ SubSeq(q, 1, n) = q /\ n \in 0..n
    <2> HIDE DEF q
    <2> QED BY <1>1
  <1> HIDE DEF q
  <1>3. /\ AtMostOnce(G) /\ Held(G) = Held(F) \ Range(SubSeq(q, 1, n))
        /\ Range(SubSeq(q, 1, n)) \subseteq Held(F)
    <2>1. F[x] = q /\ G[x] = SubSeq(F[x], n + 1, Len(F[x])) /\ n \in 0..Len(F[x])
      BY <1>2 DEF q
    <2>2. /\ AtMostOnce(G) /\ Held(G) = Held(F) \ Range(SubSeq(F[x], 1, n))
          /\ Range(SubSeq(F[x], 1, n)) \subseteq Held(F)
      <3> HIDE DEF n
      <3> QED BY <2>1, FirstGo
    <2> QED BY <2>1, <2>2, Zenon
  <1> QED BY <1>2, <1>3 DEF q

\* An id is in one place of a family, or in none.
LEMMA OnePlace ==
    ASSUME NEW S, NEW F \in Families(S), AtMostOnce(F), NEW id
    PROVE  Cardinality(Where(id, F)) = (IF id \in Held(F) THEN 1 ELSE 0)
  <1>1. DOMAIN F = S /\ \A x \in S : DOMAIN F[x] = 1..Len(F[x])
    BY FamilyShape
  <1>2. ASSUME NEW p
        PROVE  p \in Where(id, F)
                  <=> \E x \in S : \E i \in 1..Len(F[x]) : F[x][i] = id /\ p = <<x, i>>
    BY <1>1 DEF Where
  <1>3. CASE id \notin Held(F)
    <2>1. Where(id, F) = {}
      BY <1>2, <1>3, HeldThere
    <2> QED BY <1>3, <2>1, FS_EmptySet
  <1>4. CASE id \in Held(F)
    <2>1. PICK x \in S : \E i \in 1..Len(F[x]) : F[x][i] = id
      BY <1>4, HeldSomewhere
    <2>2. PICK i \in 1..Len(F[x]) : F[x][i] = id
      BY <2>1
    <2>3. SamePlaces(F, S)
      BY SamePlace
    <2>4. ASSUME NEW y \in S, NEW j \in 1..Len(F[y]), F[y][j] = id PROVE y = x /\ j = i
      BY <2>2, <2>3, <2>4 DEF SamePlaces
    <2>5. Where(id, F) = {<<x, i>>}
      BY <1>2, <2>2, <2>4
    <2> QED BY <1>4, <2>5, FS_Singleton
  <1> QED BY <1>3, <1>4

\* When all that is taken from a queue waits, all of it is processed.
LEMMA AllTaken ==
    ASSUME NEW q \in Seq(Nat), \A i \in 1..Len(q) : items[q[i]].status \in Waiting
    PROVE  FoldLeft(take, <<>>, q) = q
  <1> DEFINE n == Len(q)
             W == [k \in 0..n |-> {s \in Seq(Nat) : Len(s) = k /\ \A i \in 1..k : s[i] = q[i]}]
  <1>1. n \in Nat /\ DOMAIN q = 1..n /\ \A i \in 1..n : q[i] \in Nat
    OBVIOUS
  <1>2. <<>> \in W[0]
    BY <1>1
  <1>3. ASSUME NEW k \in 1..n, NEW s \in W[k - 1] PROVE take(s, q[k]) \in W[k]
    <2>1. k - 1 \in 0..n /\ k \in 0..n
      BY <1>1
    <2>2. s \in Seq(Nat) /\ Len(s) = k - 1 /\ \A i \in 1..(k - 1) : s[i] = q[i]
      BY <2>1
    <2>3. take(s, q[k]) = Append(s, q[k])
      BY DEF take
    <2> DEFINE a == Append(s, q[k])
    <2>4. a \in Seq(Nat) /\ Len(a) = k /\ a[k] = q[k] /\ \A i \in 1..(k - 1) : a[i] = s[i]
      BY <1>1, <2>2
    <2> HIDE DEF a
    <2>5. \A i \in 1..k : a[i] = q[i]
      <3> TAKE i \in 1..k
      <3>1. i = k \/ i \in 1..(k - 1)
        OBVIOUS
      <3> QED BY <2>2, <2>4, <3>1
    <2>6. a \in W[k]
      BY <2>1, <2>4, <2>5
    <2> QED BY <2>3, <2>6 DEF a
  <1>4. ASSUME NEW r \in W[n] PROVE r = q
    <2>1. r \in Seq(Nat) /\ Len(r) = n /\ \A i \in 1..n : r[i] = q[i]
      BY <1>1
    <2> QED BY <1>1, <2>1
  <1> HIDE DEF W
  <1>5. Taking!Looped(<<>>, q) \in W[n]
    BY <1>1, <1>2, <1>3, Taking!LoopInvariant
  <1>6. FoldLeft(take, <<>>, q) = Taking!Looped(<<>>, q)
    BY DEF FoldLeft, MapThenFoldSet, Taking!Looped, Taking!IsLoopTable,
           Taking!LoopEntry, take, Max, Taking!Highest
  <1> QED BY <1>4, <1>5, <1>6

\* No more is taken from a queue than it has.
LEMMA LowerOfTwo ==
    ASSUME NEW a \in Nat, NEW b \in Nat
    PROVE  Min({a, b}) \in 0..a
  <1>1. CASE a <= b
    <2>1. a \in {a, b} /\ \A y \in {a, b} : a <= y
      BY <1>1
    <2> QED BY <2>1 DEF Min
  <1>2. CASE ~(a <= b)
    <2>1. b \in {a, b} /\ \A y \in {a, b} : b <= y
      BY <1>2
    <2> QED BY <2>1 DEF Min
  <1> QED BY <1>1, <1>2

\* The batch size stays a number.
LEMMA ConcurrencyIsNatural ==
    ASSUME EngineAssumption, NEW size \in Nat
    PROVE  updateAdaptiveConcurrency(size) \subseteq Nat
  <1>1. MinBatchSize \in Nat /\ MaxBatchSize \in Nat
    BY DEF EngineAssumption
  <1>2. (size * 3) \div 4 \in Nat /\ (size * 5) \div 4 \in Nat
    OBVIOUS
  <1>3. ASSUME NEW a \in Nat, NEW b \in Nat PROVE Max({a, b}) \in Nat /\ Min({a, b}) \in Nat
    <2>1. Min({a, b}) \in 0..a
      BY LowerOfTwo
    <2>2. Max({a, b}) \in Nat
      <3>1. CASE a >= b
        <4>1. a \in {a, b} /\ \A y \in {a, b} : a >= y
          BY <3>1
        <4> QED BY <4>1 DEF Max
      <3>2. CASE ~(a >= b)
        <4>1. b \in {a, b} /\ \A y \in {a, b} : b >= y
          BY <3>2
        <4> QED BY <4>1 DEF Max
      <3> QED BY <3>1, <3>2
    <2> QED BY <2>1, <2>2
  <1> QED BY <1>1, <1>2, <1>3, ZenonT(40) DEF updateAdaptiveConcurrency

ItemsWith(R) == [status : Statuses, attempts : Nat, updatedAt : Nat, receipt : R]

LEMMA ItemShape ==
    ASSUME NEW x, NEW R, x \in ItemsWith(R)
    PROVE  IsItem(x)
  BY DEF IsItem, ItemsWith

\* What an item becomes when its payment was made.
LEMMA ItemSettles ==
    ASSUME NEW x, IsItem(x)
    PROVE  /\ IsItem(settled_item(x)) /\ settled_item(x).status = "SETTLED"
  <1> DEFINE R == {x.receipt}
             u == x.updatedAt + 1
             y == settled_item(x)
  <1>1. x \in ItemsWith(R)
    BY DEF IsItem, ItemsWith
  <1>2. y = [x EXCEPT !.status = "SETTLED", !.updatedAt = u]
    BY DEF settled_item
  <1>3. u \in Nat /\ "SETTLED" \in Statuses
    BY <1>1 DEF ItemsWith, Statuses
  <1> HIDE DEF R, u, y
  <1>4. y \in ItemsWith(R) /\ y.status = "SETTLED"
    BY <1>1, <1>2, <1>3 DEF ItemsWith
  <1> QED BY <1>4, ItemShape DEF y

\* What an item becomes when the processor failed.
LEMMA ItemFails ==
    ASSUME NEW x, IsItem(x), NEW fatal \in BOOLEAN
    PROVE  /\ IsItem(failed_item(x, fatal)) /\ failed_item(x, fatal).status \in {"FAILED", "DLQ"}
  <1> DEFINE R == {x.receipt}
             n == x.attempts + 1
             u == x.updatedAt + 1
             y == failed_item(x, fatal)
             st == IF fatal \/ x.attempts + 1 >= EngineRetries THEN "DLQ" ELSE "FAILED"
  <1>1. x \in ItemsWith(R)
    BY DEF IsItem, ItemsWith
  <1>2. y = [x EXCEPT !.status = st, !.attempts = n, !.updatedAt = u]
    BY DEF failed_item
  <1>3. u \in Nat /\ n \in Nat /\ st \in {"FAILED", "DLQ"} /\ st \in Statuses
    BY <1>1 DEF ItemsWith, Statuses
  <1> HIDE DEF R, st, n, u, y
  <1>4. y \in ItemsWith(R) /\ y.status \in {"FAILED", "DLQ"}
    BY <1>1, <1>2, <1>3 DEF ItemsWith
  <1> QED BY <1>4, ItemShape DEF y

\* What runs have in hand and have settled.
LEMMA RunsHold ==
    ASSUME NEW rs \in [Runs -> {Idle} \cup WorkingRun]
    PROVE  /\ [c \in Runs |-> TodoOf(rs[c])] \in Families(Runs)
           /\ [c \in Runs |-> SettledOf(rs[c])] \in Families(Runs)
           /\ \A c \in Runs : rs[c] # Idle =>
                 /\ rs[c] \in WorkingRun
                 /\ TodoOf(rs[c]) = rs[c].todo /\ SettledOf(rs[c]) = rs[c].settled
           /\ TodoOf(Idle) = <<>> /\ SettledOf(Idle) = <<>>
           /\ Idle \notin WorkingRun
  <1>1. Idle \notin WorkingRun
    BY DEF Idle, WorkingRun
  <1>2. TodoOf(Idle) = <<>> /\ SettledOf(Idle) = <<>>
    BY DEF TodoOf, SettledOf
  <1>3. <<>> \in Seq(Nat)
    OBVIOUS
  <1>4. ASSUME NEW c \in Runs
        PROVE  /\ TodoOf(rs[c]) \in Seq(Nat) /\ SettledOf(rs[c]) \in Seq(Nat)
               /\ rs[c] # Idle => /\ rs[c] \in WorkingRun
                                  /\ TodoOf(rs[c]) = rs[c].todo
                                  /\ SettledOf(rs[c]) = rs[c].settled
    <2>1. CASE rs[c] = Idle
      BY <1>2, <1>3, <2>1
    <2>2. CASE rs[c] # Idle
      <3>1. rs[c] \in WorkingRun
        BY <2>2
      <3>2. rs[c].todo \in Seq(Nat) /\ rs[c].settled \in Seq(Nat)
        BY <3>1 DEF WorkingRun
      <3> QED BY <2>2, <3>1, <3>2 DEF TodoOf, SettledOf
    <2> QED BY <2>1, <2>2
  <1> QED BY <1>1, <1>2, <1>4 DEF Families

\* What a run does with its items changes neither their statuses nor their
\* leaves.
LEMMA RunContinues ==
    ASSUME EngineAssumption, EngineTypeOK, NEW c \in Runs, runs[c] # Idle,
           NEW its, AreItems(its), NEW settled \in Seq(Nat), Continue(c, its, settled)
    PROVE  /\ AreItems(items') /\ DOMAIN items' = DOMAIN its
           /\ \A id \in DOMAIN its : /\ items'[id].status = its[id].status
                                     /\ items'[id].updatedAt = its[id].updatedAt
           /\ runs' \in [Runs -> {Idle} \cup WorkingRun]
           /\ adaptiveBatchSize' \in Nat
           /\ InHand[c] # <<>> /\ InHand'[c] = Tail(InHand[c])
           /\ \A d \in Runs \ {c} : InHand'[d] = InHand[d] /\ Unbatched'[d] = Unbatched[d]
           /\ \/ Unbatched'[c] = settled /\ items' = its /\ UNCHANGED <<batches, lastBatchHash>>
              \/ Unbatched'[c] = <<>> /\ settled # <<>> /\ Receipted(its, runs[c].shard, settled)
  <1> DEFINE todo == runs[c].todo
  <1>1. /\ runs \in [Runs -> {Idle} \cup WorkingRun] /\ adaptiveBatchSize \in Nat
        /\ runs[c] \in WorkingRun
    BY DEF EngineTypeOK
  <1>2. todo \in Seq(Nat) /\ todo # <<>> /\ InHand[c] = todo
    BY <1>1, RunsHold DEF InHand, WorkingRun
  <1>3. Len(todo) \in Nat /\ Tail(todo) \in Seq(Nat) /\ (Len(todo) > 1 <=> Tail(todo) # <<>>)
    <2> HIDE DEF todo
    <2>1. Len(todo) \in Nat /\ Len(todo) > 0 /\ Tail(todo) \in Seq(Nat)
          /\ Len(Tail(todo)) = Len(todo) - 1
      BY <1>2
    <2>2. \A t \in Seq(Nat) : t = <<>> <=> Len(t) = 0
      OBVIOUS
    <2> DEFINE t == Tail(todo)
               n == Len(todo)
    <2>3. t \in Seq(Nat) /\ n \in Nat /\ n > 0 /\ Len(t) = n - 1
      BY <2>1
    <2> HIDE DEF t, n
    <2>4. n > 1 <=> t # <<>>
      BY <2>2, <2>3
    <2> QED BY <2>3, <2>4 DEF t, n
  <1>4. /\ AreItems(items') /\ DOMAIN items' = DOMAIN its
        /\ \A id \in DOMAIN its : /\ items'[id].status = its[id].status
                                  /\ items'[id].updatedAt = its[id].updatedAt
    <2>1. CASE items' = its
      BY <2>1
    <2>2. CASE Receipted(its, runs[c].shard, settled)
      <3>1. DOMAIN items' = DOMAIN its /\ items' = [id \in DOMAIN items' |-> items'[id]]
        BY <2>2 DEF Receipted
      <3>2. ASSUME NEW id \in DOMAIN its
            PROVE  items'[id] = its[id] \/ \E r : items'[id] = [its[id] EXCEPT !.receipt = r]
        BY <2>2 DEF Receipted
      <3>3. ASSUME NEW id \in DOMAIN its
            PROVE  /\ IsItem(items'[id]) /\ items'[id].status = its[id].status
                   /\ items'[id].updatedAt = its[id].updatedAt
        <4>1. IsItem(its[id])
          BY DEF AreItems
        <4>2. CASE items'[id] = its[id]
          BY <4>1, <4>2
        <4>3. ASSUME NEW r, items'[id] = [its[id] EXCEPT !.receipt = r]
              PROVE  /\ IsItem(items'[id]) /\ items'[id].status = its[id].status
                     /\ items'[id].updatedAt = its[id].updatedAt
          BY <4>1, <4>3 DEF IsItem
        <4> QED BY <3>2, <4>2, <4>3
      <3> QED BY <3>1, <3>3 DEF AreItems
    <2> QED BY <2>1, <2>2 DEF Continue
  <1>5. CASE Len(todo) > 1
    <2> DEFINE run == [runs[c] EXCEPT !.todo = Tail(todo), !.settled = settled]
    <2>1. run \in WorkingRun /\ run.todo = Tail(todo) /\ run.settled = settled
      BY <1>1, <1>3, <1>5 DEF WorkingRun
    <2>2. /\ runs' = [runs EXCEPT ![c] = run]
          /\ items' = its /\ UNCHANGED <<batches, lastBatchHash, adaptiveBatchSize>>
      BY <1>1, <1>5 DEF Continue, WorkingRun
    <2> HIDE DEF run
    <2>3. /\ runs' \in [Runs -> {Idle} \cup WorkingRun] /\ runs'[c] = run
          /\ \A d \in Runs \ {c} : runs'[d] = runs[d]
      BY <1>1, <2>1, <2>2
    <2>4. InHand'[c] = Tail(todo) /\ Unbatched'[c] = settled
      BY <2>1, <2>3, RunsHold DEF InHand, Unbatched, TodoOf, SettledOf
    <2>5. \A d \in Runs \ {c} : InHand'[d] = InHand[d] /\ Unbatched'[d] = Unbatched[d]
      BY <2>3 DEF InHand, Unbatched, TodoOf, SettledOf
    <2> QED BY <1>1, <1>2, <1>4, <2>2, <2>3, <2>4, <2>5
  <1>6. CASE ~(Len(todo) > 1)
    <2>1. /\ runs' = [runs EXCEPT ![c] = Idle]
          /\ adaptiveBatchSize' \in updateAdaptiveConcurrency(adaptiveBatchSize)
          /\ IF settled # <<>> THEN Receipted(its, runs[c].shard, settled)
             ELSE items' = its /\ UNCHANGED <<batches, lastBatchHash>>
      BY <1>6 DEF Continue
    <2>2. /\ runs' \in [Runs -> {Idle} \cup WorkingRun] /\ runs'[c] = Idle
          /\ \A d \in Runs \ {c} : runs'[d] = runs[d]
      BY <1>1, <2>1
    <2>3. InHand'[c] = Tail(todo) /\ Unbatched'[c] = <<>>
      BY <1>3, <1>6, <2>2 DEF InHand, Unbatched, TodoOf, SettledOf
    <2>4. \A d \in Runs \ {c} : InHand'[d] = InHand[d] /\ Unbatched'[d] = Unbatched[d]
      BY <2>2 DEF InHand, Unbatched, TodoOf, SettledOf
    <2>5. adaptiveBatchSize' \in Nat
      BY <1>1, <2>1, ConcurrencyIsNatural
    <2>6. CASE settled # <<>>
      BY <1>2, <1>4, <2>1, <2>2, <2>3, <2>4, <2>5, <2>6
    <2>7. CASE settled = <<>>
      BY <1>2, <1>4, <2>1, <2>2, <2>3, <2>4, <2>5, <2>7
    <2> QED BY <2>6, <2>7
  <1> QED BY <1>5, <1>6

\* The id of the payment that is stored next.
NewId == Len(created) + 1
Records == [key : Key, payload : Payload, paid : Nat]

LEMMA RecordAdded ==
    ASSUME NEW R, NEW s \in Seq(R), NEW x \in R
    PROVE  LET t == Append(s, x) IN
           /\ t \in Seq(R) /\ Len(s) \in Nat /\ DOMAIN s = 1..Len(s)
           /\ DOMAIN t = DOMAIN s \cup {Len(s) + 1} /\ Len(s) + 1 \notin DOMAIN s
           /\ Len(t) = Len(s) + 1
           /\ t[Len(s) + 1] = x /\ \A i \in DOMAIN s : t[i] = s[i]
  <1> DEFINE t == Append(s, x)
             n == Len(s)
  <1>1. n \in Nat /\ DOMAIN s = 1..n
    OBVIOUS
  <1>2. t \in Seq(R) /\ Len(t) = n + 1 /\ t[n + 1] = x /\ \A i \in 1..n : t[i] = s[i]
    BY <1>1
  <1>3. DOMAIN t = 1..Len(t)
    BY <1>2
  <1> HIDE DEF t, n
  <1>4. 1..(n + 1) = (1..n) \cup {n + 1} /\ n + 1 \notin 1..n
    BY <1>1
  <1> QED BY <1>1, <1>2, <1>3, <1>4 DEF t, n

\* A payment is stored.
LEMMA StoredShape ==
    ASSUME EngineAssumption, EngineTypeOK, NEW k \in Key, NEW p \in Payload, Stored(k, p)
    PROVE  /\ created' \in Seq(Records) /\ NewId \notin DOMAIN created /\ NewId \in Nat
           /\ DOMAIN created' = DOMAIN created \cup {NewId}
           /\ created'[NewId] = [key |-> k, payload |-> p, paid |-> 0]
           /\ \A i \in DOMAIN created : created'[i] = created[i]
           /\ AreItems(items') /\ DOMAIN items' = DOMAIN items \cup {NewId}
           /\ items'[NewId].status = "PENDING" /\ \A i \in DOMAIN items : items'[i] = items[i]
           /\ shards' \in Families(Shard) /\ shards'[ShardOf[p]] = Append(shards[ShardOf[p]], NewId)
           /\ \A s \in Shard \ {ShardOf[p]} : shards'[s] = shards[s]
           /\ ShardOf[p] \in Shard
           /\ idempotencyStore' \in [Key -> Nat \cup {NoId}] /\ idempotencyStore'[k] = NewId
           /\ \A l \in Key \ {k} : idempotencyStore'[l] = idempotencyStore[l]
  <1> DEFINE x == [key |-> k, payload |-> p, paid |-> 0]
             new == [status |-> "PENDING", attempts |-> 0, updatedAt |-> 0, receipt |-> NoReceipt]
             s0 == ShardOf[p]
  <1>1. created \in Seq(Records) /\ x \in Records
    BY DEF EngineTypeOK, Records
  <1>2. created' = Append(created, x)
    BY DEF Stored, NewId
  <1>3. /\ created' \in Seq(Records) /\ Len(created) \in Nat /\ NewId \notin DOMAIN created /\ NewId \in Nat
        /\ DOMAIN created' = DOMAIN created \cup {NewId} /\ created'[NewId] = x
        /\ \A i \in DOMAIN created : created'[i] = created[i]
    <2> HIDE DEF x
    <2> QED BY <1>1, <1>2, RecordAdded DEF NewId
  <1>4. s0 \in Shard
    BY DEF EngineAssumption
  <1>5. /\ items' = [i \in DOMAIN items \cup {NewId} |-> IF i = NewId THEN new ELSE items[i]]
        /\ shards' = [shards EXCEPT ![s0] = Append(@, NewId)]
        /\ idempotencyStore' = [idempotencyStore EXCEPT ![k] = NewId]
    BY DEF Stored, NewId
  <1>6. IsItem(new) /\ new.status = "PENDING"
    BY DEF IsItem, Statuses
  <1>7. AreItems(items) /\ DOMAIN items \subseteq DOMAIN created /\ NewId \notin DOMAIN items
    BY <1>3 DEF EngineTypeOK
  <1> HIDE DEF new
  <1>8. /\ AreItems(items') /\ DOMAIN items' = DOMAIN items \cup {NewId}
        /\ items'[NewId].status = "PENDING" /\ \A i \in DOMAIN items : items'[i] = items[i]
    BY <1>5, <1>6, <1>7 DEF AreItems
  <1>9. /\ shards' \in Families(Shard) /\ shards'[s0] = Append(shards[s0], NewId)
        /\ \A s \in Shard \ {s0} : shards'[s] = shards[s]
    <2>1. shards \in [Shard -> Seq(Nat)]
      BY DEF EngineTypeOK, Families
    <2>2. Append(shards[s0], NewId) \in Seq(Nat)
      BY <1>3, <1>4, <2>1
    <2> HIDE DEF s0
    <2> QED BY <1>4, <1>5, <2>1, <2>2 DEF Families
  <1>10. /\ idempotencyStore' \in [Key -> Nat \cup {NoId}] /\ idempotencyStore'[k] = NewId
         /\ \A l \in Key \ {k} : idempotencyStore'[l] = idempotencyStore[l]
    BY <1>3, <1>5 DEF EngineTypeOK
  <1> QED BY <1>3, <1>4, <1>8, <1>9, <1>10

\* The payment that is stored waits in a queue, and nothing else moves.
LEMMA StoredWaits ==
    ASSUME EngineAssumption, EngineTypeOK, PlacesAreRight, NEW k \in Key, NEW p \in Payload,
           Stored(k, p)
    PROVE  PlacesAreRight' /\ WithStatus(items', {"SETTLED"}) = WithStatus(items, {"SETTLED"})
  <1>1. /\ created' \in Seq(Records) /\ NewId \notin DOMAIN created /\ NewId \in Nat
        /\ DOMAIN created' = DOMAIN created \cup {NewId}
        /\ created'[NewId] = [key |-> k, payload |-> p, paid |-> 0]
        /\ \A i \in DOMAIN created : created'[i] = created[i]
        /\ AreItems(items') /\ DOMAIN items' = DOMAIN items \cup {NewId}
        /\ items'[NewId].status = "PENDING" /\ \A i \in DOMAIN items : items'[i] = items[i]
        /\ shards' \in Families(Shard) /\ shards'[ShardOf[p]] = Append(shards[ShardOf[p]], NewId)
        /\ \A s \in Shard \ {ShardOf[p]} : shards'[s] = shards[s]
        /\ ShardOf[p] \in Shard
        /\ idempotencyStore' \in [Key -> Nat \cup {NoId}] /\ idempotencyStore'[k] = NewId
        /\ \A l \in Key \ {k} : idempotencyStore'[l] = idempotencyStore[l]
    BY StoredShape
  <1>2. DOMAIN items \subseteq DOMAIN created /\ shards \in Families(Shard)
    BY DEF EngineTypeOK
  <1>3. /\ WithStatus(items', Waiting) = WithStatus(items, Waiting) \cup {NewId}
        /\ WithStatus(items', {"PROCESSING"}) = WithStatus(items, {"PROCESSING"})
        /\ WithStatus(items', {"SETTLED"}) = WithStatus(items, {"SETTLED"})
    BY <1>1, <1>2 DEF WithStatus, Waiting
  <1>4. NewId \notin Held(shards)
    BY <1>1, <1>2 DEF PlacesAreRight, WithStatus
  <1>5. AtMostOnce(shards') /\ Held(shards') = Held(shards) \cup {NewId}
    BY <1>1, <1>2, <1>4, OneMore DEF PlacesAreRight
  <1>6. InHand' = InHand
    BY DEF InHand, TodoOf, Stored
  <1>7. \A i \in DOMAIN items' :
            created'[i].paid = (IF items'[i].status = "SETTLED" THEN 1 ELSE 0)
    BY <1>1, <1>2 DEF PlacesAreRight
  <1> QED BY <1>3, <1>5, <1>6, <1>7 DEF PlacesAreRight

\* A sequence joins a family.
LEMMA AllJoin ==
    ASSUME NEW S, NEW F \in Families(S), AtMostOnce(F), NEW x, x \notin S,
           NEW s \in Seq(Nat), Range(s) \cap Held(F) = {},
           \A i, j \in 1..Len(s) : s[i] = s[j] => i = j,
           NEW G \in Families(S \cup {x}), G[x] = s, \A y \in S : G[y] = F[y]
    PROVE  AtMostOnce(G) /\ Held(G) = Held(F) \cup Range(s)
  <1> DEFINE T == S \cup {x}
             H == [y \in T |-> IF y = x THEN <<>> ELSE F[y]]
  <1>1. H \in Families(T) /\ H[x] = <<>> /\ \A y \in S : H[y] = F[y]
    <2>1. <<>> \in Seq(Nat) /\ \A y \in S : F[y] \in Seq(Nat)
      BY FamilyShape
    <2> QED BY <2>1 DEF Families
  <1>2. \A i \in 1..Len(<<>>) : FALSE
    OBVIOUS
  <1>3. DOMAIN F = S /\ DOMAIN H = T /\ x \in T
    BY FamilyShape
  <1> HIDE DEF H
  <1>4. AtMostOnce(H)
    <2>1. SamePlaces(F, S)
      BY SamePlace
    <2>2. SamePlaces(H, T)
      BY <1>1, <1>2, <2>1 DEF SamePlaces
    <2> QED BY <1>1, <2>2, OnceIfSamePlace DEF SamePlaces
  <1>5. Held(H) = Held(F)
    <2>1. Range(<<>>) = {}
      BY DEF Range
    <2> QED BY <1>1, <1>3, <2>1 DEF Held
  <1>6. \A y \in T \ {x} : G[y] = H[y]
    BY <1>1
  <1>7. G \in Families(T)
    OBVIOUS
  <1> HIDE DEF T
  <1> QED BY <1>1, <1>3, <1>4, <1>5, <1>6, <1>7, AllCome

\* Receipts fit as long as no settled item changes, whatever else is settled.
LEMMA ReceiptsStillFit ==
    ASSUME NEW kept, NEW its, ReceiptsFit(kept, its),
           NEW more, NEW itsNow,
           AtMostOnce(more), NEW N, Held(more) = Held(kept) \cup N,
           N \cap WithStatus(its, {"SETTLED"}) = {},
           WithStatus(itsNow, {"SETTLED"}) = WithStatus(its, {"SETTLED"}) \cup N,
           \A id \in WithStatus(its, {"SETTLED"}) :
               itsNow[id].updatedAt = its[id].updatedAt /\ itsNow[id].receipt = its[id].receipt
    PROVE  ReceiptsFit(more, itsNow)
  <1>1. Held(more) \cap Held(Batched) = {}
    BY DEF ReceiptsFit
  <1>2. Held(more) \cup Held(Batched) = WithStatus(itsNow, {"SETTLED"})
    BY DEF ReceiptsFit
  <1>3. ASSUME NEW n \in DOMAIN batches, NEW id \in Range(batches[n].items)
        PROVE  IsReceipt(itsNow[id].receipt, LeafOf(itsNow, id), n)
    <2>1. id \in Held(Batched)
      BY DEF Held, Batched
    <2>2. id \in WithStatus(its, {"SETTLED"})
      BY <2>1 DEF ReceiptsFit
    <2>3. LeafOf(itsNow, id) = LeafOf(its, id) /\ itsNow[id].receipt = its[id].receipt
      BY <2>2 DEF LeafOf
    <2>4. IsReceipt(its[id].receipt, LeafOf(its, id), n)
      BY DEF ReceiptsFit
    <2> QED BY <2>3, <2>4
  <1> QED BY <1>1, <1>2, <1>3 DEF ReceiptsFit

\* Nothing that receipts depend on has changed.
LEMMA SameBatches ==
    ASSUME NEW kept, NEW its, ReceiptsFit(kept, its), UNCHANGED <<batches, lastBatchHash>>,
           Unbatched' = kept, items' = its
    PROVE  ReceiptsAreRight'
  <1>1. batches' = batches /\ lastBatchHash' = lastBatchHash
    OBVIOUS
  <1>2. \A n : ChainHashOf(n)' = ChainHashOf(n)
    BY <1>1 DEF ChainHashOf
  <1>3. BatchesAreChained'
    <2>1. BatchesAreChained
      BY DEF ReceiptsFit
    <2> QED BY <1>1, <2>1 DEF BatchesAreChained, ChainHashOf
  <1>4. Batched' = Batched
    BY <1>1 DEF Batched
  <1>5. ASSUME NEW n \in DOMAIN batches', NEW id \in Range(batches'[n].items)
        PROVE  IsReceipt(items[id].receipt, LeafOf(items, id), n)'
    <2>1. IsReceipt(its[id].receipt, LeafOf(its, id), n)
      BY <1>1, <1>5 DEF ReceiptsFit
    <2> QED BY <1>2, <2>1 DEF IsReceipt, LeafOf
  <1>6. /\ AtMostOnce(kept) /\ AtMostOnce(Batched) /\ Held(kept) \cap Held(Batched) = {}
        /\ Held(kept) \cup Held(Batched) = WithStatus(its, {"SETTLED"})
    BY DEF ReceiptsFit
  <1> QED BY <1>3, <1>4, <1>5, <1>6 DEF ReceiptsAreRight, ReceiptsFit

\* A batch is made of what a run has settled.
LEMMA BatchMade ==
    ASSUME NEW kept \in Families(Runs), NEW its, ReceiptsFit(kept, its), NEW c \in Runs,
           AreItems(its), kept[c] # <<>>, NEW s, Receipted(its, s, kept[c]),
           Unbatched' \in Families(Runs), Unbatched'[c] = <<>>,
           \A d \in Runs \ {c} : Unbatched'[d] = kept[d]
    PROVE  ReceiptsAreRight'
  <1> DEFINE settled == kept[c]
             leaves == [i \in DOMAIN settled |-> LeafOf(its, settled[i])]
             root == getRoot(leaves)
             m == Len(batches)
             record == Chained(lastBatchHash, root, s, settled)
             L == Len(settled)
  <1>1. /\ settled \in Seq(Nat) /\ L \in Nat \ {0} /\ DOMAIN settled = 1..L
    <2>1. settled \in Seq(Nat)
      BY FamilyShape
    <2>2. \A t \in Seq(Nat) : t # <<>> => Len(t) \in Nat \ {0} /\ DOMAIN t = 1..Len(t)
      OBVIOUS
    <2> QED BY <2>1, <2>2
  <1>2. /\ batches' = Append(batches, record) /\ lastBatchHash' = record.chainHash
        /\ DOMAIN items' = DOMAIN its
        /\ \A id \in DOMAIN its \ Range(settled) : items'[id] = its[id]
    BY DEF Receipted, batch_record
  <1>3. /\ record.batchId = m + 1 /\ record.prevBatchHash = lastBatchHash
        /\ record.merkleRoot = root /\ record.items = settled
        /\ record.chainHash = computeBatchChainHash(lastBatchHash, root, m + 1)
    BY DEF Chained
  <1>4. /\ IsSeq(batches) /\ m \in Nat /\ DOMAIN batches = 1..m
    BY SeqShape DEF ReceiptsFit, BatchesAreChained
  <1> HIDE DEF record, leaves
  <1>5. /\ IsSeq(batches') /\ Len(batches') = m + 1 /\ DOMAIN batches' = 1..(m + 1)
        /\ batches'[m + 1] = record /\ \A n \in 1..m : batches'[n] = batches[n]
    BY <1>2, <1>4, SeqGrows, SeqShape
  <1>6. /\ AtMostOnce(Unbatched') /\ Held(Unbatched') = Held(kept) \ Range(settled)
        /\ Range(settled) \subseteq Held(kept) /\ AtMostOnce(kept)
    <2>1. AtMostOnce(kept)
      BY DEF ReceiptsFit
    <2> QED BY <2>1, AllGo
  <1>7. ASSUME NEW id \in Range(settled)
        PROVE  /\ id \in DOMAIN its /\ items'[id].status = its[id].status
               /\ items'[id].updatedAt = its[id].updatedAt
               /\ items'[id].receipt.batchId = m + 1
               /\ items'[id].receipt.merkleRoot = root
               /\ items'[id].receipt.chainHash = record.chainHash
               /\ IsSeq(items'[id].receipt.proof)
               /\ verifyProof(LeafOf(its, id), items'[id].receipt.proof, root)
    <2> DEFINE i == CHOOSE j \in DOMAIN settled : settled[j] = id
               receipt == [batchId |-> record.batchId, merkleRoot |-> record.merkleRoot,
                           chainHash |-> record.chainHash, leafIndex |-> i,
                           proof |-> getProof(leaves, i)]
    <2>1. id \in DOMAIN its /\ IsItem(its[id])
      BY <1>6, <1>7 DEF ReceiptsFit, WithStatus, AreItems
    <2>2. i \in 1..L /\ settled[i] = id
      <3>1. \E j \in DOMAIN settled : settled[j] = id
        BY <1>7 DEF Range
      <3> QED BY <1>1, <3>1
    <2>3. items'[id] = [its[id] EXCEPT !.receipt = receipt]
      BY <1>7, <2>1 DEF Receipted, batch_record, record, leaves
    <2> HIDE DEF i
    <2>4. DOMAIN leaves = 1..L /\ leaves[i] = LeafOf(its, id)
      BY <1>1, <2>2 DEF leaves
    <2>5. /\ IsSeq(getProof(leaves, i))
          /\ verifyProof(leaves[i], getProof(leaves, i), getRoot(leaves))
      BY <1>1, <2>2, <2>4, ProofsLeadToRoot
    <2>6. /\ receipt.batchId = m + 1 /\ receipt.merkleRoot = root
          /\ receipt.chainHash = record.chainHash /\ receipt.proof = getProof(leaves, i)
      BY <1>3
    <2> HIDE DEF receipt
    <2>7. /\ items'[id].status = its[id].status
          /\ items'[id].updatedAt = its[id].updatedAt
          /\ items'[id].receipt = receipt
      BY <2>1, <2>3 DEF IsItem
    <2> QED BY <2>1, <2>4, <2>5, <2>6, <2>7
  <1> HIDE DEF root
  <1>8. /\ AtMostOnce(Batched') /\ Held(Batched') = Held(Batched) \cup Range(settled)
    <2>1. Batched \in Families(1..m)
      BY <1>4 DEF Batched, Families, ReceiptsFit, BatchesAreChained
    <2>2. Batched' = [n \in 1..(m + 1) |-> batches'[n].items]
      BY <1>5 DEF Batched
    <2>3. \A n \in 1..m : Batched'[n] = Batched[n] /\ n \in 1..(m + 1)
      BY <1>4, <1>5, <2>2 DEF Batched
    <2>4. Batched'[m + 1] = settled
      BY <1>3, <1>4, <1>5, <2>2
    <2>5. (1..m) \cup {m + 1} = 1..(m + 1) /\ m + 1 \notin 1..m
      BY <1>4
    <2>6. Batched' \in Families((1..m) \cup {m + 1})
      <3>1. \A n \in 1..(m + 1) : Batched'[n] \in Seq(Nat)
        BY <1>1, <2>1, <2>3, <2>4, <2>5 DEF Families
      <3> QED BY <2>2, <2>5, <3>1 DEF Families
    <2>7. SamePlaces(kept, Runs)
      BY <1>6, SamePlace
    <2>8. \A i, j \in 1..Len(settled) : settled[i] = settled[j] => i = j
      BY <2>7 DEF SamePlaces
    <2>9. Range(settled) \cap Held(Batched) = {} /\ AtMostOnce(Batched)
      BY <1>6 DEF ReceiptsFit
    <2> DEFINE S == 1..m
               x == m + 1
               F == Batched
               G == Batched'
    <2>10. /\ F \in Families(S) /\ AtMostOnce(F) /\ x \notin S
           /\ settled \in Seq(Nat) /\ Range(settled) \cap Held(F) = {}
           /\ \A i, j \in 1..Len(settled) : settled[i] = settled[j] => i = j
           /\ G \in Families(S \cup {x}) /\ G[x] = settled /\ \A y \in S : G[y] = F[y]
      BY <1>1, <2>1, <2>3, <2>4, <2>5, <2>6, <2>8, <2>9
    <2> HIDE DEF settled, S, x, F, G
    <2>11. AtMostOnce(G) /\ Held(G) = Held(F) \cup Range(settled)
      BY <2>10, AllJoin
    <2> QED BY <2>11 DEF F, G
  <1>9. \A n \in 1..m : ChainHashOf(n)' = ChainHashOf(n)
    BY <1>5 DEF ChainHashOf
  <1>10. ASSUME NEW n, n = m + 1 PROVE ChainHashOf(n)' = record.chainHash
    BY <1>3, <1>5, <1>10 DEF ChainHashOf
  <1>11. BatchesAreChained'
    <2>1. BatchesAreChained
      BY DEF ReceiptsFit
    <2>2. ASSUME NEW n \in 1..(m + 1)
          PROVE  /\ batches'[n].items \in Seq(Nat)
                 /\ batches'[n].batchId = n /\ batches'[n].chainHash = ChainHashOf(n)'
                 /\ batches'[n].prevBatchHash =
                       (IF n = 1 THEN Genesis ELSE batches'[n - 1].chainHash)
      <3>1. CASE n = m + 1
        <4>0. batches'[n] = record /\ ChainHashOf(n)' = record.chainHash
          BY <1>5, <1>10, <3>1
        <4>1. CASE m = 0
          <5>1. n = 1 /\ lastBatchHash = Genesis
            BY <2>1, <3>1, <4>1 DEF BatchesAreChained
          <5> QED BY <1>1, <1>3, <3>1, <4>0, <5>1
        <4>2. CASE m # 0
          <5>1. n - 1 = m /\ m \in 1..m /\ n # 1
            BY <1>4, <3>1, <4>2
          <5>2. lastBatchHash = batches[m].chainHash
            BY <2>1, <4>2 DEF BatchesAreChained
          <5>3. batches'[n - 1] = batches[m]
            BY <1>5, <5>1
          <5> QED BY <1>1, <1>3, <3>1, <4>0, <5>1, <5>2, <5>3
        <4> QED BY <4>1, <4>2
      <3>2. CASE n # m + 1
        <4>1. n \in 1..m /\ (n # 1 => n - 1 \in 1..m)
          BY <1>4, <3>2
        <4>2. /\ batches[n].items \in Seq(Nat)
              /\ batches[n].batchId = n /\ batches[n].chainHash = ChainHashOf(n)
              /\ batches[n].prevBatchHash = (IF n = 1 THEN Genesis ELSE batches[n - 1].chainHash)
          BY <1>4, <2>1, <4>1 DEF BatchesAreChained
        <4> QED BY <1>5, <1>9, <4>1, <4>2
      <3> QED BY <3>1, <3>2
    <2>3. lastBatchHash' = batches'[Len(batches')].chainHash /\ Len(batches') # 0
      BY <1>2, <1>4, <1>5
    <2> HIDE DEF m
    <2> QED BY <1>5, <2>2, <2>3 DEF BatchesAreChained
  <1>12. WithStatus(items', {"SETTLED"}) = WithStatus(its, {"SETTLED"})
    BY <1>2, <1>7 DEF WithStatus
  <1>13. ASSUME NEW n \in 1..(m + 1), NEW id \in Range(batches'[n].items)
         PROVE  IsReceipt(items[id].receipt, LeafOf(items, id), n)'
    <2>1. CASE n = m + 1
      <3>1. id \in Range(settled)
        BY <1>3, <1>5, <1>13, <2>1
      <3>2. ChainHashOf(n)' = record.chainHash
        BY <1>10, <2>1
      <3>3. LeafOf(items, id)' = LeafOf(its, id)
        BY <1>7, <3>1 DEF LeafOf
      <3>4. /\ items'[id].receipt.batchId = n /\ items'[id].receipt.chainHash = ChainHashOf(n)'
            /\ IsSeq(items'[id].receipt.proof)
            /\ verifyProof(LeafOf(its, id), items'[id].receipt.proof, items'[id].receipt.merkleRoot)
        BY <1>7, <2>1, <3>1, <3>2
      <3> QED BY <3>3, <3>4 DEF IsReceipt
    <2>2. CASE n # m + 1
      <3>1. n \in 1..m /\ batches'[n] = batches[n]
        BY <1>4, <1>5, <2>2
      <3>2. id \in Held(Batched) /\ id \notin Range(settled) /\ id \in DOMAIN its
        <4>1. id \in Held(Batched)
          BY <1>4, <1>13, <3>1 DEF Held, Batched
        <4> QED BY <1>6, <4>1 DEF ReceiptsFit, WithStatus
      <3>3. IsReceipt(its[id].receipt, LeafOf(its, id), n)
        BY <1>4, <1>13, <3>1 DEF ReceiptsFit
      <3>4. items'[id] = its[id]
        BY <1>2, <3>2
      <3> QED BY <1>9, <3>1, <3>3, <3>4 DEF IsReceipt, LeafOf
    <2> QED BY <2>1, <2>2
  <1>14. /\ Held(Unbatched') \cap Held(Batched') = {}
         /\ Held(Unbatched') \cup Held(Batched') = WithStatus(items', {"SETTLED"})
    BY <1>6, <1>8, <1>12 DEF ReceiptsFit
  <1> QED BY <1>5, <1>6, <1>8, <1>11, <1>13, <1>14 DEF ReceiptsAreRight, ReceiptsFit

\* A family is what it holds.
LEMMA SameFamily ==
    ASSUME NEW S, NEW F \in Families(S), NEW G \in Families(S), \A x \in S : F[x] = G[x]
    PROVE  F = G
  BY DEF Families

\* Receipts stay right when a run goes on, or ends with a batch.
LEMMA ReceiptsContinue ==
    ASSUME EngineAssumption, EngineTypeOK, NEW c \in Runs, runs[c] # Idle,
           NEW its, AreItems(its), NEW settled \in Seq(Nat),
           NEW kept \in Families(Runs), kept[c] = settled,
           \A d \in Runs \ {c} : kept[d] = Unbatched[d],
           ReceiptsFit(kept, its), Continue(c, its, settled)
    PROVE  ReceiptsAreRight'
  <1>1. /\ runs' \in [Runs -> {Idle} \cup WorkingRun]
        /\ \A d \in Runs \ {c} : Unbatched'[d] = Unbatched[d]
        /\ \/ Unbatched'[c] = settled /\ items' = its /\ UNCHANGED <<batches, lastBatchHash>>
           \/ Unbatched'[c] = <<>> /\ settled # <<>> /\ Receipted(its, runs[c].shard, settled)
    BY RunContinues
  <1>2. Unbatched' \in Families(Runs)
    BY <1>1, RunsHold DEF Unbatched
  <1>3. CASE Unbatched'[c] = settled /\ items' = its /\ UNCHANGED <<batches, lastBatchHash>>
    <2>1. Unbatched' = kept
      <3>1. \A d \in Runs : Unbatched'[d] = kept[d]
        BY <1>1, <1>3
      <3> QED BY <1>2, <3>1, SameFamily
    <2> QED BY <1>3, <2>1, SameBatches
  <1>4. CASE Unbatched'[c] = <<>> /\ settled # <<>> /\ Receipted(its, runs[c].shard, settled)
    <2>1. kept[c] # <<>> /\ Receipted(its, runs[c].shard, kept[c])
      BY <1>4
    <2>2. \A d \in Runs \ {c} : Unbatched'[d] = kept[d]
      BY <1>1
    <2> QED BY <1>2, <1>4, <2>1, <2>2, BatchMade
  <1> QED BY <1>1, <1>3, <1>4

IsPaid(id) == created' = [created EXCEPT ![id].paid = @ + 1]

\* The payment of one item is made.
LEMMA PaymentMade ==
    ASSUME EngineTypeOK, NEW id \in DOMAIN created, IsPaid(id)
    PROVE  /\ created' \in Seq(Records) /\ DOMAIN created' = DOMAIN created
           /\ created'[id].paid = created[id].paid + 1
           /\ \A i \in DOMAIN created : /\ created'[i].key = created[i].key
                                        /\ created'[i].payload = created[i].payload
           /\ \A i \in DOMAIN created \ {id} : created'[i] = created[i]
  <1> DEFINE x == [created[id] EXCEPT !.paid = @ + 1]
  <1>1. /\ created \in Seq(Records) /\ created[id] \in Records
        /\ Len(created) \in Nat /\ DOMAIN created = 1..Len(created)
    <2>1. created \in Seq(Records)
      BY DEF EngineTypeOK, Records
    <2> QED BY <2>1
  <1>2. /\ x \in Records /\ x.paid = created[id].paid + 1
        /\ x.key = created[id].key /\ x.payload = created[id].payload
    BY <1>1 DEF Records
  <1>3. created' = [created EXCEPT ![id] = x]
    BY DEF IsPaid
  <1> HIDE DEF x
  <1>4. /\ created' \in Seq(Records) /\ DOMAIN created' = DOMAIN created /\ created'[id] = x
        /\ \A j \in DOMAIN created \ {id} : created'[j] = created[j]
    BY <1>1, <1>2, <1>3
  <1> QED BY <1>2, <1>4

\* The head of a run's list is being processed.
LEMMA InProcess ==
    ASSUME EngineTypeOK, PlacesAreRight, NEW c \in Runs, runs[c] # Idle,
           NEW id, id = Head(runs[c].todo)
    PROVE  /\ runs[c] \in WorkingRun /\ InHand[c] = runs[c].todo /\ Unbatched[c] = runs[c].settled
           /\ InHand \in Families(Runs) /\ Unbatched \in Families(Runs)
           /\ id \in Nat /\ id \in DOMAIN items /\ id \in DOMAIN created
           /\ items[id].status = "PROCESSING" /\ IsItem(items[id])
           /\ created[id].paid = 0
  <1>1. runs \in [Runs -> {Idle} \cup WorkingRun]
    BY DEF EngineTypeOK
  <1>2. /\ InHand \in Families(Runs) /\ Unbatched \in Families(Runs)
        /\ runs[c] \in WorkingRun /\ InHand[c] = runs[c].todo /\ Unbatched[c] = runs[c].settled
    BY <1>1, RunsHold DEF InHand, Unbatched
  <1> DEFINE todo == runs[c].todo
  <1>3. todo \in Seq(Nat) /\ todo # <<>>
    BY <1>2 DEF WorkingRun
  <1>4. 1 \in 1..Len(todo) /\ Head(todo) = todo[1] /\ todo[1] \in Nat
    <2>1. \A q \in Seq(Nat) : q # <<>> => 1 \in 1..Len(q) /\ Head(q) = q[1] /\ q[1] \in Nat
      OBVIOUS
    <2> QED BY <1>3, <2>1
  <1>5. id \in Held(InHand) /\ id \in Nat
    <2>1. 1 \in 1..Len(InHand[c]) /\ InHand[c][1] = id
      BY <1>2, <1>4
    <2> QED BY <1>2, <1>4, <2>1, HeldThere
  <1>6. id \in DOMAIN items /\ items[id].status = "PROCESSING"
    BY <1>5 DEF PlacesAreRight, WithStatus
  <1>7. id \in DOMAIN created /\ IsItem(items[id])
    BY <1>6 DEF EngineTypeOK, AreItems
  <1>8. created[id].paid = 0
    BY <1>6 DEF PlacesAreRight
  <1> QED BY <1>2, <1>5, <1>6, <1>7, <1>8

\* The items once one of them has changed.
LEMMA OneItemChanges ==
    ASSUME NEW its, AreItems(its), NEW id \in DOMAIN its, NEW x, IsItem(x),
           NEW now, now = [its EXCEPT ![id] = x]
    PROVE  /\ AreItems(now) /\ DOMAIN now = DOMAIN its /\ now[id] = x
           /\ \A i \in DOMAIN its \ {id} : now[i] = its[i]
  BY DEF AreItems

\* A run settles the item at the head of what it has in hand.
LEMMA EngineSettlesOne ==
    ASSUME EngineAssumption, EngineTypeOK, PlacesAreRight, ReceiptsAreRight, NEW c \in Runs,
           processor_succeeds(c)
    PROVE  /\ EngineTypeOK' /\ PlacesAreRight' /\ ReceiptsAreRight'
           /\ DOMAIN items' = DOMAIN items /\ DOMAIN created' = DOMAIN created
           /\ \A i \in DOMAIN created : /\ created'[i].key = created[i].key
                                        /\ created'[i].payload = created[i].payload
  <1> DEFINE id == Head(runs[c].todo)
             its == [items EXCEPT ![id] = settled_item(@)]
             settled == Append(runs[c].settled, id)
             kept == [Unbatched EXCEPT ![c] = settled]
  <1>1. /\ runs[c] # Idle /\ IsPaid(id)
        /\ Continue(c, its, settled)
        /\ UNCHANGED <<hasRedis, shards, idempotencyStore, enqueues, redisKeys, lives>>
    BY DEF processor_succeeds, IsPaid
  <1>2. /\ runs[c] \in WorkingRun /\ InHand[c] = runs[c].todo /\ Unbatched[c] = runs[c].settled
        /\ InHand \in Families(Runs) /\ Unbatched \in Families(Runs)
        /\ id \in Nat /\ id \in DOMAIN items /\ id \in DOMAIN created
        /\ items[id].status = "PROCESSING" /\ IsItem(items[id])
        /\ created[id].paid = 0
    BY <1>1, InProcess
  <1> HIDE DEF id
  <1>3. AreItems(items) /\ IsItem(settled_item(items[id])) /\ settled_item(items[id]).status = "SETTLED"
    BY <1>2, ItemSettles DEF EngineTypeOK
  <1>4. /\ AreItems(its) /\ DOMAIN its = DOMAIN items /\ its[id].status = "SETTLED"
        /\ \A i \in DOMAIN items \ {id} : its[i] = items[i]
    BY <1>2, <1>3, OneItemChanges
  <1>5. settled \in Seq(Nat)
    BY <1>2 DEF WorkingRun
  <1>6. kept \in Families(Runs) /\ kept[c] = settled /\ \A d \in Runs \ {c} : kept[d] = Unbatched[d]
    BY <1>2, <1>5 DEF Families
  <1>7. /\ created' \in Seq(Records) /\ DOMAIN created' = DOMAIN created
        /\ created'[id].paid = 1
        /\ \A i \in DOMAIN created : /\ created'[i].key = created[i].key
                                     /\ created'[i].payload = created[i].payload
        /\ \A i \in DOMAIN created \ {id} : created'[i] = created[i]
    <2>1. created'[id].paid = 0 + 1
      BY <1>1, <1>2, PaymentMade
    <2> QED BY <1>1, <1>2, <2>1, PaymentMade
  <1> HIDE DEF its
  <1>8. /\ AreItems(items') /\ DOMAIN items' = DOMAIN its
        /\ \A i \in DOMAIN its : items'[i].status = its[i].status
        /\ runs' \in [Runs -> {Idle} \cup WorkingRun]
        /\ adaptiveBatchSize' \in Nat
        /\ InHand[c] # <<>> /\ InHand'[c] = Tail(InHand[c])
        /\ \A d \in Runs \ {c} : InHand'[d] = InHand[d]
    BY <1>1, <1>4, <1>5, RunContinues, ZenonT(40)
  <1>9. /\ WithStatus(items', Waiting) = WithStatus(items, Waiting)
        /\ WithStatus(items', {"PROCESSING"}) = WithStatus(items, {"PROCESSING"}) \ {id}
        /\ WithStatus(its, {"SETTLED"}) = WithStatus(items, {"SETTLED"}) \cup {id}
        /\ id \notin WithStatus(items, {"SETTLED"})
    BY <1>2, <1>4, <1>8 DEF WithStatus, Waiting
  <1>10. EngineTypeOK'
    BY <1>1, <1>4, <1>7, <1>8 DEF EngineTypeOK, Records
  <1>11. AtMostOnce(InHand') /\ Held(InHand') = Held(InHand) \ {id}
    <2>1. InHand' \in Families(Runs)
      BY <1>8, RunsHold DEF InHand
    <2>2. AtMostOnce(InHand)
      BY DEF PlacesAreRight
    <2>3. \A d \in Runs \ {c} : InHand'[d] = InHand[d]
      BY <1>8
    <2>4. AtMostOnce(InHand') /\ Held(InHand') = Held(InHand) \ {Head(InHand[c])}
      BY <1>2, <1>8, <2>1, <2>2, <2>3, OneGoes
    <2> QED BY <1>2, <2>4 DEF id
  <1>12. PlacesAreRight'
    <2>1. \A i \in DOMAIN items' :
              created'[i].paid = (IF items'[i].status = "SETTLED" THEN 1 ELSE 0)
      <3> SUFFICES ASSUME NEW i \in DOMAIN items
                   PROVE  created'[i].paid = (IF items'[i].status = "SETTLED" THEN 1 ELSE 0)
        BY <1>4, <1>8
      <3>1. CASE i = id
        BY <1>4, <1>7, <1>8, <3>1
      <3>2. CASE i # id
        <4>1. i \in DOMAIN created /\ items'[i].status = items[i].status
          BY <1>4, <1>8, <3>2 DEF EngineTypeOK
        <4> QED BY <1>7, <3>2, <4>1 DEF PlacesAreRight
      <3> QED BY <3>1, <3>2
    <2> QED BY <1>1, <1>9, <1>11, <2>1 DEF PlacesAreRight
  <1>13. ReceiptsFit(kept, its)
    <2>1. ReceiptsFit(Unbatched, items) /\ AtMostOnce(Unbatched)
      BY DEF ReceiptsAreRight, ReceiptsFit
    <2>2. id \notin Held(Unbatched)
      BY <1>9, <2>1 DEF ReceiptsFit
    <2>3. /\ kept \in Families(Runs) /\ kept[c] = Append(Unbatched[c], id)
          /\ \A d \in Runs \ {c} : kept[d] = Unbatched[d]
      BY <1>2, <1>6
    <2> HIDE DEF kept, settled
    <2>4. AtMostOnce(kept) /\ Held(kept) = Held(Unbatched) \cup {id}
      <3>1. Unbatched \in Families(Runs) /\ id \in Nat /\ AtMostOnce(Unbatched)
        BY <1>2, <2>1
      <3> QED BY <2>2, <2>3, <3>1, OneMore
    <2>5. \A i \in WithStatus(items, {"SETTLED"}) :
              its[i].updatedAt = items[i].updatedAt /\ its[i].receipt = items[i].receipt
      BY <1>2, <1>4 DEF WithStatus
    <2>6. {id} \cap WithStatus(items, {"SETTLED"}) = {}
      BY <1>9
    <2>7. WithStatus(its, {"SETTLED"}) = WithStatus(items, {"SETTLED"}) \cup {id}
      BY <1>9
    <2> QED BY <2>1, <2>4, <2>5, <2>6, <2>7, ReceiptsStillFit, ZenonT(40)
  <1>14. ReceiptsAreRight'
    <2> HIDE DEF kept, settled
    <2> QED BY <1>1, <1>4, <1>5, <1>6, <1>13, ReceiptsContinue
  <1> QED BY <1>4, <1>7, <1>8, <1>10, <1>12, <1>14

\* A run fails the item at the head of what it has in hand.
LEMMA EngineFailsOne ==
    ASSUME EngineAssumption, EngineTypeOK, PlacesAreRight, ReceiptsAreRight, NEW c \in Runs,
           NEW fatal \in BOOLEAN, processor_fails(c, fatal)
    PROVE  /\ EngineTypeOK' /\ PlacesAreRight' /\ ReceiptsAreRight'
           /\ DOMAIN items' = DOMAIN items
  <1> DEFINE id == Head(runs[c].todo)
             item == failed_item(items[id], fatal)
             its == [items EXCEPT ![id] = item]
             settled == runs[c].settled
             s == runs[c].shard
  <1>1. /\ runs[c] # Idle /\ Continue(c, its, settled)
        /\ shards' = [shards EXCEPT ![s] = requeued(@, item, id)]
        /\ UNCHANGED <<hasRedis, idempotencyStore, enqueues, redisKeys, lives, created>>
    BY DEF processor_fails
  <1>2. /\ runs[c] \in WorkingRun /\ InHand[c] = runs[c].todo /\ Unbatched[c] = settled
        /\ InHand \in Families(Runs) /\ Unbatched \in Families(Runs)
        /\ id \in Nat /\ id \in DOMAIN items /\ id \in DOMAIN created
        /\ items[id].status = "PROCESSING" /\ IsItem(items[id])
        /\ created[id].paid = 0
    BY <1>1, InProcess
  <1> HIDE DEF id
  <1>3. AreItems(items) /\ IsItem(item) /\ item.status \in {"FAILED", "DLQ"}
    BY <1>2, ItemFails DEF EngineTypeOK
  <1> HIDE DEF item
  <1>4. /\ AreItems(its) /\ DOMAIN its = DOMAIN items /\ its[id] = item
        /\ \A i \in DOMAIN items \ {id} : its[i] = items[i]
    BY <1>2, <1>3, OneItemChanges
  <1>5. settled \in Seq(Nat) /\ s \in Shard /\ shards \in Families(Shard)
    BY <1>2 DEF WorkingRun, EngineTypeOK
  <1> HIDE DEF its, settled, s
  <1>6. /\ AreItems(items') /\ DOMAIN items' = DOMAIN its
        /\ \A i \in DOMAIN its : items'[i].status = its[i].status
        /\ runs' \in [Runs -> {Idle} \cup WorkingRun]
        /\ adaptiveBatchSize' \in Nat
        /\ InHand[c] # <<>> /\ InHand'[c] = Tail(InHand[c])
        /\ \A d \in Runs \ {c} : InHand'[d] = InHand[d]
    BY <1>1, <1>4, <1>5, RunContinues
  <1>7. /\ WithStatus(items', Waiting) =
              WithStatus(items, Waiting) \cup (IF item.status = "FAILED" THEN {id} ELSE {})
        /\ WithStatus(items', {"PROCESSING"}) = WithStatus(items, {"PROCESSING"}) \ {id}
        /\ WithStatus(its, {"SETTLED"}) = WithStatus(items, {"SETTLED"})
        /\ id \notin WithStatus(items, {"SETTLED"}) /\ id \notin WithStatus(items, Waiting)
    BY <1>2, <1>3, <1>4, <1>6 DEF WithStatus, Waiting
  <1>8. shards' \in Families(Shard) /\ AtMostOnce(shards') /\ Held(shards') = WithStatus(items', Waiting)
    <2>1. AtMostOnce(shards) /\ Held(shards) = WithStatus(items, Waiting)
      BY DEF PlacesAreRight
    <2>2. CASE item.status = "FAILED"
      <3>1. shards' = [shards EXCEPT ![s] = Append(@, id)]
        BY <1>1, <2>2 DEF requeued
      <3>2. Append(shards[s], id) \in Seq(Nat)
        BY <1>2, <1>5, FamilyShape
      <3>3. /\ shards' \in Families(Shard) /\ shards'[s] = Append(shards[s], id)
            /\ \A y \in Shard \ {s} : shards'[y] = shards[y]
        BY <1>5, <3>1, <3>2 DEF Families
      <3>4. id \notin Held(shards)
        BY <1>7, <2>1
      <3>5. AtMostOnce(shards') /\ Held(shards') = Held(shards) \cup {id}
        BY <1>2, <1>5, <2>1, <3>3, <3>4, OneMore, SMTT(40)
      <3> QED BY <1>7, <2>1, <2>2, <3>3, <3>5
    <2>3. CASE item.status = "DLQ"
      <3>1. shards' = shards
        BY <1>1, <1>5, <2>3 DEF requeued, Families
      <3> QED BY <1>5, <1>7, <2>1, <2>3, <3>1
    <2> QED BY <1>3, <2>2, <2>3
  <1>9. EngineTypeOK'
    BY <1>1, <1>4, <1>6, <1>8 DEF EngineTypeOK
  <1>10. AtMostOnce(InHand') /\ Held(InHand') = Held(InHand) \ {id}
    <2>1. InHand' \in Families(Runs)
      BY <1>6, RunsHold DEF InHand
    <2>2. AtMostOnce(InHand)
      BY DEF PlacesAreRight
    <2>3. \A d \in Runs \ {c} : InHand'[d] = InHand[d]
      BY <1>6
    <2>4. AtMostOnce(InHand') /\ Held(InHand') = Held(InHand) \ {Head(InHand[c])}
      BY <1>2, <1>6, <2>1, <2>2, <2>3, OneGoes
    <2> QED BY <1>2, <2>4 DEF id
  <1>11. PlacesAreRight'
    <2>1. \A i \in DOMAIN items' :
              created'[i].paid = (IF items'[i].status = "SETTLED" THEN 1 ELSE 0)
      <3> SUFFICES ASSUME NEW i \in DOMAIN items
                   PROVE  created'[i].paid = (IF items'[i].status = "SETTLED" THEN 1 ELSE 0)
        BY <1>4, <1>6
      <3>1. CASE i = id
        BY <1>1, <1>2, <1>3, <1>4, <1>6, <3>1
      <3>2. CASE i # id
        <4>1. items'[i].status = items[i].status
          BY <1>4, <1>6, <3>2
        <4> QED BY <1>1, <3>2, <4>1 DEF PlacesAreRight
      <3> QED BY <3>1, <3>2
    <2> QED BY <1>7, <1>8, <1>10, <2>1 DEF PlacesAreRight
  <1>12. ReceiptsFit(Unbatched, its)
    <2>1. ReceiptsFit(Unbatched, items) /\ AtMostOnce(Unbatched)
      BY DEF ReceiptsAreRight, ReceiptsFit
    <2>2. \A i \in WithStatus(items, {"SETTLED"}) :
              its[i].updatedAt = items[i].updatedAt /\ its[i].receipt = items[i].receipt
      BY <1>2, <1>4 DEF WithStatus
    <2>3. /\ Held(Unbatched) = Held(Unbatched) \cup {}
          /\ {} \cap WithStatus(items, {"SETTLED"}) = {}
          /\ WithStatus(its, {"SETTLED"}) = WithStatus(items, {"SETTLED"}) \cup {}
      BY <1>7
    <2> QED BY <2>1, <2>2, <2>3, ReceiptsStillFit, ZenonT(40)
  <1>13. ReceiptsAreRight'
    BY <1>1, <1>2, <1>4, <1>5, <1>12, ReceiptsContinue
  <1> QED BY <1>4, <1>6, <1>9, <1>11, <1>13

\* An item that is taken is processed, and stays what it was otherwise.
LEMMA ItemTaken ==
    ASSUME NEW x, IsItem(x),
           NEW y, y = [x EXCEPT !.status = "PROCESSING", !.updatedAt = @ + 1]
    PROVE  IsItem(y) /\ y.status = "PROCESSING"
  <1> DEFINE R == {x.receipt}
             u == x.updatedAt + 1
  <1>1. x \in ItemsWith(R)
    BY DEF IsItem, ItemsWith
  <1>2. y = [x EXCEPT !.status = "PROCESSING", !.updatedAt = u]
    OBVIOUS
  <1>3. u \in Nat /\ "PROCESSING" \in Statuses
    BY <1>1 DEF ItemsWith, Statuses
  <1> HIDE DEF R, u
  <1>4. y \in ItemsWith(R) /\ y.status = "PROCESSING"
    BY <1>1, <1>2, <1>3 DEF ItemsWith
  <1> QED BY <1>4, ItemShape

\* A run takes a batch from a queue.
LEMMA EngineTakes ==
    ASSUME EngineAssumption, EngineTypeOK, PlacesAreRight, ReceiptsAreRight, NEW c \in Runs,
           NEW s \in Shard, processShard(c, s)
    PROVE  /\ EngineTypeOK' /\ PlacesAreRight' /\ ReceiptsAreRight'
           /\ DOMAIN items' = DOMAIN items
  <1> DEFINE q == shards[s]
             n == Min({Len(q), adaptiveBatchSize})
             h == SubSeq(q, 1, n)
             todo == FoldLeft(take, <<>>, h)
             run == [at |-> "processing", shard |-> s, todo |-> h, settled |-> <<>>]
  <1>1. /\ runs[c] = Idle
        /\ shards' = [shards EXCEPT ![s] = SubSeq(@, n + 1, Len(@))]
        /\ items' = [id \in DOMAIN items |->
                       IF id \in Range(todo)
                       THEN [items[id] EXCEPT !.status = "PROCESSING", !.updatedAt = @ + 1]
                       ELSE items[id]]
        /\ runs' = [runs EXCEPT ![c] = IF todo = <<>> THEN Idle
                                       ELSE [at |-> "processing", shard |-> s, todo |-> todo,
                                             settled |-> <<>>]]
        /\ UNCHANGED <<hasRedis, idempotencyStore, batches, lastBatchHash, adaptiveBatchSize,
                       enqueues, redisKeys, lives, created>>
    BY DEF processShard, left_in
  <1>2. /\ shards \in Families(Shard) /\ adaptiveBatchSize \in Nat /\ AreItems(items)
        /\ runs \in [Runs -> {Idle} \cup WorkingRun]
        /\ AtMostOnce(shards) /\ Held(shards) = WithStatus(items, Waiting)
        /\ AtMostOnce(InHand) /\ Held(InHand) = WithStatus(items, {"PROCESSING"})
    BY DEF EngineTypeOK, PlacesAreRight
  <1>3. q \in Seq(Nat) /\ n \in 0..Len(q)
    <2>1. q \in Seq(Nat) /\ Len(q) \in Nat
      BY <1>2, FamilyShape
    <2> QED BY <1>2, <2>1, LowerOfTwo
  <1> HIDE DEF n
  <1>4. /\ shards' \in Families(Shard) /\ shards'[s] = SubSeq(shards[s], n + 1, Len(shards[s]))
        /\ \A y \in Shard \ {s} : shards'[y] = shards[y]
    <2>1. SubSeq(q, n + 1, Len(q)) \in Seq(Nat)
      <3> HIDE DEF q
      <3> QED BY <1>3
    <2> QED BY <1>1, <1>2, <2>1 DEF Families
  <1>5. /\ AtMostOnce(shards') /\ Held(shards') = Held(shards) \ Range(h)
        /\ h \in Seq(Nat) /\ Len(h) = n
        /\ \A i \in 1..n : h[i] = q[i] /\ q[i] \in Held(shards)
        /\ Range(h) \subseteq Held(shards)
    <2>1. n \in 0..Len(shards[s])
      BY <1>3
    <2>2. /\ AtMostOnce(shards') /\ Held(shards') = Held(shards) \ Range(SubSeq(shards[s], 1, n))
          /\ SubSeq(shards[s], 1, n) \in Seq(Nat) /\ Len(SubSeq(shards[s], 1, n)) = n
          /\ \A i \in 1..n : /\ SubSeq(shards[s], 1, n)[i] = shards[s][i]
                            /\ shards[s][i] \in Held(shards)
          /\ Range(SubSeq(shards[s], 1, n)) \subseteq Held(shards)
      <3> HIDE DEF q, h
      <3> QED BY <1>2, <1>4, <2>1, FirstGo
    <2> QED BY <2>2, Zenon
  <1> HIDE DEF h
  <1>6. todo = h
    <2>1. \A i \in 1..Len(h) : items[h[i]].status \in Waiting
      BY <1>2, <1>5 DEF WithStatus
    <2> HIDE DEF todo
    <2> QED BY <1>5, <2>1, AllTaken DEF todo
  <1> HIDE DEF todo
  <1>7. /\ DOMAIN items' = DOMAIN items /\ AreItems(items')
        /\ \A id \in DOMAIN items : items'[id].status =
              (IF id \in Range(h) THEN "PROCESSING" ELSE items[id].status)
        /\ \A id \in DOMAIN items \ Range(h) : items'[id] = items[id]
    <2>1. /\ DOMAIN items' = DOMAIN items
          /\ \A id \in DOMAIN items \ Range(h) : items'[id] = items[id]
          /\ items' = [id \in DOMAIN items' |-> items'[id]]
      BY <1>1, <1>6
    <2>2. ASSUME NEW id \in DOMAIN items
          PROVE  /\ IsItem(items'[id])
                 /\ items'[id].status = (IF id \in Range(h) THEN "PROCESSING" ELSE items[id].status)
      <3>1. IsItem(items[id])
        BY <1>2 DEF AreItems
      <3>2. CASE id \in Range(h)
        <4>1. items'[id] = [items[id] EXCEPT !.status = "PROCESSING", !.updatedAt = @ + 1]
          BY <1>1, <1>6, <3>2
        <4> QED BY <3>1, <3>2, <4>1, ItemTaken
      <3>3. CASE id \notin Range(h)
        BY <2>1, <3>1, <3>3
      <3> QED BY <3>2, <3>3
    <2> QED BY <2>1, <2>2 DEF AreItems
  <1>8. Range(h) \subseteq WithStatus(items, Waiting)
    BY <1>2, <1>5
  <1>9. /\ WithStatus(items', Waiting) = WithStatus(items, Waiting) \ Range(h)
        /\ WithStatus(items', {"PROCESSING"}) = WithStatus(items, {"PROCESSING"}) \cup Range(h)
        /\ WithStatus(items', {"SETTLED"}) = WithStatus(items, {"SETTLED"})
        /\ Range(h) \cap WithStatus(items, {"PROCESSING"}) = {}
        /\ Range(h) \cap WithStatus(items, {"SETTLED"}) = {}
    BY <1>7, <1>8 DEF WithStatus, Waiting
  <1>10. /\ runs' \in [Runs -> {Idle} \cup WorkingRun] /\ TodoOf(runs'[c]) = h
         /\ SettledOf(runs'[c]) = <<>> /\ \A d \in Runs \ {c} : runs'[d] = runs[d]
    <2>1. CASE h = <<>>
      <3>1. runs' = [runs EXCEPT ![c] = Idle]
        BY <1>1, <1>6, <2>1
      <3> QED BY <1>2, <2>1, <3>1 DEF TodoOf, SettledOf
    <2>2. CASE h # <<>>
      <3>1. runs' = [runs EXCEPT ![c] = run]
        BY <1>1, <1>6, <2>2
      <3>2. run \in WorkingRun /\ run.todo = h /\ run.settled = <<>>
        BY <1>5, <2>2 DEF WorkingRun
      <3> HIDE DEF run
      <3>3. run # Idle
        BY <1>2, <3>2, RunsHold
      <3> QED BY <1>2, <3>1, <3>2, <3>3 DEF TodoOf, SettledOf
    <2> QED BY <2>1, <2>2
  <1>11. /\ InHand \in Families(Runs) /\ InHand' \in Families(Runs)
         /\ Unbatched \in Families(Runs) /\ Unbatched' \in Families(Runs)
    BY <1>2, <1>10, RunsHold DEF InHand, Unbatched
  <1>12. /\ InHand[c] = <<>> /\ InHand'[c] = h
         /\ \A d \in Runs \ {c} : InHand'[d] = InHand[d]
    <2>1. InHand[c] = <<>> /\ InHand'[c] = h
      BY <1>1, <1>10 DEF InHand, TodoOf
    <2>2. \A d \in Runs \ {c} : InHand'[d] = InHand[d]
      BY <1>10 DEF InHand, TodoOf
    <2> QED BY <2>1, <2>2
  <1>13. Unbatched' = Unbatched
    <2>1. \A d \in Runs : Unbatched'[d] = Unbatched[d]
      BY <1>1, <1>10 DEF Unbatched, SettledOf
    <2> QED BY <1>11, <2>1, SameFamily
  <1>14. AtMostOnce(InHand') /\ Held(InHand') = Held(InHand) \cup Range(h)
    <2>1. \A i, j \in 1..Len(h) : h[i] = h[j] => i = j
      <3>1. SamePlaces(shards, Shard)
        BY <1>2, SamePlace
      <3>2. \A i \in 1..n : i \in 1..Len(q)
        BY <1>3
      <3> QED BY <1>5, <3>1, <3>2, SMTT(40) DEF SamePlaces
    <2>2. Range(h) \cap Held(InHand) = {}
      BY <1>2, <1>9
    <2>3. AtMostOnce(InHand) /\ h \in Seq(Nat)
      BY <1>2, <1>5
    <2>4. InHand \in Families(Runs) /\ InHand' \in Families(Runs)
      BY <1>11
    <2>5. InHand[c] = <<>> /\ InHand'[c] = h /\ \A d \in Runs \ {c} : InHand'[d] = InHand[d]
      BY <1>12
    <2> HIDE DEF q
    <2> QED BY <2>1, <2>2, <2>3, <2>4, <2>5, AllCome, SMTT(40)
  <1>15. EngineTypeOK'
    BY <1>1, <1>4, <1>7, <1>10 DEF EngineTypeOK
  <1>16. PlacesAreRight'
    <2>1. \A i \in DOMAIN items' :
              created'[i].paid = (IF items'[i].status = "SETTLED" THEN 1 ELSE 0)
      <3>1. \A i \in DOMAIN items : items'[i].status = "SETTLED" <=> items[i].status = "SETTLED"
        BY <1>9, <1>7 DEF WithStatus
      <3> QED BY <1>1, <1>7, <3>1 DEF PlacesAreRight
    <2>2. AtMostOnce(shards') /\ Held(shards') = WithStatus(items', Waiting)
      BY <1>2, <1>5, <1>9
    <2>3. AtMostOnce(InHand') /\ Held(InHand') = WithStatus(items', {"PROCESSING"})
      BY <1>2, <1>9, <1>14
    <2> QED BY <2>1, <2>2, <2>3 DEF PlacesAreRight
  <1>17. ReceiptsFit(Unbatched, items')
    <2>1. ReceiptsFit(Unbatched, items) /\ AtMostOnce(Unbatched)
      BY DEF ReceiptsAreRight, ReceiptsFit
    <2>2. \A i \in WithStatus(items, {"SETTLED"}) :
              items'[i].updatedAt = items[i].updatedAt /\ items'[i].receipt = items[i].receipt
      <3>1. \A i \in WithStatus(items, {"SETTLED"}) : i \in DOMAIN items \ Range(h)
        BY <1>9 DEF WithStatus
      <3> QED BY <1>7, <3>1
    <2>3. /\ Held(Unbatched) = Held(Unbatched) \cup {}
          /\ {} \cap WithStatus(items, {"SETTLED"}) = {}
          /\ WithStatus(items', {"SETTLED"}) = WithStatus(items, {"SETTLED"}) \cup {}
      BY <1>9
    <2> QED BY <2>1, <2>2, <2>3, ReceiptsStillFit, ZenonT(40)
  <1>18. ReceiptsAreRight'
    <2>1. UNCHANGED <<batches, lastBatchHash>>
      BY <1>1
    <2> QED BY <1>13, <1>17, <2>1, SameBatches
  <1> QED BY <1>7, <1>15, <1>16, <1>18

\* What a payment was made for is never forgotten.
Remembered ==
    \A i \in DOMAIN created : /\ i \in DOMAIN created'
                              /\ created'[i].key = created[i].key
                              /\ created'[i].payload = created[i].payload

\* Steps that leave the calls and the keys alone keep the keys right.
LEMMA KeysStayRight ==
    ASSUME EngineTypeOK, KeysAreRight, Remembered,
           UNCHANGED <<hasRedis, idempotencyStore, enqueues, redisKeys>>,
           DOMAIN items' \subseteq DOMAIN items
    PROVE  KeysAreRight'
  <1>1. \A k \in Key : idempotencyStore'[k] # NoId => MadeFor(idempotencyStore[k], k)'
    BY DEF KeysAreRight, MadeFor, Remembered
  <1>2. \A k \in Key : redisKeys'[k] # NoId => MadeFor(redisKeys[k], k)'
    BY DEF KeysAreRight, MadeFor, Remembered
  <1>3. ASSUME NEW r \in Enqueues PROVE CallFits(enqueues[r])'
    <2>1. CallFits(enqueues[r])
      BY DEF KeysAreRight
    <2> QED BY <2>1 DEF Remembered, CallFits, MadeFor
  <1>4. ~hasRedis' => /\ \A id \in DOMAIN items' : idempotencyStore'[created'[id].key] = id
                      /\ \A r \in Enqueues : enqueues'[r].at \notin {"asking", "asked"}
    BY DEF KeysAreRight, Remembered, EngineTypeOK
  <1> QED BY <1>1, <1>2, <1>3, <1>4 DEF KeysAreRight

Calls == {NewCall, Lost} \cup Asking \cup Asked \cup Answered

\* One call changes, to another of its kinds.
LEMMA CallBecomes ==
    ASSUME NEW r \in Enqueues, NEW call, Becomes(r, call), EngineTypeOK, call \in Calls
    PROVE  /\ enqueues' \in [Enqueues -> Calls] /\ enqueues'[r] = call
           /\ \A q \in Enqueues \ {r} : enqueues'[q] = enqueues[q]
  BY DEF Becomes, EngineTypeOK, Calls

\* A call goes on and nothing else happens.
LEMMA CallGoesOn ==
    ASSUME EngineTypeOK, PlacesAreRight, KeysAreRight, ReceiptsAreRight, NEW r \in Enqueues,
           NEW call \in Calls, Becomes(r, call), OnlyEnqueues, CallFits(call),
           hasRedis \/ call.at \notin {"asking", "asked"}
    PROVE  EngineIInv'
  <1>1. /\ enqueues' \in [Enqueues -> Calls] /\ enqueues'[r] = call
        /\ \A q \in Enqueues \ {r} : enqueues'[q] = enqueues[q]
    BY CallBecomes
  <1>2. UNCHANGED <<hasRedis, items, shards, idempotencyStore, batches, lastBatchHash,
                    adaptiveBatchSize, runs, redisKeys, lives, created>>
    BY DEF OnlyEnqueues, memoryVars
  <1>3. EngineTypeOK'
    BY <1>1, <1>2 DEF EngineTypeOK, Calls
  <1>4. PlacesAreRight'
    BY <1>2 DEF PlacesAreRight, InHand
  <1>5. ReceiptsAreRight'
    <2>1. Unbatched' = Unbatched
      BY <1>2 DEF Unbatched
    <2> QED BY <1>2, <2>1, SameBatches DEF ReceiptsAreRight
  <1>6. KeysAreRight'
    <2>1. ASSUME NEW q \in Enqueues
          PROVE  CallFits(enqueues[q])' /\ (hasRedis \/ enqueues'[q].at \notin {"asking", "asked"})
      <3>1. CallFits(enqueues'[q])
        BY <1>1 DEF KeysAreRight
      <3>2. hasRedis \/ enqueues'[q].at \notin {"asking", "asked"}
        BY <1>1 DEF KeysAreRight
      <3> QED BY <1>2, <3>1, <3>2 DEF CallFits, MadeFor
    <2>2. \A k \in Key : /\ idempotencyStore'[k] # NoId => MadeFor(idempotencyStore[k], k)'
                         /\ redisKeys'[k] # NoId => MadeFor(redisKeys[k], k)'
      BY <1>2 DEF KeysAreRight, MadeFor
    <2>3. ~hasRedis' => \A id \in DOMAIN items' : idempotencyStore'[created'[id].key] = id
      BY <1>2 DEF KeysAreRight
    <2> QED BY <1>2, <2>1, <2>2, <2>3 DEF KeysAreRight
  <1> QED BY <1>3, <1>4, <1>5, <1>6 DEF EngineIInv

\* A key that is known answers.
LEMMA KnownKeyFits ==
    ASSUME EngineTypeOK, NEW k \in Key, NEW p \in Payload, NEW id, MadeFor(id, k)
    PROVE  /\ KnownKey(k, p, id) \in Calls /\ CallFits(KnownKey(k, p, id))
           /\ KnownKey(k, p, id).at = "done"
  <1> DEFINE call == KnownKey(k, p, id)
  <1>1. id \in Nat
    BY DEF MadeFor, EngineTypeOK
  <1>2. call \in Answered
    BY <1>1 DEF KnownKey, Answered
  <1>3. /\ call.at = "done" /\ call.key = k /\ call.payload = p /\ call.id = id
        /\ call.reply # "conflict" => created[id].payload = p
    BY DEF KnownKey
  <1> HIDE DEF call
  <1>4. CallFits(call)
    BY <1>3 DEF CallFits
  <1> QED BY <1>2, <1>3, <1>4 DEF Calls, call

\* A payment is stored for a key.
LEMMA PaymentStored ==
    ASSUME EngineAssumption, EngineIInv, NEW r \in Enqueues, NEW k \in Key, NEW p \in Payload,
           hasRedis \/ idempotencyStore[k] = NoId, Stored(k, p), NEW at \in {"telling", "done"},
           Becomes(r, Accepted(k, p, at))
    PROVE  EngineIInv'
  <1>1. EngineTypeOK /\ PlacesAreRight /\ KeysAreRight /\ ReceiptsAreRight
    BY DEF EngineIInv
  <1>2. /\ created' \in Seq(Records) /\ NewId \notin DOMAIN created /\ NewId \in Nat
        /\ DOMAIN created' = DOMAIN created \cup {NewId}
        /\ created'[NewId] = [key |-> k, payload |-> p, paid |-> 0]
        /\ \A i \in DOMAIN created : created'[i] = created[i]
        /\ AreItems(items') /\ DOMAIN items' = DOMAIN items \cup {NewId}
        /\ \A i \in DOMAIN items : items'[i] = items[i]
        /\ shards' \in Families(Shard)
        /\ idempotencyStore' \in [Key -> Nat \cup {NoId}] /\ idempotencyStore'[k] = NewId
        /\ \A l \in Key \ {k} : idempotencyStore'[l] = idempotencyStore[l]
    BY <1>1, StoredShape
  <1>3. UNCHANGED <<hasRedis, batches, lastBatchHash, adaptiveBatchSize, runs, redisKeys, lives>>
    BY DEF Stored
  <1> DEFINE call == Accepted(k, p, at)
  <1>4. /\ call \in Answered /\ call.at = at /\ call.key = k /\ call.payload = p
        /\ call.id = NewId /\ call.reply = "accepted"
    BY <1>2 DEF Accepted, Answered, NewId
  <1> HIDE DEF call
  <1>5. /\ enqueues' \in [Enqueues -> Calls] /\ enqueues'[r] = call
        /\ \A q \in Enqueues \ {r} : enqueues'[q] = enqueues[q]
    <2>1. call \in Calls
      BY <1>4 DEF Calls
    <2> QED BY <1>1, <2>1, CallBecomes DEF call
  <1>6. EngineTypeOK'
    BY <1>1, <1>2, <1>3, <1>5 DEF EngineTypeOK, Calls, Records
  <1>7. PlacesAreRight' /\ WithStatus(items', {"SETTLED"}) = WithStatus(items, {"SETTLED"})
    BY <1>1, StoredWaits
  <1>8. ReceiptsAreRight'
    <2>1. ReceiptsFit(Unbatched, items) /\ AtMostOnce(Unbatched)
      BY <1>1 DEF ReceiptsAreRight, ReceiptsFit
    <2>2. \A i \in WithStatus(items, {"SETTLED"}) :
              items'[i].updatedAt = items[i].updatedAt /\ items'[i].receipt = items[i].receipt
      BY <1>2 DEF WithStatus
    <2>3. /\ Held(Unbatched) = Held(Unbatched) \cup {}
          /\ {} \cap WithStatus(items, {"SETTLED"}) = {}
          /\ WithStatus(items', {"SETTLED"}) = WithStatus(items, {"SETTLED"}) \cup {}
      BY <1>7
    <2>4. ReceiptsFit(Unbatched, items')
      BY <2>1, <2>2, <2>3, ReceiptsStillFit, ZenonT(40)
    <2>5. Unbatched' = Unbatched /\ UNCHANGED <<batches, lastBatchHash>>
      BY <1>3 DEF Unbatched
    <2> QED BY <2>4, <2>5, SameBatches
  <1>9. KeysAreRight'
    <2>1. Remembered
      BY <1>2 DEF Remembered
    <2>3. ASSUME NEW l \in Key
          PROVE  /\ idempotencyStore'[l] # NoId => MadeFor(idempotencyStore[l], l)'
                 /\ redisKeys'[l] # NoId => MadeFor(redisKeys[l], l)'
      <3>1. redisKeys'[l] # NoId => MadeFor(redisKeys[l], l)'
        BY <1>1, <1>3, <2>1 DEF KeysAreRight, MadeFor, Remembered
      <3>2. CASE l = k
        BY <1>2, <3>1, <3>2 DEF MadeFor
      <3>3. CASE l # k
        BY <1>1, <1>2, <2>1, <3>1, <3>3 DEF KeysAreRight, MadeFor, Remembered
      <3> QED BY <3>2, <3>3
    <2>4. ASSUME NEW q \in Enqueues
          PROVE  /\ CallFits(enqueues[q])'
                 /\ ~hasRedis' => enqueues'[q].at \notin {"asking", "asked"}
      <3>1. CASE q = r
        <4>1. created'[NewId].payload = p /\ created'[NewId].key = k /\ NewId \in DOMAIN created'
          BY <1>2
        <4> QED BY <1>4, <1>5, <3>1, <4>1 DEF CallFits, MadeFor
      <3>2. CASE q # r
        <4>1. CallFits(enqueues[q]) /\ enqueues'[q] = enqueues[q]
          BY <1>1, <1>5, <3>2 DEF KeysAreRight
        <4>2. CallFits(enqueues[q])'
          BY <2>1, <4>1 DEF CallFits, MadeFor, Remembered
        <4> QED BY <1>1, <1>3, <4>1, <4>2 DEF KeysAreRight
      <3> QED BY <3>1, <3>2
    <2>5. ASSUME ~hasRedis', NEW i \in DOMAIN items'
          PROVE  idempotencyStore'[created'[i].key] = i
      <3>1. CASE i = NewId
        BY <1>2, <3>1
      <3>2. CASE i # NewId
        <4>1. i \in DOMAIN items /\ created'[i] = created[i] /\ created[i].key \in Key
          <5>1. i \in DOMAIN items /\ i \in DOMAIN created
            BY <1>1, <1>2, <2>5, <3>2 DEF EngineTypeOK
          <5>2. created \in Seq(Records)
            BY <1>1 DEF EngineTypeOK, Records
          <5>3. created[i] \in Records
            BY <5>1, <5>2
          <5> QED BY <1>2, <5>1, <5>3 DEF Records
        <4>2. idempotencyStore[created[i].key] = i /\ i # NoId
          BY <1>1, <1>3, <2>5, <4>1 DEF KeysAreRight, EngineTypeOK, EngineAssumption
        <4>3. created[i].key # k
          BY <1>1, <1>2, <1>3, <2>5, <4>2 DEF EngineTypeOK
        <4> QED BY <1>2, <4>1, <4>2, <4>3
      <3> QED BY <3>1, <3>2
    <2> QED BY <1>3, <2>3, <2>4, <2>5 DEF KeysAreRight
  <1> QED BY <1>6, <1>7, <1>8, <1>9 DEF EngineIInv

\* A process that has just been started.
Fresh ==
    /\ items = Empty.items /\ shards = Empty.shards /\ runs = Empty.runs
    /\ batches = <<>> /\ lastBatchHash = Genesis

\* A process that has just been started holds nothing.
LEMMA FreshIsRight ==
    Fresh => /\ PlacesAreRight /\ ReceiptsAreRight
             /\ AreItems(items) /\ DOMAIN items = {} /\ shards \in Families(Shard)
             /\ runs \in [Runs -> {Idle} \cup WorkingRun]
  <1> SUFFICES ASSUME Fresh
               PROVE  /\ PlacesAreRight /\ ReceiptsAreRight
                      /\ AreItems(items) /\ DOMAIN items = {} /\ shards \in Families(Shard)
                      /\ runs \in [Runs -> {Idle} \cup WorkingRun]
    OBVIOUS
  <1>1. /\ items = <<>> /\ shards = [s \in Shard |-> <<>>] /\ runs = [c \in Runs |-> Idle]
        /\ batches = <<>> /\ lastBatchHash = Genesis
    BY DEF Fresh, Empty
  <1>2. <<>> \in Seq(Nat) /\ DOMAIN <<>> = {} /\ Range(<<>>) = {} /\ Len(<<>>) = 0
    BY DEF Range
  <1>3. AreItems(items) /\ DOMAIN items = {}
    BY <1>1, <1>2 DEF AreItems
  <1>4. \A S : WithStatus(items, S) = {}
    BY <1>3 DEF WithStatus
  <1>5. ASSUME NEW S, NEW F \in Families(S), \A x \in S : F[x] = <<>>
        PROVE  AtMostOnce(F) /\ Held(F) = {}
    <2>1. DOMAIN F = S
      BY FamilyShape
    <2> QED BY <1>2, <1>5, <2>1 DEF AtMostOnce, Held
  <1>6. shards \in Families(Shard) /\ \A s \in Shard : shards[s] = <<>>
    BY <1>1, <1>2 DEF Families
  <1>7. /\ InHand \in Families(Runs) /\ \A c \in Runs : InHand[c] = <<>>
        /\ Unbatched \in Families(Runs) /\ \A c \in Runs : Unbatched[c] = <<>>
    BY <1>1, <1>2 DEF InHand, Unbatched, TodoOf, SettledOf, Families
  <1>8. PlacesAreRight
    <2>1. AtMostOnce(shards) /\ Held(shards) = {}
      BY <1>5, <1>6
    <2>2. AtMostOnce(InHand) /\ Held(InHand) = {}
      BY <1>5, <1>7
    <2> QED BY <1>3, <1>4, <2>1, <2>2 DEF PlacesAreRight
  <1>9. ReceiptsAreRight
    <2>1. AtMostOnce(Unbatched) /\ Held(Unbatched) = {}
      BY <1>5, <1>7
    <2>2. DOMAIN batches = {} /\ Batched \in Families({})
      BY <1>1, <1>2 DEF Batched, Families
    <2>3. AtMostOnce(Batched) /\ Held(Batched) = {}
      BY <1>5, <2>2
    <2>4. IsSeq(batches) /\ Len(batches) = 0
      BY <1>1, <1>2 DEF IsSeq
    <2>5. BatchesAreChained
      BY <1>1, <2>2, <2>4 DEF BatchesAreChained
    <2> QED BY <1>4, <2>1, <2>2, <2>3, <2>5 DEF ReceiptsAreRight, ReceiptsFit
  <1>10. runs \in [Runs -> {Idle} \cup WorkingRun]
    BY <1>1
  <1> QED BY <1>3, <1>6, <1>8, <1>9, <1>10

\* The invariant holds of a process that has just been started.
LEMMA EngineStarts ==
    ASSUME EngineAssumption, EngineInit
    PROVE  EngineIInv
  <1>1. Fresh
    BY DEF EngineInit, Fresh
  <1>2. /\ PlacesAreRight /\ ReceiptsAreRight
        /\ AreItems(items) /\ DOMAIN items = {} /\ shards \in Families(Shard)
        /\ runs \in [Runs -> {Idle} \cup WorkingRun]
    BY <1>1, FreshIsRight
  <1>3. EngineTypeOK
    <2>1. created \in Seq([key : Key, payload : Payload, paid : Nat])
      BY DEF EngineInit
    <2>2. /\ idempotencyStore \in [Key -> Nat \cup {NoId}]
          /\ redisKeys \in [Key -> Nat \cup {NoId}]
          /\ adaptiveBatchSize \in Nat /\ hasRedis \in BOOLEAN
      BY DEF EngineInit, Empty, EngineAssumption
    <2>3. enqueues \in [Enqueues -> {NewCall, Lost} \cup Asking \cup Asked \cup Answered]
      BY DEF EngineInit
    <2> QED BY <1>2, <2>1, <2>2, <2>3 DEF EngineTypeOK
  <1>4. KeysAreRight
    <2>1. \A k \in Key : idempotencyStore[k] = NoId /\ redisKeys[k] = NoId
      BY DEF EngineInit, Empty
    <2>2. \A r \in Enqueues : enqueues[r].at = "new"
      BY DEF EngineInit, NewCall
    <2> QED BY <1>2, <2>1, <2>2 DEF KeysAreRight, CallFits
  <1> QED BY <1>2, <1>3, <1>4 DEF EngineIInv

\* A restart loses the memory, and what is on record stays right.
LEMMA EngineRestarts ==
    ASSUME EngineAssumption, EngineIInv, engine_restarts
    PROVE  EngineIInv'
  <1>1. EngineTypeOK /\ KeysAreRight
    BY DEF EngineIInv
  <1>2. Fresh'
    BY DEF engine_restarts, Fresh, Empty
  <1>3. (/\ PlacesAreRight /\ ReceiptsAreRight
         /\ AreItems(items) /\ DOMAIN items = {} /\ shards \in Families(Shard)
         /\ runs \in [Runs -> {Idle} \cup WorkingRun])'
    BY <1>2, FreshIsRight, PTL
  <1>4. /\ idempotencyStore' = [k \in Key |-> NoId] /\ adaptiveBatchSize' = DefaultBatchSize
        /\ enqueues' = [r \in Enqueues |->
                          IF enqueues[r].at \in {"new", "done"} THEN enqueues[r] ELSE Lost]
        /\ UNCHANGED <<hasRedis, created>>
    BY DEF engine_restarts, Empty, Lost
  <1>5. \A r \in Enqueues : enqueues'[r] \in Calls /\ (enqueues'[r] = enqueues[r] \/ enqueues'[r] = Lost)
    BY <1>1, <1>4 DEF EngineTypeOK, Calls
  <1>6. ASSUME NEW k \in Key
        PROVE  /\ redisKeys'[k] \in Nat \cup {NoId}
               /\ redisKeys'[k] # NoId => MadeFor(redisKeys'[k], k)
    <2>1. /\ redisKeys[k] \in Nat \cup {NoId}
          /\ redisKeys[k] # NoId => MadeFor(redisKeys[k], k)
      BY <1>1 DEF EngineTypeOK, KeysAreRight
    <2>2. CASE redisKeys' = redisKeys
      BY <2>1, <2>2
    <2>3. ASSUME NEW r \in Enqueues, enqueues[r].at = "telling",
                 redisKeys' = [redisKeys EXCEPT ![enqueues[r].key] = enqueues[r].id]
          PROVE  /\ redisKeys'[k] \in Nat \cup {NoId}
                 /\ redisKeys'[k] # NoId => MadeFor(redisKeys'[k], k)
      <3>1. enqueues[r] \in Answered
        BY <1>1, <2>3 DEF EngineTypeOK, NewCall, Lost, Asking, Asked
      <3>2. MadeFor(enqueues[r].id, enqueues[r].key)
        BY <1>1, <2>3 DEF KeysAreRight, CallFits
      <3>3. redisKeys'[k] = (IF k = enqueues[r].key THEN enqueues[r].id ELSE redisKeys[k])
        BY <1>1, <2>3 DEF EngineTypeOK
      <3> QED BY <2>1, <3>1, <3>2, <3>3 DEF Answered
    <2>4. \/ redisKeys' = redisKeys
          \/ \E r \in Enqueues : /\ enqueues[r].at = "telling"
                                 /\ redisKeys' = [redisKeys EXCEPT ![enqueues[r].key] = enqueues[r].id]
      BY DEF engine_restarts
    <2> QED BY <2>2, <2>3, <2>4
  <1>7. redisKeys' \in [Key -> Nat \cup {NoId}]
    <2>1. redisKeys' = [k \in Key |-> redisKeys'[k]]
      BY <1>1 DEF engine_restarts, EngineTypeOK
    <2> QED BY <1>6, <2>1
  <1>8. EngineTypeOK'
    <2>1. enqueues' \in [Enqueues -> Calls]
      BY <1>4, <1>5
    <2>2. idempotencyStore' \in [Key -> Nat \cup {NoId}] /\ adaptiveBatchSize' \in Nat
      BY <1>4 DEF EngineAssumption
    <2> QED BY <1>1, <1>3, <1>4, <1>7, <2>1, <2>2 DEF EngineTypeOK, Calls
  <1>9. KeysAreRight'
    <2>1. \A r \in Enqueues : CallFits(enqueues'[r]) /\ enqueues'[r].at \notin {"asking", "asked"}
      <3> TAKE r \in Enqueues
      <3>1. CASE enqueues'[r] = Lost
        BY <3>1 DEF Lost, CallFits
      <3>2. CASE enqueues[r].at \in {"new", "done"}
        <4>1. enqueues'[r] = enqueues[r] /\ CallFits(enqueues[r])
          BY <1>1, <1>4, <3>2 DEF KeysAreRight
        <4> QED BY <3>2, <4>1
      <3> QED BY <1>4, <3>1, <3>2
    <2>2. \A r \in Enqueues : CallFits(enqueues[r])'
      BY <1>4, <2>1 DEF CallFits, MadeFor
    <2>3. \A k \in Key : redisKeys'[k] # NoId => MadeFor(redisKeys[k], k)'
      BY <1>4, <1>6 DEF MadeFor
    <2> QED BY <1>3, <1>4, <2>1, <2>2, <2>3 DEF KeysAreRight
  <1> QED BY <1>3, <1>8, <1>9 DEF EngineIInv

\* Where a call is says what it is.
LEMMA CallKinds ==
    ASSUME NEW call \in Calls
    PROVE  /\ call.at = "asking" => call \in Asking
           /\ call.at = "asked" => call \in Asked
           /\ call.at \in {"telling", "done"} => call \in Answered
  BY DEF Calls, NewCall, Lost, Asking, Asked, Answered

LEMMA EnqueuePaymentKeeps ==
    ASSUME EngineAssumption, EngineIInv, NEW r \in Enqueues, NEW k \in Key, NEW p \in Payload,
           enqueuePayment(r, k, p)
    PROVE  EngineIInv'
  <1>1. EngineTypeOK /\ PlacesAreRight /\ KeysAreRight /\ ReceiptsAreRight
    BY DEF EngineIInv
  <1>2. CASE /\ idempotencyStore[k] # NoId
             /\ Becomes(r, KnownKey(k, p, idempotencyStore[k])) /\ OnlyEnqueues
    <2>1. MadeFor(idempotencyStore[k], k)
      BY <1>1, <1>2 DEF KeysAreRight
    <2>2. /\ KnownKey(k, p, idempotencyStore[k]) \in Calls
          /\ CallFits(KnownKey(k, p, idempotencyStore[k]))
          /\ KnownKey(k, p, idempotencyStore[k]).at = "done"
      BY <1>1, <2>1, KnownKeyFits
    <2>3. KnownKey(k, p, idempotencyStore[k]).at \notin {"asking", "asked"}
      BY <2>2
    <2> QED BY <1>1, <1>2, <2>2, <2>3, CallGoesOn
  <1>3. CASE /\ idempotencyStore[k] = NoId /\ hasRedis
             /\ Becomes(r, [at |-> "asking", key |-> k, payload |-> p]) /\ OnlyEnqueues
    <2> DEFINE call == [at |-> "asking", key |-> k, payload |-> p]
    <2>1. call \in Calls /\ CallFits(call) /\ Becomes(r, call)
      BY <1>3 DEF Calls, Asking, CallFits
    <2> HIDE DEF call
    <2> QED BY <1>1, <1>3, <2>1, CallGoesOn
  <1>4. CASE /\ idempotencyStore[k] = NoId /\ ~hasRedis
             /\ Stored(k, p) /\ Becomes(r, Accepted(k, p, "done"))
    BY <1>4, PaymentStored
  <1> QED BY <1>2, <1>3, <1>4 DEF enqueuePayment

LEMMA RedisGetKeeps ==
    ASSUME EngineAssumption, EngineIInv, NEW r \in Enqueues, redis_get(r)
    PROVE  EngineIInv'
  <1>1. EngineTypeOK /\ PlacesAreRight /\ KeysAreRight /\ ReceiptsAreRight
    BY DEF EngineIInv
  <1>2. enqueues[r] \in Asking
    <2>1. enqueues[r] \in Calls /\ enqueues[r].at = "asking"
      BY <1>1 DEF redis_get, EngineTypeOK, Calls
    <2> QED BY <2>1, CallKinds
  <1> DEFINE k == enqueues[r].key
             p == enqueues[r].payload
  <1>3. k \in Key /\ p \in Payload /\ hasRedis
    <2>1. k \in Key /\ p \in Payload
      BY <1>2 DEF Asking
    <2> QED BY <1>1, <2>1 DEF redis_get, KeysAreRight, EngineTypeOK
  <1>4. PICK found \in {redisKeys[k], NoId} :
            Becomes(r, [at |-> "asked", key |-> k, payload |-> p, found |-> found])
    BY DEF redis_get
  <1> DEFINE call == [at |-> "asked", key |-> k, payload |-> p, found |-> found]
  <1>5. found \in Nat \cup {NoId} /\ (found # NoId => MadeFor(found, k))
    BY <1>1, <1>3 DEF EngineTypeOK, KeysAreRight
  <1>6. call \in Calls /\ CallFits(call) /\ Becomes(r, call) /\ OnlyEnqueues
    BY <1>3, <1>4, <1>5 DEF Calls, Asked, CallFits, redis_get
  <1> HIDE DEF call
  <1> QED BY <1>1, <1>3, <1>6, CallGoesOn

LEMMA RedisAnsweredKeeps ==
    ASSUME EngineAssumption, EngineIInv, NEW r \in Enqueues, redis_answered(r)
    PROVE  EngineIInv'
  <1>1. EngineTypeOK /\ PlacesAreRight /\ KeysAreRight /\ ReceiptsAreRight
    BY DEF EngineIInv
  <1>2. enqueues[r] \in Asked /\ enqueues[r].at = "asked"
    <2>1. enqueues[r] \in Calls /\ enqueues[r].at = "asked"
      BY <1>1 DEF redis_answered, EngineTypeOK, Calls
    <2> QED BY <2>1, CallKinds
  <1> DEFINE k == enqueues[r].key
             p == enqueues[r].payload
             found == enqueues[r].found
  <1>3. k \in Key /\ p \in Payload /\ hasRedis
    <2>1. k \in Key /\ p \in Payload
      BY <1>2 DEF Asked
    <2> QED BY <1>1, <1>2, <2>1 DEF KeysAreRight, EngineTypeOK
  <1>4. CASE found # NoId /\ Becomes(r, KnownKey(k, p, found)) /\ OnlyEnqueues
    <2>1. MadeFor(found, k)
      BY <1>1, <1>2, <1>4 DEF KeysAreRight, CallFits
    <2>2. /\ KnownKey(k, p, found) \in Calls /\ CallFits(KnownKey(k, p, found))
          /\ KnownKey(k, p, found).at = "done"
      BY <1>1, <1>3, <2>1, KnownKeyFits
    <2> QED BY <1>1, <1>3, <1>4, <2>2, CallGoesOn
  <1>5. CASE found = NoId /\ Stored(k, p) /\ Becomes(r, Accepted(k, p, "telling"))
    BY <1>3, <1>5, PaymentStored
  <1> QED BY <1>4, <1>5 DEF redis_answered

\* Redis is told, or forgets: only its own keys and a call change.
LEMMA RedisChanges ==
    ASSUME EngineIInv, NEW rk, redisKeys' = rk, rk \in [Key -> Nat \cup {NoId}],
           \A k \in Key : rk[k] # NoId => MadeFor(rk[k], k),
           enqueues' \in [Enqueues -> Calls],
           \A r \in Enqueues : CallFits(enqueues'[r]),
           \A r \in Enqueues : enqueues'[r].at \in {"asking", "asked"} => enqueues'[r] = enqueues[r],
           UNCHANGED <<hasRedis, memoryVars, runs, lives, created>>
    PROVE  EngineIInv'
  <1>1. EngineTypeOK /\ PlacesAreRight /\ KeysAreRight /\ ReceiptsAreRight
    BY DEF EngineIInv
  <1>2. UNCHANGED <<hasRedis, items, shards, idempotencyStore, batches, lastBatchHash,
                    adaptiveBatchSize, runs, lives, created>>
    BY DEF memoryVars
  <1>3. EngineTypeOK'
    BY <1>1, <1>2 DEF EngineTypeOK, Calls
  <1>4. PlacesAreRight'
    BY <1>1, <1>2 DEF PlacesAreRight, InHand
  <1>5. ReceiptsAreRight'
    <2>1. Unbatched' = Unbatched
      BY <1>2 DEF Unbatched
    <2> QED BY <1>1, <1>2, <2>1, SameBatches DEF ReceiptsAreRight
  <1>6. KeysAreRight'
    <2>1. \A r \in Enqueues : CallFits(enqueues[r])'
      BY <1>2 DEF CallFits, MadeFor
    <2>2. \A k \in Key : /\ idempotencyStore'[k] # NoId => MadeFor(idempotencyStore[k], k)'
                         /\ redisKeys'[k] # NoId => MadeFor(redisKeys[k], k)'
      BY <1>1, <1>2 DEF KeysAreRight, MadeFor
    <2>3. ~hasRedis' => /\ \A id \in DOMAIN items' : idempotencyStore'[created'[id].key] = id
                        /\ \A r \in Enqueues : enqueues'[r].at \notin {"asking", "asked"}
      BY <1>1, <1>2 DEF KeysAreRight
    <2> QED BY <2>1, <2>2, <2>3 DEF KeysAreRight
  <1> QED BY <1>3, <1>4, <1>5, <1>6 DEF EngineIInv

LEMMA RedisSetKeeps ==
    ASSUME EngineAssumption, EngineIInv, NEW r \in Enqueues, redis_set(r)
    PROVE  EngineIInv'
  <1>1. EngineTypeOK /\ KeysAreRight
    BY DEF EngineIInv
  <1>2. enqueues[r] \in Answered /\ enqueues[r].at = "telling"
    <2>1. enqueues[r] \in Calls /\ enqueues[r].at = "telling"
      BY <1>1 DEF redis_set, EngineTypeOK, Calls
    <2> QED BY <2>1, CallKinds
  <1> DEFINE k == enqueues[r].key
             id == enqueues[r].id
             call == [enqueues[r] EXCEPT !.at = "done"]
  <1>3. k \in Key /\ id \in Nat /\ MadeFor(id, k) /\ CallFits(enqueues[r])
    <2>1. k \in Key /\ id \in Nat
      BY <1>2 DEF Answered
    <2>2. CallFits(enqueues[r])
      BY <1>1 DEF KeysAreRight
    <2> QED BY <1>2, <2>1, <2>2 DEF CallFits
  <1>4. /\ call \in Answered /\ call.at = "done" /\ call.key = k /\ call.id = id
        /\ call.payload = enqueues[r].payload /\ call.reply = enqueues[r].reply
    BY <1>2 DEF Answered
  <1>5. Becomes(r, call) /\ UNCHANGED <<hasRedis, memoryVars, runs, lives, created>>
    BY DEF redis_set
  <1> HIDE DEF call
  <1>6. call \in Calls /\ CallFits(call)
    BY <1>2, <1>3, <1>4 DEF Calls, CallFits
  <1>7. /\ enqueues' \in [Enqueues -> Calls] /\ enqueues'[r] = call
        /\ \A q \in Enqueues \ {r} : enqueues'[q] = enqueues[q]
    BY <1>1, <1>5, <1>6, CallBecomes
  <1>8. \A q \in Enqueues : /\ CallFits(enqueues'[q])
                            /\ enqueues'[q].at \in {"asking", "asked"} => enqueues'[q] = enqueues[q]
    BY <1>1, <1>4, <1>6, <1>7 DEF KeysAreRight
  <1> DEFINE told == [redisKeys EXCEPT ![k] = id]
  <1>9. redisKeys' = redisKeys \/ redisKeys' = told
    BY DEF redis_set
  <1>10. ASSUME NEW rk, rk = redisKeys \/ rk = told
         PROVE  rk \in [Key -> Nat \cup {NoId}] /\ \A l \in Key : rk[l] # NoId => MadeFor(rk[l], l)
    BY <1>1, <1>3, <1>10 DEF EngineTypeOK, KeysAreRight
  <1> HIDE DEF told
  <1>11. /\ redisKeys' \in [Key -> Nat \cup {NoId}]
         /\ \A l \in Key : redisKeys'[l] # NoId => MadeFor(redisKeys'[l], l)
    BY <1>9, <1>10
  <1> QED BY <1>5, <1>7, <1>8, <1>11, RedisChanges

LEMMA RedisExpiresKeeps ==
    ASSUME EngineAssumption, EngineIInv, NEW k \in Key, redis_expires(k)
    PROVE  EngineIInv'
  <1>1. EngineTypeOK /\ KeysAreRight
    BY DEF EngineIInv
  <1>2. /\ redisKeys' = [redisKeys EXCEPT ![k] = NoId] /\ enqueues' = enqueues
        /\ UNCHANGED <<hasRedis, memoryVars, runs, lives, created>>
    BY DEF redis_expires
  <1>3. /\ redisKeys' \in [Key -> Nat \cup {NoId}]
        /\ \A l \in Key : redisKeys'[l] # NoId => MadeFor(redisKeys'[l], l)
    BY <1>1, <1>2 DEF EngineTypeOK, KeysAreRight
  <1>4. /\ enqueues' \in [Enqueues -> Calls]
        /\ \A q \in Enqueues : CallFits(enqueues'[q])
    BY <1>1, <1>2 DEF EngineTypeOK, KeysAreRight, Calls
  <1> QED BY <1>2, <1>3, <1>4, RedisChanges

\* Every step keeps the invariant.
LEMMA EngineStepKeeps ==
    ASSUME EngineAssumption
    PROVE  EngineIInv /\ [EngineNext]_engineVars => EngineIInv'
  <1> SUFFICES ASSUME EngineIInv, [EngineNext]_engineVars PROVE EngineIInv'
    OBVIOUS
  <1>1. EngineTypeOK /\ PlacesAreRight /\ KeysAreRight /\ ReceiptsAreRight
    BY DEF EngineIInv
  <1>2. ASSUME NEW r \in Enqueues, NEW k \in Key, NEW p \in Payload, enqueuePayment(r, k, p)
        PROVE  EngineIInv'
    BY <1>2, EnqueuePaymentKeeps
  <1>3. ASSUME NEW r \in Enqueues, redis_get(r) PROVE EngineIInv'
    BY <1>3, RedisGetKeeps
  <1>4. ASSUME NEW r \in Enqueues, redis_answered(r) PROVE EngineIInv'
    BY <1>4, RedisAnsweredKeeps
  <1>5. ASSUME NEW r \in Enqueues, redis_set(r) PROVE EngineIInv'
    BY <1>5, RedisSetKeeps
  <1>6. ASSUME NEW k \in Key, redis_expires(k) PROVE EngineIInv'
    BY <1>6, RedisExpiresKeeps
  <1>7. ASSUME NEW c \in Runs, NEW s \in Shard, processShard(c, s) PROVE EngineIInv'
    <2>1. EngineTypeOK' /\ PlacesAreRight' /\ ReceiptsAreRight' /\ DOMAIN items' = DOMAIN items
      BY <1>1, <1>7, EngineTakes
    <2>2. Remembered /\ UNCHANGED <<hasRedis, idempotencyStore, enqueues, redisKeys>>
      BY <1>7 DEF processShard, Remembered
    <2>3. KeysAreRight'
      BY <1>1, <2>1, <2>2, KeysStayRight
    <2> QED BY <2>1, <2>3 DEF EngineIInv
  <1>8. ASSUME NEW c \in Runs, processor_succeeds(c) PROVE EngineIInv'
    <2>1. /\ EngineTypeOK' /\ PlacesAreRight' /\ ReceiptsAreRight'
          /\ DOMAIN items' = DOMAIN items /\ Remembered
      BY <1>1, <1>8, EngineSettlesOne DEF Remembered
    <2>2. UNCHANGED <<hasRedis, idempotencyStore, enqueues, redisKeys>>
      BY <1>8 DEF processor_succeeds
    <2>3. KeysAreRight'
      BY <1>1, <2>1, <2>2, KeysStayRight
    <2> QED BY <2>1, <2>3 DEF EngineIInv
  <1>9. ASSUME NEW c \in Runs, NEW fatal \in BOOLEAN, processor_fails(c, fatal) PROVE EngineIInv'
    <2>1. EngineTypeOK' /\ PlacesAreRight' /\ ReceiptsAreRight' /\ DOMAIN items' = DOMAIN items
      BY <1>1, <1>9, EngineFailsOne
    <2>2. Remembered /\ UNCHANGED <<hasRedis, idempotencyStore, enqueues, redisKeys>>
      BY <1>9 DEF processor_fails, Remembered
    <2>3. KeysAreRight'
      BY <1>1, <2>1, <2>2, KeysStayRight
    <2> QED BY <2>1, <2>3 DEF EngineIInv
  <1>10. ASSUME engine_restarts PROVE EngineIInv'
    BY <1>10, EngineRestarts
  <1>11. CASE UNCHANGED engineVars
    <2>1. /\ redisKeys' = redisKeys /\ enqueues' = enqueues
          /\ UNCHANGED <<hasRedis, memoryVars, runs, lives, created>>
      BY <1>11 DEF engineVars
    <2>2. /\ redisKeys \in [Key -> Nat \cup {NoId}]
          /\ \A l \in Key : redisKeys[l] # NoId => MadeFor(redisKeys[l], l)
          /\ enqueues' \in [Enqueues -> Calls]
          /\ \A q \in Enqueues : CallFits(enqueues'[q])
      BY <1>1, <2>1 DEF EngineTypeOK, KeysAreRight, Calls
    <2> QED BY <2>1, <2>2, RedisChanges
  <1> QED BY <1>2, <1>3, <1>4, <1>5, <1>6, <1>7, <1>8, <1>9, <1>10, <1>11 DEF EngineNext

\* The queues, the hands of the runs and the batches partition the items by
\* their statuses, whatever is on record for a key was made for it, and the
\* receipts fit the batches (outboxEngine.js:149-267, 296-422): the inductive
\* invariant of the settlement engine.
THEOREM EngineInvariant ==
    ASSUME EngineAssumption PROVE EngineSpec => []EngineIInv
  <1>1. EngineInit => EngineIInv
    BY EngineStarts
  <1>2. EngineIInv /\ [EngineNext]_engineVars => EngineIInv'
    BY EngineStepKeeps
  <1> QED BY <1>1, <1>2, PTL DEF EngineSpec

\* Of the runs, those that are under way hold what all hold.
LEMMA WorkingHands ==
    ASSUME EngineTypeOK, AtMostOnce(InHand)
    PROVE  \E S : Todos \in Families(S) /\ AtMostOnce(Todos) /\ Held(Todos) = Held(InHand)
  <1> DEFINE S == {d \in Runs : runs[d] # Idle}
  <1>1. InHand \in Families(Runs)
    BY RunsHold DEF InHand, EngineTypeOK
  <1>2. /\ DOMAIN Todos = S
        /\ \A c \in S : Todos[c] = runs[c].todo /\ InHand[c] = Todos[c]
        /\ \A c \in Runs \ S : InHand[c] = <<>>
    BY DEF Todos, InHand, TodoOf
  <1>3. Todos \in Families(S)
    <2>1. \A c \in S : Todos[c] \in Seq(Nat)
      BY <1>1, <1>2, FamilyShape
    <2>2. Todos = [c \in S |-> Todos[c]]
      BY DEF Todos
    <2> QED BY <2>1, <2>2 DEF Families
  <1>4. AtMostOnce(Todos)
    <2>1. DOMAIN InHand = Runs /\ S \subseteq Runs
      BY DEF InHand
    <2> HIDE DEF S
    <2> QED BY <1>2, <2>1 DEF AtMostOnce
  <1>5. ASSUME NEW id PROVE id \in Held(Todos) <=> id \in Held(InHand)
    <2>1. ASSUME id \in Held(Todos) PROVE id \in Held(InHand)
      <3>1. PICK c \in S : \E i \in 1..Len(Todos[c]) : Todos[c][i] = id
        BY <1>3, <2>1, HeldSomewhere
      <3> QED BY <1>1, <1>2, <3>1, HeldThere
    <2>2. ASSUME id \in Held(InHand) PROVE id \in Held(Todos)
      <3>1. PICK c \in Runs : \E i \in 1..Len(InHand[c]) : InHand[c][i] = id
        BY <1>1, <2>2, HeldSomewhere
      <3>2. c \in S
        BY <1>2, <3>1
      <3> QED BY <1>2, <1>3, <3>1, <3>2, HeldThere
    <2> QED BY <2>1, <2>2
  <1> HIDE DEF S
  <1> QED BY <1>3, <1>4, <1>5

\* What is promised about payments follows from the invariant.
LEMMA OncePerPayment ==
    ASSUME EngineIInv PROVE PaymentsSettleOnce
  <1>1. EngineTypeOK /\ PlacesAreRight /\ KeysAreRight
    BY DEF EngineIInv
  <1>2. ASSUME NEW id \in DOMAIN items
        PROVE  /\ Places(id) = (IF items[id].status \in {"SETTLED", "DLQ"} THEN 0 ELSE 1)
               /\ created[id].paid = (IF items[id].status = "SETTLED" THEN 1 ELSE 0)
    <2>1. items[id].status \in Statuses
      BY <1>1 DEF EngineTypeOK, AreItems, IsItem
    <2>2. /\ id \in Held(shards) <=> items[id].status \in {"PENDING", "FAILED"}
          /\ id \in Held(InHand) <=> items[id].status = "PROCESSING"
      BY <1>1 DEF PlacesAreRight, WithStatus, Waiting
    <2>3. Cardinality(Where(id, shards)) = (IF id \in Held(shards) THEN 1 ELSE 0)
      BY <1>1, OnePlace DEF EngineTypeOK, PlacesAreRight
    <2>4. Cardinality(Where(id, Todos)) = (IF id \in Held(InHand) THEN 1 ELSE 0)
      <3>1. PICK S : Todos \in Families(S) /\ AtMostOnce(Todos) /\ Held(Todos) = Held(InHand)
        BY <1>1, WorkingHands DEF PlacesAreRight
      <3>2. Cardinality(Where(id, Todos)) = (IF id \in Held(Todos) THEN 1 ELSE 0)
        BY <3>1, OnePlace
      <3> QED BY <3>1, <3>2
    <2> QED BY <1>1, <2>1, <2>2, <2>3, <2>4 DEF Places, PlacesAreRight, Statuses
  <1>3. ASSUME NEW r \in Enqueues, enqueues[r].at = "done", enqueues[r].reply # "conflict"
        PROVE  /\ created[enqueues[r].id].key = enqueues[r].key
               /\ created[enqueues[r].id].payload = enqueues[r].payload
    BY <1>1, <1>3 DEF KeysAreRight, CallFits, MadeFor
  <1>4. ASSUME ~hasRedis, NEW i \in DOMAIN items, NEW j \in DOMAIN items,
               created[i].key = created[j].key
        PROVE  i = j
    BY <1>1, <1>4 DEF KeysAreRight
  <1> QED BY <1>2, <1>3, <1>4 DEF PaymentsSettleOnce

\* What is promised about receipts follows from the invariant: the proofs of
\* a receipt fit one leaf, and a settled item is in one batch.
LEMMA ReceiptsOfBatches ==
    ASSUME EngineIInv PROVE ReceiptsVerify
  <1>1. /\ EngineTypeOK /\ BatchesAreChained
        /\ AtMostOnce(Batched)
        /\ Held(Unbatched) \cup Held(Batched) = WithStatus(items, {"SETTLED"})
        /\ \A n \in DOMAIN batches : \A id \in Range(batches[n].items) :
              IsReceipt(items[id].receipt, LeafOf(items, id), n)
    BY DEF EngineIInv, ReceiptsAreRight, ReceiptsFit
  <1>2. /\ Batched \in Families(DOMAIN batches)
        /\ \A n \in DOMAIN batches : Batched[n] = batches[n].items
    BY <1>1 DEF Batched, Families, BatchesAreChained
  <1>3. ASSUME NEW id \in DOMAIN items, items[id].status = "SETTLED",
               \A c \in Runs : runs[c] # Idle => id \notin Range(runs[c].settled)
        PROVE  /\ {n \in DOMAIN batches : id \in Range(batches[n].items)}
                      = {items[id].receipt.batchId}
               /\ \A other \in DOMAIN items :
                     Verifies(LeafOf(items, other), items[id].receipt) <=> other = id
    <2>1. id \notin Held(Unbatched)
      BY <1>3 DEF Held, Unbatched, SettledOf, Range
    <2>2. id \in Held(Batched)
      BY <1>1, <1>3, <2>1 DEF WithStatus
    <2>3. PICK n \in DOMAIN batches : \E i \in 1..Len(Batched[n]) : Batched[n][i] = id
      BY <1>2, <2>2, HeldSomewhere
    <2>4. ASSUME NEW m \in DOMAIN batches
          PROVE  id \in Range(batches[m].items) <=> m = n
      <3>1. \A l \in DOMAIN batches : DOMAIN Batched[l] = 1..Len(Batched[l])
        BY <1>2, FamilyShape
      <3>2. SamePlaces(Batched, DOMAIN batches)
        BY <1>1, <1>2, SamePlace
      <3> QED BY <1>2, <2>3, <3>1, <3>2 DEF Range, SamePlaces
    <2> DEFINE receipt == items[id].receipt
    <2>5. IsReceipt(receipt, LeafOf(items, id), n)
      BY <1>1, <2>4
    <2>6. /\ receipt.batchId = n /\ receipt.chainHash = ChainHashOf(n) /\ IsSeq(receipt.proof)
          /\ verifyProof(LeafOf(items, id), receipt.proof, receipt.merkleRoot)
          /\ batches[n].batchId = n
      BY <1>1, <2>5 DEF IsReceipt, BatchesAreChained
    <2>7. ASSUME NEW other \in DOMAIN items
          PROVE  Verifies(LeafOf(items, other), receipt) <=> other = id
      <3>1. ASSUME Verifies(LeafOf(items, other), receipt) PROVE other = id
        <4>1. LeafOf(items, other) = LeafOf(items, id)
          BY <2>6, <3>1, ProofsFitOneLeaf DEF Verifies
        <4> QED BY <4>1 DEF LeafOf
      <3>2. Verifies(LeafOf(items, id), receipt)
        BY <2>6 DEF Verifies, ChainHashOf
      <3> QED BY <3>1, <3>2
    <2> QED BY <2>4, <2>6, <2>7
  <1>4. ASSUME NEW n \in DOMAIN batches
        PROVE  batches[n].prevBatchHash = (IF n = 1 THEN Genesis ELSE batches[n - 1].chainHash)
    BY <1>1 DEF BatchesAreChained
  <1> QED BY <1>3, <1>4 DEF ReceiptsVerify

\* However runs overlap, retry and are joined by new payments, an item that is
\* not done is in exactly one place, one that is settled was paid once and any
\* other never, and replies name payments of their key and payload
\* (outboxEngine.js:149-267, 296-359).
THEOREM EngineSettlesOnce ==
    ASSUME EngineAssumption PROVE EngineSpec => []PaymentsSettleOnce
  BY EngineInvariant, OncePerPayment, PTL

\* Batches of all shards form one chain, everything settled is in one of them,
\* and its receipt verifies for it, at any later time, and for no other item
\* (outboxEngine.js:369-422, 528-566, merkleTree.js:99-219).
THEOREM EngineReceipts ==
    ASSUME EngineAssumption PROVE EngineSpec => []ReceiptsVerify
  BY EngineInvariant, ReceiptsOfBatches, PTL
=============================================================================
