---------------------------- MODULE RouterLimits ----------------------------
(***************************************************************************)
(* What the payment router remembers of a sender: the 24-hour spending     *)
(* window with the lifetime volume (storage.rs), the two entries that      *)
(* versions before the packed record kept in their place, and the number   *)
(* of payments in the current ledger (rate_limit.rs).                      *)
(*                                                                         *)
(* One value of the clock is one ledger, so `now` stands for the timestamp *)
(* and for the sequence number.  A call may route several payments: the    *)
(* operators below take the books of all senders and return the books      *)
(* after one payment, with ok = FALSE when the payment is refused, and a   *)
(* call that ends with ok = FALSE never happened.  Who may call what is    *)
(* the business of RouterPayments, which instantiates this module.         *)
(***************************************************************************)
EXTENDS Naturals, SequencesExt

CONSTANTS
    Addr,           \* the senders
    NoRecord,       \* an absent entry
    NoTime,         \* the reset time of a legacy volume without a window
    LegacyRecords,  \* entries an earlier version may have left for a sender
    Entries,        \* the payments that take a slot, as <<sender, amount>>
    UnchargedEntries, \* those that the limiter does not see
    MaxBatch,       \* bound on the payments of one call
    Day,            \* SECONDS_IN_24H
    DailyMax,       \* DAILY_MAX_LIMIT
    RateLimits,     \* arguments of set_rate_limit
    DefaultRateLimit, \* DEFAULT_RATE_LIMIT
    MaxRateLimit,   \* MAX_RATE_LIMIT
    Start,          \* when this version was installed
    MaxTime         \* bound on the ledger clock

Record == [reset : Nat, spent : Nat, volume : Nat]
LegacyRecord == [reset : (0..Start) \cup {NoTime}, spent : 0..DailyMax, volume : Nat]

ASSUME LimitsAssumption ==
    /\ NoTime \notin Nat
    /\ NoRecord \notin [reset : Nat \cup {NoTime}, spent : Nat, volume : Nat]
    /\ Entries \cup UnchargedEntries \subseteq Addr \X (Nat \ {0})
    /\ {Day, DailyMax, DefaultRateLimit} \subseteq Nat \ {0}
    /\ {MaxTime, MaxRateLimit, MaxBatch} \subseteq Nat
    /\ Start \in 0..MaxTime
    /\ RateLimits \subseteq Nat
    /\ LegacyRecords \subseteq LegacyRecord
    /\ \A r \in LegacyRecords : r.reset = NoTime => r.spent = 0 /\ r.volume > 0

VARIABLES
    now,            \* env.ledger().timestamp() and .sequence()
    record,         \* DataKey::UserRecord, unpacked
    legacy,         \* DataKey::UserSpending and UserVolume, unpacked
    rateCounter,    \* DataKey::RateLimitCounter, unpacked
    rateLimit,      \* DataKey::RateLimitConfig (absent reads as the default)
    exempt,         \* the senders with DataKey::RateLimitWhitelist
    spentAt,        \* history: what a sender routed at each time, and
    lifetime,       \* in all, but for what was deleted as archived
    charged         \* history: payments of a sender in this ledger, limiter on

limitsVars == <<now, record, legacy, rateCounter, rateLimit, exempt, spentAt,
                lifetime, charged>>
bookVars == <<record, legacy, rateCounter, spentAt, lifetime, charged>>

-----------------------------------------------------------------------------
(* The operations on the books.                                            *)

Books == [ok |-> TRUE, record |-> record, legacy |-> legacy,
          rate |-> rateCounter, spentAt |-> spentAt, lifetime |-> lifetime,
          charged |-> charged]

\* The packed record if there is one, else what the legacy entries say.
load_user_record(b, a) ==
    CASE b.record[a] # NoRecord -> b.record[a]
      [] b.record[a] = NoRecord /\ b.legacy[a] # NoRecord ->
           [b.legacy[a] EXCEPT !.reset = IF @ = NoTime THEN now ELSE @]
      [] OTHER -> [reset |-> now, spent |-> 0, volume |-> 0]

\* Mutant: the window is emptied but keeps its old start.
roll_window_keeps_reset(r) == IF now - r.reset >= Day THEN [r EXCEPT !.spent = 0] ELSE r

\* Mutant: the new window begins with what the old one held.
roll_window_keeps_spent(r) == IF now - r.reset >= Day THEN [r EXCEPT !.reset = now] ELSE r

roll_window(r) ==
    IF now - r.reset >= Day THEN [r EXCEPT !.reset = now, !.spent = 0] ELSE r

\* Counts `amount` in the window and in the volume, or refuses it; the legacy
\* entries go away with the first packed record.
accrue_user_record(b, a, amount) ==
    LET r == roll_window(load_user_record(b, a))
    IN IF r.spent + amount > DailyMax
       THEN [b EXCEPT !.ok = FALSE]
       ELSE [b EXCEPT
               !.record[a] = [r EXCEPT !.spent = @ + amount, !.volume = @ + amount],
               !.legacy[a] = IF b.record[a] = NoRecord THEN NoRecord ELSE @,
               !.spentAt[a][now] = @ + amount,
               !.lifetime[a] = @ + amount]

rate_limit_used(b, a) == IF b.rate[a].window = now THEN b.rate[a].count ELSE 0

\* The limiter is off, or off for this sender.
is_unlimited(a) == rateLimit = 0 \/ a \in exempt

\* Mutant: one payment more than the cap.
check_rate_limit_late(b, a) ==
    LET used == rate_limit_used(b, a)
    IN CASE is_unlimited(a) -> b
         [] ~is_unlimited(a) /\ used > rateLimit -> [b EXCEPT !.ok = FALSE]
         [] OTHER -> [b EXCEPT !.rate[a] = [window |-> now, count |-> used + 1],
                               !.charged[a] = @ + 1]

\* Takes one of the sender's slots in this ledger, or refuses.
check_rate_limit(b, a) ==
    LET used == rate_limit_used(b, a)
    IN CASE is_unlimited(a) -> b
         [] ~is_unlimited(a) /\ used >= rateLimit -> [b EXCEPT !.ok = FALSE]
         [] OTHER -> [b EXCEPT !.rate[a] = [window |-> now, count |-> used + 1],
                               !.charged[a] = @ + 1]

\* One rate-limited payment after those that led to `b`.
charge_and_accrue(b, a, amount) ==
    accrue_user_record(check_rate_limit(b, a), a, amount)
charge_entry(b, e) == charge_and_accrue(b, e[1], e[2])

\* One payment that the limiter does not see.
accrue_entry(b, e) == accrue_user_record(b, e[1], e[2])

\* The books after the call.
Commit(b) ==
    /\ b.ok
    /\ record' = b.record
    /\ legacy' = b.legacy
    /\ rateCounter' = b.rate
    /\ spentAt' = b.spentAt
    /\ lifetime' = b.lifetime
    /\ charged' = b.charged

-----------------------------------------------------------------------------
(* Actions.                                                                *)

LimitsInit ==
    /\ now = Start
    /\ record = [a \in Addr |-> NoRecord]
    /\ legacy \in [Addr -> LegacyRecords \cup {NoRecord}]
    /\ rateCounter = [a \in Addr |-> [window |-> 0, count |-> 0]]
    /\ rateLimit = DefaultRateLimit
    /\ exempt = {}
    /\ spentAt = [a \in Addr |-> [t \in 0..MaxTime |->
                    IF legacy[a] # NoRecord /\ legacy[a].reset = t
                    THEN legacy[a].spent ELSE 0]]
    /\ lifetime = [a \in Addr |->
                    IF legacy[a] # NoRecord THEN legacy[a].volume ELSE 0]
    /\ charged = [a \in Addr |-> 0]

\* route_payment, route_payments, route_payment_with_quote and the multi-hop
\* swap, as far as the senders' books go: every payment takes a slot, or the
\* call fails as a whole.
route_charged(es) ==
    /\ Commit(FoldLeft(charge_entry, Books, es))
    /\ UNCHANGED <<now, rateLimit, exempt>>

\* route_payment_meta, the single-hop swaps and batches of them, the split and
\* the raw swap: counted in the window, not by the limiter.
route_uncharged(es) ==
    /\ Commit(FoldLeft(accrue_entry, Books, es))
    /\ UNCHANGED <<now, rateLimit, exempt>>

\* Mutant: the window is added to the volume it is already part of.
packed_from_legacy_twice(r) ==
    [reset |-> IF r.reset = NoTime THEN now ELSE r.reset,
     spent |-> r.spent, volume |-> r.volume + r.spent]

packed_from_legacy(r) ==
    [r EXCEPT !.reset = IF @ = NoTime THEN now ELSE @]

\* Anyone may fold a sender's legacy entries into the packed record; a record
\* that a payment made in the meantime wins.  Without entries it does nothing.
migrate_user_record(a) ==
    /\ legacy[a] # NoRecord
    /\ record' = IF record[a] # NoRecord THEN record
                 ELSE [record EXCEPT ![a] = packed_from_legacy(legacy[a])]
    /\ legacy' = [legacy EXCEPT ![a] = NoRecord]
    /\ UNCHANGED <<now, rateCounter, rateLimit, exempt, spentAt, lifetime, charged>>

\* Mutant: the deleted window takes the volume along.
without_spending_or_volume(l) == NoRecord

\* A legacy entry without DataKey::UserSpending, and without UserVolume.
without_spending(l) ==
    IF l = NoRecord \/ l.volume = 0 THEN NoRecord
    ELSE [l EXCEPT !.reset = NoTime, !.spent = 0]
without_volume(l) ==
    IF l = NoRecord \/ l.reset = NoTime THEN NoRecord ELSE [l EXCEPT !.volume = 0]

\* prune_archived_entries, as far as the legacy entries go: those of the
\* senders in `spendings` and in `volumes` are deleted, in force or not; entries
\* that are absent are skipped.
prune_legacy(spendings, volumes) ==
    LET spending(a) == a \in spendings /\ legacy[a] # NoRecord
        volume(a) == a \in volumes /\ legacy[a] # NoRecord
        kept(a) == IF a \in spendings THEN without_spending(legacy[a]) ELSE legacy[a]
    IN /\ legacy' = [a \in Addr |->
                       IF a \in volumes THEN without_volume(kept(a)) ELSE kept(a)]
       /\ spentAt' = [a \in Addr |-> [t \in 0..MaxTime |->
                        IF spending(a) /\ legacy[a].reset = t
                        THEN spentAt[a][t] - legacy[a].spent ELSE spentAt[a][t]]]
       /\ lifetime' = [a \in Addr |->
                         IF volume(a) THEN lifetime[a] - legacy[a].volume ELSE lifetime[a]]
       /\ UNCHANGED <<now, record, rateCounter, rateLimit, exempt, charged>>

set_rate_limit(n) ==
    /\ n <= MaxRateLimit
    /\ rateLimit' = n
    /\ UNCHANGED <<now, exempt, bookVars>>

set_rate_limit_whitelist(a) ==
    /\ exempt' = exempt \cup {a}
    /\ UNCHANGED <<now, rateLimit, bookVars>>

remove_rate_limit_whitelist(a) ==
    /\ exempt' = exempt \ {a}
    /\ UNCHANGED <<now, rateLimit, bookVars>>

NextLedger ==
    /\ now < MaxTime
    /\ now' = now + 1
    /\ charged' = [a \in Addr |-> 0]
    /\ UNCHANGED <<record, legacy, rateCounter, rateLimit, exempt, spentAt, lifetime>>

BatchesOf(payments) == UNION {[1..n -> payments] : n \in 0..MaxBatch}

LimitsNext ==
    \/ \E es \in BatchesOf(Entries) : route_charged(es)
    \/ \E es \in BatchesOf(UnchargedEntries) : route_uncharged(es)
    \/ \E a \in Addr : migrate_user_record(a)
    \/ \E spendings, volumes \in SUBSET {a \in Addr : legacy[a] # NoRecord} :
          prune_legacy(spendings, volumes)
    \/ \E n \in RateLimits : set_rate_limit(n)
    \/ \E a \in Addr : set_rate_limit_whitelist(a)
    \/ \E a \in Addr : remove_rate_limit_whitelist(a)
    \/ NextLedger

LimitsSpec == LimitsInit /\ [][LimitsNext]_limitsVars

-----------------------------------------------------------------------------
(* Properties.                                                             *)

\* Records, counters and windows hold values of their Rust types, and a record
\* of an earlier version opened before this one was installed.
LimitsTypeOK ==
    /\ now \in 0..MaxTime
    /\ record \in [Addr -> Record \cup {NoRecord}]
    /\ legacy \in [Addr -> LegacyRecord \cup {NoRecord}]
    /\ rateCounter \in [Addr -> [window : 0..MaxTime, count : Nat]]
    /\ rateLimit \in Nat
    /\ exempt \subseteq Addr
    /\ spentAt \in [Addr -> [0..MaxTime -> Nat]]
    /\ lifetime \in [Addr -> Nat]
    /\ charged \in [Addr -> Nat]

\* What `a` routed at the times of `span`.
Routed(a, span) == SumFunctionOnSet(spentAt[a], span \cap (0..MaxTime))

\* The window says what was really routed since it opened, across resets,
\* batches, the move from the legacy entries and their deletion
\* (accrue_user_record, prune_archived_entries).
WindowIsExact ==
    \A a \in Addr :
        LET r == load_user_record(Books, a)
        IN r.spent = Routed(a, r.reset..now)

\* In no 24 hours, wherever they begin, does a sender route more than twice
\* DAILY_MAX_LIMIT: two windows may meet in them, never three.
DailySpanBound ==
    \A a \in Addr, t \in 0..MaxTime : Routed(a, t..(t + Day - 1)) <= 2 * DailyMax

\* The volume that decides the fee discount is all the sender ever routed,
\* whichever of packed record, legacy entries and migration came first
\* ("never invents or destroys value", lib.rs:1690); the deletion of a window
\* does not touch it.
VolumeIsLifetime ==
    \A a \in Addr : load_user_record(Books, a).volume = lifetime[a]

\* The record of a sender is exact in both of its halves, of which the code
\* keeps one through resets and the other through migration and deletion
\* (storage.rs:423-490).
SpendingIsExact == WindowIsExact /\ VolumeIsLifetime

\* A payment that takes a slot never takes one beyond the cap in force,
\* whatever the cap was before, and a batch counts once per payment.
RateCapHolds ==
    [][ \A a \in Addr : charged'[a] > charged[a] => charged'[a] <= rateLimit ]_limitsVars
=============================================================================
