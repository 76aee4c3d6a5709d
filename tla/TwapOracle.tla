----------------------------- MODULE TwapOracle -----------------------------
(***************************************************************************)
(* The time-weighted average price oracle (twap_oracle/src/lib.rs).  An    *)
(* admin appends price observations per pair; the contract keeps the last  *)
(* ones with a cumulative price that wraps, answers averages over a window *)
(* and stops for every pair when one update jumps too far.                 *)
(*                                                                         *)
(* The cumulative logarithms that observe also stores are read by nothing  *)
(* but observe itself and are left out.                                    *)
(***************************************************************************)
EXTENDS Ledger, Sequences, FiniteSetsExt, Functions

CONSTANTS
    Pair,           \* token pairs
    OracleArgs,     \* arguments of observe: <<pair, price, timestamp>>
    DevCaps,        \* arguments of set_max_single_update_dev_bps
    DefaultDevCap,  \* DEFAULT_MAX_SINGLE_UPDATE_DEVIATION_BPS
    OracleBps,      \* BPS_DIVISOR
    StaleTimes,     \* arguments of set_max_staleness
    DefaultStale,   \* DEFAULT_MAX_STALENESS_SECONDS
    MinInterval,    \* MIN_INTERVAL_SECONDS
    MaxWindow,      \* MAX_WINDOW_SECONDS
    MaxObservations, \* MAX_OBSERVATIONS
    MaxPrice,       \* MAX_PRICE
    Word            \* 2^256, where the cumulative price wraps

\* An average fits: what accumulates over a window is less than one wrap.
ASSUME OracleAssumption ==
    /\ OracleArgs \subseteq Pair \X Int \X Nat
    /\ DevCaps \cup StaleTimes \subseteq Nat
    /\ {DefaultDevCap, DefaultStale} \subseteq Nat
    /\ {OracleBps, MinInterval, MaxWindow, MaxObservations, MaxPrice, Word}
          \subseteq Nat \ {0}
    /\ MaxPrice * MaxWindow < Word

VARIABLES
    oracleAdmin,    \* DataKey::Admin
    observations,   \* DataKey::Pair(base, quote), oldest first
    breaker,        \* DataKey::CircuitBreakerTripped
    devCap,         \* DataKey::MaxSingleUpdateDeviationBps
    staleness,      \* DataKey::Staleness(base, quote)
    recorded        \* history: every observation that was accepted

oracleVars == <<oracleAdmin, observations, breaker, devCap, staleness, recorded>>

-----------------------------------------------------------------------------

LastOf(s) == s[Len(s)]

deviation_bps(old, new) ==
    ((IF new >= old THEN new - old ELSE old - new) * OracleBps) \div old

\* Mutant: the segment that ends is weighted with the price that starts.
accumulate_new_price(previous, price, timestamp) ==
    (previous.cumulative_price + price * (timestamp - previous.timestamp)) % Word

\* The price in force since the previous observation, times its duration.
accumulate(previous, price, timestamp) ==
    (previous.cumulative_price + previous.price * (timestamp - previous.timestamp)) % Word

\* The most recent observations.
prune(s) == IF Len(s) > MaxObservations THEN Tail(s) ELSE s

\* An update that trips the breaker is not recorded.
keeps_tripping_update == FALSE

oracle_initialize(a) ==
    /\ oracleAdmin = NoParty
    /\ oracleAdmin' = a
    /\ UNCHANGED <<observations, breaker, devCap, staleness, recorded, clock>>

\* By the admin.  The call also succeeds when it trips the breaker.
observe(pair, price, timestamp) ==
    LET s == observations[pair]
        first == s = <<>>
        trips == ~first /\ deviation_bps(LastOf(s).price, price) > devCap
        o == [timestamp |-> timestamp, price |-> price,
              cumulative_price |-> IF first THEN 0
                                   ELSE accumulate(LastOf(s), price, timestamp)]
        kept == ~trips \/ keeps_tripping_update
    IN /\ oracleAdmin # NoParty
       /\ ~breaker
       /\ price > 0 /\ price <= MaxPrice
       /\ timestamp <= clock
       /\ ~first => timestamp >= LastOf(s).timestamp + MinInterval
       /\ breaker' = trips
       /\ observations' = IF kept THEN [observations EXCEPT ![pair] = prune(Append(s, o))]
                          ELSE observations
       /\ recorded' = IF kept THEN [recorded EXCEPT ![pair] = Append(@, o)] ELSE recorded
       /\ UNCHANGED <<oracleAdmin, devCap, staleness, clock>>

trip_circuit_breaker ==
    /\ oracleAdmin # NoParty
    /\ breaker' = TRUE
    /\ UNCHANGED <<oracleAdmin, observations, devCap, staleness, recorded, clock>>

reset_circuit_breaker ==
    /\ oracleAdmin # NoParty
    /\ breaker' = FALSE
    /\ UNCHANGED <<oracleAdmin, observations, devCap, staleness, recorded, clock>>

set_max_single_update_dev_bps(n) ==
    /\ oracleAdmin # NoParty
    /\ n <= OracleBps
    /\ devCap' = n
    /\ UNCHANGED <<oracleAdmin, observations, breaker, staleness, recorded, clock>>

set_max_staleness(pair, n) ==
    /\ oracleAdmin # NoParty
    /\ staleness' = [staleness EXCEPT ![pair] = n]
    /\ UNCHANGED <<oracleAdmin, observations, breaker, devCap, recorded, clock>>

\* Mutant: the window starts at the next observation.
base_index_late(s, target) == Min({i \in DOMAIN s : s[i].timestamp >= target})

\* The last observation at or before the start of the window.
base_index(s, target) == Max({i \in DOMAIN s : s[i].timestamp <= target})

\* The window ends at the latest observation and must start within what is
\* retained.
twap_answers(pair, window) ==
    LET s == observations[pair]
    IN /\ window > 0 /\ window <= MaxWindow
       /\ s # <<>>
       /\ LastOf(s).timestamp - window >= s[1].timestamp

twap(pair, window) ==
    LET s == observations[pair]
        target == LastOf(s).timestamp - window
        base == s[base_index(s, target)]
        at == (base.cumulative_price + base.price * (target - base.timestamp)) % Word
    IN ((LastOf(s).cumulative_price - at) % Word) \div window

\* Mutant: the age of the price is not looked at.
consult_answers_stale(pair, window) == ~breaker /\ twap_answers(pair, window)

\* What consult adds: the breaker and the age of the latest observation.
consult_answers(pair, window) ==
    /\ ~breaker
    /\ observations[pair] # <<>>
    /\ clock - LastOf(observations[pair]).timestamp <= staleness[pair]
    /\ twap_answers(pair, window)

-----------------------------------------------------------------------------

OracleInit ==
    /\ oracleAdmin = NoParty
    /\ observations = [p \in Pair |-> <<>>]
    /\ breaker = FALSE
    /\ devCap = DefaultDevCap
    /\ staleness = [p \in Pair |-> DefaultStale]
    /\ recorded = [p \in Pair |-> <<>>]

OracleNext ==
    \/ \E a \in Party : oracle_initialize(a)
    \/ \E o \in OracleArgs : observe(o[1], o[2], o[3])
    \/ trip_circuit_breaker
    \/ reset_circuit_breaker
    \/ \E n \in DevCaps : set_max_single_update_dev_bps(n)
    \/ \E p \in Pair, n \in StaleTimes : set_max_staleness(p, n)
    \/ TimePasses /\ UNCHANGED oracleVars

OracleSpec == OracleInit /\ clock \in Nat /\ [][OracleNext]_<<oracleVars, clock>>

-----------------------------------------------------------------------------
(* Properties.                                                             *)

\* The price in force at second t: that of the last update up to then.
PriceAt(pair, t) ==
    LET s == recorded[pair]
    IN s[Max({i \in DOMAIN s : s[i].timestamp <= t})].price

\* The reference: the mean over the seconds of the window of the price in
\* force in each, from everything that was ever recorded.
MeanPrice(pair, window) ==
    LET end == LastOf(recorded[pair]).timestamp
    IN SumFunction([t \in (end - window)..(end - 1) |-> PriceAt(pair, t)]) \div window

\* A consulted price is the average it claims to be, wherever the window
\* starts, after pruning and across wraps of the cumulative price, and it
\* reaches up to an update that is not too old (lib.rs:680-735, 808-835).
ConsultIsTheMean ==
    \A p \in Pair, w \in 1..MaxWindow :
        consult_answers(p, w) =>
            /\ twap(p, w) = MeanPrice(p, w)
            /\ clock - LastOf(recorded[p]).timestamp <= staleness[p]

=============================================================================
