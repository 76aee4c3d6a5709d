--------------------------- MODULE RouterPayments ---------------------------
(***************************************************************************)
(* The money of the payment router: routed payments and batches, maker     *)
(* quotes, relayed (meta) payments, the refund ledger and the ways out of  *)
(* the contract's own account (lib.rs:460-669 and 2653-3969).              *)
(*                                                                         *)
(* The access layer is RouterAccess; the senders' windows and slots are    *)
(* RouterLimits, whose operators every route below goes through.  Token    *)
(* contracts are external: a transfer moves a balance, and `delivered`     *)
(* says whether a recipient accepts it (try_transfer may fail for want of  *)
(* a trustline).  The fee configuration and the limits on amounts are      *)
(* constants here: RouterTimelock models how they change.  Role changes    *)
(* are RouterAccess's; this module keeps the freeze and pause switches,    *)
(* which every route reads.                                                *)
(***************************************************************************)
EXTENDS RouterAccess, SequencesExt

CONSTANTS
    Router,         \* env.current_contract_address()
    Deployer,       \* the admin that initialize() installed
    Treasury,       \* DataKey::PlatformTreasury
    Token,          \* token contracts
    Funds,          \* what each address owns of each token at first
    PaymentArgs,    \* arguments of route_payment, with the recipient's answer
    BatchArgs,      \* arguments of route_payments
    Quotes,         \* maker-signed quotes with their sender and recipient
    Relays,         \* signed relayed payments
    Approvals,      \* allowances given to the router: <<address, token, amount>>
    Suspects,       \* addresses that may be blacklisted
    Partners,       \* addresses that may be exempted from the rate limit
    Withdrawals,    \* amounts of withdraw_refund and of the recovery calls
    MaxAmount,      \* DataKey::MaxAmount
    MinLimit,       \* DataKey::MinLimit
    KycThreshold,   \* DataKey::KycThreshold
    Verified,       \* the senders the KYC oracle vouches for
    FeeBps,         \* DataKey::FeeBps
    FeeCap,         \* DataKey::FeeCap
    BpsDivisor,     \* BPS_DIVISOR
    VolumeThreshold, \* VOLUME_THRESHOLD
    LimitEntries,   \* the payments that take a slot, as RouterLimits sees them
    UnchargedEntries, \* those that the rate limiter does not see
    MaxBatch,       \* bound on the payments of one call
    NoRecord, LegacyRecords, Day, DailyMax, RateLimits, DefaultRateLimit,
    MaxRateLimit    \* of RouterLimits

Account == Addr \cup {Router}

\* A payment that a route may accept is among the entries of its kind.
IsCharged(a, n) == n > 0 => <<a, n>> \in LimitEntries
IsUncharged(a, n) == n > 0 => <<a, n>> \in UnchargedEntries

\* types::Payment, and whether its recipient accepts the transfer.
Payment == [sender : Addr, recipient : Account, token : Token, amount : Nat,
            delivered : BOOLEAN]

ASSUME PaymentsAssumption ==
    /\ Router \notin Addr \cup {NoAddr}
    /\ IsFiniteSet(Addr)
    /\ Deployer \in Addr
    /\ Treasury \in Account
    /\ "TreasuryManager" \in Role /\ "ComplianceOfficer" \in Role
    /\ PaymentArgs \subseteq Payment
    /\ BatchArgs \subseteq Seq(Payment)
    /\ Relays \subseteq [payment : Payment, nonce : Nat, deadline : Nat]
    /\ Approvals \subseteq Addr \X Token \X Nat
    /\ \A q \in Quotes :
          /\ {q.sender, q.maker} \subseteq Addr /\ q.recipient \in Account
          /\ {q.token_in, q.token_out} \subseteq Token
          /\ {q.amount_in, q.amount_out} \subseteq Nat
    /\ Withdrawals \subseteq Nat
    /\ Verified \cup Suspects \cup Partners \subseteq Addr
    /\ {Funds, MaxAmount, MinLimit, KycThreshold, FeeBps, FeeCap,
        VolumeThreshold} \subseteq Nat
    /\ BpsDivisor \in Nat \ {0}

\* What the senders' books ask of their parameters and of the arguments.
ASSUME EntriesAssumption ==
    /\ NoRecord \notin [reset : Nat \cup {NoTime}, spent : Nat, volume : Nat]
    /\ {Day, DailyMax, DefaultRateLimit} \subseteq Nat \ {0}
    /\ MaxRateLimit \in Nat /\ RateLimits \subseteq Nat
    /\ LegacyRecords \subseteq [reset : {0, NoTime}, spent : 0..DailyMax, volume : Nat]
    /\ \A r \in LegacyRecords : r.reset = NoTime => r.spent = 0 /\ r.volume > 0
    /\ LimitEntries \cup UnchargedEntries \subseteq Addr \X (Nat \ {0})
    /\ MaxBatch \in Nat \ {0}
    /\ \A p \in PaymentArgs : IsCharged(p.sender, p.amount)
    /\ \A m \in Relays : IsUncharged(m.payment.sender, m.payment.amount)
    /\ \A ps \in BatchArgs :
          /\ Len(ps) <= MaxBatch
          /\ \A i \in DOMAIN ps : IsCharged(ps[i].sender, ps[i].amount)
    /\ \A q \in Quotes : IsCharged(q.sender, q.amount_in)

VARIABLES
    balance,        \* external: what each account owns of each token
    allowance,      \* external: what the router may move of an address
    refund,         \* DataKey::RefundBalance(user, token)
    metaNonce,      \* DataKey::MetaNonce(user)
    usedQuotes,     \* DataKey::UsedQuote(maker, id)
    blacklist,      \* the addresses with DataKey::Blacklist
    taken,          \* history: what left the router that it did not owe, per
                    \* token: to the TreasuryManager, by a raw swap
    consent,        \* history: every signature the last call required
    settled,        \* history: how often a quote was settled
    relayed,        \* history: how often a relayed payment was executed
    record, legacy, rateCounter, rateLimit, exempt, spentAt, lifetime, charged
                    \* of RouterLimits

Limits == INSTANCE RouterLimits WITH Start <- 0, Entries <- LimitEntries

moneyVars == <<balance, allowance, refund, taken>>
messageVars == <<metaNonce, usedQuotes, settled, relayed>>
senderVars == <<record, legacy, rateCounter, rateLimit, exempt, spentAt,
                lifetime, charged>>
paymentVars == <<accessVars, moneyVars, messageVars, senderVars, blacklist, consent>>

-----------------------------------------------------------------------------
(* Helpers.                                                                *)

transfer(bal, t, from, to, n) ==
    LET debited == [bal EXCEPT ![t][from] = @ - n]
    IN [debited EXCEPT ![t][to] = @ + n]

\* The platform's part of `amount` for a sender that has routed `volume`.
calculate_fee(amount, volume) ==
    LET bps == IF volume > VolumeThreshold THEN FeeBps \div 2 ELSE FeeBps
    IN Min({(amount * bps) \div BpsDivisor, FeeCap, amount})

verify_kyc_for_amount(a, amount) == amount <= KycThreshold \/ a \in Verified

\* What a route checks of a payment before it asks for signatures.
admissible(p) ==
    /\ p.sender # p.recipient
    /\ p.recipient \notin blacklist
    /\ p.amount > 0 /\ p.amount <= MaxAmount
    /\ p.amount >= MinLimit
    /\ verify_kyc_for_amount(p.sender, p.amount)

\* The state a call works on, payment by payment.
Ledger == [ok |-> TRUE, record |-> record, legacy |-> legacy,
           rate |-> rateCounter, spentAt |-> spentAt, lifetime |-> lifetime,
           charged |-> charged, balance |-> balance, refund |-> refund]

CommitLedger(b) ==
    /\ Limits!Commit(b)
    /\ balance' = b.balance
    /\ refund' = b.refund

\* Mutant: the fee is credited back as well.
credit_refund_of_all(ref, p, rest) ==
    [ref EXCEPT ![p.token][p.sender] = @ + p.amount]

\* The refund ledger after the router kept `rest` of an undelivered payment.
credit_refund_balance(ref, p, rest) ==
    [ref EXCEPT ![p.token][p.sender] = @ + rest]

\* The fee goes to the treasury and the rest to the recipient, or to the
\* router when the recipient cannot take it.
process_single_payment(b, p) ==
    LET fee == calculate_fee(p.amount, Limits!load_user_record(b, p.sender).volume)
        rest == p.amount - fee
        to == IF p.delivered THEN p.recipient ELSE Router
        paid == transfer(b.balance, p.token, p.sender, Treasury, fee)
        c == Limits!accrue_user_record(b, p.sender, p.amount)
    IN IF b.balance[p.token][p.sender] < p.amount
       THEN [c EXCEPT !.ok = FALSE]
       ELSE [c EXCEPT
               !.balance = transfer(paid, p.token, p.sender, to, rest),
               !.refund = IF p.delivered \/ rest = 0 THEN @
                          ELSE credit_refund_balance(@, p, rest)]

-----------------------------------------------------------------------------
(* The routes.                                                             *)

\* Mutant: only the first sender of a batch is asked.
batch_first_sender(ps) == {ps[i].sender : i \in DOMAIN ps \cap {1}}

\* Each distinct sender of a batch is asked once.
batch_senders(ps) == {ps[i].sender : i \in DOMAIN ps}

\* Mutant: the payments of a batch take no slots.
settle_uncharged(b, p) == process_single_payment(b, p)

\* One payment of a batch: a slot, the window, the transfers.
settle(b, p) == process_single_payment(Limits!check_rate_limit(b, p.sender), p)

route_payments(ps) ==
    LET last == IF ps = <<>> THEN NoAddr ELSE ps[Len(ps)].sender
    IN /\ payment_heartbeat(last)
       /\ \A i \in DOMAIN ps : admissible(ps[i])
       /\ CommitLedger(FoldLeft(settle, Ledger, ps))
       /\ consent' = batch_senders(ps)
       /\ UNCHANGED <<rateLimit, exempt, allowance, taken, messageVars, blacklist>>

\* The same steps for one payment.
route_payment(p) == route_payments(<<p>>)

\* Mutant: the settled quote is not remembered.
remember_quote_not(q) == usedQuotes

remember_quote(q) == usedQuotes \cup {<<q.maker, q.quote_id>>}

\* The sender pays the maker, who pays the recipient; no fee.
route_payment_with_quote(q) ==
    /\ payment_heartbeat(q.sender)
    /\ q.sender # q.recipient
    /\ q.recipient \notin blacklist
    /\ q.token_in # q.token_out /\ q.amount_in > 0 /\ q.amount_out > 0
    /\ now <= q.expires_at
    /\ <<q.maker, q.quote_id>> \notin usedQuotes
    /\ q.amount_in <= MaxAmount /\ q.amount_in >= MinLimit
    /\ verify_kyc_for_amount(q.sender, q.amount_in)
    /\ balance[q.token_in][q.sender] >= q.amount_in
    /\ balance[q.token_out][q.maker] >= q.amount_out
    /\ Limits!Commit(Limits!charge_and_accrue(Ledger, q.sender, q.amount_in))
    /\ usedQuotes' = remember_quote(q)
    /\ balance' = transfer(
                    transfer(balance, q.token_in, q.sender, q.maker, q.amount_in),
                    q.token_out, q.maker, q.recipient, q.amount_out)
    /\ consent' = {q.sender, q.maker}
    /\ settled' = [settled EXCEPT ![q] = @ + 1]
    /\ UNCHANGED <<rateLimit, exempt, allowance, refund, taken, metaNonce,
                   relayed, blacklist>>

\* Mutant: a relay is not stopped by the pause.
meta_open_unpaused == admin # NoAddr /\ ~frozen

\* What route_payment_meta asks of the contract.
meta_open == admin # NoAddr /\ ~frozen /\ ~is_paused

\* A relayer executes a signed payment out of the sender's allowance.  The
\* signature verifies under a key that comes with it, which nothing ties to
\* the sender: `consent` stays empty.  Relayed payments prove nothing about
\* the platform: no heartbeat, and no slot is taken.
route_payment_meta(m) ==
    LET p == m.payment
    IN /\ meta_open
       /\ other_call(NoAddr)
       /\ now <= m.deadline
       /\ m.nonce = metaNonce[p.sender]
       /\ metaNonce' = [metaNonce EXCEPT ![p.sender] = m.nonce + 1]
       /\ admissible(p)
       /\ allowance[p.token][p.sender] >= p.amount
       /\ allowance' = [allowance EXCEPT ![p.token][p.sender] = @ - p.amount]
       /\ CommitLedger(process_single_payment(Ledger, p))
       /\ consent' = {}
       /\ relayed' = [relayed EXCEPT ![m] = @ + 1]
       /\ UNCHANGED <<rateLimit, exempt, taken, usedQuotes, settled, blacklist>>

-----------------------------------------------------------------------------
(* The refund ledger and the router's own account.                         *)

refund_available(a, t, n) == n > 0 /\ n <= refund[t][a]

\* Mutant: refunds wait for the end of a freeze.
withdraw_unfrozen(a, t, n) ==
    /\ ~frozen
    /\ other_call(a)
    /\ refund_available(a, t, n)
    /\ n <= balance[t][Router]
    /\ refund' = [refund EXCEPT ![t][a] = @ - n]
    /\ balance' = transfer(balance, t, Router, a, n)
    /\ consent' = {a}
    /\ UNCHANGED <<allowance, taken, messageVars, senderVars, blacklist>>

\* Open at any time, whatever is frozen or paused.
withdraw_refund(a, t, n) ==
    /\ other_call(a)
    /\ refund_available(a, t, n)
    /\ n <= balance[t][Router]
    /\ refund' = [refund EXCEPT ![t][a] = @ - n]
    /\ balance' = transfer(balance, t, Router, a, n)
    /\ consent' = {a}
    /\ UNCHANGED <<allowance, taken, messageVars, senderVars, blacklist>>

claim_all_refunds(a, t) == withdraw_refund(a, t, refund[t][a])

\* The TreasuryManager moves `n` out of the router's account.
TakeOut(t, n) ==
    LET manager == require_role("TreasuryManager")
    IN /\ manager # NoAddr
       /\ other_call(manager)
       /\ n <= balance[t][Router]
       /\ balance' = transfer(balance, t, Router, manager, n)
       /\ taken' = [taken EXCEPT ![t] = @ + n]
       /\ consent' = {manager}
       /\ UNCHANGED <<allowance, refund, messageVars, senderVars, blacklist>>

recover_tokens(t, n) == require_circuit_closed /\ TakeOut(t, n)

emergency_withdraw(t, n) == n > 0 /\ TakeOut(t, n)

\* External: an address lets the router move up to `n` of its tokens.
approve(a, t, n) ==
    /\ other_call(a)
    /\ allowance' = [allowance EXCEPT ![t][a] = n]
    /\ consent' = {a}
    /\ UNCHANGED <<balance, refund, taken, messageVars, senderVars, blacklist>>

-----------------------------------------------------------------------------
(* Administration of the routes.                                           *)

ByOfficer(r) ==
    /\ require_role(r) # NoAddr
    /\ other_call(require_role(r))
    /\ consent' = {require_role(r)}

blacklist_address(a) ==
    /\ ByOfficer("ComplianceOfficer")
    /\ blacklist' = blacklist \cup {a}
    /\ UNCHANGED <<moneyVars, messageVars, senderVars>>

unblacklist_address(a) ==
    /\ ByOfficer("ComplianceOfficer")
    /\ blacklist' = blacklist \ {a}
    /\ UNCHANGED <<moneyVars, messageVars, senderVars>>

\* An operation of RouterLimits signed by `a`, NoAddr for none.
LimitsCall(op, a) ==
    /\ op
    /\ other_call(a)
    /\ consent' = IF a = NoAddr THEN {} ELSE {a}
    /\ UNCHANGED <<moneyVars, messageVars, blacklist>>

LimitsStep ==
    \/ \E a \in Addr : LimitsCall(Limits!migrate_user_record(a), NoAddr)
    \/ admin # NoAddr /\ \E n \in RateLimits : LimitsCall(Limits!set_rate_limit(n), admin)
    \/ admin # NoAddr /\ \E a \in Partners : LimitsCall(Limits!set_rate_limit_whitelist(a), admin)
    \/ admin # NoAddr /\ \E a \in Partners : LimitsCall(Limits!remove_rate_limit_whitelist(a), admin)

-----------------------------------------------------------------------------

\* This version takes over a contract that `Deployer` has initialized.
PaymentsInit ==
    /\ admin = Deployer
    /\ role = [r \in Role |-> IF r \in InitialRoles THEN Deployer ELSE NoAddr]
    /\ userRole = {<<Deployer, r>> : r \in InitialRoles}
    /\ pauseLevel = "None" /\ frozen = FALSE
    /\ backup = NoAddr /\ dmsTimeout = NoTime /\ lastHeartbeat = NoTime
    /\ hbOperator = NoAddr /\ signer = NoAddr /\ lastAlive = 0
    /\ Limits!LimitsInit
    /\ balance = [t \in Token |-> [a \in Account |-> IF a = Router THEN 0 ELSE Funds]]
    /\ allowance = [t \in Token |-> [a \in Addr |-> 0]]
    /\ refund = [t \in Token |-> [a \in Addr |-> 0]]
    /\ metaNonce = [a \in Addr |-> 0]
    /\ usedQuotes = {}
    /\ blacklist = {}
    /\ taken = [t \in Token |-> 0]
    /\ consent = {}
    /\ settled = [q \in Quotes |-> 0]
    /\ relayed = [m \in Relays |-> 0]

RouteStep(payments, batches, quotes, relays) ==
    \/ \E p \in payments : route_payment(p)
    \/ \E ps \in batches : route_payments(ps)
    \/ \E q \in quotes : route_payment_with_quote(q)
    \/ \E m \in relays : route_payment_meta(m)

CustodyStep ==
    \/ \E a \in Addr, t \in Token, n \in Withdrawals : withdraw_refund(a, t, n)
    \/ \E a \in Addr, t \in Token : claim_all_refunds(a, t)
    \/ \E t \in Token, n \in Withdrawals : recover_tokens(t, n)
    \/ \E t \in Token, n \in Withdrawals : emergency_withdraw(t, n)
    \/ \E g \in Approvals : approve(g[1], g[2], g[3])

OfficeStep ==
    \/ \E a \in Suspects : blacklist_address(a)
    \/ \E a \in Suspects : unblacklist_address(a)
    \/ SwitchStep /\ consent' = {signer'}
         /\ UNCHANGED <<moneyVars, messageVars, senderVars, blacklist>>

LedgerCloses ==
    /\ Tick
    /\ Limits!NextLedger
    /\ consent' = {}
    /\ UNCHANGED <<moneyVars, messageVars, blacklist>>

PaymentsNext ==
    \/ RouteStep(PaymentArgs, BatchArgs, Quotes, Relays)
    \/ CustodyStep
    \/ OfficeStep
    \/ LimitsStep
    \/ LedgerCloses

PaymentsSpec == PaymentsInit /\ [][PaymentsNext]_paymentVars

-----------------------------------------------------------------------------
(* Properties.                                                             *)

\* No balance, allowance or refund is ever negative: no route relies on more
\* than a sender has or has allowed (the i128 amounts of lib.rs:497-545).
PaymentsTypeOK ==
    /\ balance \in [Token -> [Account -> Nat]]
    /\ allowance \in [Token -> [Addr -> Nat]]
    /\ refund \in [Token -> [Addr -> Nat]]
    /\ metaNonce \in [Addr -> Nat]
    /\ taken \in [Token -> Nat]
    /\ blacklist \subseteq Addr
    /\ consent \subseteq Addr

Owed(t) == SumFunctionOnSet(refund[t], Addr)

\* The refund ledger is covered by tokens: what the router owes its users is
\* in its account, except for what the TreasuryManager has taken out and what
\* raw swaps paid back as unused input that never came in.
RefundsCovered == \A t \in Token : Owed(t) <= balance[t][Router] + taken[t]

\* Refunds can be withdrawn "at any time" (README.md:738): while nothing of the
\* token has been taken out, neither by the TreasuryManager nor by a raw swap,
\* a credited user can claim all of it, frozen or not.
RefundClaimable ==
    \A t \in Token, a \in Addr :
        (refund[t][a] > 0 /\ taken[t] = 0) => ENABLED claim_all_refunds(a, t)

\* A signed message moves money once: a quote id of a maker is settled at most
\* once, whatever quotes carry it, and so is a nonce of a relayed sender; what
\* has run is on record, so that it cannot run again.
MessagesRunOnce ==
    /\ \A q, k \in Quotes :
          /\ settled[q] <= 1
          /\ settled[q] > 0 => <<q.maker, q.quote_id>> \in usedQuotes
          /\ (/\ settled[q] > 0 /\ settled[k] > 0
              /\ q.maker = k.maker /\ q.quote_id = k.quote_id) => q = k
    /\ \A m, k \in Relays :
          /\ relayed[m] <= 1
          /\ relayed[m] > 0 => m.nonce < metaNonce[m.payment.sender]
          /\ (/\ relayed[m] > 0 /\ relayed[k] > 0
              /\ m.payment.sender = k.payment.sender /\ m.nonce = k.nonce) => m = k

\* An address loses tokens only in a call it signed, or out of an allowance
\* it gave the router, which shrinks by as much.
NoDebitWithoutConsent ==
    [][ \A t \in Token, a \in Addr :
          balance'[t][a] < balance[t][a] =>
             \/ a \in consent'
             \/ balance[t][a] - balance'[t][a] <= allowance[t][a] - allowance'[t][a]
      ]_paymentVars

\* Every route, quote, relay and swap, alone or in a batch, obeys the senders'
\* windows and slots, and nothing else touches them but migration and pruning:
\* seen through the entries of RouterLimits, the router behaves as specified
\* there (the calls of accrue_user_record and check_rate_limit in lib.rs and
\* swaps.rs, archival.rs).
PaymentsImplementLimits == Limits!LimitsSpec
=============================================================================
