---------------------------- MODULE YieldEscrow ----------------------------
(***************************************************************************)
(* The yield-bearing escrow (yield_escrow/src/lib.rs).  A payer locks      *)
(* principal for a beneficiary; the contract spreads it over the lending   *)
(* pools of its portfolio by weight, keeps a cumulative yield index per    *)
(* token, and on settlement takes the principal and the interest back from *)
(* the pools.  In an emergency the admin unwinds the pools into the vault  *)
(* and positions are paid out of it, first come, first served.             *)
(*                                                                         *)
(* Lending pools are external; they behave like the pool of test.rs:       *)
(* 110-210, which pays withdrawals out of principal first and out of       *)
(* accrued interest next, and may lose principal.                          *)
(***************************************************************************)
EXTENDS Ledger, SequencesExt

CONSTANTS
    Pool,           \* lending protocol adapters
    PoolRate,       \* external: yield_rate_bps of each pool
    Portfolios,     \* arguments of set_strategies: <<[address, weight], ...>>
    Weights,        \* weights of register_strategy
    MaxStrategies,  \* at most 4 in the code
    BPS,            \* BPS_DENOMINATOR
    IndexScale,     \* INDEX_SCALE
    YearScale,      \* SECONDS_PER_YEAR * BPS_DENOMINATOR
    EscrowIds,      \* escrow_id of create_escrow
    YieldCoins,     \* the tokens of the escrows
    Principals,     \* amounts of create_escrow
    InterestShares, \* beneficiary_interest_bps of create_escrow
    UnwindBounds,   \* min_recovered_amount of the emergency calls
    Payers,         \* the parties that fund escrows
    Beneficiaries,  \* the parties they fund them for
    YieldFunds,     \* what each payer owns of each token
    MaxAccrual,     \* bound on the interest the pools pay, per token
    MaxLoss         \* bound on what the pools lose, per token

ASSUME YieldAssumption ==
    /\ NoParty \notin Pool
    /\ PoolRate \in [Pool -> Nat]
    /\ Portfolios \subseteq Seq([address : Pool, weight : Nat])
    /\ Weights \cup Principals \cup InterestShares \cup UnwindBounds \subseteq Nat
    /\ {BPS, IndexScale, YearScale} \subseteq Nat \ {0}
    /\ {MaxStrategies, YieldFunds, MaxAccrual, MaxLoss} \subseteq Nat
    /\ YieldCoins \subseteq Coin
    /\ Payers \cup Beneficiaries \subseteq Party

VARIABLES
    yieldAdmin,     \* DataKey::Admin
    strategies,     \* DataKey::Strategies (DataKey::Adapter is the first)
    emergency,      \* DataKey::EmergencyVaultMode
    activeEscrows,  \* DataKey::ActiveEscrows
    yieldTokens,    \* DataKey::Tokens
    yieldState,     \* DataKey::YieldState(token)
    escrows,        \* DataKey::Escrow(id)
    vault,          \* external: the contract's own balance of each token
    payerFunds,     \* external: what is left of each payer's tokens
    pools,          \* external: principal and interest of the contract in each pool
    poolLoss,       \* history: what the pools lost of each token
    poolGain,       \* history: what they accrued
    unwound,        \* history: the tokens taken out of the pools
    payouts         \* history: the settlements of each escrow

yieldBooks == <<activeEscrows, yieldTokens, yieldState, escrows, payouts>>
poolVars == <<vault, pools>>
chanceVars == <<poolLoss, poolGain>>
yieldVars == <<yieldAdmin, strategies, emergency, yieldBooks, poolVars,
               chanceVars, payerFunds, unwound>>

NoEscrow == [status |-> "none"]

\* Mutant: a cancelled escrow can still be settled.
is_active_if_cancelled(id) == escrows[id].status \in {"active", "cancelled"}

is_active(id) == escrows[id].status = "active"

ActiveIn(c) == {id \in EscrowIds : escrows[id].status = "active" /\ escrows[id].token = c}

-----------------------------------------------------------------------------
(* Portfolios, pools and rates.                                            *)

SumOf(s) == FoldLeft(+, 0, s)

\* `n` split by `shares` of `whole`, the first parts taking the remainder.
portions(n, shares, whole) ==
    LET floor(i) == (n * shares[i]) \div whole
        rest == n - SumOf([i \in DOMAIN shares |-> floor(i)])
    IN [i \in DOMAIN shares |-> floor(i) + (IF i <= rest THEN 1 ELSE 0)]

weights_of(ss) == [i \in DOMAIN ss |-> ss[i].weight]

addresses_of(ss) == {ss[i].address : i \in DOMAIN ss}

Single(a) == <<[address |-> a, weight |-> BPS]>>

validate_strategies(ss) ==
    /\ ss # <<>> /\ Len(ss) <= MaxStrategies
    /\ \A i \in DOMAIN ss : ss[i].weight > 0
    /\ \A i, j \in DOMAIN ss : i # j => ss[i].address # ss[j].address
    /\ SumOf(weights_of(ss)) = BPS

\* Mutant: only the number of strategies is compared.
same_strategy_count(old, new) == Len(old) = Len(new)

\* Lists of one length, every old address among the new ones.
same_strategy_addresses(old, new) ==
    Len(old) = Len(new) /\ addresses_of(old) \subseteq addresses_of(new)

get_weighted_yield_rate ==
    SumOf([i \in DOMAIN strategies |-> PoolRate[strategies[i].address]
                                          * strategies[i].weight]) \div BPS

get_balance(ps, a) == ps[a].principal + ps[a].accrued

\* What a pool holds after `n` was withdrawn: principal first, then interest.
pool_withdraw(p, n) ==
    IF n <= p.principal THEN [p EXCEPT !.principal = @ - n]
    ELSE [principal |-> 0, accrued |-> p.accrued - (n - p.principal)]

\* The amounts a loop over the portfolio moves, each with its pool.
allot(amounts) ==
    [i \in DOMAIN strategies |-> [address |-> strategies[i].address,
                                  amount |-> amounts[i]]]

\* A withdrawal and a deposit of token c, on books with the contract's vault.
take(b, m) ==
    IF m.amount > get_balance(b.pools, m.address) THEN [b EXCEPT !.ok = FALSE]
    ELSE [b EXCEPT !.pools[m.address] = pool_withdraw(@, m.amount),
                   !.vault = @ + m.amount]

supply(b, m) ==
    [b EXCEPT !.pools[m.address].principal = @ + m.amount, !.vault = @ - m.amount]

\* All the interest of the pool is paid out, whoever earned it.
harvest(b, a) ==
    [b EXCEPT !.vault = @ + b.pools[a].accrued,
              !.harvested = @ + b.pools[a].accrued,
              !.pools[a].accrued = 0]

\* A part of a position, and everything a pool holds, with the interest.
redeem(b, m) == harvest(take(b, m), m.address)

unwind(b, s) ==
    redeem(b, [address |-> s.address, amount |-> get_balance(b.pools, s.address)])

\* The pools and the vault, for one token.
PoolBooks(c) == [ok |-> TRUE, harvested |-> 0, vault |-> vault[c],
                 pools |-> [a \in Pool |-> pools[a][c]]]

\* The token contract refuses an overdraft.
CommitPools(b, c) ==
    /\ b.ok /\ b.vault >= 0
    /\ vault' = [vault EXCEPT ![c] = b.vault]
    /\ pools' = [a \in Pool |-> [pools[a] EXCEPT ![c] = b.pools[a]]]

balances_of(b) ==
    [i \in DOMAIN strategies |-> get_balance(b.pools, strategies[i].address)]

\* The state of token c with the index accrued up to now.
update_yield_state(c) ==
    LET s == yieldState[c]
        growth == (IndexScale * s.rate_bps * (clock - s.updated_at)) \div YearScale
    IN [s EXCEPT !.index = @ + growth, !.updated_at = clock,
                 !.rate_bps = get_weighted_yield_rate]

position_yield(e, s) == (e.principal * (s.index - e.reward_debt)) \div IndexScale

-----------------------------------------------------------------------------
(* Administration.                                                         *)

yield_initialize(a, adapter) ==
    /\ yieldAdmin = NoParty
    /\ yieldAdmin' = a
    /\ strategies' = Single(adapter)
    /\ emergency' = FALSE
    /\ activeEscrows' = 0
    /\ yieldTokens' = {}
    /\ UNCHANGED <<yieldState, escrows, payouts, poolVars, chanceVars, payerFunds,
                   unwound, clock>>

\* The admin replaces the portfolio; never in an emergency.
NewPortfolio(ss) ==
    /\ yieldAdmin # NoParty
    /\ ~emergency
    /\ strategies' = ss
    /\ UNCHANGED <<yieldAdmin, emergency, yieldBooks, poolVars, chanceVars,
                   payerFunds, unwound, clock>>

set_adapter(a) == activeEscrows = 0 /\ NewPortfolio(Single(a))

set_strategies(ss) ==
    /\ activeEscrows # 0 => same_strategy_addresses(strategies, ss)
    /\ validate_strategies(ss)
    /\ NewPortfolio(ss)

\* A known pool gets a new weight; a new one is added while nothing is open.
register_strategy(a, w) ==
    LET known == a \in addresses_of(strategies)
        ss == IF known
              THEN [i \in DOMAIN strategies |->
                      IF strategies[i].address = a
                      THEN [address |-> a, weight |-> w] ELSE strategies[i]]
              ELSE Append(strategies, [address |-> a, weight |-> w])
    IN /\ w > 0 /\ w <= BPS
       /\ known \/ activeEscrows = 0
       /\ validate_strategies(ss)
       /\ NewPortfolio(ss)

\* Anybody may move the capital back to the target weights.
rebalance(c) ==
    LET balances == balances_of(PoolBooks(c))
        targets == portions(SumOf(balances), weights_of(strategies), BPS)
        over == [i \in DOMAIN strategies |-> Max({balances[i] - targets[i], 0})]
        under == [i \in DOMAIN strategies |-> Max({targets[i] - balances[i], 0})]
        withdrawn == FoldLeft(take, PoolBooks(c), allot(over))
    IN /\ yieldAdmin # NoParty
       /\ ~emergency
       /\ Len(strategies) > 1 /\ SumOf(balances) > 0
       /\ CommitPools(FoldLeft(supply, withdrawn, allot(under)), c)
       /\ UNCHANGED <<yieldAdmin, strategies, emergency, yieldBooks, chanceVars,
                      payerFunds, unwound, clock>>

\* A view that writes: it accrues the index.
get_yield_state(c) ==
    /\ yieldAdmin # NoParty
    /\ yieldState' = [yieldState EXCEPT ![c] = update_yield_state(c)]
    /\ UNCHANGED <<yieldAdmin, strategies, emergency, activeEscrows, yieldTokens,
                   escrows, payouts, poolVars, chanceVars, payerFunds, unwound, clock>>

-----------------------------------------------------------------------------
(* The life of an escrow.                                                  *)

create_escrow(id, payer, beneficiary, c, amount, release_ledger, share) ==
    LET parts == portions(amount, weights_of(strategies), BPS)
        funded == [PoolBooks(c) EXCEPT !.vault = @ + amount]
        s == update_yield_state(c)
    IN /\ yieldAdmin # NoParty
       /\ ~emergency
       /\ amount > 0 /\ release_ledger > clock /\ share <= BPS
       /\ escrows[id] = NoEscrow
       /\ payerFunds[payer][c] >= amount
       /\ payerFunds' = [payerFunds EXCEPT ![payer][c] = @ - amount]
       /\ CommitPools(FoldLeft(supply, funded, allot(parts)), c)
       /\ yieldState' = [yieldState EXCEPT
                           ![c] = [s EXCEPT !.total_principal = @ + amount]]
       /\ yieldTokens' = yieldTokens \cup {c}
       /\ activeEscrows' = activeEscrows + 1
       /\ escrows' = [escrows EXCEPT ![id] =
                        [status |-> "active", payer |-> payer,
                         beneficiary |-> beneficiary, token |-> c,
                         principal |-> amount, release_ledger |-> release_ledger,
                         share |-> share, reward_debt |-> s.index]]
       /\ UNCHANGED <<yieldAdmin, strategies, emergency, payouts, chanceVars,
                      unwound, clock>>

\* Principal back from the pools in proportion to what they hold, and all the
\* interest of every pool.
redeem_position(e) ==
    LET balances == balances_of(PoolBooks(e.token))
        amounts == IF SumOf(balances) > 0
                   THEN portions(e.principal, balances, SumOf(balances))
                   ELSE portions(e.principal, weights_of(strategies), BPS)
    IN FoldLeft(redeem, PoolBooks(e.token), allot(amounts))

\* Mutant: the whole principal is not taken off the books, only what was paid.
close_books_by_payout(id, s, status, principal, paid) ==
    /\ escrows' = [escrows EXCEPT ![id].status = status]
    /\ activeEscrows' = activeEscrows - 1
    /\ yieldState' = [yieldState EXCEPT
                        ![escrows[id].token] = [s EXCEPT !.total_principal = @ - paid]]

\* The escrow leaves the books with its principal, whatever was paid for it.
close_books(id, s, status, principal, paid) ==
    /\ escrows' = [escrows EXCEPT ![id].status = status]
    /\ activeEscrows' = activeEscrows - 1
    /\ yieldState' = [yieldState EXCEPT
                        ![escrows[id].token] = [s EXCEPT !.total_principal = @ - principal]]

\* A settlement that redeems the position; `share` of the interest goes to the
\* beneficiary with the principal, the rest to the payer.
Redeem(id, status) ==
    LET e == escrows[id]
        s == update_yield_state(e.token)
        redeemed == redeem_position(e)
        interest == position_yield(e, s)
        forBeneficiary == IF status = "released"
                          THEN e.principal + (interest * e.share) \div BPS ELSE 0
    IN /\ redeemed.harvested >= interest
       /\ CommitPools([redeemed EXCEPT !.vault = @ - e.principal - interest], e.token)
       /\ close_books(id, s, status, e.principal, e.principal)
       /\ payouts' = [payouts EXCEPT ![id] = Append(@,
                        [beneficiary |-> forBeneficiary,
                         payer |-> e.principal + interest - forBeneficiary])]
       /\ UNCHANGED <<yieldAdmin, strategies, emergency, yieldTokens, chanceVars,
                      payerFunds, unwound, clock>>

\* A settlement out of the vault: what there is, up to the principal.
PayFromVault(id, status) ==
    LET e == escrows[id]
        paid == Min({vault[e.token], e.principal})
    IN /\ vault' = [vault EXCEPT ![e.token] = @ - paid]
       /\ close_books(id, [yieldState[e.token] EXCEPT !.rate_bps = 0], status,
                      e.principal, paid)
       /\ payouts' = [payouts EXCEPT ![id] = Append(@,
                        [beneficiary |-> IF status = "released" THEN paid ELSE 0,
                         payer |-> IF status = "released" THEN 0 ELSE paid])]
       /\ UNCHANGED <<yieldAdmin, strategies, emergency, yieldTokens, pools,
                      chanceVars, payerFunds, unwound, clock>>

\* Needs no signature; an emergency lifts the deadline.
release(id) ==
    /\ is_active(id)
    /\ \/ emergency /\ PayFromVault(id, "released")
       \/ ~emergency /\ clock >= escrows[id].release_ledger /\ Redeem(id, "released")

\* By the payer; an emergency lifts the deadline.
cancel(id) ==
    /\ is_active(id)
    /\ \/ emergency /\ PayFromVault(id, "cancelled")
       \/ ~emergency /\ clock < escrows[id].release_ledger /\ Redeem(id, "cancelled")

-----------------------------------------------------------------------------
(* Emergencies.                                                            *)

\* Everything the portfolio's pools hold of token c, into the vault.
unwind_token_from_strategies(c) == FoldLeft(unwind, PoolBooks(c), strategies)

\* The tokens are unwound, at least `bound` of them in all, and the contract
\* enters the emergency mode, for good and for every token.
Unwind(tokens, bound) ==
    LET books == [c \in tokens |-> unwind_token_from_strategies(c)]
    IN /\ yieldAdmin # NoParty /\ ~emergency
       /\ MapThenSumSet(LAMBDA c : books[c].vault - vault[c], tokens) >= bound
       /\ vault' = [c \in YieldCoins |-> IF c \in tokens THEN books[c].vault ELSE vault[c]]
       /\ pools' = [a \in Pool |-> [c \in YieldCoins |->
                      IF c \in tokens THEN books[c].pools[a] ELSE pools[a][c]]]
       /\ emergency' = TRUE
       /\ unwound' = unwound \cup tokens
       /\ yieldState' = [c \in YieldCoins |->
                           IF c \in tokens
                           THEN [yieldState[c] EXCEPT !.rate_bps = 0, !.updated_at = clock]
                           ELSE yieldState[c]]
       /\ UNCHANGED <<yieldAdmin, strategies, activeEscrows, escrows, payouts,
                      chanceVars, payerFunds, clock>>

emergency_unwind_strategy(bound) ==
    Unwind(yieldTokens, bound) /\ UNCHANGED yieldTokens

emergency_unwind_token(c, bound) ==
    Unwind({c}, bound) /\ yieldTokens' = yieldTokens \cup {c}

emergency_withdraw_principal(id) ==
    /\ emergency
    /\ is_active(id)
    /\ vault[escrows[id].token] > 0
    /\ PayFromVault(id, "cancelled")

-----------------------------------------------------------------------------
(* External: what happens in the pools.                                    *)

pool_accrues(a, c) ==
    /\ poolGain[c] < MaxAccrual
    /\ pools[a][c].principal > 0
    /\ pools' = [pools EXCEPT ![a][c].accrued = @ + 1]
    /\ poolGain' = [poolGain EXCEPT ![c] = @ + 1]
    /\ UNCHANGED <<yieldAdmin, strategies, emergency, yieldBooks, vault, poolLoss,
                   payerFunds, unwound, clock>>

pool_loses(a, c) ==
    /\ poolLoss[c] < MaxLoss
    /\ pools[a][c].principal > 0
    /\ pools' = [pools EXCEPT ![a][c].principal = @ - 1]
    /\ poolLoss' = [poolLoss EXCEPT ![c] = @ + 1]
    /\ UNCHANGED <<yieldAdmin, strategies, emergency, yieldBooks, vault, poolGain,
                   payerFunds, unwound, clock>>

-----------------------------------------------------------------------------

YieldInit ==
    /\ yieldAdmin = NoParty
    /\ strategies = <<>>
    /\ emergency = FALSE
    /\ activeEscrows = 0
    /\ yieldTokens = {}
    /\ yieldState = [c \in YieldCoins |-> [index |-> 0, updated_at |-> 0,
                                           rate_bps |-> 0, total_principal |-> 0]]
    /\ escrows = [id \in EscrowIds |-> NoEscrow]
    /\ vault = [c \in YieldCoins |-> 0]
    /\ payerFunds = [a \in Payers |-> [c \in YieldCoins |-> YieldFunds]]
    /\ pools = [a \in Pool |-> [c \in YieldCoins |-> [principal |-> 0, accrued |-> 0]]]
    /\ poolLoss = [c \in YieldCoins |-> 0]
    /\ poolGain = [c \in YieldCoins |-> 0]
    /\ unwound = {}
    /\ payouts = [id \in EscrowIds |-> <<>>]

PortfolioStep ==
    \/ \E a \in Party, p \in Pool : yield_initialize(a, p)
    \/ \E p \in Pool : set_adapter(p)
    \/ \E ss \in Portfolios : set_strategies(ss)
    \/ \E p \in Pool, w \in Weights : register_strategy(p, w)
    \/ \E c \in YieldCoins : rebalance(c)
    \/ \E c \in YieldCoins : get_yield_state(c)

EscrowStep ==
    \/ \E id \in EscrowIds, a \in Payers, b \in Beneficiaries, c \in YieldCoins,
          n \in Principals, t \in 1..MaxClock, s \in InterestShares : create_escrow(id, a, b, c, n, t, s)
    \/ \E id \in EscrowIds : release(id)
    \/ \E id \in EscrowIds : cancel(id)
    \/ \E n \in UnwindBounds : emergency_unwind_strategy(n)
    \/ \E c \in YieldCoins, n \in UnwindBounds : emergency_unwind_token(c, n)
    \/ \E id \in EscrowIds : emergency_withdraw_principal(id)

PoolStep ==
    \/ \E a \in Pool, c \in YieldCoins : pool_accrues(a, c)
    \/ \E a \in Pool, c \in YieldCoins : pool_loses(a, c)

YieldNext ==
    \/ PortfolioStep
    \/ EscrowStep
    \/ PoolStep
    \/ TimePasses /\ UNCHANGED yieldVars

YieldSpec == YieldInit /\ clock \in Nat /\ [][YieldNext]_<<yieldVars, clock>>

-----------------------------------------------------------------------------
(* Properties.                                                             *)

OwedPrincipal(c) ==
    SumFunctionOnSet([id \in ActiveIn(c) |-> escrows[id].principal], ActiveIn(c))

\* The counters that guard the portfolio are those of the open escrows,
\* however an escrow is settled, in full or short (lib.rs:1384-1414, 1455-1483).
YieldBooksBalance ==
    /\ activeEscrows = Cardinality({id \in EscrowIds : is_active(id)})
    /\ \A c \in YieldCoins : yieldState[c].total_principal = OwedPrincipal(c)

\* What the contract has of token c in the pools of the current portfolio.
InPools(c) ==
    SumFunctionOnSet([a \in Pool |-> pools[a][c].principal + pools[a][c].accrued],
                     addresses_of(strategies))

\* What settlements of token c can draw on: the vault, and the pools unless
\* there is an emergency, from which on they are never asked again.
Reachable(c) == vault[c] + (IF emergency THEN 0 ELSE InPools(c))

\* What an emergency that was declared for other tokens leaves in the pools,
\* where no call of the contract can get at it any more.
Stranded(c) == IF emergency /\ c \notin unwound THEN InPools(c) ELSE 0

\* But for what the pools lost, and for what an emergency declared for other
\* tokens left behind in them, the principal of the open escrows is where a
\* settlement looks for it: no change of the portfolio, no rebalancing, no
\* settlement of another and no unwinding of its own token puts it out of
\* reach, and what is left behind stays there (lib.rs:266-396, 491-573,
\* 928-1029).
PrincipalStaysPut ==
    \A c \in YieldCoins :
        Reachable(c) + Stranded(c) + poolLoss[c] >= OwedPrincipal(c)

\* An escrow is settled once, and never for less than its principal outside an
\* emergency; a payer that cancels leaves the beneficiary nothing
\* (lib.rs:739-914).
EscrowsSettleOnce ==
    \A id \in EscrowIds :
        /\ Len(payouts[id]) = (IF escrows[id].status \in {"released", "cancelled"}
                               THEN 1 ELSE 0)
        /\ \A i \in DOMAIN payouts[id] :
              LET p == payouts[id][i]
              IN /\ ~emergency => p.beneficiary + p.payer >= escrows[id].principal
                 /\ escrows[id].status = "released" /\ ~emergency
                       => p.beneficiary >= escrows[id].principal
                 /\ escrows[id].status = "cancelled" => p.beneficiary = 0

\* "once `release_ledger` is reached anybody (typically the beneficiary or a
\* keeper) may settle the position, which is what makes the lock
\* self-enforcing" (lib.rs:731-733): a matured escrow can be released whenever
\* the contract and its pools hold the principal and the yield of all the open
\* escrows of the token.
MaturedIsReleasable ==
    \A id \in EscrowIds :
        LET c == escrows[id].token
            yield == MapThenSumSet(
                LAMBDA k : position_yield(escrows[k], update_yield_state(c)), ActiveIn(c))
        IN (/\ escrows[id].status = "active" /\ ~emergency
            /\ clock >= escrows[id].release_ledger
            /\ Reachable(c) >= OwedPrincipal(c) + yield) => ENABLED release(id)
=============================================================================
