--------------------------- MODULE PausableToken ---------------------------
(***************************************************************************)
(* The pausable token (pausable_token/src/lib.rs): balances and supply     *)
(* under a cap, approvals that expire and approvals signed off-chain, a    *)
(* pause, permanent and timed freezes, and a compliance hook that is asked *)
(* about every transfer.                                                   *)
(*                                                                         *)
(* The keys CollateralLocked and PartitionFrozen are read and never        *)
(* written, so their tests are left out.  One clock stands for the         *)
(* ledger's timestamp and for its sequence number.                         *)
(***************************************************************************)
EXTENDS Ledger, SequencesExt

CONSTANTS
    TokenAmounts,   \* amounts of mint, transfer and burn
    SupplyCaps,     \* arguments of set_max_supply
    DefaultCap,     \* DEFAULT_MAX_SUPPLY
    MintBatches,    \* argument lists of batch_mint: <<recipient, amount>>
    MaxBatchSize,   \* MAX_BATCH_SIZE
    Approvals,      \* approve: [owner, spender, value, expires]
    Permits,        \* signed permits: [owner, spender, value, nonce, deadline]
    PermitLifetime, \* MAX_PERMIT_LIFETIME_SECONDS
    Forever,        \* u32::MAX, the expiry of a permitted allowance
    Freezable,      \* the accounts the admin freezes
    FreezeTimes,    \* arguments of freeze_account_until
    Hooks,          \* compliance hooks
    HookAllows      \* external: the pairs a hook lets through

TokenPair == Party \X Party

ASSUME TokenAssumption ==
    /\ TokenAmounts \cup SupplyCaps \cup FreezeTimes \subseteq Nat
    /\ {DefaultCap, MaxBatchSize, PermitLifetime, Forever} \subseteq Nat
    /\ MintBatches \subseteq Seq(Party \X Int)
    /\ Approvals \subseteq [owner : Party, spender : Party, value : Nat, expires : Nat]
    /\ Permits \subseteq [owner : Party, spender : Party, value : Nat,
                          nonce : Nat, deadline : Nat]
    /\ NoParty \notin Hooks
    /\ HookAllows \in [Hooks -> SUBSET TokenPair]
    /\ Forever > MaxClock

VARIABLES
    tokenAdmin,     \* DataKey::Admin, NoParty before initialize
    paused,         \* DataKey::Paused
    tokenBalance,   \* DataKey::Balance(account)
    totalSupply,    \* DataKey::TotalSupply
    maxSupply,      \* DataKey::MaxSupply
    allowances,     \* DataKey::Allowance(owner, spender), absent as [0, 0]
    permitNonce,    \* DataKey::PermitNonce(owner)
    frozenFlag,     \* the accounts with DataKey::Frozen
    frozenUntil,    \* DataKey::FrozenUntil(account), 0 when absent
    hook,           \* DataKey::ComplianceHook
    granted,        \* history: what each owner last granted each spender
    spent,          \* history: what of that grant has been spent
    permitted,      \* history: how often a permit was used
    caller          \* history: the account whose signature the last call needed

grantVars == <<allowances, granted, spent>>
controlVars == <<tokenAdmin, paused, frozenFlag, frozenUntil, hook>>
tokenVars == <<controlVars, tokenBalance, totalSupply, maxSupply, grantVars,
               permitNonce, permitted, caller>>

NoAllowance == [amount |-> 0, expires |-> 0]

-----------------------------------------------------------------------------
(* Helpers.                                                                *)

is_frozen(a) == a \in frozenFlag \/ clock < frozenUntil[a]

assert_movable(a) == ~paused /\ ~is_frozen(a)

\* Mutant: only the side that pays is looked at.
assert_settled_payer(from, to) == assert_movable(from)

assert_settled(from, to) == assert_movable(from) /\ assert_movable(to)

\* A hook that refuses, panics or answers nonsense refuses.
validate_compliance(from, to) == hook # NoParty => <<from, to>> \in HookAllows[hook]

\* Mutant: an allowance outlives its expiry.
read_allowance_forever(from, spender) == allowances[<<from, spender>>]

\* Expired, a non-zero allowance reads as zero (and is removed; every reader
\* below either fails or writes it again).
read_allowance(from, spender) ==
    LET a == allowances[<<from, spender>>]
    IN IF a.amount > 0 /\ a.expires < clock THEN [a EXCEPT !.amount = 0] ELSE a

\* What write_allowance leaves in storage.
stored_allowance(amount, expires) ==
    IF amount = 0 THEN NoAllowance ELSE [amount |-> amount, expires |-> expires]

\* A grant replaces what was left of the one before.
Grant(owner, spender, amount, expires) ==
    /\ allowances' = [allowances EXCEPT
                        ![<<owner, spender>>] = stored_allowance(amount, expires)]
    /\ granted' = [granted EXCEPT ![<<owner, spender>>] = amount]
    /\ spent' = [spent EXCEPT ![<<owner, spender>>] = 0]

\* Mutant: the allowance is read and never reduced.
Spend_keeps_allowance(owner, spender, amount) ==
    /\ read_allowance(owner, spender).amount >= amount
    /\ allowances' = allowances
    /\ spent' = [spent EXCEPT ![<<owner, spender>>] = @ + amount]
    /\ granted' = granted

Spend(owner, spender, amount) ==
    LET a == read_allowance(owner, spender)
    IN /\ a.amount >= amount
       /\ allowances' = [allowances EXCEPT ![<<owner, spender>>] =
                           stored_allowance(a.amount - amount, a.expires)]
       /\ spent' = [spent EXCEPT ![<<owner, spender>>] = @ + amount]
       /\ granted' = granted

credit(sheet, a, n) == [sheet EXCEPT ![a] = @ + n]

\* Mutant: both balances are read before either is written.
moved_stale(from, to, n) ==
    [a \in Party |-> IF a = to THEN tokenBalance[a] + n
                     ELSE IF a = from THEN tokenBalance[a] - n ELSE tokenBalance[a]]

\* debit, then credit of what debit wrote.
moved(from, to, n) == transfer(tokenBalance, from, to, n)

ByAdmin == tokenAdmin # NoParty /\ caller' = tokenAdmin

-----------------------------------------------------------------------------
(* Administration.                                                         *)

token_initialize(a) ==
    /\ tokenAdmin = NoParty
    /\ tokenAdmin' = a
    /\ totalSupply' = 0
    /\ maxSupply' = DefaultCap
    /\ paused' = FALSE
    /\ caller' = a
    /\ UNCHANGED <<tokenBalance, grantVars, permitNonce, permitted, frozenFlag,
                   frozenUntil, hook, clock>>

\* An administrative call: it leaves balances, allowances and permits alone.
AdminCall ==
    /\ ByAdmin
    /\ UNCHANGED <<tokenBalance, totalSupply, grantVars, permitNonce, permitted, clock>>

token_set_admin(a) ==
    /\ AdminCall
    /\ ~is_frozen(a)
    /\ tokenAdmin' = a
    /\ UNCHANGED <<paused, frozenFlag, frozenUntil, hook, maxSupply>>

set_paused(b) ==
    /\ AdminCall
    /\ paused' = b
    /\ UNCHANGED <<tokenAdmin, frozenFlag, frozenUntil, hook, maxSupply>>

\* Lifting a freeze lifts the timed one too; setting one leaves it.
set_frozen(a, b) ==
    /\ AdminCall
    /\ frozenFlag' = IF b THEN frozenFlag \cup {a} ELSE frozenFlag \ {a}
    /\ frozenUntil' = IF b THEN frozenUntil ELSE [frozenUntil EXCEPT ![a] = 0]
    /\ UNCHANGED <<tokenAdmin, paused, hook, maxSupply>>

cancel_freeze(a) == set_frozen(a, FALSE)

\* A time that has passed lifts the timed freeze, and only that one.
freeze_account_until(a, t) ==
    /\ AdminCall
    /\ frozenUntil' = [frozenUntil EXCEPT ![a] = IF t <= clock THEN 0 ELSE t]
    /\ UNCHANGED <<tokenAdmin, paused, frozenFlag, hook, maxSupply>>

cancel_freeze_until(a) == freeze_account_until(a, 0)

\* NoParty for remove_compliance_hook.
set_compliance_hook(h) ==
    /\ AdminCall
    /\ hook' = h
    /\ UNCHANGED <<tokenAdmin, paused, frozenFlag, frozenUntil, maxSupply>>

\* Mutant: the cap may be lowered below what is in circulation.
cap_any(n) == TRUE

cap_holds_supply(n) == n >= totalSupply

set_max_supply(n) ==
    /\ AdminCall
    /\ cap_holds_supply(n)
    /\ maxSupply' = n
    /\ UNCHANGED controlVars

-----------------------------------------------------------------------------
(* Supply.                                                                 *)

\* mint is a batch of one.  The batch is admitted as a whole: every account
\* movable, every amount positive, the sum under the cap.
batch_mint(ps) ==
    LET minted == FoldLeft(LAMBDA n, p : n + p[2], 0, ps)
    IN /\ ByAdmin
       /\ ps # <<>> /\ Len(ps) <= MaxBatchSize
       /\ \A i \in DOMAIN ps : ps[i][2] > 0 /\ assert_movable(ps[i][1])
       /\ totalSupply + minted <= maxSupply
       /\ tokenBalance' = FoldLeft(LAMBDA s, p : credit(s, p[1], p[2]), tokenBalance, ps)
       /\ totalSupply' = totalSupply + minted
       /\ UNCHANGED <<controlVars, maxSupply, grantVars, permitNonce, permitted, clock>>

mint(a, n) == batch_mint(<< <<a, n>> >>)

burn(from, n) ==
    /\ assert_movable(from)
    /\ can_transfer(tokenBalance, from, n)
    /\ caller' = from
    /\ tokenBalance' = credit(tokenBalance, from, -n)
    /\ totalSupply' = totalSupply - n
    /\ UNCHANGED <<controlVars, maxSupply, grantVars, permitNonce, permitted, clock>>

burn_from(spender, from, n) ==
    /\ assert_settled(from, spender)
    /\ can_transfer(tokenBalance, from, n)
    /\ caller' = spender
    /\ ~(/\ allowances[<<from, spender>>].expires > 0
         /\ clock > allowances[<<from, spender>>].expires)
    /\ Spend(from, spender, n)
    /\ tokenBalance' = credit(tokenBalance, from, -n)
    /\ totalSupply' = totalSupply - n
    /\ UNCHANGED <<controlVars, maxSupply, permitNonce, permitted, clock>>

-----------------------------------------------------------------------------
(* Transfers and approvals.                                                *)

transfer_checked(from, to, n) ==
    /\ assert_settled(from, to)
    /\ validate_compliance(from, to)
    /\ can_transfer(tokenBalance, from, n)
    /\ caller' = from
    /\ tokenBalance' = moved(from, to, n)
    /\ UNCHANGED <<controlVars, totalSupply, maxSupply, grantVars, permitNonce,
                   permitted, clock>>

\* Mutant: the compliance hook is asked about direct transfers only.
transfer_from_unasked(spender, from, to, n) ==
    /\ assert_settled(from, to)
    /\ assert_movable(spender)
    /\ can_transfer(tokenBalance, from, n)
    /\ caller' = spender
    /\ Spend(from, spender, n)
    /\ tokenBalance' = moved(from, to, n)
    /\ UNCHANGED <<controlVars, totalSupply, maxSupply, permitNonce, permitted, clock>>

transfer_from_checked(spender, from, to, n) ==
    /\ assert_settled(from, to)
    /\ assert_movable(spender)
    /\ validate_compliance(from, to)
    /\ can_transfer(tokenBalance, from, n)
    /\ caller' = spender
    /\ Spend(from, spender, n)
    /\ tokenBalance' = moved(from, to, n)
    /\ UNCHANGED <<controlVars, totalSupply, maxSupply, permitNonce, permitted, clock>>

approve(g) ==
    /\ g.value = 0 \/ g.expires >= clock
    /\ assert_movable(g.owner)
    /\ caller' = g.owner
    /\ Grant(g.owner, g.spender, g.value, g.expires)
    /\ UNCHANGED <<controlVars, tokenBalance, totalSupply, maxSupply, permitNonce,
                   permitted, clock>>

\* Mutant: the nonce of a used permit stays current.
next_nonce_same(owner) == permitNonce

next_nonce(owner) == [permitNonce EXCEPT ![owner] = @ + 1]

\* Anybody may submit the owner's signature; it covers the current nonce.
permit(p) ==
    /\ tokenAdmin # NoParty
    /\ clock <= p.deadline /\ p.deadline <= clock + PermitLifetime
    /\ assert_movable(p.owner)
    /\ p.nonce = permitNonce[p.owner]
    /\ permitNonce' = next_nonce(p.owner)
    /\ Grant(p.owner, p.spender, p.value, Forever)
    /\ permitted' = [permitted EXCEPT ![p] = @ + 1]
    /\ caller' = NoParty
    /\ UNCHANGED <<controlVars, tokenBalance, totalSupply, maxSupply, clock>>

-----------------------------------------------------------------------------

TokenInit ==
    /\ tokenAdmin = NoParty
    /\ paused = FALSE
    /\ tokenBalance = [a \in Party |-> 0]
    /\ totalSupply = 0
    /\ maxSupply = DefaultCap
    /\ allowances = [p \in TokenPair |-> NoAllowance]
    /\ granted = [p \in TokenPair |-> 0]
    /\ spent = [p \in TokenPair |-> 0]
    /\ permitNonce = [a \in Party |-> 0]
    /\ permitted = [p \in Permits |-> 0]
    /\ frozenFlag = {}
    /\ frozenUntil = [a \in Party |-> 0]
    /\ hook = NoParty
    /\ caller = NoParty

ControlStep ==
    \/ \E a \in Party : token_initialize(a)
    \/ \E a \in Party : token_set_admin(a)
    \/ \E b \in BOOLEAN : set_paused(b)
    \/ \E a \in Freezable, b \in BOOLEAN : set_frozen(a, b)
    \/ \E a \in Freezable : cancel_freeze(a)
    \/ \E a \in Freezable, t \in FreezeTimes : freeze_account_until(a, t)
    \/ \E a \in Freezable : cancel_freeze_until(a)
    \/ \E h \in Hooks \cup {NoParty} : set_compliance_hook(h)
    \/ \E n \in SupplyCaps : set_max_supply(n)

MoneyStep ==
    \/ \E a \in Party, n \in TokenAmounts : mint(a, n)
    \/ \E ps \in MintBatches : batch_mint(ps)
    \/ \E a \in Party, n \in TokenAmounts : burn(a, n)
    \/ \E s, a \in Party, n \in TokenAmounts : burn_from(s, a, n)
    \/ \E a, b \in Party, n \in TokenAmounts : transfer_checked(a, b, n)
    \/ \E s, a, b \in Party, n \in TokenAmounts : transfer_from_checked(s, a, b, n)

GrantStep ==
    \/ \E g \in Approvals : approve(g)
    \/ \E p \in Permits : permit(p)

TokenTimePasses ==
    /\ TimePasses
    /\ caller' = NoParty
    /\ UNCHANGED <<controlVars, tokenBalance, totalSupply, maxSupply, grantVars,
                   permitNonce, permitted>>

TokenNext == ControlStep \/ MoneyStep \/ GrantStep \/ TokenTimePasses

TokenSpec == TokenInit /\ clock \in Nat /\ [][TokenNext]_<<tokenVars, clock>>

-----------------------------------------------------------------------------
(* Properties.                                                             *)

\* The supply counter is the sum of the balances, whatever is minted in
\* batches, sent to oneself or burned by others (lib.rs:591-661, 860-880), and
\* stays under the cap in force, however the cap moves (lib.rs:456-472).
SupplyAddsUp ==
    /\ totalSupply = SumFunctionOnSet(tokenBalance, Party)
    /\ totalSupply <= maxSupply

\* A spender never gets more out of a grant than was granted, what is left
\* of it included: a new approval or permit replaces the old one
\* and does not add to it (lib.rs:404-440, 517-589).
GrantsBound ==
    \A p \in TokenPair : spent[p] + allowances[p].amount <= granted[p]

\* A permit is used once, in the order of its owner's nonces, and of several
\* that were signed for one nonce only one is used (lib.rs:543-585).
PermitsRunOnce ==
    \A p, q \in Permits :
        /\ permitted[p] <= 1
        /\ permitted[p] > 0 => p.nonce < permitNonce[p.owner]
        /\ (permitted[p] > 0 /\ permitted[q] > 0 /\ p.owner = q.owner
              /\ p.nonce = q.nonce) => p = q

\* Balances change by the rules alone: none while the token is paused, none
\* of a frozen account, whoever moves it, and none by a frozen spender
\* (lib.rs:385-440, 591-661, 955-1010); tokens pass from one account to
\* another only where the hook in force lets them (lib.rs:810-830), mint and
\* burn having one side only; and no allowance is spent after it has run out
\* (lib.rs:862-884).
FrozenMeansStill(a) ==
    tokenBalance'[a] # tokenBalance[a] =>
        /\ ~paused
        /\ ~is_frozen(a)
        /\ caller' # tokenAdmin => ~is_frozen(caller')
Compliant(a, b) ==
    (tokenBalance'[a] < tokenBalance[a] /\ tokenBalance'[b] > tokenBalance[b]) =>
        (hook # NoParty => <<a, b>> \in HookAllows[hook])
Unexpired(p) == spent'[p] > spent[p] => clock <= allowances[p].expires
TokensMoveByRule ==
    [][ /\ \A a \in Party : FrozenMeansStill(a)
        /\ \A a, b \in Party : Compliant(a, b)
        /\ \A p \in TokenPair : Unexpired(p) ]_tokenVars
=============================================================================
