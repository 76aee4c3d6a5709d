# Stellar Tags: TLA+ models, checks and proofs

This directory holds a verification development of the Stellar Tags repository:
TLA+ modules translated from the source under `src/`, TLC configurations that
check them on small instances, and proofs checked by TLAPS. It covers

* the payment router, the Soroban contract through which the money of the system
  passes (`src/payment_router/src`);
* the seven smaller contracts beside it, and the 256-bit arithmetic under the
  price oracle;
* the three parts of the server that have to survive the failure of what they
  call: the transactional outbox, the idempotency keys and the settlement engine
  (`src/stellar-payment-platform/src`).

A bare line number refers to `src/payment_router/src/lib.rs`.

## 1. Inventory

### The contracts

| Component | State it keeps | Operations | What makes it correct |
|---|---|---|---|
| Router: access (`access.rs`, `storage.rs`) | admin key, role registry (`Role(r)`), role flags (`UserRole(a, r)`), freeze flag, three-level pause | initialize, set/transfer admin, grant, revoke, freeze, unfreeze, pause, unpause, set_pause_level | registry and flags never disagree; one holder per role; the SuperAdmin seat is never empty |
| Router: dead man's switch (`dead_mans_switch.rs`) | backup admin, timeout, last heartbeat, heartbeat operator | set/remove backup, ping, renew, claim_admin, and the heartbeat in every payment | the admin key changes hands only after silence, and only to the appointed backup; view and claim agree |
| Router: upgrade multisig (`access.rs:227-410`) | signers and threshold, approvals per artifact and per configuration | set_multisig_config, approve, revoke approval, cancel, upgrade | an installation has a fresh quorum of the group of that moment; a group is replaced only by its own quorum |
| Router: timelock (`timelock.rs`) | nonce, entries, and the parameters they write | queue, execute, cancel, execute_batch_actions | the queue is no way around any check of the direct path; an entry is executed at most once |
| Router: sender limits (`storage.rs:410-489`, `rate_limit.rs`) | packed record (window start, spent, volume), legacy entries, per-ledger counter, cap, whitelist | accrue, migrate, check_rate_limit, setters | windows and volumes are exact, across the change of format too; the cap holds inside a batch |
| Router: payments (`lib.rs:460-669, 2653-3969`, `fees.rs`) | refund ledger, meta nonces, used quotes, blacklist, the contract's own token balances | route_payment(s), quote settlement, relayed payment, refunds, recovery, emergency withdrawal | nobody pays without consent; a signed message runs once; refunds are covered |
| Router: swaps (`swaps.rs`, 2861-2935, 3150-3713) | DEX registry; otherwise the books of payments | single, batch, split, multi-hop and raw swaps | the sender's floor holds against what really arrived; nothing stays behind, nothing that belongs to others leaves |
| Router: treasury yield and archival (1986-2130, 4296-4463, `archival.rs`) | lending protocol, principal, archive roots | configure, deposit, withdraw, harvest; commit, prune | recorded principal is owed by somebody; refunds leave by rule |
| `timelock_escrow` | escrows, one balance per token | lock, claim | paid once, in time, out of what is its own |
| `flash_loan` | reserve, lock | flash_loan, deposits | whatever the borrower does, the fee is earned |
| `pausable_token` | balances, supply and cap, allowances, permit nonces, freezes, hook | mint, burn, transfers, approve, permit, freeze, pause | supply is the sum; grants bound what is spent; stopped parties do not move tokens |
| `payment_proxy` | logic address, session keys, nonces | forward, intents, batches, meta payments | signed messages run once; a session spends at most its limit |
| `yield_escrow` | escrows, portfolio, yield index, counters | create, release, cancel, rebalance, emergency paths | settled once, never for less than the principal; principal stays reachable |
| `twap_oracle` | observations, cumulative price, breaker | observe, twap, consult | an average is the mean of what was in force |
| `zk_payment` | commitments, nullifiers | submit | a nullifier pays once |
| `ethnum-patch` | none | 256-bit arithmetic out of 128-bit words, parsing | every operation is the operation on the numbers |

### The server and the client

`src/stellar-payment-platform` is a Node.js server over PostgreSQL, Redis and a
message broker.

| Component | State it keeps | Operations | What makes it correct |
|---|---|---|---|
| Settlement outbox (`services/settlementOutbox.js`) | rows with lease, owner, retries, due time | commit, poll, claim, publish, mark, back off | at least once, one owner at a time as long as leases last |
| Idempotency keys (`middleware/idempotency.js`) | a record per key on each of several Redis instances | claim by majority, save, release, replay | a key has one holder |
| Settlement engine (`settlement/outboxEngine.js`, `merkleTree.js`) | items, shard queues, keys in memory and in Redis, chained Merkle batches | enqueue, process, retry, receipt, verify | a payment is made once; receipts verify, for nothing else |
| Event-sourced payments, webhooks and dead letters, rate limiters, archival and reconciliation, Horizon listener and streams, rules and analytics, HTTP surface | rows and Redis keys | | see section 5 |

### Interactions

A contract invocation is atomic and single-threaded: a call that fails leaves
no trace. Interleaving is therefore interleaving of whole calls by different
signers, over a clock that moves between ledgers; the exception is a call that
hands control to another contract (a borrower, a token, a DEX) and comes back.
The components of the router meet in storage: the timelock writes what the direct
setters write; an executed `TransferAdmin` or `SetBackupAdmin` writes the access
layer; upgrades and rotations run through the multisig whether they are called
directly or from the queue; every payment reads the freeze and pause switches,
renews the heartbeat, and charges the sender's window and slot; refunds,
treasury and swaps draw on one balance; archival deletes what payments wrote.
In the server, what runs between two awaits is atomic, and every await is a place
where other requests, other workers, a crash or a lost answer may come in.

### Behaviours that are hard

* Long sequences of legal calls by several officers (grants, transfers, claims,
  revocations, rotations) that together reach a state no single call allows.
* Checks made at one time and relied on at another: approvals given by a member
  that has left, queued actions validated when queued, batches that check all
  entries before they apply the first, reads before an await.
* The clock: windows that roll over, switches that expire, entries that ripen,
  quotes, permits, sessions and relays that lapse, leases that run out.
* Messages signed once and submitted many times.
* Control that is handed out in the middle of a call.
* Partial failure inside an atomic batch: transfers that a recipient refuses
  and that become refunds, held in one balance together with stray tokens.
* Two generations of storage format for one fact.
* External parties that say one thing and do another: DEXes, lending pools.
* Crashes between an effect and its record, answers that are lost, and retries.
* Words that wrap: carries, signs, quotient digits.

`PROJECT.json` lists each of them at its line under `hazards`, with the
properties that cover it.

## 2. Modules

| Module | Models | Builds on |
|---|---|---|
| `RouterAccess` | access layer and dead man's switch | |
| `RouterMultisig` | the M-of-N group and its upgrades | `RouterAccess` |
| `RouterTimelock` | the queue, and the parameters with their direct setters | `RouterMultisig` |
| `RouterBatch` | `execute_batch_actions` | `RouterTimelock` |
| `RouterLimits` | windows, volumes, legacy entries, per-ledger slots | |
| `RouterPayments` | payments, quotes, relays, refunds, recoveries, blacklist | `RouterAccess`, an instance of `RouterLimits` |
| `RouterSwaps` | the five swap routes and the DEX registry | `RouterPayments` |
| `RouterServices` | treasury yield and archival | `RouterSwaps` |
| `Ledger` | the clock and the parties the small contracts share | |
| `TimelockEscrow`, `FlashLoan`, `PausableToken`, `PaymentProxy`, `YieldEscrow`, `TwapOracle`, `ZkPayment` | the contract of that name | `Ledger` where there is a clock |
| `WideWords`, `WideUnsigned`, `WideSigned`, `WideNumerals` | `ethnum-patch`: routines on words, `U256`, `I256`, parsing | each other in this order |
| `AtLeastOnce` | what the outbox promises: commit, deliver, settle | |
| `SettlementOutbox` | rows, competing workers, broker, failures | an instance of `AtLeastOnce` |
| `IdempotencyKeys` | one key on several Redis instances | |
| `MerkleTree` | layers, roots, proofs, the chain of batches | |
| `SettlementEngine` | keys, shards, runs, receipts, restart | `MerkleTree` |
| `SignedMessages` | what permits, intents, meta payments and zero-knowledge payments have in common | `PausableToken`, `PaymentProxy`, `ZkPayment` |
| `SumTheorems`, `FoldTheorems` | lemmas about sums over finite sets and about loops | |
| `RouterTimelockProofs` | theorems about access, group, queue and batches | `RouterBatch` |
| `RouterLimitsProofs`, `RouterServicesProofs` | theorems | the module they are named after |
| `RouterSendersProofs` | theorems about the terms of swaps and the senders' limits | `RouterServicesProofs`, an instance of `RouterLimitsProofs` |
| `ContractsProofs` | theorems about token, proxy, `zk_payment`, `timelock_escrow`, `flash_loan`, oracle, `yield_escrow` | `SignedMessages` and the modules of the others |
| `BackendProofs` | theorems about outbox, idempotency keys, settlement engine and Merkle tree | `SettlementOutbox`, `IdempotencyKeys`, `SettlementEngine` |
| `MC...` | instances for TLC, with the constraints of section 3 | |

### How state and actions correspond to the code

Each storage key of a contract is a variable, named in the comment beside it;
an absent `Option` is `NoAddr`, `NoTime`, `NoValue` or `NoRecord`. Each entry
point is one action with the name of the Rust function, enabled exactly when the
call succeeds: every early `Err`, panic and failed `require_auth` is a conjunct.
What an entry point calls is part of the action: `set_admin` moves the role with
the key, a payment contains its heartbeat, `initialize` resets the nonce.

* **Signatures.** `addr.require_auth()` becomes `SignedBy(addr)`, which records
  the address in the history variable `signer`. In `RouterPayments`, where one
  call needs several signatures, `consent` holds them all. The properties about
  authority are stated over these two, and no guard reads them.
* **Clock.** `now` (in the small contracts `clock`) is the ledger timestamp, and
  it advances only in an action of its own. In `RouterLimits` and `PausableToken`
  one value stands for one ledger, so it also serves as the sequence number.
* **Functions on storage.** A queued action is a function from the record
  `Storage` to the next one (`apply_action`), with the conditions under which it
  succeeds in `apply_succeeds`. `execute_action` applies one; the batch folds
  it over its entries. In the same way the payment and swap operators take the books
  of all senders and return them after one payment with `ok = FALSE` when it is
  refused. A batch is a fold, and a call whose fold ends with `ok = FALSE` is
  never taken. This is how the model keeps a batch atomic while its payments see
  one another's effects.
* **Tokens** are external: `transfer` moves a balance, `approve` sets an
  allowance, and a payment carries `delivered`, whether its recipient accepts
  the transfer (`try_transfer` fails when a trustline is missing). The model tries both.
* **DEXes** answer a call with a record of what they moved and what they said;
  the answers of a run include short deliveries, input returned, and lies, on every
  route. The raw route asks any DEX and believes what it says: it pays the unused input
  a DEX reports out of the router's account, and what of it had not come in is counted
  in `taken`. What a DEX does inside its call is to move tokens of its own; a DEX
  that calls the router from within the raw route, which has no reentrancy guard, is
  not modelled.
  **Lending protocols** owe what was deposited with them; the pools of
  `yield_escrow` behave like the pool of its tests, and may lose principal.
* **A borrower** does anything it can between the two halves of `flash_loan`, a
  second loan included; the call is taken apart into frames, and the check of the
  lock, of the repayment and the undoing of a failed call are actions.
* **Signed messages** (permits, intents, meta payments, quotes, relays) are the
  members of a set somebody has signed. A signature that does not verify traps.
* **History variables** (`lastAlive`, `spent`, `consent`, `taken`, `spentAt`,
  `lifetime`, `signatures`, `recorded`, `created` and others marked "history")
  record what properties need and are read by no guard except the named bounds.

### The server

A worker, a request or a run is a process, and every `await` is a point between
two actions.

* **Outbox.** `poll` takes the tick of the batch, `findMany` reads the candidates,
  `claim` or `skip_lost_claim` is one conditional update, `publish` or
  `publish_fails` is the answer of the broker, and `mark_processed` or
  `mark_failed` records it. `database_error` rejects the query under way at any
  of the four awaits on the database: the batch is abandoned
  (`settlementOutbox.js:146-157`), and the update may have been applied although
  its answer was lost. `crash` kills the process at any await, with the same
  uncertainty. `publish_fails` covers HTTP errors, timeouts and unrouted messages;
  the broker may have the message all the same. `stop` is SIGTERM and `restart`
  the service manager. Time is relative: a row keeps the ticks until it is due and
  until its lock expires, a worker the age of its tick. One clock serves the
  workers and the database. `lockOwner` is a fresh UUID for each claim; the model
  stores the worker, which agrees because a worker leaves a row for good when it
  goes on.
* **Idempotency keys.** A request asks all instances at once; each call takes
  effect at a moment of its own and may fail before or after. An attempt ends
  when all have answered, and its claims are undone when they are no majority.
  A record may expire at any time, a connection may close while the handler runs,
  and a release may arrive late. `Holding` is what a request relies on: that
  it counted a majority, and neither its record expired nor its attempt outlived
  the five minutes of a claim.
* **Settlement engine.** Calls interleave at the answers of Redis and of the
  processor. A restart empties the memory and leaves the keys in Redis; an
  update of Redis under way may or may not arrive. The server installs no
  processor, so there a run is one step and every payment succeeds; the model has
  the engine as it is written, with a processor that may fail. A hash is the term
  that was hashed.

### What is abstracted

Events, error codes, TTL extension, string and byte formats, metrics, and the
packing of records in bits. Amounts are small naturals; i128 overflow is out of
scope (the workspace is built with overflow checks, so an overflow is a failed
call), except in the oracle's accumulator, which wraps at `Word`, and in the
256-bit arithmetic, where the word is `WordBits` wide instead of 128. Fees and
amount limits are constants in `RouterPayments`; `RouterTimelock` shows how they
change. `set_kyc_config` is not an action there either: the threshold is a
constant and the oracle's answer is the set `Verified`. The oracle's cumulative
logarithms are read by nothing.

## 3. Runs

The model values and bounds of each run are in its `.cfg`; the state counts are
those of complete explorations. Components that share no state share a run: its
initial state picks the `subject` that moves.

| Run | States | Question |
|---|---|---|
| `access` | 116,648 | Three addresses, three roles, clock 0..3, timeouts on both sides of the minimum of 2. Do registry, flags, seat, switch and view stay consistent, and does the key move only after silence? |
| `timelock` | 71,028 | Two addresses; upgrades, rotations, admin transfers, backup appointments and parameters queued at one time and executed at another, with approvals, withdrawals, direct calls and claims in between. Is the queue a way around the quorum or the rules of `RouterAccess`? |
| `batch` | 67,230 | Two queued actions out of five kinds, alone or as one batch. Does a batch do what its entries would do one by one? |
| `limits` | 169,396 | Two senders, one with entries of an earlier version, batches of two, and two subjects: `windows` (2 ledgers out of 5, archived windows, routes without slots), `slots` (a cap that starts at 1 and is moved among 0, no cap, 1 and 2, where 3 is refused, and exemptions). Are windows, volumes and slots exact? |
| `payments` | 113,448 | Subjects `custody` (refused deliveries, batches and relays against withdrawals, recoveries, exemptions, freeze and pause), `routes` (payments, two quotes under one id and relays under one nonce, over two ledgers, under a cap that changes), `swaps` (all five routes against five answers of a DEX; by one of them a raw swap takes tokens that lie behind a refund), `archive` (refunds and legacy entries deleted while they are claimed and migrated), `treasury` (funds with two lending protocols). Is what is owed covered, does each message run once, does everyone who pays consent, are a swap's terms kept, and does every route obey `RouterLimits`? |
| `backend` | 650,662 | Subjects `outbox` (two workers and one notification, failures of every kind), `keys` (two requests on three Redis instances, one thing going wrong at any moment), `settle` (three payments, two shards, two overlapping runs, one retry), `admit` (three requests for one key through memory and Redis, a restart). Are leases respected, is nothing settled that was not delivered and everything settled in the end, has a key one holder, is a payment made once and does its receipt verify? |
| `contracts` | 377,498 | Subjects `lock`, `loan`, `token`, `proxy`, `yield` (one token in two pools), `yields` (an escrow each of two tokens, one of which may be unwound in an emergency, in pools that keep what they are given), `oracle`, `zk`, and `numbers`: pairs of numbers of two eight-bit words around the boundaries of a word and of half a word, through every operation, and numerals in four bases. |
| `batch_replay`, `claim_rights`, `swap_raw`, `outbox_lease`, `yield_release` | | One counterexample each; see section 6. |

**Why the bounds are enough.** Every guard of the code that compares two
quantities has instances on both sides: timeouts below, at and above the
minimum; a window that is filled by one payment or by two, and rolls over twice;
a cap reached inside a batch, raised within a ledger, lifted, and lowered below what has been used; parameters at and above the limits; a clock that
passes the expiry of an armed switch and leaves room for a renewal; a permit, a
session, a freeze and an approval that lapse while others go on; loans on both
sides of the kink of the fee. Three addresses are needed for the owner, the
successor and a third party of a role; the timelock run makes do with two because
its questions are about the path and not the person. `MaxSignatures` bounds a
history counter. In the outbox, a batch may take longer than a lease, so a lease
can expire at every await of its owner; two retries reach the cap of the
backoff; two workers are enough for a lease to be taken over and for the late
owner to come back. One notification is enough for the progress of each one,
because a row is claimed, published and marked by itself; what a batch of several
rows adds is the age of its tick, and that is the subject of `outbox_lease`, with
two rows. Three Redis instances are the least that have a majority that is not
all. In the engine, a batch of two of three payments leaves one in the queue, and a
retry of one payment sends it to the end of a queue that another run is taking
from. The oracle's window spans three ticks of a price that changes in each, and
its accumulator wraps within them. In the arithmetic, `MCHighs` and `MCLows`
hold 0, 1, the largest word, the sign bit and the half-word boundaries, at which
carries, signs and the digits of the long division change; TLC takes all pairs.

**Constraints.** `OneQuestion` (`GroupFocus`, `AdminFocus` or `ParamsFocus`) and
`BatchFocus` keep a run to the slice in which its question can be answered, by
fixing state that no guard of the slice reads. TLC still checks the states just
outside the slice. The full product of the slices, and of the subjects of
`limits`, `payments`, `contracts` and `backend`, is not explored: that an interplay across slices adds nothing is an
argument about which keys an action reads, not something TLC shows. Symmetry is
used where all addresses play the same part (`access`, `limits`).

**Deadlock** is checked in every run but `contracts` (and `yield_release`, which
is part of it): there clocks, messages, mints and submissions are bounded and
run out, and then a contract that nobody calls really does rest. `backend`
checks it, with an explicit step of rest for requests that are all answered and
for an engine whose queues are empty: a request that hangs, or an item that is
in a queue nobody can take it from, would be found as a deadlock.

**Fairness.** None is assumed of the contracts, and no liveness is claimed of
them: nobody is obliged to call a contract, so nothing in it eventually
happens. What takes the place of liveness is a statement about what is possible:
a refund can be claimed in every state in which nothing of its token was taken
(`RefundClaimable`), an open position's principal is where settlement looks for it but
for what an emergency of another token leaves behind (`PrincipalStaysPut`).

The outbox does promise something: `DeliveryHappens`, under `FairSpec`.

* `WF_vars(PromptTick)`: time passes.
* `WF_vars(Work(w) \/ mark_failed(w) \/ restart(w))`: a worker goes on. Its poll
  is a timer (`setTimeout`, `settlementOutbox.js:154`), a promise that is settled
  is resumed by the event loop, and a process that has died is restarted by its
  service manager.
* `SF_vars(publish(w) /\ Current(w) = m)`: a broker that is asked again and again
  accepts the message at some time. Without it retries go on for ever, as they
  should.
* `<>[][CalmNext]_vars`: from some time on no process dies and the database
  answers without delay. If every lease were cut short by a crash there would be
  no progress, and no code could help. Before that time anything may fail.

Nothing of the kind holds of the settlement engine: it processes only when a
request tells it to (`POST /outbox/process`), and it forgets what it has when
its process ends.

### The properties

*Access.* `RoleHasOneHolder`, `SuperAdminSeated`, `ExpiryViewAgrees`,
`TakeoverNeedsSilence`, which counts every sign of life there is: pings, renewals
by the operator, routed payments and a re-arming of the switch.

*Group and queue.* `InstallsArePaidFor` (installations need as many signatures
as quorums, counted over the whole history), `QuorumDecides` (the approvals
counted at an installation or a rotation are those of members of that moment, on
both paths), `EntriesSettleOnce`, `AccessSpec` (section "Refinement"), and
`PlainBatchIsSequence`.

*Limits.* `SpendingIsExact` compares window and volume of a record with the
history of what was routed, through resets, batches, migration and deletion.
`DailySpanBound` states what a fixed window really promises: twice the daily
limit in any 24 hours. `RateCapHolds` is about slots taken, batch or not.

*Money of the router.* `BooksAreCovered` (refunds lie in the account but for what
the TreasuryManager has taken and what raw swaps paid back beyond what they received;
recorded principal is owed by some protocol), `RefundClaimable` (while nothing of the
token was taken in these two ways), `RefundsLeaveByRule` (a refund shrinks only into its owner's
hands or by an archived deletion that named it), `MessagesRunOnce`,
`NoDebitWithoutConsent`, `HaltStopsMoney`, `SwapsPassThrough`,
`SwapsKeepTheirTerms`, `PaymentsImplementLimits`. That `recover_tokens` and
`emergency_withdraw` may pay out tokens behind refunds is the code's rule
(2661), and so is that the raw route pays back what a DEX reports as unused (2922):
the model counts both in `taken`, and the two properties are stated modulo it. So they
are not a promise that refunds are safe, but one that they are lost in no other way.

*Small contracts.* `LocksPayOnceInTime`, `LoansEarnTheirFees`, `SupplyAddsUp`,
`GrantsBound`, `TokensMoveByRule`, `SessionCapHolds`, `EscrowsSettleOnce`,
`YieldBooksBalance`, `PrincipalStaysPut` (per token, vault and pools cover the open
principal; what an emergency of another token leaves in the pools is counted apart, as
`Stranded`), `ConsultIsTheMean`;
`MessagesAreUsedOnce` joins permits, intents, meta payments and nullifiers;
`ArithmeticIsExact` compares every operation of the 256-bit arithmetic with the
operation on numbers, flags, traps and loop bounds included.

*Server.* `LeaseRespected` (a row is lost only to expiry), `BackoffIsCurrent` (the
retries from which a delay is computed are at most one behind those of the row),
`DeliveryIsSafe`, `DeliveryHappens`, `KeyHasOneHolder`, `PaymentsSettleOnce` (an
item is in one queue or in the hands of one run until it is done, and was paid
once or never), `ReceiptsVerify` (one chain of batches, each settled item in one
batch, with a receipt that verifies for it and for no other).

### Refinement

Three abstract specifications are implemented by larger ones. `RouterSpec`
implements `AccessSpec`: whatever is queued, the access layer only makes steps
of its own specification, so its theorems hold of the router with its timelock.
The payments, swaps and services implement `Limits!LimitsSpec`, under the mapping
that leaves its books as they are and takes what payments, batches, quotes and multi-hop
swaps may ask for, `LimitEntries`, as `Entries`, and what relays and the other swaps
may ask for as `UnchargedEntries`: no route, quote, relay, swap or archival is a way
around windows and slots, other than those four routes, which take no slot.
The first two refinements and the safety half of the third are proved as well
(section 4). The outbox implements
`AtLeastOnce`, with the rows that exist as committed and those with status
PROCESSED as settled.

Every property has a mutant, a changed definition of the code that a plausible
slip would produce and that TLC refutes: a flag that stays set, a deadline
stored instead of a timeout, an approval that is not consumed, a legacy entry
counted twice, a carry that is dropped, a claim released by somebody else. The
mutated forms stand in the modules beside the definitions they change.

## 4. Proofs

All theorems hold for every value of the constants that the named assumptions
admit. TLC evaluates the assumptions in the runs.

| Module | Theorem | Statement |
|---|---|---|
| `RouterTimelockProofs` | `AccessTyping`, `AccessInvariant` | `AccessSpec => []AccessTypeOK`, `[]AccessInv` |
| | `OneHolderPerRole`, `SuperAdminIsSeated`, `ExpiryViewIsExact` | `AccessSpec => []RoleHasOneHolder`, `[]SuperAdminSeated`, `[]ExpiryViewAgrees` |
| | `TakeoverIsSafe` | `AccessSpec => TakeoverNeedsSilence` |
| | `MultisigTyping`, `GroupStaysWellFormed`, `InstallationsArePaidFor` | `MultisigSpec => []...` |
| | `QuorumAlwaysDecides` | `MultisigSpec => QuorumDecides` |
| | `RouterImplementsAccess` | `RouterSpec => AccessSpec` |
| | `RouterKeepsRoles`, `TimelockTyping`, `EntriesAreSettledOnce`, `PairCapHolds`, `QueuedInstallationsArePaidFor` | `RouterSpec => []...` |
| | `QueuedQuorumDecides` | `RouterSpec => QuorumDecides` |
| | `BatchInvariant` | `BatchSpec => [](TimelockInv /\ GroupInv)` |
| | `BatchesKeepRoles` | `BatchSpec =>` `[]RoleHasOneHolder`, `[]SuperAdminSeated`, `TakeoverNeedsSilence` |
| | `BatchesSettleOnce` | `BatchSpec =>` `[]EntriesSettleOnce`, `[]PairSlippageCapped`, `[]GroupWellFormed` |
| | `BatchesNeedQuorum` | `BatchSpec => [][QuorumStep]_msVars` |
| | `BatchesAreSequences` | `BatchSpec => []PlainBatchIsSequence` |
| `RouterLimitsProofs` | `LimitsInvariant`, `SpendingStaysExact`, `DailySpansAreBounded` | `LimitsSpec => []LimitsInv`, `[]SpendingIsExact`, `[]DailySpanBound` |
| | `RateCapsHold` | `LimitsSpec => RateCapHolds` |
| `RouterServicesProofs` | `MessagesAreExecutedOnce`, `BooksStayCovered` | `ServicesSpec => []MessagesRunOnce`, `[]BooksAreCovered` |
| | `RefundsAreKept`, `DebitsNeedConsent`, `HaltsHold` | `ServicesSpec => RefundsLeaveByRule`, `NoDebitWithoutConsent`, `HaltStopsMoney` |
| | `SwapsLeaveNothing` | `ServicesSpec => SwapsPassThrough`, assuming `Direct` |
| `RouterSendersProofs` | `SwapTermsAreKept` | `ServicesSpec => SwapsKeepTheirTerms`, assuming `Direct` and `AtArmsLength` |
| | `RouterImplementsLimits` | `ServicesSpec => PaymentsImplementLimits` |
| | `RouterKeepsLimits` | `ServicesSpec => [](SpendingIsExact /\ DailySpanBound)`, `RateCapHolds` of the senders' books |
| `ContractsProofs` | `GrantsAreBounds`, `SupplyIsTheSum`, `PermitsAreUsedOnce` | `TokenSpec => []GrantsBound`, `[]SupplyAddsUp`, `[]PermitsRunOnce` |
| | `BalancesMoveByRule` | `TokenSpec => TokensMoveByRule` |
| | `IntentsAreUsedOnce`, `SessionCapsHold`, `MetaPaymentsRunOnce` | `ProxySpec => []...` |
| | `NullifiersAreUsedOnce` | `ZkSpec => []NullifiersPayOnce` |
| | `SignedMessagesRunOnce` | `TokenSpec /\ ProxySpec /\ ZkSpec => []MessagesAreUsedOnce` |
| | `EscrowsPayOnceInTime` | `TimelockSpec => []LocksPayOnceInTime` |
| | `LoanInvariant`, `LoansEarn` | `FlashLoanSpec => []LoanInv`, `[]LoansEarnTheirFees` |
| | `ConsultedPriceIsMean` | `OracleSpec => []ConsultIsTheMean` |
| | `EscrowsAreSettledOnce`, `YieldBooksStayBalanced`, `PrincipalStaysInPlace` | `YieldSpec => []...` |
| `BackendProofs` | `IdempotencyInvariant`, `OneHolderPerKey` | `IdempotencySpec => []IdempotencyInv`, `[]KeyHasOneHolder` |
| | `OutboxInvariant`, `OutboxTyping`, `LeasesAreRespected`, `BackoffIsBounded` | `Spec => []...` |
| | `DeliveryIsAtLeastOnce` | `Spec => DeliveryIsSafe` |
| | `EngineInvariant`, `EngineSettlesOnce`, `EngineReceipts` | `EngineSpec => []EngineIInv`, `[]PaymentsSettleOnce`, `[]ReceiptsVerify` |

**Sums and loops.** Much of what the contracts promise is a sum (a supply, what is
owed to all users, the principal of all open escrows, what was routed in a day) or
the result of a loop over a batch. The models write both with the community
operators, and what is needed of these is proved once. `SumTheorems`: a sum over a
finite set does not depend on the order in which it is taken, changes by the
change of one term, and is monotone and additive over disjoint sets; the
inductions are over subsets, stated as one universal formula each.
`FoldTheorems`: a fold over `1..n` has a trace, a function of the number of rounds
done, so that a property that the first value has and each round keeps holds of
the last. It takes the body of the loop as a constant and is instantiated per loop
(the intents of a batch, the payments of a batch, splits, hops, the entries that are
pruned, what is taken from a queue, the layers of a Merkle tree, the steps of a proof). Sums need finitely many terms: `PaymentsAssumption` and `LedgerAssumption`
say that there are finitely many addresses, as there are at any time.

**Access.** Assumption: `AccessAssumption` (a SuperAdmin and a Pauser role among
any set of roles, any addresses, timeouts and clock bound). None of the
properties is inductive alone. `RoleHasOneHolder` fails from a state in which a flag
survives its holder, so it needs `FlagsMatchRegistry`; and `has_role_internal`
falls back on the admin where a seat is empty, where flags must be absent too.
`SuperAdminSeated` survives `revoke_role` only because that function refuses to
empty the seat, and survives transfers because registry and key move together.
`ExpiryViewAgrees` needs `SwitchArmedWhole`: the view reads absent timestamps as 0,
and differs from `claim_admin` in half-cleared states. `TakeoverNeedsSilence` needs
`ClockCountsFromLife`, which ties the stored heartbeat to the history of signs of
life, and the minimum timeout that `SwitchArmedWhole` keeps. `AccessInv` is their
conjunction with the types. There is one lemma per group of entry points, with a
step per action.

**Group.** Assumption: `MultisigAssumption` (finitely many addresses, so that
quorums can be counted). `GroupInv` joins the types and `GroupWellFormed`;
`MultisigInv` adds `InstallsArePaidFor`, which the lemmas keep apart (`GroupKept`)
because it is the one part that batches break. The lemmas about installation and rotation speak of the
storage alone and know nothing of who calls; they are used for the direct
entry points and for the queued ones.

**Timelock.** Assumption: `TimelockAssumption`. `TimelockInv` joins `AccessInv`,
the types, `EntriesSettleOnce`, `PairSlippageCapped` and one more fact: while
there is no admin the nonce is 0. `initialize` resets the nonce, and without that
fact it could hand out a nonce that is in use. `RouterImplementsAccess` is proved
by cases on the queued action: an executed transfer or appointment is a step that
`RouterAccess` allows whoever the admin now is, and everything else leaves the
access layer alone. All theorems about `AccessSpec` therefore hold of the router with
its queue. `RouterSpec` executes entries one at a time.

**Batches.** Assumptions: those above and `BatchAssumption`; batches may have any
length up to a bound that may be any number. Phase 2 is a loop over storages, and a
storage in the middle of it is the state of no step, so the invariant is restated of
a storage (`IsStorage`: roles and switch, group, parameters). `ActionKeepsStorage`
shows that one action keeps it, whatever was validated before, but for the value of a
pair cap, which phase 1 checks and nothing in the batch can change. The loop then ends
in such a storage (`BatchKeepsStorage`), which also remembers that only an upgrade
installs a hash; as phase 1 has counted the approvals of every upgrade against the group
the batch found, `BatchesNeedQuorum` follows, for installations after a rotation in
the same batch, too. What is not claimed: `InstallsArePaidFor` is false, as
`batch_replay` shows, `RotationStep` speaks of the group before the batch and not
of the one before the second of two rotations, and a batch of two transfers is no
single step of `RouterAccess`. `PlainBatchIsSequence` compares two loops turn by turn:
but for upgrades, validation looks at the action alone.

**Limits.** Assumption: `LimitsAssumption`. The argument is about one sender. Its
record *fits* what it has routed when the window holds the sum of what was routed since it
opened, the day before the opening holds at most one full window, and the volume is the sum of
everything; and no stretch of a day holds more than two windows, wherever it begins.
`LimitsInv` says that every record fits, be it packed, an entry of the earlier version not yet migrated, or
absent; that rolling the window, a payment, a round of a batch and the next ledger
keep a fit is one lemma each, and the actions differ only in which senders they
let do what. Slots are counted beside it: the stored counter of this ledger never
falls behind what the history says was taken.

**Messages of the router.** Assumptions: those of `RouterPayments`, `RouterSwaps`
and `RouterServices`. `MessagesInv` ties every settled quote to the record of used
quotes and every relay to a nonce that has been passed; both only grow. Of the
other calls of the router nothing is needed but that they leave the messages alone,
which is shown call by call, swaps and archival included.

**Money of the router.** Assumptions: the same, with `AccessAssumption`. A call
works on a copy of the books and commits it at its end, so there are three layers.
What a transfer, a trade and a delivery do to each account and to the sum of
refunds. What a call does from its first books to its last: nobody pays but those
who signed, and no more than they have or have allowed, no refund shrinks, and what the
router holds beyond its debts does not fall (`Fair`), or stays as it was (`Steady`, the
swaps). Batches, splits and hops are loops of any length, so these are
invariants of their traces. And a step of the specification: a fair call keeps
`MoneyInv`, the types and `BooksAreCovered`, and obeys the rules of the four action
properties. A DEX is any account that answers anything. On the routes that compare
balances the proofs use only what the router measures itself; the raw route measures
nothing, so its call is fair but for a shortfall, of the input token only, which is at
most what the report overstated (`Short`), and `taken` grows by that much. `SwapsLeaveNothing` has a hypothesis, `Direct`: the
router is neither its own treasury nor the recipient of a swap. Nothing in the code
excludes either, and the fee or output that the router then pays to itself does stay.

**Terms of a swap.** `SwapTermsAreKept` uses the same three layers for the routes with
a floor. Between the pull of the input and the delivery of the output nobody but the
DEXes pays (`Legs`), so the sender is charged the amount at most and loses nothing
of what it buys; what is delivered is shared by recipient, treasury and, if
the recipient refuses it, the sender's refund (`Shares`). How much that is at least is
an invariant of the loops: after `k` splits the total is no less than the sum of the first `k`
floors (`SplitsUphold`), and after a hop the amount is no less than the floor of that
hop (`HopsCarry`). A second hypothesis, `AtArmsLength`, is that no DEX of a swap is its
sender, its recipient or the treasury: such a DEX pays out of the account whose gain
the property measures, in the code as in the model. The property claims nothing of
batches of swaps, where accounts gain and lose by several bargains at once, and nothing of
the raw route, for which `swap_raw` shows that it fails.

**Limits in the router.** Assumptions: the same, with `EntriesAssumption` and
`SwapEntriesAssumption`, by which the payments that the arguments ask for are
entries of their kind. A call of the router and the action of
`RouterLimits` it stands for run side by side: `Leads(b, c, d)` says that the call
leads from ledger `b` to ledger `c`, and that unless it refused, the senders' part of `c`
is `d`, what `RouterLimits` makes of the senders' part of `b`. Charging and counting lead
to what they lead to there; transfers, trades and deliveries spare that part altogether
(`Spares`). A batch is two loops, whose rounds go together (`RoundsTogether`); the
splits and hops of one swap are one payment there. What remains is that a payment a
route accepts is an entry, since every route refuses amounts of zero, the raw route
through what the DEX reports (`min_amount_out` is positive), and a batch of swaps
swap by swap (`BatchAdmits`). In the run a sender that only ever pays
with a slot would be caught if it did not: its entries are not among the uncharged
ones. The theorems about `LimitsSpec` then hold of the
router, whose constants satisfy `LimitsAssumption` (`LimitsAreParameters`); the
instance of `RouterLimitsProofs` that brings them has definitions of its own, which the
lemmas named `Same...` compare with those of `Limits`.

**Flash loans.** Assumption: `LoanAssumption`. `LoanInv` says that the lock is held
exactly while there is a frame, and that there is then one: of a second frame
nothing would say what the outer one required. What a borrower does takes nothing
out of the reserve but the loan. That a larger loan never costs less is arithmetic
with three roundings upward, across the kink of the curve.

**Signed messages.** Assumptions: `TokenAssumption`, `ProxyAssumption`,
`ZkAssumption`. What is used is tied to what its use leaves behind: a permit to the
owner's nonce, a meta payment and an intent to the sender's, a nullifier to its
mark. Intents run in batches in which a failing call undoes itself alone, so theirs is an
invariant of the rounds of the batch, and so is that of the sessions.
`SignedMessagesRunOnce` puts the four together.

**Token.** `SupplyIsTheSum`: the supply is the sum of the balances, where a transfer
is two updates one after the other, as in the code, so that one to oneself is
covered. A grant bounds what was moved because `approve` and `permit` replace an
allowance and restart its count together. `BalancesMoveByRule` is about single steps:
an entry point is walked through its guards, and a batch mint, which is a loop, only
raises balances of accounts that may receive; an allowance that has run out reads as zero.

**Escrows.** `timelock_escrow` (`LockAssumption`): an escrow that paid is `claimed`,
and the contract holds the sum of the unclaimed ones; it may itself be
a party of a lock. `yield_escrow` (`YieldAssumption`), in three steps.
`SettleInv`: what an escrow paid, and when, follows from its status. `CountersInv`: the
number of open escrows and the principal per token are those of the open escrows.
`ReachInv`: vault and pools together hold the principal of the open escrows, up to the
losses of the pools; a rebalancing moves capital between them in two loops,
over what is withdrawn and over what is deposited, and an unwinding takes it all back.
Of a token that was unwound everything is in the vault from then on, so that
`PrincipalStaysInPlace` follows by cases: settlements reach the pools, or the token was
unwound, or the emergency was that of others and its part in the pools is `Stranded`.

**Oracle.** Assumption: `OracleAssumption`; the accumulator must be wide enough for
the prices of one window (`MaxPrice * MaxWindow < Word`): `MAX_PRICE` is an i128,
`MAX_WINDOW_SECONDS` less than 2^20, and the accumulator has 256 bits. `OracleInv` contains no sum. It says that
the observations ever recorded form a chain, in which each accumulates, modulo `Word`, its
predecessor's price over the time between, and that those still stored are the end of that
chain. From it, the difference of two accumulated values is, modulo `Word`, the sum of the prices in
force over the seconds between; that sum is smaller than `Word`, so the wrap disappears,
and the quotient is the mean.

**Idempotency keys.** Assumption: `IdempotencyAssumption` (finitely many
instances). `IdempotencyInv` says that what a request has counted is stored under
its claim where it counted it, for as long as it relies on it. A call changes one
record of one instance and spares what others have there. Two holders have
majorities, majorities intersect (a lemma on cardinalities), and an instance
has one record.

**Outbox.** Assumption: `OutboxAssumption` (rows numbered by naturals, positive
times and bounds). `LeaseRespected` is not inductive, since nothing in it says why
another worker's claim fails: `LeaseCounts` adds that the lock of a row that is
held is the lease less the age of the batch, so that a claim by a batch of any
other age fails until then. `BackoffIsCurrent` needs most: a candidate that is
waiting in a batch may be failed by others before it is claimed. `CountsFollow`
says that after one such failure the row is due later than the tick of the
batch, so it cannot be claimed with a count two behind; this uses that a delay is
at least one tick (`DelayBounds`), and how long ago the failure was
(`waited`). The effect of a query on its row and on the other workers is proved
once (`EffectOnRows`, `OthersKeep`) and used for answered, rejected and
interrupted queries alike; what is left for each action is the worker itself.
`DeliveryIsAtLeastOnce` follows: only a worker in `marking` settles a row, and it
has delivered it.

**Merkle tree.** The loops of the code are folds, and three lemmas say what comes out
of them for any number of leaves. `TreeIsBuilt`: each layer is made of the one below
and the last has one node; the fold has as many rounds as there are leaves, which is
enough because a layer is shorter than the one below (`NextIsShorter`).
`ProofsLeadToRoot`: on the walk from a leaf, node and sibling hash to the node above
(`SiblingsJoin`, also where the last node of an odd layer is its own sibling), so
that the verifier's hash is, round by round, the node the prover is at.
`ProofsFitOneLeaf`: as hashes do not collide, two verifications with one proof that end in
one root agree in every round downwards to the leaf.

**Settlement engine.** Assumption: `EngineAssumption` (every payload has a shard;
positive batch sizes; `NoId` is no number). Neither property is inductive.
Nothing in `PaymentsSettleOnce` keeps a run from settling what another run has in
hand, or a queue from holding what is settled; `ReceiptsVerify` says nothing of what
a run has settled and not yet put into a batch. `EngineIInv` has four families of
sequences of tracking ids (queues, ids in hand, ids settled by runs, batches).
Each holds an id once at most (`AtMostOnce`), and the status of an item says which
holds it: PENDING and FAILED a queue, PROCESSING a run's hand, SETTLED a run's list or a batch
and not both, DLQ none. So what a step takes from one family was in no other
place, all that is taken from a queue waits (`AllTaken`), and an item at the head of a
run has not been paid for. What happens to a family when ids join or leave is proved once
for any family (`FirstGo`, `OneMore`, `AllCome`, `AllJoin`, `AllGo`). `KeysAreRight` says that
whatever memory, Redis or a reply on its way has on record for a key was made
for it, which restarts do not undo, as ids are never used again. `ReceiptsAreRight` says that the chain
is intact and that a receipt in a batch verifies for the leaf its item has now: a
leaf contains `updatedAt`, and what is settled is not touched again.

**Left to TLC.**

* Liveness (`DeliveryHappens`) and what is possible (`RefundClaimable`, which speaks of
  `ENABLED`): out of the prover's reach.
* Recursion: the 256-bit arithmetic (`ArithmeticIsExact`) is defined by recursion and
  by bits.

## 5. Not modelled

Of the contracts:

* **Fee governance.** `configure_governance` (1430) and `propose_fee_change`
  (1449) store proposals; the vote and execution functions that README.md:752-760
  describes do not exist, so there is no behaviour to check.
* **Price feed.** `get_price` validates one external answer and keeps nothing; no
  payment path calls it. It accepts future timestamps and negative fallbacks.
* `axelar.rs` and `lib_head.rs` are not modules of the crate, so the contract does
  not contain them; `StellarPaymentBridge.sol`, the other side of that bridge, has
  an owner and a table of destinations and forwards the rest.
* `set_kyc_config` (see section 2), the rebalancing threshold of `yield_escrow`,
  which only a view reads, and `median`, `exp2_q64` and `oracle_price_digest` of
  `twap_oracle`, which nothing calls.
* The archive root is compared with nothing, so of a commitment only its epoch
  and its count are left. The pairing check of `zk_payment` is a constant relation.
* `claim_all_refunds` asks for the user's signature and calls
  `withdraw_refund`, which asks again; whether a host accepts the second request
  is left to the host, and the model follows the test at `test.rs:3812`,
  which expects success.
* Of `ethnum-patch`: formatting, serde, conversions to floats and the bindings to
  LLVM intrinsics. There are two copies of the crate with identical sources;
  the map names that of `payment_router`. The arithmetic is that of a release build with
  overflow checks, as `Cargo.toml` sets it.

Of the server:

* **Idempotency keys without Redis** (a map in the memory of one process). And the
  model's `Holding` ends with the five minutes of a claim: a handler that outlives
  them can be run a second time, and its own success is then answered with 503.
* **Event-sourced payments.** Their routes (`eventSourcedPaymentRoutes.js`) are not
  mounted by the server; the guarantee of a version is the unique index on
  (aggregateId, sequence).
* **Webhooks and dead letters**: claim, deliver, back off and retry over Bull
  queues, whose library keeps the state; the protocol is that of the outbox.
* **Rate limiters**: each is one Lua script that Redis runs atomically.
* **Archival and reconciliation, listener and streams, rules, fraud and analytics,
  HTTP surface, WebAuthn, TLS**: queries over the database and I/O.
* **Clock skew** between workers: `SettlementOutbox` has one clock. A clock that
  runs ahead takes leases over early, which costs duplicates but no message.

The dashboard and the deployment scripts keep no protocol state.

## 6. Where code and documentation disagree

Shown by a run:

* **`claim_rights`**: `claim_admin` writes `Admin` only. Unlike `set_admin` and
  `transfer_admin` it leaves the SuperAdmin role, and with it freezing and role
  administration, with the previous holder; its doc says it "transfers admin
  rights to `claimant`" (2409).
* **`batch_replay`**: a batch validates all entries before it applies the first,
  so two queued installations of one artifact pass on the same approvals;
  "reaching the threshold authorizes exactly one installation" (4245).
* **`swap_raw`**: `route_payment_with_swap_raw` lets the DEX pay the router and then
  pays the recipient out of the sender's own tokens (2926): the sender pays twice,
  the output stays behind; the doc says it "routes the resulting `token_out` to
  the recipient" (2852).
* **`outbox_lease`**: `leaseUntil` counts from the tick at the start of the batch
  (`settlementOutbox.js:89`), so the rows at its end are leased for less than a
  publication takes, however long the configured lease, and two workers publish
  one message although nothing has failed. "A lease must outlast the configured
  publish timeout" (`settlementOutbox.js:57`); leases are "to prevent normal
  concurrent duplicates" (`docs/transactional-outbox.md:37`). With the defaults of
  25 rows, 60 s of lease and 10 s of timeout, a slow broker is enough.
* **`yield_release`**: the first release of a token harvests the interest of all
  its positions and pays out one share, so that the next one fails until the
  pools have accrued as much again (`yield_escrow/src/lib.rs:790`); "once
  `release_ledger` is reached anybody ... may settle the position" (731).

Seen in reading, and not shown by a run of its own:

* With a governance contract set, the admin still changes fees through the queue,
  because `execute_action` (970) applies a queued `SetFeeConfig` without
  `require_fee_authority`; the doc says "only the governance contract can update
  fees" (1411).
* The SwapsOnly level of the pause stops neither raw nor multi-hop swaps, which
  ask for the full halt only; `set_pause_level` documents it as blocking DEX
  swaps (1590).
* `route_payment_with_swap_raw` takes any contract for a DEX, without registry, guard
  or comparison of balances, and pays the unused input the DEX reports to the sender
  out of the router's account (2922-2924), which also holds the refunds. Where the
  report is not true, somebody's refund can no longer be paid in full, although
  refunds can be withdrawn "at any time" (`README.md:738`): `RefundClaimable` asks it
  only while nothing was taken. The doc has the unused input "credited to the sender's
  refund balance" (2854-2856); it is transferred.
* The keys of signed messages are not bound to accounts. A relayed payment (3063-3126)
  and the proxy's intents and meta payments verify their signature under a key that
  comes with the message and compare it with nothing
  (`payment_proxy/src/lib.rs:540-570, 622-655`), so any key's signature passes. What
  limits a relay or a meta payment is the nonce and the allowance that the account has
  given; an intent moves no tokens. `NoDebitWithoutConsent` asks for no more than
  that, and `MessagesAreUsedOnce` counts messages by the account they name.
* `execute_batch_tolerant` promises that a call that fails, by "signature mismatch" for
  one, does not affect the others (`payment_proxy/src/lib.rs:720-735`). It calls
  `execute_single_meta_tx` as a plain function, and the host traps on a signature that
  does not verify, which undoes the whole batch.
* `emergency_unwind_token` takes back what the pools hold of one token and puts the
  contract into the emergency of all (`yield_escrow/src/lib.rs:995-1009`), which does not
  end and in which no call asks the pools any more. The principal of other tokens
  stays in the pools for good, and their escrows are settled with what the
  vault has, in full or short (759).
* `prune_archived_entries` deletes whatever leaf it is passed once an epoch
  exists; the doc says it deletes "entries committed via commit_archive_root"
  (4391). Archiving a window that has not been migrated lets its sender spend it
  anew. `RefundsLeaveByRule` and `SpendingIsExact` are stated for the rule as coded.
* A lending protocol that is replaced keeps owing its principal, and the router
  can no longer call it back (2049).
* `initialize` and queued fee changes accept negative fees and fees beyond 100%
  (707). Any user's payment renews the heartbeat of the switch (2753), which is
  declared intent.
* The proxy's session cap counts payments and not multi-hop or split swaps
  (`payment_proxy/src/lib.rs:52-55`, 846-921).
* The oracle's breaker stops all pairs, though its doc speaks of "the pair", and a
  real jump beyond 100% leaves it tripped.
* Decimal constants are parsed by a multiplication that looks at too few bits
  (`parse.rs`, `const_from_str_prefixed`): `uint!` and `int!` refuse 2^128 + 4. The
  model states what holds (`ConstReadsAgree`). The docs of `div_euclid` and `rem` of
  `I256` say that overflow panics, where MIN / -1 wraps.
* The engine's shards promise "strict FIFO ordering per account"
  (`outboxEngine.js:13`), but a retry goes to the end of the queue and two runs on a
  shard overlap. With Redis, two requests with one key may both find nothing and
  both be enqueued, although enqueueing is called atomic (143), and after a restart
  a key answers with a payment that was lost with the memory: `PaymentsSettleOnce`
  asks for one payment per key only without Redis.
* The read model of the event-sourced payments keeps one checkpoint although
  sequences count per aggregate. `rebuildAllReadModels` deletes every row and
  re-creates those whose `currentState` is not "unknown" (`readModelUpdater.js:236`),
  but replaying events sets `status` and leaves `currentState` as it started, so no
  row comes back.

## 7. What is done and what is left

Done: every contract with state of its own, the three protocols of the server
that retry, and proofs of every safety property that the passing runs check but the
recursive arithmetic and `RefundClaimable`. What could follow, in this
order: the idempotency keys without Redis; `set_kyc_config` as an action; the event store
and its read model, if its routes are mounted.

## 8. Running it

    tlc -config RouterAccess.cfg MCRouterAccess.tla
    tlapm RouterTimelockProofs.tla

`PROJECT.json` names the module and the configuration of each run and maps every
definition to the lines it models. `backend` and `contracts` are the longest runs,
with a few minutes each.
