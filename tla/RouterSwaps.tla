---------------------------- MODULE RouterSwaps ----------------------------
(***************************************************************************)
(* The swap routes of the payment router: single-hop swaps and batches of  *)
(* them, swaps split over several DEXes, multi-hop swaps and the raw route *)
(* (lib.rs:2861-2935 and 3150-3713, swaps.rs), on top of the payments.     *)
(*                                                                         *)
(* A DEX is an external contract: an address that keeps what it is sent,   *)
(* sends what it likes, and reports what it likes.  Its answer to one call *)
(* is a record of what it moved and what it said.  Through the `swap`      *)
(* interface it sells all of its input; through the older one of the       *)
(* multi-hop and raw routes it may return a part.  The raw route believes  *)
(* the answer; the others measure it.                                      *)
(***************************************************************************)
EXTENDS RouterPayments

CONSTANTS
    Dexes,          \* the addresses of DEX adapters
    SwapArgs,       \* arguments of route_payment_with_swap
    SwapBatches,    \* arguments of route_payments_with_swap
    SplitArgs,      \* arguments of route_split_payment_with_swap
    HopArgs,        \* arguments of route_multihop_swap
    RawArgs,        \* arguments of route_payment_with_swap_raw
    Answers,        \* of a DEX: [out, unused, told_out, told_unused]
    MaxSlippage     \* max_slippage_bps of every pair

\* types::SwapPayment, and whether its recipient accepts the transfer.
SwapPayment == [sender : Addr, recipient : Account, dex : Addr, sell : Token,
                buy : Token, amount : Nat, min_out : Nat, expected : Nat,
                deadline : Nat, delivered : BOOLEAN]

\* The arguments of the split, the multi-hop and the raw route.
SplitPayment == [sender : Addr, recipient : Account, sell : Token, buy : Token,
                 amount : Nat, delivered : BOOLEAN,
                 splits : Seq([dex : Addr, weight : Nat, min_out : Nat])]
HopPayment == [sender : Addr, recipient : Account, dex : Addr, amount : Nat,
               delivered : BOOLEAN, path : Seq(Token), floors : Seq(Nat)]
RawPayment == [sender : Addr, recipient : Account, dex : Addr, sell : Token,
               buy : Token, amount : Nat, min_out : Nat, delivered : BOOLEAN]

ASSUME SwapsAssumption ==
    /\ Dexes \subseteq Addr
    /\ SwapArgs \subseteq SwapPayment
    /\ SwapBatches \subseteq Seq(SwapPayment)
    /\ SplitArgs \subseteq SplitPayment
    /\ HopArgs \subseteq HopPayment
    /\ RawArgs \subseteq RawPayment
    /\ Answers \subseteq [out : Nat, unused : Nat, told_out : Nat, told_unused : Nat]
    /\ MaxSlippage \in 0..BpsDivisor

ASSUME SwapEntriesAssumption ==
    /\ \A s \in HopArgs : IsCharged(s.sender, s.amount)
    /\ \A s \in SwapArgs \cup SplitArgs : IsUncharged(s.sender, s.amount)
    /\ \A ss \in SwapBatches :
          /\ Len(ss) <= MaxBatch
          /\ \A i \in DOMAIN ss : IsUncharged(ss[i].sender, ss[i].amount)
    /\ \A s \in RawArgs, ans \in Answers : IsUncharged(s.sender, ans.told_out)

VARIABLES
    dexes,          \* the addresses with DataKey::RegisteredDex
    lastSwap        \* history: the swap of the last call, NoSwap if none

swapVars == <<dexes, lastSwap>>

NoSwap == [kind |-> "none"]

-----------------------------------------------------------------------------
(* Helpers.                                                                *)

\* The amounts a route takes.
within_limits(n) == n > 0 /\ n <= MaxAmount /\ n >= MinLimit

\* A payment's ends, as every route checks them.
may_receive(sender, recipient) == sender # recipient /\ recipient \notin blacklist

\* What a sender owns goes to the router.
pull(b, sender, t, n) ==
    [b EXCEPT !.ok = @ /\ b.balance[t][sender] >= n,
              !.balance = transfer(@, t, sender, Router, n)]

\* One call of a DEX with `n` of `sell` from the router's account.
trade(b, dex, sell, buy, n, out, unused) ==
    [b EXCEPT
       !.ok = @ /\ unused <= n /\ b.balance[buy][dex] >= out,
       !.balance = transfer(transfer(transfer(@, sell, Router, dex, n),
                                     sell, dex, Router, unused),
                            buy, dex, Router, out)]

\* The output leaves the router: the fee, then the rest, which stays and is
\* credited to the sender when the recipient cannot take it.
deliver(b, volume, s, t, n) ==
    LET fee == calculate_fee(n, volume)
        rest == n - fee
        paid == transfer(b.balance, t, Router, Treasury, fee)
    IN [b EXCEPT
          !.balance = IF s.delivered THEN transfer(paid, t, Router, s.recipient, rest)
                      ELSE paid,
          !.refund = IF s.delivered \/ rest = 0 THEN @
                     ELSE credit_refund_balance(@,
                            [sender |-> s.sender, token |-> t, amount |-> n], rest)]

slippage_floor(expected) == Max({1, expected - (expected * MaxSlippage) \div BpsDivisor})

\* Volume before the call decides the fee.
volume_of(b, a) == Limits!load_user_record(b, a).volume

-----------------------------------------------------------------------------
(* Single-hop swaps.                                                       *)

\* Mutant: the freeze is left to the direct payments.
swaps_open_frozen == admin # NoAddr /\ pauseLevel = "None"

\* Frozen, or at any pause level but None, they are closed.
swaps_open == admin # NoAddr /\ ~frozen /\ pauseLevel = "None"

swap_admissible(s) ==
    /\ s.sell # s.buy /\ s.min_out > 0
    /\ s.deadline # 0 => now <= s.deadline
    /\ s.dex \in dexes
    /\ may_receive(s.sender, s.recipient)
    /\ within_limits(s.amount)

\* Mutant: what counts is what the DEX says it delivered.
output_told(s, ans) ==
    /\ ans.told_out >= s.min_out
    /\ s.expected > 0 => ans.told_out >= slippage_floor(s.expected)

\* Both guards look at what the router's balance grew by.
output_accepted(s, ans) ==
    /\ ans.out >= s.min_out
    /\ s.expected > 0 => ans.out >= slippage_floor(s.expected)

process_single_swap_payment(b, s, ans) ==
    LET charged_ == Limits!accrue_user_record(b, s.sender, s.amount)
        pulled == pull(charged_, s.sender, s.sell, s.amount)
        traded == trade(pulled, s.dex, s.sell, s.buy, s.amount, ans.out, 0)
    IN [deliver(traded, volume_of(b, s.sender), s, s.buy, ans.out)
          EXCEPT !.ok = @ /\ swap_admissible(s) /\ output_accepted(s, ans)]

\* The signatures a swap call needs; a DEX answers for itself.
SwapCall(senders, ds) ==
    /\ other_call(IF senders = {} THEN NoAddr ELSE CHOOSE a \in senders : TRUE)
    /\ consent' = senders \cup ds
    /\ UNCHANGED <<rateLimit, exempt, allowance, messageVars, blacklist, dexes>>

\* One swap of a batch, with the answer it gets.
swap_of_batch(b, m) == process_single_swap_payment(b, m.swap, m.answer)

route_payments_with_swap(ss, as) ==
    /\ swaps_open
    /\ SwapCall({ss[i].sender : i \in DOMAIN ss}, {ss[i].dex : i \in DOMAIN ss})
    /\ CommitLedger(FoldLeft(swap_of_batch, Ledger,
          [i \in DOMAIN ss |-> [swap |-> ss[i], answer |-> as[i]]]))
    /\ lastSwap' = [kind |-> "batch"]
    /\ UNCHANGED taken

\* The route of one swap; its history is kept.
route_payment_with_swap(s, ans) ==
    /\ swaps_open
    /\ SwapCall({s.sender}, {s.dex})
    /\ CommitLedger(process_single_swap_payment(Ledger, s, ans))
    /\ lastSwap' = [kind |-> "single", arg |-> s, min_out |-> s.min_out]
    /\ UNCHANGED taken

-----------------------------------------------------------------------------
(* Split swaps.                                                            *)

split_admissible(s) ==
    /\ s.sell # s.buy /\ s.splits # <<>>
    /\ \A i \in DOMAIN s.splits :
          /\ s.splits[i].weight > 0 /\ s.splits[i].min_out > 0
          /\ s.splits[i].dex \in dexes
    /\ MapThenSumSet(LAMBDA i : s.splits[i].weight, DOMAIN s.splits) = BpsDivisor
    /\ may_receive(s.sender, s.recipient)
    /\ within_limits(s.amount)

\* The splits of `s` one by one, with the answers they get.
SplitLegs(s, as) ==
    [i \in DOMAIN s.splits |->
       [dex |-> s.splits[i].dex, weight |-> s.splits[i].weight,
        min_out |-> s.splits[i].min_out, is_last |-> i = Len(s.splits),
        sell |-> s.sell, buy |-> s.buy, amount |-> s.amount, out |-> as[i].out]]

\* Mutant: the last share is rounded like the others.
split_share_rounded(h, e) == (e.amount * e.weight) \div BpsDivisor

\* The last split takes what rounding left over.
split_share(h, e) ==
    IF e.is_last THEN e.amount - h.allocated
    ELSE (e.amount * e.weight) \div BpsDivisor

\* One split after those that led to `h`.
split(h, e) ==
    LET share == split_share(h, e)
        traded == trade(h.ledger, e.dex, e.sell, e.buy, share, e.out, 0)
    IN [ledger |-> [traded EXCEPT !.ok = @ /\ share > 0 /\ e.out >= e.min_out],
        allocated |-> h.allocated + share,
        total |-> h.total + e.out]

process_split_payment_with_swap(b, s, as) ==
    LET charged_ == Limits!accrue_user_record(b, s.sender, s.amount)
        start == [ledger |-> pull(charged_, s.sender, s.sell, s.amount),
                  allocated |-> 0, total |-> 0]
        end == FoldLeft(split, start, SplitLegs(s, as))
    IN deliver(end.ledger, volume_of(b, s.sender), s, s.buy, end.total)

route_split_payment_with_swap(s, as) ==
    /\ swaps_open
    /\ split_admissible(s)
    /\ SwapCall({s.sender}, {s.splits[i].dex : i \in DOMAIN s.splits})
    /\ CommitLedger(process_split_payment_with_swap(Ledger, s, as))
    /\ lastSwap' = [kind |-> "split", arg |-> s,
                    min_out |-> SumFunctionOnSet(
                                  [i \in DOMAIN s.splits |-> s.splits[i].min_out],
                                  DOMAIN s.splits)]
    /\ UNCHANGED taken

-----------------------------------------------------------------------------
(* Multi-hop swaps.                                                        *)

hops_admissible(s) ==
    /\ Len(s.path) \in 3..5 /\ Len(s.floors) = Len(s.path) - 1
    /\ IsInjective(s.path)
    /\ \A i \in DOMAIN s.floors : s.floors[i] > 0
    /\ s.dex \in dexes
    /\ may_receive(s.sender, s.recipient)
    /\ within_limits(s.amount)
    /\ verify_kyc_for_amount(s.sender, s.amount)

\* What the DEX says must be what the balances say, and reach the floor.
hop_accepted(ans, floor, n) ==
    /\ ans.told_unused <= n /\ ans.unused = ans.told_unused
    /\ ans.told_out = ans.out /\ ans.out >= floor

\* The hops of `s` one by one, with the answers they get.
HopLegs(s, as) ==
    [i \in DOMAIN s.floors |->
       [from |-> s.path[i], to |-> s.path[i + 1], dex |-> s.dex, sender |-> s.sender,
        floor |-> s.floors[i], answer |-> as[i]]]

\* One hop: unused input goes back to the sender, the output goes on.
hop(h, e) ==
    LET ans == e.answer
        traded == trade(h.ledger, e.dex, e.from, e.to, h.amount, ans.out, ans.unused)
    IN [ledger |-> [traded EXCEPT
                      !.ok = @ /\ hop_accepted(ans, e.floor, h.amount),
                      !.balance = transfer(@, e.from, Router, e.sender, ans.told_unused)],
        amount |-> ans.out]

route_multihop_swap(s, as) ==
    LET charged_ == Limits!charge_and_accrue(Ledger, s.sender, s.amount)
        start == [ledger |-> pull(charged_, s.sender, s.path[1], s.amount),
                  amount |-> s.amount]
        end == FoldLeft(hop, start, HopLegs(s, as))
    IN /\ payment_heartbeat(s.sender)
       /\ hops_admissible(s)
       /\ CommitLedger(deliver(end.ledger, volume_of(Ledger, s.sender), s,
                               s.path[Len(s.path)], end.amount))
       /\ consent' = {s.sender, s.dex}
       /\ lastSwap' = [kind |-> "multihop", arg |-> s,
                       min_out |-> s.floors[Len(s.floors)]]
       /\ UNCHANGED <<rateLimit, exempt, allowance, taken, messageVars, blacklist, dexes>>

-----------------------------------------------------------------------------
(* The raw route.                                                          *)

\* The DEX moved what it says.
does_as_it_says(ans) == ans.told_out = ans.out /\ ans.told_unused = ans.unused

\* Any DEX will do, and nothing is measured: what it reports is what counts.
\* The unused input it reports is paid to the sender out of the router's
\* account, which `taken` records as far as it did not come in; the payment
\* that follows is one of the sender's own `buy` tokens (lib.rs:2917-2935).
route_payment_with_swap_raw(s, ans) ==
    LET put == [Ledger EXCEPT
                  !.ok = balance[s.sell][s.sender] >= s.amount,
                  !.balance = transfer(@, s.sell, s.sender, s.dex, s.amount)]
        spared == [put EXCEPT
                     !.ok = @ /\ put.balance[s.sell][s.dex] >= ans.unused,
                     !.balance = transfer(@, s.sell, s.dex, Router, ans.unused)]
        given == [spared EXCEPT
                    !.ok = @ /\ spared.balance[s.buy][s.dex] >= ans.out,
                    !.balance = transfer(@, s.buy, s.dex, Router, ans.out)]
        back == [given EXCEPT
                   !.ok = @ /\ given.balance[s.sell][Router] >= ans.told_unused,
                   !.balance = transfer(@, s.sell, Router, s.sender, ans.told_unused)]
    IN /\ admin # NoAddr /\ ~frozen /\ ~is_paused
       /\ may_receive(s.sender, s.recipient)
       /\ s.min_out > 0
       /\ within_limits(s.amount)
       /\ verify_kyc_for_amount(s.sender, s.amount)
       /\ ans.told_out >= s.min_out
       /\ SwapCall({s.sender}, {s.dex})
       /\ CommitLedger(process_single_payment(back,
                          [sender |-> s.sender, recipient |-> s.recipient,
                           token |-> s.buy, amount |-> ans.told_out,
                           delivered |-> s.delivered]))
       /\ taken' = [taken EXCEPT ![s.sell] = @ + Max({ans.told_unused - ans.unused, 0})]
       /\ lastSwap' = [kind |-> "raw", arg |-> s, min_out |-> s.min_out,
                       honest |-> does_as_it_says(ans)]

-----------------------------------------------------------------------------
(* The registry, and the rest of the router.                               *)

register_dex(d) ==
    /\ admin # NoAddr /\ other_call(admin)
    /\ dexes' = dexes \cup {d}
    /\ consent' = {admin}
    /\ UNCHANGED <<moneyVars, messageVars, senderVars, blacklist>>

deregister_dex(d) ==
    /\ admin # NoAddr /\ other_call(admin)
    /\ dexes' = dexes \ {d}
    /\ consent' = {admin}
    /\ UNCHANGED <<moneyVars, messageVars, senderVars, blacklist>>

SwapsInit ==
    /\ PaymentsInit
    /\ dexes = {}
    /\ lastSwap = NoSwap

Answered(n) == [1..n -> Answers]

SwapStep ==
    \/ \E s \in SwapArgs, ans \in Answers : route_payment_with_swap(s, ans)
    \/ \E ss \in SwapBatches : \E as \in Answered(Len(ss)) :
          route_payments_with_swap(ss, as)
    \/ \E s \in SplitArgs : \E as \in Answered(Len(s.splits)) :
          route_split_payment_with_swap(s, as)
    \/ \E s \in HopArgs : \E as \in Answered(Len(s.floors)) : route_multihop_swap(s, as)
    \/ \E s \in RawArgs, ans \in Answers : route_payment_with_swap_raw(s, ans)

RegistryStep ==
    /\ \E d \in Dexes : register_dex(d) \/ deregister_dex(d)
    /\ lastSwap' = NoSwap

\* No swap: the steps of RouterPayments.
Swapless == lastSwap' = NoSwap /\ UNCHANGED dexes

SwapsNext == SwapStep \/ RegistryStep \/ (PaymentsNext /\ Swapless)

SwapsSpec == SwapsInit /\ [][SwapsNext]_<<paymentVars, swapVars>>

-----------------------------------------------------------------------------
(* Properties.                                                             *)

\* What the router holds beyond the refunds it owes.
Surplus(t) == balance[t][Router] - Owed(t)

\* The router is a conduit: whatever the DEXes deliver and report, a swap
\* through the single, batch, split and multi-hop routes neither touches what
\* the router holds for earlier refunds nor leaves anything behind in its
\* account (the balance deltas of lib.rs:3236-3274 and 3578-3622,
\* swaps.rs:89-168).
SwapsPassThrough ==
    [][ lastSwap'.kind \in {"single", "batch", "split", "multihop"} =>
          \A t \in Token : Surplus(t)' = Surplus(t) ]_<<paymentVars, swapVars>>

\* What a swap of `s` brought: the sender gave at most the input, and nothing
\* of the output token it already had, and the recipient, the treasury and the
\* refund ledger share at least `n` of that token.
Bargain(s, sell, buy, n) ==
    /\ balance[sell][s.sender] - balance'[sell][s.sender] <= s.amount
    /\ balance'[buy][s.sender] >= balance[buy][s.sender]
    /\ (balance'[buy][s.recipient] - balance[buy][s.recipient])
         + (balance'[buy][Treasury] - balance[buy][Treasury])
         + (refund'[buy][s.sender] - refund[buy][s.sender]) >= n

\* A swap through the single, split and multi-hop routes keeps the sender's
\* terms, whatever the DEXes deliver and report; `min_amount_out` and the
\* quoted slippage are floors on what really arrived (lib.rs:3164-3171).
SwapsKeepTheirTerms ==
    [][ LET s == lastSwap'.arg
        IN CASE lastSwap'.kind \in {"single", "split"} ->
                  Bargain(s, s.sell, s.buy, lastSwap'.min_out)
             [] lastSwap'.kind = "multihop" ->
                  Bargain(s, s.path[1], s.path[Len(s.path)], lastSwap'.min_out)
             [] OTHER -> TRUE ]_<<paymentVars, swapVars>>

\* The raw route "Swaps `token_in` through a caller-supplied DEX path and
\* routes the resulting `token_out` to the recipient" (lib.rs:2852-2853): with
\* a DEX that does as it says, the sender's terms are kept as well.
RawSwapsKeepTheirTerms ==
    [][ lastSwap'.kind = "raw" /\ lastSwap'.honest =>
          Bargain(lastSwap'.arg, lastSwap'.arg.sell, lastSwap'.arg.buy,
                  lastSwap'.min_out) ]_<<paymentVars, swapVars>>
=============================================================================
