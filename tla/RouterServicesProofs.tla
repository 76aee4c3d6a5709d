------------------------ MODULE RouterServicesProofs ------------------------
(***************************************************************************)
(* What the payment router does with messages and with money, for all      *)
(* addresses, tokens, payments, batches, quotes, relays and swaps, and for *)
(* whatever the DEXes and the lending protocols do.                        *)
(*                                                                         *)
(* First the messages: a quote and a relayed payment run once, because     *)
(* they enter the record of used quotes, or pass a nonce, that only grows. *)
(* Of the other calls nothing is needed but that they leave these alone.   *)
(*                                                                         *)
(* Then the money.  A call works on a copy of the ledger (`IsMoney`) and   *)
(* commits it at its end, so the argument has three layers:                *)
(*   - a transfer, a trade and a delivery: what each does to every account *)
(*     and to the sum of the refunds (Transfers to Deliveries);            *)
(*   - a call: from its first ledger to its last nobody pays but those who *)
(*     signed, and no more than they have; no refund shrinks; the router   *)
(*     can spare as much as before (`Fair`), or exactly as much            *)
(*     (`Steady`); after a raw swap it may be short of what it paid back   *)
(*     without receiving it (`Short`).  Batches, splits and hops are loops *)
(*     of any length, so these are invariants of the traces of             *)
(*     FoldTheorems;                                                       *)
(*   - a step of the specification: a fair call keeps `MoneyInv` and obeys *)
(*     the rules of the action properties (CallIsSound, YieldIsSound ...). *)
(***************************************************************************)
EXTENDS RouterServices, SumTheorems, TLAPS

-----------------------------------------------------------------------------
(* The messages.                                                           *)

MessagesInv ==
    /\ metaNonce \in [Addr -> Nat]
    /\ settled \in [Quotes -> Nat]
    /\ relayed \in [Relays -> Nat]
    /\ MessagesRunOnce

LEMMA MessagesInitially == ServicesInit => MessagesInv
  BY DEF ServicesInit, SwapsInit, PaymentsInit, MessagesInv, MessagesRunOnce

LEMMA MessagesRest ==
    ASSUME MessagesInv, UNCHANGED messageVars
    PROVE  MessagesInv'
  BY DEF messageVars, MessagesInv, MessagesRunOnce

-----------------------------------------------------------------------------
(* The two calls that execute a message.                                   *)

LEMMA QuoteKeeps ==
    ASSUME MessagesInv, NEW q \in Quotes, route_payment_with_quote(q)
    PROVE  MessagesInv'
  <1>1. /\ <<q.maker, q.quote_id>> \notin usedQuotes
        /\ usedQuotes' = usedQuotes \cup {<<q.maker, q.quote_id>>}
        /\ settled' = [settled EXCEPT ![q] = @ + 1]
        /\ metaNonce' = metaNonce /\ relayed' = relayed
    BY DEF route_payment_with_quote, remember_quote
  <1>2. ASSUME NEW k \in Quotes, k.maker = q.maker, k.quote_id = q.quote_id
        PROVE  settled[k] = 0
    BY <1>1, <1>2 DEF MessagesInv, MessagesRunOnce
  <1>3. settled'[q] = 1 /\ \A k \in Quotes \ {q} : settled'[k] = settled[k]
    BY <1>1, <1>2 DEF MessagesInv
  <1>4. settled' \in [Quotes -> Nat]
    BY <1>1 DEF MessagesInv
  <1>5. ASSUME NEW k \in Quotes
        PROVE  settled'[k] <= 1
    <2>1. settled[k] <= 1
      BY DEF MessagesInv, MessagesRunOnce
    <2> QED BY <1>3, <2>1
  <1>6. ASSUME NEW k \in Quotes, settled'[k] > 0
        PROVE  <<k.maker, k.quote_id>> \in usedQuotes'
    <2>1. CASE k = q
      BY <1>1, <2>1
    <2>2. CASE k # q
      BY <1>1, <1>3, <1>6, <2>2 DEF MessagesInv, MessagesRunOnce
    <2> QED BY <2>1, <2>2
  <1>7. ASSUME NEW k \in Quotes, NEW j \in Quotes, settled'[k] > 0, settled'[j] > 0,
               k.maker = j.maker, k.quote_id = j.quote_id
        PROVE  k = j
    <2>1. CASE k = q /\ j # q
      BY <1>2, <1>3, <1>7, <2>1
    <2>2. CASE k # q /\ j = q
      BY <1>2, <1>3, <1>7, <2>2
    <2>3. CASE k # q /\ j # q
      BY <1>3, <1>7, <2>3 DEF MessagesInv, MessagesRunOnce
    <2> QED BY <2>1, <2>2, <2>3
  <1> QED BY <1>1, <1>4, <1>5, <1>6, <1>7 DEF MessagesInv, MessagesRunOnce

LEMMA RelayKeeps ==
    ASSUME MessagesInv, NEW m \in Relays, route_payment_meta(m)
    PROVE  MessagesInv'
  <1> DEFINE who(k) == k.payment.sender
  <1>1. \A k \in Relays : who(k) \in Addr /\ k.nonce \in Nat
    BY PaymentsAssumption DEF Payment
  <1>2. /\ m.nonce = metaNonce[who(m)]
        /\ metaNonce' = [metaNonce EXCEPT ![who(m)] = m.nonce + 1]
        /\ relayed' = [relayed EXCEPT ![m] = @ + 1]
        /\ usedQuotes' = usedQuotes /\ settled' = settled
    BY DEF route_payment_meta
  <1>3. metaNonce' \in [Addr -> Nat] /\ relayed' \in [Relays -> Nat]
    BY <1>1, <1>2 DEF MessagesInv
  <1>4. ASSUME NEW k \in Relays, who(k) = who(m), relayed[k] > 0
        PROVE  k.nonce < m.nonce
    BY <1>2, <1>4 DEF MessagesInv, MessagesRunOnce
  <1>5. relayed[m] = 0
    BY <1>1, <1>4 DEF MessagesInv
  <1>6. relayed'[m] = 1 /\ \A k \in Relays \ {m} : relayed'[k] = relayed[k]
    BY <1>2, <1>5 DEF MessagesInv
  <1>7. \A k \in Relays : relayed'[k] <= 1
    BY <1>6 DEF MessagesInv, MessagesRunOnce
  <1>8. ASSUME NEW k \in Relays, relayed'[k] > 0
        PROVE  k.nonce < metaNonce'[who(k)]
    <2>1. CASE k = m
      BY <1>1, <1>2, <2>1 DEF MessagesInv
    <2>2. CASE k # m
      <3>1. k.nonce < metaNonce[who(k)]
        BY <1>6, <1>8, <2>2 DEF MessagesInv, MessagesRunOnce
      <3>2. metaNonce'[who(k)] >= metaNonce[who(k)]
        BY <1>1, <1>2 DEF MessagesInv
      <3> QED BY <1>1, <1>3, <3>1, <3>2 DEF MessagesInv
    <2> QED BY <2>1, <2>2
  <1>9. ASSUME NEW k \in Relays, NEW j \in Relays, relayed'[k] > 0, relayed'[j] > 0,
               who(k) = who(j), k.nonce = j.nonce
        PROVE  k = j
    <2>1. CASE k = m /\ j # m
      BY <1>1, <1>4, <1>6, <1>9, <2>1
    <2>2. CASE k # m /\ j = m
      BY <1>1, <1>4, <1>6, <1>9, <2>2
    <2>3. CASE k # m /\ j # m
      BY <1>6, <1>9, <2>3 DEF MessagesInv, MessagesRunOnce
    <2> QED BY <2>1, <2>2, <2>3
  <1> QED BY <1>2, <1>3, <1>7, <1>8, <1>9 DEF MessagesInv, MessagesRunOnce

-----------------------------------------------------------------------------
(* Every other call leaves the messages alone.                             *)

LEMMA PaymentsKeep == MessagesInv /\ PaymentsNext => MessagesInv'
  <1> SUFFICES ASSUME MessagesInv, PaymentsNext PROVE MessagesInv'
    OBVIOUS
  <1>1. ASSUME NEW q \in Quotes, route_payment_with_quote(q)
        PROVE  MessagesInv'
    BY <1>1, QuoteKeeps
  <1>2. ASSUME NEW m \in Relays, route_payment_meta(m)
        PROVE  MessagesInv'
    BY <1>2, RelayKeeps
  <1>3. ASSUME \/ \E p \in PaymentArgs : route_payment(p)
               \/ \E ps \in BatchArgs : route_payments(ps)
        PROVE  MessagesInv'
    BY <1>3, MessagesRest DEF route_payment, route_payments
  <1>4. CASE CustodyStep
    <2>1. ASSUME \/ \E a \in Addr, t \in Token, n \in Withdrawals : withdraw_refund(a, t, n)
                 \/ \E a \in Addr, t \in Token : claim_all_refunds(a, t)
          PROVE  UNCHANGED messageVars
      BY <2>1 DEF withdraw_refund, claim_all_refunds
    <2>2. ASSUME \/ \E t \in Token, n \in Withdrawals : recover_tokens(t, n)
                 \/ \E t \in Token, n \in Withdrawals : emergency_withdraw(t, n)
                 \/ \E g \in Approvals : approve(g[1], g[2], g[3])
          PROVE  UNCHANGED messageVars
      BY <2>2 DEF recover_tokens, emergency_withdraw, TakeOut, approve
    <2> QED BY <1>4, <2>1, <2>2, MessagesRest DEF CustodyStep
  <1>5. CASE OfficeStep
    BY <1>5, MessagesRest DEF OfficeStep, blacklist_address, unblacklist_address
  <1>6. CASE LimitsStep
    BY <1>6, MessagesRest DEF LimitsStep, LimitsCall
  <1>7. CASE LedgerCloses
    BY <1>7, MessagesRest DEF LedgerCloses
  <1> QED BY <1>1, <1>2, <1>3, <1>4, <1>5, <1>6, <1>7 DEF PaymentsNext, RouteStep

LEMMA SwapsKeep == MessagesInv /\ (SwapStep \/ RegistryStep) => MessagesInv'
  <1> SUFFICES ASSUME MessagesInv, SwapStep \/ RegistryStep PROVE MessagesInv'
    OBVIOUS
  <1>1. CASE SwapStep
    <2>1. ASSUME NEW s \in SwapArgs, NEW ans \in Answers, route_payment_with_swap(s, ans)
          PROVE  UNCHANGED messageVars
      BY <2>1, Zenon DEF route_payment_with_swap, SwapCall
    <2>2. ASSUME NEW ss \in SwapBatches, NEW as \in Answered(Len(ss)),
                 route_payments_with_swap(ss, as)
          PROVE  UNCHANGED messageVars
      BY <2>2, Zenon DEF route_payments_with_swap, SwapCall
    <2>3. ASSUME NEW s \in SplitArgs, NEW as \in Answered(Len(s.splits)),
                 route_split_payment_with_swap(s, as)
          PROVE  UNCHANGED messageVars
      BY <2>3, Zenon DEF route_split_payment_with_swap, SwapCall
    <2>4. ASSUME NEW s \in HopArgs, NEW as \in Answered(Len(s.floors)),
                 route_multihop_swap(s, as)
          PROVE  UNCHANGED messageVars
      BY <2>4, Zenon DEF route_multihop_swap
    <2>5. ASSUME NEW s \in RawArgs, NEW ans \in Answers, route_payment_with_swap_raw(s, ans)
          PROVE  UNCHANGED messageVars
      BY <2>5, Zenon DEF route_payment_with_swap_raw, SwapCall
    <2> QED BY <1>1, <2>1, <2>2, <2>3, <2>4, <2>5, MessagesRest DEF SwapStep
  <1>2. CASE RegistryStep
    BY <1>2, MessagesRest DEF RegistryStep, register_dex, deregister_dex
  <1> QED BY <1>1, <1>2

LEMMA ServicesKeep == MessagesInv /\ (YieldStep(Token) \/ ArchiveStep) => MessagesInv'
  <1> SUFFICES ASSUME MessagesInv, YieldStep(Token) \/ ArchiveStep PROVE MessagesInv'
    OBVIOUS
  <1>1. CASE YieldStep(Token)
    BY <1>1, MessagesRest DEF YieldStep, Unserved, set_yield_protocol,
         deposit_to_yield, withdraw_from_yield, harvest_yield
  <1>2. CASE ArchiveStep
    BY <1>2, MessagesRest DEF ArchiveStep, commit_archive_root, prune_archived_entries
  <1> QED BY <1>1, <1>2

LEMMA MessagesStep == MessagesInv /\ [ServicesNext]_allVars => MessagesInv'
  <1> SUFFICES ASSUME MessagesInv, [ServicesNext]_allVars PROVE MessagesInv'
    OBVIOUS
  <1>1. CASE YieldStep(Token) \/ ArchiveStep
    BY <1>1, ServicesKeep
  <1>2. CASE SwapStep \/ RegistryStep
    BY <1>2, SwapsKeep
  <1>3. CASE PaymentsNext
    BY <1>3, PaymentsKeep
  <1>4. CASE UNCHANGED allVars
    BY <1>4, MessagesRest DEF allVars, paymentVars
  <1> QED BY <1>1, <1>2, <1>3, <1>4 DEF ServicesNext, SwapsNext

\* A maker's quote id and a sender's relay nonce are used once, whatever
\* messages carry them, through payments, swaps, yield and archival
\* (lib.rs:2801, 3091).
THEOREM MessagesAreExecutedOnce == ServicesSpec => []MessagesRunOnce
  <1>1. MessagesInv => MessagesRunOnce
    BY DEF MessagesInv
  <1> QED BY <1>1, MessagesInitially, MessagesStep, PTL DEF ServicesSpec

-----------------------------------------------------------------------------
(* The money: a state of a call.                                           *)

Balances == [Token -> [Account -> Int]]
Refunds == [Token -> [Addr -> Nat]]

\* A state of a call, as far as its money goes.
IsMoney(b) ==
    /\ {"ok", "balance", "refund"} \subseteq DOMAIN b
    /\ b.ok \in BOOLEAN
    /\ b.balance \in Balances
    /\ b.refund \in Refunds

\* What the router holds beyond what it owes.
Spare(b, t) == b.balance[t][Router] - SumFunctionOnSet(b.refund[t], Addr)

\* `n` in token t, of the account x; and of all accounts.
Part(u, a, t, x, n) == IF u = t /\ a = x THEN n ELSE 0
Whole(u, t, n) == IF u = t THEN n ELSE 0

-----------------------------------------------------------------------------
(* The helpers.                                                            *)

LEMMA Transfers ==
    ASSUME NEW bal \in Balances, NEW t \in Token, NEW x \in Account, NEW y \in Account,
           NEW n \in Int
    PROVE  /\ transfer(bal, t, x, y, n) \in Balances
           /\ \A u \in Token, a \in Account :
                transfer(bal, t, x, y, n)[u][a]
                  = bal[u][a] - Part(u, a, t, x, n) + Part(u, a, t, y, n)
  <1> DEFINE mid == [bal EXCEPT ![t][x] = @ - n]
             end == [mid EXCEPT ![t][y] = @ + n]
  <1>1. mid \in Balances
    BY DEF Balances
  <1>2. \A u \in Token, a \in Account : mid[u][a] = bal[u][a] - Part(u, a, t, x, n)
    BY DEF Balances, Part, Whole
  <1>3. transfer(bal, t, x, y, n) = end
    BY DEF transfer
  <1> HIDE DEF mid
  <1>4. end \in Balances
    BY <1>1 DEF Balances
  <1>5. \A u \in Token, a \in Account : end[u][a] = mid[u][a] + Part(u, a, t, y, n)
    BY <1>1 DEF Balances, Part, Whole
  <1> QED BY <1>2, <1>3, <1>4, <1>5

LEMMA MinOfThree ==
    ASSUME NEW x \in Nat, NEW y \in Nat, NEW z \in Nat
    PROVE  Min({x, y, z}) \in 0..z
  <1>1. \E m \in {x, y, z} : \A k \in {x, y, z} : m <= k
    OBVIOUS
  <1>2. Min({x, y, z}) \in {x, y, z} /\ \A k \in {x, y, z} : Min({x, y, z}) <= k
    BY <1>1 DEF Min
  <1> QED BY <1>2

\* A fee is never more than the amount it is taken from.
LEMMA FeeIsAPart ==
    ASSUME PaymentsAssumption, NEW n \in Nat, NEW v
    PROVE  calculate_fee(n, v) \in 0..n
  <1> DEFINE bps == IF v > VolumeThreshold THEN FeeBps \div 2 ELSE FeeBps
             share == n * bps
  <1>1. bps \in Nat /\ FeeCap \in Nat /\ BpsDivisor \in Nat \ {0}
    BY DEF PaymentsAssumption
  <1> HIDE DEF bps
  <1>2. share \in Nat
    BY <1>1
  <1> HIDE DEF share
  <1>3. share \div BpsDivisor \in Nat
    BY <1>1, <1>2
  <1>4. Min({share \div BpsDivisor, FeeCap, n}) \in 0..n
    BY <1>1, <1>3, MinOfThree
  <1> QED BY <1>4 DEF calculate_fee, bps, share

\* The books of the senders are kept apart from the money.
LEMMA BooksAside ==
    ASSUME NEW b, IsMoney(b), NEW a, NEW n
    PROVE  /\ LET c == Limits!accrue_user_record(b, a, n)
              IN IsMoney(c) /\ c.balance = b.balance /\ c.refund = b.refund /\ (c.ok => b.ok)
           /\ LET c == Limits!check_rate_limit(b, a)
              IN IsMoney(c) /\ c.balance = b.balance /\ c.refund = b.refund /\ (c.ok => b.ok)
  BY DEF IsMoney, Limits!accrue_user_record, Limits!check_rate_limit

\* The refund ledger `new` has `n` more than `ref`, in token t, for a.
Raised(ref, new, t, a, n) ==
    /\ new \in Refunds
    /\ \A u \in Token, x \in Addr : new[u][x] = ref[u][x] + Part(u, x, t, a, n)
    /\ \A u \in Token :
          SumFunctionOnSet(new[u], Addr) = SumFunctionOnSet(ref[u], Addr) + Whole(u, t, n)

LEMMA Credits ==
    ASSUME PaymentsAssumption, NEW ref \in Refunds, NEW t \in Token, NEW a \in Addr,
           NEW n \in Nat
    PROVE  Raised(ref, [ref EXCEPT ![t][a] = @ + n], t, a, n)
  <1> DEFINE new == [ref EXCEPT ![t][a] = @ + n]
  <1>1. new \in Refunds
    BY DEF Refunds
  <1>2. \A u \in Token, x \in Addr : new[u][x] = ref[u][x] + Part(u, x, t, a, n)
    BY DEF Refunds, Part, Whole
  <1>3. IsFiniteSet(Addr)
    BY DEF PaymentsAssumption
  <1> HIDE DEF new
  <1>4. ASSUME NEW u \in Token
        PROVE  SumFunctionOnSet(new[u], Addr) = SumFunctionOnSet(ref[u], Addr) + Whole(u, t, n)
    <2> DEFINE f == ref[u]
               g == new[u]
    <2>1. (\A x \in Addr : f[x] \in Int) /\ g[a] \in Int
      BY <1>1 DEF Refunds
    <2>2. \A x \in Addr : g[x] = f[x] + Part(u, x, t, a, n)
      BY <1>2
    <2> HIDE DEF f, g
    <2>3. \A x \in Addr : x # a => g[x] = f[x]
      BY <2>1, <2>2 DEF Part, Whole
    <2>4. /\ SumFunctionOnSet(g, Addr) = SumFunctionOnSet(f, Addr) - f[a] + g[a]
          /\ SumFunctionOnSet(f, Addr) \in Int
      BY <1>3, <2>1, <2>3, SumUpdate
    <2>5. SumFunctionOnSet(g, Addr) = SumFunctionOnSet(f, Addr) + Whole(u, t, n)
      BY <2>1, <2>2, <2>4, SMTT(30) DEF Part, Whole
    <2> QED BY <2>5 DEF f, g
  <1> QED BY <1>1, <1>2, <1>4 DEF new, Raised

-----------------------------------------------------------------------------
(* The legs of a call that leave the refunds alone.                        *)

\* From `b` to `c` nobody but those in S paid, and nobody more than it had.
Legs(b, c, S) ==
    /\ IsMoney(c)
    /\ c.refund = b.refund
    /\ c.ok => /\ b.ok
               /\ \A t \in Token, a \in Addr :
                     /\ a \notin S => c.balance[t][a] >= b.balance[t][a]
                     /\ b.balance[t][a] >= 0 => c.balance[t][a] >= 0

\* What the router's account grew by.
Growth(b, c, t) == c.balance[t][Router] - b.balance[t][Router]

LEMMA Parties ==
    ASSUME PaymentsAssumption
    PROVE  /\ Router \in Account /\ Router \notin Addr /\ Addr \subseteq Account
           /\ Treasury \in Account /\ \A a \in Addr : a \in Account /\ a # Router
  BY DEF PaymentsAssumption, Account

LEMMA BalancesAreIntegers ==
    ASSUME NEW b, IsMoney(b)
    PROVE  /\ \A t \in Token, a \in Account : b.balance[t][a] \in Int
           /\ \A t \in Token, a \in Addr : b.refund[t][a] \in Nat
  BY DEF IsMoney, Balances, Refunds

LEMMA LegsFollow ==
    ASSUME PaymentsAssumption, NEW a, NEW b, NEW c, NEW S, IsMoney(a), IsMoney(b),
           Legs(a, b, S), Legs(b, c, S)
    PROVE  /\ Legs(a, c, S)
           /\ \A t \in Token : Growth(a, c, t) = Growth(a, b, t) + Growth(b, c, t)
  <1>1. IsMoney(c)
    BY DEF Legs
  <1>2. /\ \A t \in Token, x \in Account : /\ a.balance[t][x] \in Int
                                           /\ b.balance[t][x] \in Int
                                           /\ c.balance[t][x] \in Int
        /\ Router \in Account /\ Addr \subseteq Account
    BY <1>1, BalancesAreIntegers, Parties
  <1>3. ASSUME c.ok, NEW t \in Token, NEW x \in Addr
        PROVE  /\ x \notin S => c.balance[t][x] >= a.balance[t][x]
               /\ a.balance[t][x] >= 0 => c.balance[t][x] >= 0
    <2>1. /\ x \notin S => c.balance[t][x] >= b.balance[t][x]
          /\ b.balance[t][x] >= 0 => c.balance[t][x] >= 0
          /\ x \notin S => b.balance[t][x] >= a.balance[t][x]
          /\ a.balance[t][x] >= 0 => b.balance[t][x] >= 0
      BY <1>3 DEF Legs
    <2> QED BY <1>2, <2>1
  <1>4. c.ok => a.ok
    BY DEF Legs
  <1>5. Legs(a, c, S)
    BY <1>1, <1>3, <1>4 DEF Legs
  <1>6. \A t \in Token : Growth(a, c, t) = Growth(a, b, t) + Growth(b, c, t)
    BY <1>2 DEF Growth
  <1> QED BY <1>5, <1>6

\* What a call of the senders' books leaves: everything.
LEMMA LegsOfBooks ==
    ASSUME PaymentsAssumption, NEW b, NEW c, NEW S, IsMoney(b), IsMoney(c),
           c.balance = b.balance, c.refund = b.refund, c.ok => b.ok
    PROVE  Legs(b, c, S) /\ \A t \in Token : Growth(b, c, t) = 0
  BY BalancesAreIntegers, Parties DEF Legs, Growth

\* Between `b` and `c` x paid `n` to y.
Moved(b, c, t, x, y, n) ==
    /\ c.balance \in Balances
    /\ \A u \in Token, a \in Account :
          c.balance[u][a] = b.balance[u][a] - Part(u, a, t, x, n) + Part(u, a, t, y, n)

LEMMA MovedBalances ==
    ASSUME NEW b, NEW c, IsMoney(b), NEW t \in Token, NEW x \in Account, NEW y \in Account,
           NEW n \in Int, c.balance = transfer(b.balance, t, x, y, n)
    PROVE  Moved(b, c, t, x, y, n)
  <1>1. b.balance \in Balances
    BY DEF IsMoney
  <1>2. c.balance \in Balances
    BY ONLY <1>1, c.balance = transfer(b.balance, t, x, y, n), t \in Token, x \in Account,
            y \in Account, n \in Int, Transfers
  <1>3. \A u \in Token, a \in Account :
          c.balance[u][a] = b.balance[u][a] - Part(u, a, t, x, n) + Part(u, a, t, y, n)
    BY ONLY <1>1, c.balance = transfer(b.balance, t, x, y, n), t \in Token, x \in Account,
            y \in Account, n \in Int, Transfers
  <1> QED BY <1>2, <1>3 DEF Moved

LEMMA GrowthOfTransfer ==
    ASSUME PaymentsAssumption, NEW b, NEW c, IsMoney(b), NEW t \in Token,
           NEW x \in Account, NEW y \in Account, NEW n \in Int,
           c.balance = transfer(b.balance, t, x, y, n)
    PROVE  \A u \in Token :
              Growth(b, c, u) = Part(u, Router, t, y, n) - Part(u, Router, t, x, n)
  <1> TAKE u \in Token
  <1>1. b.balance[u][Router] \in Int /\ Router \in Account
    BY Parties, BalancesAreIntegers
  <1>2. c.balance[u][Router]
          = b.balance[u][Router] - Part(u, Router, t, x, n) + Part(u, Router, t, y, n)
    <2>1. Moved(b, c, t, x, y, n)
      BY MovedBalances
    <2> QED BY <1>1, <2>1 DEF Moved
  <1>3. Part(u, Router, t, x, n) \in Int /\ Part(u, Router, t, y, n) \in Int
    BY DEF Part
  <1> QED BY ONLY <1>1, <1>2, <1>3 DEF Growth

\* A transfer, if the payer has that much.
LEMMA LegOfTransfer ==
    ASSUME PaymentsAssumption, NEW b, NEW c, NEW S, IsMoney(b),
           {"ok", "balance", "refund"} \subseteq DOMAIN c, c.ok \in BOOLEAN,
           NEW t \in Token, NEW x \in Account, NEW y \in Account, NEW n \in Int,
           c.balance = transfer(b.balance, t, x, y, n), c.refund = b.refund,
           c.ok => /\ b.ok
                   /\ n >= 0
                   /\ x = Router \/ (x \in S /\ b.balance[t][x] >= n)
    PROVE  Legs(b, c, S)
  <1>1. Moved(b, c, t, x, y, n)
    BY MovedBalances
  <1>2. c.balance \in Balances
    BY <1>1 DEF Moved
  <1>3. IsMoney(c)
    BY <1>2 DEF IsMoney
  <1>4. ASSUME c.ok, NEW u \in Token, NEW a \in Addr
        PROVE  /\ a \notin S => c.balance[u][a] >= b.balance[u][a]
               /\ b.balance[u][a] >= 0 => c.balance[u][a] >= 0
    <2>1. b.balance[u][a] \in Int /\ a \in Account /\ a # Router
      BY Parties, BalancesAreIntegers
    <2>2. c.balance[u][a] = b.balance[u][a] - Part(u, a, t, x, n) + Part(u, a, t, y, n)
      BY <1>1, <2>1 DEF Moved
    <2>3. n >= 0 /\ (x = Router \/ (x \in S /\ b.balance[t][x] >= n))
      BY <1>4
    <2> QED BY ONLY <2>1, <2>2, <2>3, n \in Int DEF Part
  <1> QED BY <1>3, <1>4 DEF Legs

LEMMA Pulls ==
    ASSUME PaymentsAssumption, NEW b, NEW S, IsMoney(b), NEW x \in Addr, x \in S,
           NEW t \in Token, NEW n \in Nat
    PROVE  LET c == pull(b, x, t, n)
           IN /\ Legs(b, c, S)
              /\ \A u \in Token : Growth(b, c, u) = Whole(u, t, n)
              /\ c.ok => b.balance[t][x] >= n
  <1> DEFINE c == pull(b, x, t, n)
  <1>1. /\ {"ok", "balance", "refund"} \subseteq DOMAIN c
        /\ c.ok = (b.ok /\ b.balance[t][x] >= n)
        /\ c.balance = transfer(b.balance, t, x, Router, n)
        /\ c.refund = b.refund
    BY DEF IsMoney, pull
  <1>2. x \in Account /\ Router \in Account /\ x # Router /\ n \in Int /\ n >= 0
    BY Parties
  <1> HIDE DEF c
  <1>3. c.ok \in BOOLEAN
    BY <1>1
  <1>4. Legs(b, c, S)
    BY <1>1, <1>2, <1>3, LegOfTransfer
  <1>5. \A u \in Token : Growth(b, c, u) = Part(u, Router, t, Router, n) - Part(u, Router, t, x, n)
    BY <1>1, <1>2, GrowthOfTransfer, SMTT(30)
  <1>6. \A u \in Token : Growth(b, c, u) = Whole(u, t, n)
    BY ONLY <1>2, <1>5 DEF Part, Whole
  <1> QED BY <1>1, <1>4, <1>6 DEF c

\* What three transfers do to one account.
LEMMA ThreeTransfers ==
    ASSUME NEW bal \in Balances, NEW t \in Token, NEW v \in Token,
           NEW x \in Account, NEW y \in Account, NEW n \in Int, NEW m \in Int, NEW k \in Int
    PROVE  LET end == transfer(transfer(transfer(bal, t, x, y, n), t, y, x, m), v, y, x, k)
           IN /\ end \in Balances
              /\ \A u \in Token, a \in Account :
                   end[u][a] = bal[u][a]
                     - Part(u, a, t, x, n) + Part(u, a, t, y, n)
                     - Part(u, a, t, y, m) + Part(u, a, t, x, m)
                     - Part(u, a, v, y, k) + Part(u, a, v, x, k)
  <1> DEFINE one == transfer(bal, t, x, y, n)
             two == transfer(one, t, y, x, m)
             end == transfer(two, v, y, x, k)
  <1>1. one \in Balances
    BY Transfers
  <1>2. \A u \in Token, a \in Account :
          one[u][a] = bal[u][a] - Part(u, a, t, x, n) + Part(u, a, t, y, n)
    BY Transfers
  <1> HIDE DEF one
  <1>3. two \in Balances
    BY <1>1, Transfers
  <1>4. \A u \in Token, a \in Account :
          two[u][a] = one[u][a] - Part(u, a, t, y, m) + Part(u, a, t, x, m)
    BY <1>1, Transfers
  <1> HIDE DEF two
  <1>5. end \in Balances
    BY <1>3, Transfers
  <1>6. \A u \in Token, a \in Account :
          end[u][a] = two[u][a] - Part(u, a, v, y, k) + Part(u, a, v, x, k)
    BY <1>3, Transfers
  <1> HIDE DEF end
  <1>7. \A u \in Token, a \in Account :
          end[u][a] = bal[u][a]
            - Part(u, a, t, x, n) + Part(u, a, t, y, n)
            - Part(u, a, t, y, m) + Part(u, a, t, x, m)
            - Part(u, a, v, y, k) + Part(u, a, v, x, k)
    <2> TAKE u \in Token, a \in Account
    <2>1. bal[u][a] \in Int
      BY DEF Balances
    <2>2. \A r \in Token, z \in Account : \A i \in {n, m, k} : Part(u, a, r, z, i) \in Int
      BY DEF Part
    <2>3. /\ one[u][a] = bal[u][a] - Part(u, a, t, x, n) + Part(u, a, t, y, n)
          /\ two[u][a] = one[u][a] - Part(u, a, t, y, m) + Part(u, a, t, x, m)
          /\ end[u][a] = two[u][a] - Part(u, a, v, y, k) + Part(u, a, v, x, k)
      BY <1>2, <1>4, <1>6
    <2>4. /\ Part(u, a, t, x, n) \in Int /\ Part(u, a, t, y, n) \in Int
          /\ Part(u, a, t, x, m) \in Int /\ Part(u, a, t, y, m) \in Int
          /\ Part(u, a, v, x, k) \in Int /\ Part(u, a, v, y, k) \in Int
      BY <2>2
    <2> QED BY ONLY <2>1, <2>3, <2>4
  <1> QED BY <1>5, <1>7 DEF one, two, end

\* The router gave `n` less the unused part, and got `out`.
Traded(b, c, sell, buy, n, out, unused) ==
    \A u \in Token :
       Growth(b, c, u) = Whole(u, buy, out) - Whole(u, sell, n) + Whole(u, sell, unused)

LEMMA Trades ==
    ASSUME PaymentsAssumption, NEW b, NEW S, IsMoney(b), NEW dex \in Addr, dex \in S,
           NEW sell \in Token, NEW buy \in Token, NEW n \in Int, NEW out \in Nat,
           NEW unused \in Nat
    PROVE  LET c == trade(b, dex, sell, buy, n, out, unused)
           IN Legs(b, c, S) /\ Traded(b, c, sell, buy, n, out, unused)
  <1> DEFINE c == trade(b, dex, sell, buy, n, out, unused)
  <1>1. /\ {"ok", "balance", "refund"} \subseteq DOMAIN c
        /\ c.ok = (b.ok /\ unused <= n /\ b.balance[buy][dex] >= out)
        /\ c.balance = transfer(transfer(transfer(b.balance, sell, Router, dex, n),
                                         sell, dex, Router, unused),
                                buy, dex, Router, out)
        /\ c.refund = b.refund
    BY DEF IsMoney, trade
  <1>2. dex \in Account /\ Router \in Account /\ dex # Router
    BY Parties
  <1> HIDE DEF c
  <1>3. b.balance \in Balances /\ n \in Int /\ out \in Int /\ unused \in Int
    BY DEF IsMoney
  <1>4. c.balance \in Balances
    BY ONLY <1>1, <1>2, <1>3, sell \in Token, buy \in Token, ThreeTransfers
  <1>5. \A u \in Token, a \in Account :
          c.balance[u][a] = b.balance[u][a]
            - Part(u, a, sell, Router, n) + Part(u, a, sell, dex, n)
            - Part(u, a, sell, dex, unused) + Part(u, a, sell, Router, unused)
            - Part(u, a, buy, dex, out) + Part(u, a, buy, Router, out)
    BY ONLY <1>1, <1>2, <1>3, sell \in Token, buy \in Token, ThreeTransfers
  <1>6. IsMoney(c)
    BY <1>1, <1>4 DEF IsMoney
  <1>7. ASSUME c.ok, NEW u \in Token, NEW a \in Addr
        PROVE  /\ a \notin S => c.balance[u][a] >= b.balance[u][a]
               /\ b.balance[u][a] >= 0 => c.balance[u][a] >= 0
    <2>1. a \in Account /\ a # Router /\ b.balance[u][a] \in Int
          /\ unused <= n /\ b.balance[buy][dex] >= out
      BY <1>1, <1>7, Parties, BalancesAreIntegers
    <2>2. c.balance[u][a] = b.balance[u][a] + Part(u, a, sell, dex, n)
            - Part(u, a, sell, dex, unused) - Part(u, a, buy, dex, out)
      BY ONLY <1>3, <1>5, <2>1, u \in Token DEF Part
    <2>3. CASE a = dex
      BY ONLY <1>3, <2>1, <2>2, <2>3, out \in Nat, dex \in S DEF Part
    <2>4. CASE a # dex
      BY ONLY <1>3, <2>1, <2>2, <2>4 DEF Part
    <2> QED BY <2>3, <2>4
  <1>8. Legs(b, c, S)
    BY <1>1, <1>6, <1>7 DEF Legs
  <1>9. ASSUME NEW u \in Token
        PROVE  Growth(b, c, u) = Whole(u, buy, out) - Whole(u, sell, n) + Whole(u, sell, unused)
    <2>1. b.balance[u][Router] \in Int
      BY Parties, BalancesAreIntegers
    <2>2. c.balance[u][Router] = b.balance[u][Router]
            - Part(u, Router, sell, Router, n) + Part(u, Router, sell, dex, n)
            - Part(u, Router, sell, dex, unused) + Part(u, Router, sell, Router, unused)
            - Part(u, Router, buy, dex, out) + Part(u, Router, buy, Router, out)
      BY <1>2, <1>5
    <2>3. c.balance[u][Router] = b.balance[u][Router]
            - Whole(u, sell, n) + Whole(u, sell, unused) + Whole(u, buy, out)
      BY ONLY <1>2, <1>3, <2>1, <2>2 DEF Part, Whole
    <2>4. Whole(u, sell, n) \in Int /\ Whole(u, sell, unused) \in Int /\ Whole(u, buy, out) \in Int
      BY <1>3 DEF Whole
    <2> QED BY ONLY <2>1, <2>3, <2>4 DEF Growth
  <1>10. Traded(b, c, sell, buy, n, out, unused)
    BY <1>9 DEF Traded
  <1> QED BY <1>8, <1>10 DEF c

-----------------------------------------------------------------------------
(* An amount is paid: the fee to the treasury, the rest to its recipient,  *)
(* or to the router, which then owes it to the sender.                     *)

\* In token t, x paid `n`, of which the treasury got `fee` and z the rest.
Paid(b, c, t, x, n, z, fee) ==
    /\ c.balance \in Balances
    /\ \A u \in Token, a \in Account :
          c.balance[u][a] = b.balance[u][a] - Part(u, a, t, x, n)
                              + Part(u, a, t, Treasury, fee) + Part(u, a, t, z, n - fee)

\* And the router took a debt of `credit` to the sender a.
Credited(b, c, t, a, credit) ==
    c.refund = IF credit = 0 THEN b.refund ELSE [b.refund EXCEPT ![t][a] = @ + credit]

LEMMA PaidByTwo ==
    ASSUME PaymentsAssumption, NEW b, NEW c, IsMoney(b), NEW t \in Token,
           NEW x \in Account, NEW z \in Account, NEW n \in Nat, NEW fee \in 0..n,
           c.balance = transfer(transfer(b.balance, t, x, Treasury, fee), t, x, z, n - fee)
    PROVE  Paid(b, c, t, x, n, z, fee)
  <1> DEFINE m == [balance |-> transfer(b.balance, t, x, Treasury, fee),
                   ok |-> b.ok, refund |-> b.refund]
             rest == n - fee
  <1>1. /\ m.balance = transfer(b.balance, t, x, Treasury, fee)
        /\ c.balance = transfer(m.balance, t, x, z, rest)
        /\ {"ok", "balance", "refund"} \subseteq DOMAIN m
        /\ m.ok = b.ok /\ m.refund = b.refund
    OBVIOUS
  <1>2. fee \in Int /\ rest \in Int /\ Treasury \in Account /\ n \in Int
    BY Parties
  <1> HIDE DEF m, rest
  <1>3. Moved(b, m, t, x, Treasury, fee)
    BY <1>1, <1>2, MovedBalances
  <1>4. IsMoney(m)
    BY <1>1, <1>3 DEF IsMoney, Moved
  <1>5. Moved(m, c, t, x, z, rest)
    BY <1>1, <1>2, <1>4, MovedBalances
  <1>6. ASSUME NEW u \in Token, NEW a \in Account
        PROVE  c.balance[u][a] = b.balance[u][a] - Part(u, a, t, x, n)
                                   + Part(u, a, t, Treasury, fee) + Part(u, a, t, z, n - fee)
    <2>1. b.balance[u][a] \in Int
      BY BalancesAreIntegers
    <2>2. m.balance[u][a] = b.balance[u][a] - Part(u, a, t, x, fee) + Part(u, a, t, Treasury, fee)
      BY <1>3 DEF Moved
    <2>3. c.balance[u][a] = m.balance[u][a] - Part(u, a, t, x, rest) + Part(u, a, t, z, rest)
      BY <1>5 DEF Moved
    <2>4. rest = n - fee
      BY DEF rest
    <2> QED BY ONLY <1>2, <2>1, <2>2, <2>3, <2>4 DEF Part
  <1> QED BY <1>5, <1>6 DEF Moved, Paid

LEMMA PaidByOne ==
    ASSUME PaymentsAssumption, NEW b, NEW c, IsMoney(b), NEW t \in Token,
           NEW x \in Account, NEW n \in Nat, NEW fee \in 0..n,
           c.balance = transfer(b.balance, t, x, Treasury, fee)
    PROVE  Paid(b, c, t, x, n, x, fee)
  <1>1. fee \in Int /\ Treasury \in Account /\ n \in Int
    BY Parties
  <1>2. Moved(b, c, t, x, Treasury, fee)
    BY <1>1, MovedBalances
  <1>3. ASSUME NEW u \in Token, NEW a \in Account
        PROVE  c.balance[u][a] = b.balance[u][a] - Part(u, a, t, x, n)
                                   + Part(u, a, t, Treasury, fee) + Part(u, a, t, x, n - fee)
    <2>1. b.balance[u][a] \in Int
      BY BalancesAreIntegers
    <2>2. c.balance[u][a] = b.balance[u][a] - Part(u, a, t, x, fee) + Part(u, a, t, Treasury, fee)
      BY <1>2 DEF Moved
    <2> QED BY ONLY <1>1, <2>1, <2>2 DEF Part
  <1> QED BY <1>2, <1>3 DEF Moved, Paid

\* From `b` to `c` x parted with `n` and nobody else with anything; what the
\* router got it owes, or more.
PartedWith(b, c, t, x, n) ==
    /\ IsMoney(c)
    /\ \A u \in Token, y \in Addr :
          /\ c.balance[u][y] >= b.balance[u][y] - Part(u, y, t, x, n)
          /\ c.refund[u][y] >= b.refund[u][y]
    /\ \A u \in Token : Spare(c, u) >= Spare(b, u) - Part(u, Router, t, x, n)

\* What the router got it owes.
SpareFell(b, c, t, x, n) ==
    \A u \in Token : Spare(c, u) = Spare(b, u) - Part(u, Router, t, x, n)

\* What the payment does to the parties and to the router.
LEMMA PaidAndCredited ==
    ASSUME PaymentsAssumption, NEW b, NEW c, IsMoney(b),
           {"ok", "balance", "refund"} \subseteq DOMAIN c, c.ok \in BOOLEAN,
           NEW t \in Token, NEW x \in Account, NEW z \in Account, NEW n \in Nat,
           NEW fee \in 0..n, NEW a \in Addr, NEW credit \in Nat,
           Paid(b, c, t, x, n, z, fee), Credited(b, c, t, a, credit),
           credit > 0 => z = Router /\ credit = n - fee
    PROVE  /\ PartedWith(b, c, t, x, n)
           /\ (Treasury # Router /\ (z = Router => credit = n - fee)) =>
                 SpareFell(b, c, t, x, n)
  <1>1. /\ fee \in Int /\ n \in Int /\ fee <= n /\ fee >= 0 /\ n - fee \in Nat /\ credit \in Int
        /\ Treasury \in Account
    BY Parties
  <1>2. b.refund \in Refunds /\ \A u \in Token, y \in Addr : b.refund[u][y] \in Nat
    BY BalancesAreIntegers DEF IsMoney
  <1>3. /\ c.refund \in Refunds
        /\ \A u \in Token, y \in Addr : c.refund[u][y] >= b.refund[u][y]
        /\ \A u \in Token :
              SumFunctionOnSet(c.refund[u], Addr)
                = SumFunctionOnSet(b.refund[u], Addr) + Whole(u, t, credit)
    <2>1. \A u \in Token : SumFunctionOnSet(b.refund[u], Addr) \in Int
      <3> TAKE u \in Token
      <3> DEFINE f == b.refund[u]
      <3>1. \A y \in Addr : f[y] \in Int
        BY <1>2
      <3>2. IsFiniteSet(Addr)
        BY DEF PaymentsAssumption
      <3> HIDE DEF f
      <3>3. SumFunctionOnSet(f, Addr) \in Int
        BY <3>1, <3>2, SumIsInteger
      <3> QED BY <3>3 DEF f
    <2>2. CASE credit = 0
      BY <1>2, <2>2, <2>1 DEF Credited, Whole
    <2>3. CASE credit # 0
      <3> DEFINE new == [b.refund EXCEPT ![t][a] = @ + credit]
      <3>1. c.refund = new
        BY <2>3 DEF Credited
      <3>2. Raised(b.refund, new, t, a, credit)
        BY <1>2, Credits
      <3> HIDE DEF new
      <3>3. \A u \in Token, y \in Addr : new[u][y] = b.refund[u][y] + Part(u, y, t, a, credit)
        BY <3>2 DEF Raised
      <3>4. \A u \in Token, y \in Addr : new[u][y] >= b.refund[u][y]
        BY ONLY <1>2, <3>3, credit \in Nat DEF Part
      <3> QED BY <3>1, <3>2, <3>4 DEF Raised
    <2> QED BY <2>2, <2>3
  <1>4. IsMoney(c)
    BY <1>3 DEF IsMoney, Paid
  <1>5. ASSUME NEW u \in Token, NEW y \in Addr
        PROVE  c.balance[u][y] >= b.balance[u][y] - Part(u, y, t, x, n)
    <2>1. b.balance[u][y] \in Int /\ y \in Account
      BY BalancesAreIntegers, Parties
    <2>2. c.balance[u][y] = b.balance[u][y] - Part(u, y, t, x, n)
                              + Part(u, y, t, Treasury, fee) + Part(u, y, t, z, n - fee)
      BY <2>1 DEF Paid
    <2> QED BY ONLY <1>1, <2>1, <2>2 DEF Part
  <1>6. ASSUME NEW u \in Token
        PROVE  /\ Spare(b, u) \in Int
               /\ Spare(c, u) >= Spare(b, u) - Part(u, Router, t, x, n)
               /\ (Treasury # Router /\ (z = Router => credit = n - fee)) =>
                     Spare(c, u) = Spare(b, u) - Part(u, Router, t, x, n)
    <2> DEFINE owed == SumFunctionOnSet(b.refund[u], Addr)
               owes == SumFunctionOnSet(c.refund[u], Addr)
    <2>1. b.balance[u][Router] \in Int /\ Router \in Account
      BY BalancesAreIntegers, Parties
    <2>2. c.balance[u][Router] = b.balance[u][Router] - Part(u, Router, t, x, n)
            + Part(u, Router, t, Treasury, fee) + Part(u, Router, t, z, n - fee)
      BY <2>1 DEF Paid
    <2>3. owes = owed + Whole(u, t, credit)
      BY <1>3
    <2>4. owed \in Int
      <3> DEFINE f == b.refund[u]
      <3>1. \A y \in Addr : f[y] \in Int
        BY <1>2
      <3>2. IsFiniteSet(Addr)
        BY DEF PaymentsAssumption
      <3> HIDE DEF f
      <3>3. SumFunctionOnSet(f, Addr) \in Int
        BY <3>1, <3>2, SumIsInteger
      <3> QED BY <3>3 DEF f
    <2>5. Spare(b, u) = b.balance[u][Router] - owed /\ Spare(c, u) = c.balance[u][Router] - owes
      BY DEF Spare
    <2> HIDE DEF owed, owes
    <2>6. credit > 0 => z = Router /\ credit = n - fee
      OBVIOUS
    <2>7. Part(u, Router, t, Treasury, fee) >= 0 /\ Part(u, Router, t, Treasury, fee) \in Int
          /\ (Treasury # Router => Part(u, Router, t, Treasury, fee) = 0)
      BY ONLY <1>1 DEF Part
    <2>8. /\ Part(u, Router, t, z, n - fee) >= Whole(u, t, credit)
          /\ ((z = Router => credit = n - fee) =>
                 Part(u, Router, t, z, n - fee) = Whole(u, t, credit))
          /\ Part(u, Router, t, z, n - fee) \in Int /\ Whole(u, t, credit) \in Int
      BY ONLY <1>1, <2>6, credit \in Nat DEF Part, Whole
    <2>9. Part(u, Router, t, x, n) \in Int
      BY ONLY <1>1 DEF Part
    <2> QED BY ONLY <2>1, <2>2, <2>3, <2>4, <2>5, <2>7, <2>8, <2>9
  <1>7. PartedWith(b, c, t, x, n)
    BY <1>3, <1>4, <1>5, <1>6 DEF PartedWith
  <1>8. (Treasury # Router /\ (z = Router => credit = n - fee)) => SpareFell(b, c, t, x, n)
    BY <1>6 DEF SpareFell
  <1> QED BY <1>7, <1>8

-----------------------------------------------------------------------------
(* Calls and the parts of a call.                                          *)

\* From `b` to `c` nobody but those in S paid, and nobody more than it had; no
\* refund shrank; the router has as much to spare.
Fair(b, c, S) ==
    /\ IsMoney(c)
    /\ c.ok => /\ b.ok
               /\ \A t \in Token, a \in Addr :
                     /\ c.refund[t][a] >= b.refund[t][a]
                     /\ a \notin S => c.balance[t][a] >= b.balance[t][a]
                     /\ b.balance[t][a] >= 0 => c.balance[t][a] >= 0
               /\ \A t \in Token : Spare(c, t) >= Spare(b, t)

\* The same, but that the router may be short of `k` of what it had to spare.
Short(b, c, S, k) ==
    /\ IsMoney(c)
    /\ c.ok => /\ b.ok
               /\ \A t \in Token, a \in Addr :
                     /\ c.refund[t][a] >= b.refund[t][a]
                     /\ a \notin S => c.balance[t][a] >= b.balance[t][a]
                     /\ b.balance[t][a] >= 0 => c.balance[t][a] >= 0
               /\ \A t \in Token :
                     /\ Spare(c, t) + k[t] >= Spare(b, t)
                     /\ b.balance[t][Router] >= 0 => c.balance[t][Router] >= 0

Nothing == [t \in Token |-> 0]

\* And no more than that.
Steady(b, c) == c.ok => \A t \in Token : Spare(c, t) = Spare(b, t)

LEMMA SpareIsInteger ==
    ASSUME PaymentsAssumption, NEW b, IsMoney(b), NEW t \in Token
    PROVE  Spare(b, t) \in Int
  <1> DEFINE f == b.refund[t]
  <1>1. \A a \in Addr : f[a] \in Int
    BY BalancesAreIntegers
  <1>2. IsFiniteSet(Addr)
    BY DEF PaymentsAssumption
  <1>3. b.balance[t][Router] \in Int
    BY BalancesAreIntegers, Parties
  <1>4. Spare(b, t) = b.balance[t][Router] - SumFunctionOnSet(f, Addr)
    BY DEF Spare
  <1> HIDE DEF f
  <1>5. SumFunctionOnSet(f, Addr) \in Int
    BY <1>1, <1>2, SumIsInteger
  <1> QED BY ONLY <1>3, <1>4, <1>5

LEMMA FairAtFirst ==
    ASSUME PaymentsAssumption, NEW b, IsMoney(b), NEW S
    PROVE  Fair(b, b, S)
  <1>1. \A t \in Token : Spare(b, t) \in Int
    BY SpareIsInteger
  <1>2. \A t \in Token, a \in Addr : b.balance[t][a] \in Int /\ b.refund[t][a] \in Nat
    BY BalancesAreIntegers, Parties
  <1>3. \A t \in Token : Spare(b, t) >= Spare(b, t)
    BY ONLY <1>1
  <1>4. \A t \in Token, a \in Addr :
           b.balance[t][a] >= b.balance[t][a] /\ b.refund[t][a] >= b.refund[t][a]
    BY ONLY <1>2
  <1> QED BY <1>3, <1>4 DEF Fair

LEMMA FairFollows ==
    ASSUME PaymentsAssumption, NEW a, NEW b, NEW c, NEW S, IsMoney(a), IsMoney(b),
           Fair(a, b, S), Fair(b, c, S)
    PROVE  Fair(a, c, S)
  <1>1. IsMoney(c)
    BY DEF Fair
  <1> SUFFICES ASSUME c.ok
               PROVE  /\ a.ok
                      /\ \A t \in Token, x \in Addr :
                            /\ c.refund[t][x] >= a.refund[t][x]
                            /\ x \notin S => c.balance[t][x] >= a.balance[t][x]
                            /\ a.balance[t][x] >= 0 => c.balance[t][x] >= 0
                      /\ \A t \in Token : Spare(c, t) >= Spare(a, t)
    BY <1>1 DEF Fair
  <1>2. b.ok /\ a.ok
    BY DEF Fair
  <1>3. ASSUME NEW t \in Token, NEW x \in Addr
        PROVE  /\ c.refund[t][x] >= a.refund[t][x]
               /\ x \notin S => c.balance[t][x] >= a.balance[t][x]
               /\ a.balance[t][x] >= 0 => c.balance[t][x] >= 0
    <2>1. /\ c.refund[t][x] >= b.refund[t][x] /\ b.refund[t][x] >= a.refund[t][x]
          /\ x \notin S => c.balance[t][x] >= b.balance[t][x] /\ b.balance[t][x] >= a.balance[t][x]
          /\ b.balance[t][x] >= 0 => c.balance[t][x] >= 0
          /\ a.balance[t][x] >= 0 => b.balance[t][x] >= 0
      BY <1>2 DEF Fair
    <2>2. /\ a.refund[t][x] \in Int /\ b.refund[t][x] \in Int /\ c.refund[t][x] \in Int
          /\ a.balance[t][x] \in Int /\ b.balance[t][x] \in Int /\ c.balance[t][x] \in Int
      BY <1>1, BalancesAreIntegers, Parties
    <2> QED BY ONLY <2>1, <2>2
  <1>4. ASSUME NEW t \in Token
        PROVE  Spare(c, t) >= Spare(a, t)
    <2>1. Spare(c, t) >= Spare(b, t) /\ Spare(b, t) >= Spare(a, t)
      BY <1>2 DEF Fair
    <2>2. Spare(a, t) \in Int /\ Spare(b, t) \in Int /\ Spare(c, t) \in Int
      BY <1>1, SpareIsInteger
    <2> QED BY ONLY <2>1, <2>2
  <1> QED BY <1>2, <1>3, <1>4

\* A state with the same money, that failed if the one before it did.
LEMMA FairOfBooks ==
    ASSUME PaymentsAssumption, NEW b, NEW c, NEW S, IsMoney(b), IsMoney(c),
           c.balance = b.balance, c.refund = b.refund, c.ok => b.ok
    PROVE  Fair(b, c, S)
  <1>1. \A t \in Token : Spare(c, t) = Spare(b, t) /\ Spare(b, t) \in Int
    BY SpareIsInteger DEF Spare
  <1> QED BY <1>1, BalancesAreIntegers, Parties, SMTT(30) DEF Fair

\* With as much to spare and no less to owe, the router's account is no lower.
LEMMA FairKeepsRouter ==
    ASSUME PaymentsAssumption, NEW b, NEW c, NEW S, IsMoney(b), Fair(b, c, S), c.ok,
           NEW t \in Token
    PROVE  c.balance[t][Router] >= b.balance[t][Router]
  <1> DEFINE f == b.refund[t]
             g == c.refund[t]
  <1>1. \A a \in Addr : f[a] \in Int /\ g[a] \in Int /\ f[a] <= g[a]
    BY BalancesAreIntegers DEF Fair
  <1>2. IsFiniteSet(Addr)
    BY DEF PaymentsAssumption
  <1>3. /\ Spare(b, t) = b.balance[t][Router] - SumFunctionOnSet(f, Addr)
        /\ Spare(c, t) = c.balance[t][Router] - SumFunctionOnSet(g, Addr)
        /\ Spare(c, t) >= Spare(b, t)
    BY DEF Spare, Fair
  <1>4. b.balance[t][Router] \in Int /\ c.balance[t][Router] \in Int
    BY BalancesAreIntegers, Parties DEF Fair
  <1> HIDE DEF f, g
  <1>5. /\ SumFunctionOnSet(f, Addr) <= SumFunctionOnSet(g, Addr)
        /\ SumFunctionOnSet(f, Addr) \in Int /\ SumFunctionOnSet(g, Addr) \in Int
    BY <1>1, <1>2, SumMonotone, SumIsInteger
  <1> QED BY ONLY <1>3, <1>4, <1>5

LEMMA ShortFollows ==
    ASSUME PaymentsAssumption, NEW a, NEW b, NEW c, NEW S, NEW k \in [Token -> Nat],
           IsMoney(a), IsMoney(b), Short(a, b, S, k), Fair(b, c, S)
    PROVE  Short(a, c, S, k)
  <1>1. IsMoney(c)
    BY DEF Fair
  <1> SUFFICES ASSUME c.ok
               PROVE  /\ a.ok
                      /\ \A t \in Token, x \in Addr :
                            /\ c.refund[t][x] >= a.refund[t][x]
                            /\ x \notin S => c.balance[t][x] >= a.balance[t][x]
                            /\ a.balance[t][x] >= 0 => c.balance[t][x] >= 0
                      /\ \A t \in Token :
                            /\ Spare(c, t) + k[t] >= Spare(a, t)
                            /\ a.balance[t][Router] >= 0 => c.balance[t][Router] >= 0
    BY <1>1 DEF Short
  <1>2. b.ok /\ a.ok
    BY DEF Fair, Short
  <1>3. ASSUME NEW t \in Token, NEW x \in Addr
        PROVE  /\ c.refund[t][x] >= a.refund[t][x]
               /\ x \notin S => c.balance[t][x] >= a.balance[t][x]
               /\ a.balance[t][x] >= 0 => c.balance[t][x] >= 0
    <2>1. /\ c.refund[t][x] >= b.refund[t][x] /\ b.refund[t][x] >= a.refund[t][x]
          /\ x \notin S => c.balance[t][x] >= b.balance[t][x] /\ b.balance[t][x] >= a.balance[t][x]
          /\ b.balance[t][x] >= 0 => c.balance[t][x] >= 0
          /\ a.balance[t][x] >= 0 => b.balance[t][x] >= 0
      BY <1>2 DEF Fair, Short
    <2>2. /\ a.refund[t][x] \in Int /\ b.refund[t][x] \in Int /\ c.refund[t][x] \in Int
          /\ a.balance[t][x] \in Int /\ b.balance[t][x] \in Int /\ c.balance[t][x] \in Int
      BY <1>1, BalancesAreIntegers, Parties
    <2> QED BY ONLY <2>1, <2>2
  <1>4. ASSUME NEW t \in Token
        PROVE  /\ Spare(c, t) + k[t] >= Spare(a, t)
               /\ a.balance[t][Router] >= 0 => c.balance[t][Router] >= 0
    <2>1. /\ Spare(c, t) >= Spare(b, t) /\ Spare(b, t) + k[t] >= Spare(a, t)
          /\ a.balance[t][Router] >= 0 => b.balance[t][Router] >= 0
      BY <1>2 DEF Fair, Short
    <2>2. Spare(a, t) \in Int /\ Spare(b, t) \in Int /\ Spare(c, t) \in Int /\ k[t] \in Int
      BY <1>1, SpareIsInteger
    <2>3. c.balance[t][Router] >= b.balance[t][Router]
      BY FairKeepsRouter
    <2>4. c.balance[t][Router] \in Int /\ b.balance[t][Router] \in Int
      BY <1>1, BalancesAreIntegers, Parties
    <2> QED BY ONLY <2>1, <2>2, <2>3, <2>4
  <1> QED BY <1>2, <1>3, <1>4

LEMMA FairIsShort ==
    ASSUME PaymentsAssumption, NEW b, NEW c, NEW S, IsMoney(b), Fair(b, c, S)
    PROVE  Short(b, c, S, Nothing)
  <1>1. \A t \in Token : Nothing[t] = 0
    BY DEF Nothing
  <1>2. ASSUME c.ok, NEW t \in Token
        PROVE  /\ Spare(c, t) + Nothing[t] >= Spare(b, t)
               /\ b.balance[t][Router] >= 0 => c.balance[t][Router] >= 0
    <2>1. Spare(c, t) >= Spare(b, t) /\ c.balance[t][Router] >= b.balance[t][Router]
      BY <1>2, FairKeepsRouter DEF Fair
    <2>2. Spare(c, t) \in Int /\ Spare(b, t) \in Int
      BY SpareIsInteger DEF Fair
    <2>3. c.balance[t][Router] \in Int /\ b.balance[t][Router] \in Int
      BY BalancesAreIntegers, Parties DEF Fair
    <2> QED BY <1>1, <2>1, <2>2, <2>3
  <1> QED BY <1>2, Zenon DEF Fair, Short

-----------------------------------------------------------------------------
(* The output of a swap, and a payment.                                    *)

\* What becomes of `n` that the router delivers: the fee goes to the treasury, the
\* rest to the recipient or, as a debt to the sender, nowhere.
LEMMA DeliveredInParts ==
    ASSUME PaymentsAssumption, NEW b, IsMoney(b), NEW v, NEW s, s.sender \in Addr,
           s.recipient \in Account, s.delivered \in BOOLEAN, NEW t \in Token, NEW n \in Nat
    PROVE  LET c == deliver(b, v, s, t, n)
               fee == calculate_fee(n, v)
           IN /\ fee \in 0..n
              /\ {"ok", "balance", "refund"} \subseteq DOMAIN c /\ c.ok = b.ok
              /\ Paid(b, c, t, Router, n, IF s.delivered THEN s.recipient ELSE Router, fee)
              /\ Credited(b, c, t, s.sender, IF s.delivered THEN 0 ELSE n - fee)
  <1> DEFINE c == deliver(b, v, s, t, n)
             fee == calculate_fee(n, v)
             rest == n - fee
  <1>1. fee \in 0..n
    BY FeeIsAPart
  <1>2. {"ok", "balance", "refund"} \subseteq DOMAIN c /\ c.ok = b.ok
    BY DEF IsMoney, deliver
  <1>3. c.balance = IF s.delivered
                    THEN transfer(transfer(b.balance, t, Router, Treasury, fee),
                                  t, Router, s.recipient, rest)
                    ELSE transfer(b.balance, t, Router, Treasury, fee)
    BY DEF IsMoney, deliver
  <1>4. c.refund = IF s.delivered \/ rest = 0 THEN b.refund
                   ELSE credit_refund_balance(b.refund,
                          [sender |-> s.sender, token |-> t, amount |-> n], rest)
    BY DEF IsMoney, deliver
  <1> HIDE DEF c, fee
  <1>5. Router \in Account /\ s.recipient \in Account
    BY Parties
  <1>6. Paid(b, c, t, Router, n, IF s.delivered THEN s.recipient ELSE Router, fee)
    <2>1. CASE s.delivered
      BY <1>1, <1>3, <1>5, <2>1, PaidByTwo
    <2>2. CASE ~s.delivered
      BY <1>1, <1>3, <1>5, <2>2, PaidByOne
    <2> QED BY <2>1, <2>2
  <1>7. Credited(b, c, t, s.sender, IF s.delivered THEN 0 ELSE rest)
    BY <1>4 DEF Credited, credit_refund_balance
  <1> QED BY <1>1, <1>2, <1>6, <1>7 DEF c, fee

\* Delivering `n` of what the router holds.
LEMMA Deliveries ==
    ASSUME PaymentsAssumption, NEW b, IsMoney(b), NEW v, NEW s, s.sender \in Addr,
           s.recipient \in Account, s.delivered \in BOOLEAN, NEW t \in Token, NEW n \in Nat
    PROVE  LET c == deliver(b, v, s, t, n)
           IN /\ PartedWith(b, c, t, Router, n)
              /\ c.ok = b.ok
              /\ (Treasury # Router /\ s.recipient # Router) => SpareFell(b, c, t, Router, n)
  <1> DEFINE c == deliver(b, v, s, t, n)
             fee == calculate_fee(n, v)
             z == IF s.delivered THEN s.recipient ELSE Router
             credit == IF s.delivered THEN 0 ELSE n - fee
  <1>1. /\ fee \in 0..n
        /\ {"ok", "balance", "refund"} \subseteq DOMAIN c /\ c.ok = b.ok
        /\ Paid(b, c, t, Router, n, z, fee) /\ Credited(b, c, t, s.sender, credit)
    BY DeliveredInParts
  <1> HIDE DEF c, fee
  <1>2. /\ Router \in Account /\ z \in Account /\ credit \in Nat
        /\ (credit > 0 => z = Router /\ credit = n - fee)
        /\ (s.recipient # Router => (z = Router => credit = n - fee))
    BY <1>1, Parties
  <1>3. c.ok \in BOOLEAN
    BY <1>1 DEF IsMoney
  <1> HIDE DEF z, credit
  <1>4. /\ PartedWith(b, c, t, Router, n)
        /\ (Treasury # Router /\ (z = Router => credit = n - fee)) =>
              SpareFell(b, c, t, Router, n)
    BY <1>1, <1>2, <1>3, PaidAndCredited
  <1> QED BY <1>1, <1>2, <1>4 DEF c

-----------------------------------------------------------------------------
(* Payments and batches of them.                                           *)

\* What one of the senders parts with is fair if it has that much.
LEMMA FairIfAfforded ==
    ASSUME PaymentsAssumption, NEW b, NEW c, NEW S, IsMoney(b), NEW t \in Token, NEW n \in Nat,
           NEW x \in Addr, x \in S, PartedWith(b, c, t, x, n),
           c.ok => b.ok /\ b.balance[t][x] >= n
    PROVE  Fair(b, c, S)
  <1>1. IsMoney(c)
    BY DEF PartedWith
  <1>2. ASSUME c.ok, NEW u \in Token, NEW a \in Addr
        PROVE  /\ c.refund[u][a] >= b.refund[u][a]
               /\ a \notin S => c.balance[u][a] >= b.balance[u][a]
               /\ b.balance[u][a] >= 0 => c.balance[u][a] >= 0
    <2>1. b.balance[u][a] \in Int /\ c.balance[u][a] \in Int
      BY <1>1, BalancesAreIntegers, Parties
    <2>2. /\ c.balance[u][a] >= b.balance[u][a] - Part(u, a, t, x, n)
          /\ c.refund[u][a] >= b.refund[u][a]
      BY DEF PartedWith
    <2>3. b.balance[t][x] >= n
      BY <1>2
    <2> QED BY ONLY <2>1, <2>2, <2>3, n \in Nat, x \in S DEF Part
  <1>3. ASSUME NEW u \in Token
        PROVE  Spare(c, u) >= Spare(b, u)
    <2>1. Spare(b, u) \in Int /\ Spare(c, u) \in Int
      BY <1>1, SpareIsInteger
    <2>2. Spare(c, u) >= Spare(b, u) - Part(u, Router, t, x, n)
      BY DEF PartedWith
    <2>3. Part(u, Router, t, x, n) = 0
      BY Parties DEF Part
    <2> QED BY ONLY <2>1, <2>2, <2>3
  <1> QED BY <1>1, <1>2, <1>3 DEF Fair

\* The accrual first, then the transfers; without the means, the failure.
LEMMA Payments ==
    ASSUME PaymentsAssumption, NEW b, IsMoney(b), NEW p \in Payment
    PROVE  LET c == process_single_payment(b, p)
           IN /\ PartedWith(b, c, p.token, p.sender, p.amount) \/ (IsMoney(c) /\ ~c.ok)
              /\ c.ok => b.ok /\ b.balance[p.token][p.sender] >= p.amount
  <1> DEFINE c == process_single_payment(b, p)
             d == Limits!accrue_user_record(b, p.sender, p.amount)
             t == p.token
             x == p.sender
             n == p.amount
             fee == calculate_fee(n, Limits!load_user_record(b, x).volume)
             rest == n - fee
             z == IF p.delivered THEN p.recipient ELSE Router
             credit == IF p.delivered THEN 0 ELSE rest
  <1>1. /\ t \in Token /\ x \in Addr /\ x \in Account /\ n \in Nat
        /\ p.delivered \in BOOLEAN /\ p.recipient \in Account
    BY Parties DEF Payment
  <1>2. IsMoney(d) /\ d.balance = b.balance /\ d.refund = b.refund /\ (d.ok => b.ok)
    BY BooksAside
  <1>3. fee \in 0..n
    BY <1>1, FeeIsAPart
  <1>4. CASE b.balance[t][x] < n
    <2>1. c = [d EXCEPT !.ok = FALSE]
      BY <1>4, Zenon DEF process_single_payment
    <2> HIDE DEF d, c
    <2>2. IsMoney(c) /\ ~c.ok
      BY <1>2, <2>1 DEF IsMoney
    <2> QED BY <2>2 DEF c
  <1>5. CASE ~(b.balance[t][x] < n)
    <2>1. c = [d EXCEPT
                 !.balance = transfer(transfer(b.balance, t, x, Treasury, fee), t, x, z, rest),
                 !.refund = IF p.delivered \/ rest = 0 THEN @
                            ELSE credit_refund_balance(@, p, rest)]
      BY <1>5, Zenon DEF process_single_payment
    <2> HIDE DEF d, c, fee
    <2>2. /\ {"ok", "balance", "refund"} \subseteq DOMAIN c /\ c.ok = d.ok
          /\ c.balance = transfer(transfer(b.balance, t, x, Treasury, fee), t, x, z, rest)
      BY <1>2, <2>1 DEF IsMoney
    <2>3. c.refund = IF p.delivered \/ rest = 0 THEN b.refund
                     ELSE credit_refund_balance(b.refund, p, rest)
      BY <1>2, <2>1 DEF IsMoney
    <2>4. /\ z \in Account /\ credit \in Nat /\ fee \in Int /\ rest \in Nat
          /\ (credit > 0 => z = Router /\ credit = n - fee)
      BY <1>1, <1>3, Parties, SMTT(30)
    <2>5. Paid(b, c, t, x, n, z, fee)
      BY <1>1, <1>3, <2>2, <2>4, PaidByTwo
    <2>6. Credited(b, c, t, x, credit)
      BY <2>3 DEF Credited, credit_refund_balance
    <2>7. c.ok \in BOOLEAN
      BY <1>2, <2>2 DEF IsMoney
    <2> HIDE DEF z, credit
    <2>8. PartedWith(b, c, t, x, n)
      BY <1>1, <1>3, <2>2, <2>4, <2>5, <2>6, <2>7, PaidAndCredited
    <2>9. b.balance[t][x] >= n
      BY <1>1, <1>5, BalancesAreIntegers
    <2> QED BY <1>2, <2>2, <2>8, <2>9 DEF c
  <1> QED BY <1>4, <1>5

LEMMA PaymentIsFair ==
    ASSUME PaymentsAssumption, NEW b, NEW S, IsMoney(b), NEW p \in Payment, p.sender \in S
    PROVE  Fair(b, process_single_payment(b, p), S)
  <1> DEFINE c == process_single_payment(b, p)
             t == p.token
             x == p.sender
             n == p.amount
  <1>1. /\ PartedWith(b, c, t, x, n) \/ (IsMoney(c) /\ ~c.ok)
        /\ c.ok => b.ok /\ b.balance[t][x] >= n
    BY Payments
  <1>2. t \in Token /\ x \in Addr /\ n \in Nat
    BY DEF Payment
  <1> HIDE DEF c, t, n
  <1>3. CASE PartedWith(b, c, t, x, n)
    BY <1>1, <1>2, <1>3, FairIfAfforded DEF c, t, n
  <1>4. CASE IsMoney(c) /\ ~c.ok
    BY <1>4 DEF Fair, c
  <1> QED BY <1>1, <1>3, <1>4

LEMMA SettleIsFair ==
    ASSUME PaymentsAssumption, NEW b, NEW S, IsMoney(b), NEW p \in Payment, p.sender \in S
    PROVE  Fair(b, settle(b, p), S)
  <1> DEFINE d == Limits!check_rate_limit(b, p.sender)
             c == process_single_payment(d, p)
  <1>1. IsMoney(d) /\ d.balance = b.balance /\ d.refund = b.refund /\ (d.ok => b.ok)
    BY BooksAside
  <1> HIDE DEF d
  <1>2. Fair(b, d, S)
    BY <1>1, FairOfBooks
  <1>3. Fair(d, c, S)
    BY <1>1, PaymentIsFair
  <1> HIDE DEF c
  <1>4. Fair(b, c, S)
    BY <1>1, <1>2, <1>3, FairFollows
  <1> QED BY <1>4 DEF settle, d, c

SettleLoop == INSTANCE FoldTheorems WITH Op <- settle

LEMMA SettlesAreLoop ==
    ASSUME NEW b, NEW ps
    PROVE  FoldLeft(settle, b, ps) = SettleLoop!Looped(b, ps)
  BY DEF FoldLeft, MapThenFoldSet, SettleLoop!Looped, SettleLoop!IsLoopTable, SettleLoop!LoopEntry,
         settle, Max, SettleLoop!Highest

LEMMA BatchIsFair ==
    ASSUME PaymentsAssumption, NEW b, NEW S, IsMoney(b), NEW ps \in Seq(Payment),
           \A i \in DOMAIN ps : ps[i].sender \in S
    PROVE  Fair(b, FoldLeft(settle, b, ps), S)
  <1> DEFINE n == Len(ps)
  <1>1. n \in Nat /\ DOMAIN ps = 1..n
    OBVIOUS
  <1>2. PICK t : SettleLoop!IsTrace(t, b, ps, n) /\ SettleLoop!Looped(b, ps) = t[n]
    BY <1>1, SettleLoop!LoopHasTrace
  <1> DEFINE V == {k \in Nat : k <= n => IsMoney(t[k]) /\ Fair(b, t[k], S)}
  <1>3. 0 \in V
    BY <1>2, FairAtFirst DEF SettleLoop!IsTrace
  <1>4. ASSUME NEW k \in Nat, k \in V PROVE k + 1 \in V
    <2> SUFFICES ASSUME k + 1 <= n
                 PROVE  IsMoney(t[k + 1]) /\ Fair(b, t[k + 1], S)
      OBVIOUS
    <2> DEFINE c == t[k]
               p == ps[k + 1]
               d == settle(c, p)
    <2>1. k + 1 \in 1..n /\ (k + 1) - 1 = k /\ IsMoney(c) /\ Fair(b, c, S)
      BY <1>4
    <2>2. t[k + 1] = d
      BY <1>2, <2>1 DEF SettleLoop!IsTrace
    <2>3. p \in Payment /\ p.sender \in S
      BY <1>1, <2>1
    <2> HIDE DEF c, p
    <2>4. Fair(c, d, S)
      BY <2>1, <2>3, SettleIsFair
    <2> HIDE DEF d
    <2>5. Fair(b, d, S)
      BY <2>1, <2>4, FairFollows
    <2> QED BY <2>2, <2>5 DEF Fair
  <1>5. n \in V
    <2> HIDE DEF V
    <2> QED BY <1>1, <1>3, <1>4, NatSetInduction
  <1>6. Fair(b, t[n], S)
    BY <1>1, <1>5
  <1> QED BY <1>2, <1>6, SettlesAreLoop

-----------------------------------------------------------------------------
(* Single-hop swaps.                                                       *)

\* What the router took in, it gave away: the call changed what it has to spare
\* by nothing, or by what stays with it as the treasury or as the recipient.
LEMMA PassedOn ==
    ASSUME PaymentsAssumption, NEW b, NEW m, NEW c, NEW S, NEW t \in Token, NEW n \in Nat,
           IsMoney(b), Legs(b, m, S),
           m.ok => \A u \in Token : Growth(b, m, u) = Whole(u, t, n),
           PartedWith(m, c, t, Router, n), c.ok => m.ok
    PROVE  /\ Fair(b, c, S)
           /\ SpareFell(m, c, t, Router, n) => Steady(b, c)
  <1>1. IsMoney(m) /\ IsMoney(c) /\ m.refund = b.refund
    BY DEF PartedWith, Legs
  <1>2. ASSUME c.ok, NEW u \in Token, NEW a \in Addr
        PROVE  /\ c.refund[u][a] >= b.refund[u][a]
               /\ a \notin S => c.balance[u][a] >= b.balance[u][a]
               /\ b.balance[u][a] >= 0 => c.balance[u][a] >= 0
    <2>1. /\ b.balance[u][a] \in Int /\ c.balance[u][a] \in Int /\ m.balance[u][a] \in Int
          /\ a # Router
      BY <1>1, BalancesAreIntegers, Parties
    <2>2. /\ c.balance[u][a] >= m.balance[u][a] - Part(u, a, t, Router, n)
          /\ c.refund[u][a] >= b.refund[u][a]
      BY <1>1 DEF PartedWith
    <2>3. /\ a \notin S => m.balance[u][a] >= b.balance[u][a]
          /\ b.balance[u][a] >= 0 => m.balance[u][a] >= 0
      BY <1>2 DEF Legs
    <2>4. Part(u, a, t, Router, n) = 0
      BY <2>1 DEF Part
    <2> QED BY ONLY <2>1, <2>2, <2>3, <2>4
  <1>3. ASSUME c.ok, NEW u \in Token
        PROVE  /\ Spare(c, u) >= Spare(b, u)
               /\ SpareFell(m, c, t, Router, n) => Spare(c, u) = Spare(b, u)
    <2>1. Spare(b, u) \in Int /\ Spare(c, u) \in Int /\ Spare(m, u) \in Int
      BY <1>1, SpareIsInteger
    <2>2. /\ Spare(c, u) >= Spare(m, u) - Part(u, Router, t, Router, n)
          /\ SpareFell(m, c, t, Router, n) =>
                Spare(c, u) = Spare(m, u) - Part(u, Router, t, Router, n)
      BY DEF PartedWith, SpareFell
    <2>3. Spare(m, u) = Spare(b, u) + Whole(u, t, n)
      <3> DEFINE owed == SumFunctionOnSet(b.refund[u], Addr)
                 x == b.balance[u][Router]
                 y == m.balance[u][Router]
      <3>1. x \in Int /\ y \in Int
        BY <1>1, BalancesAreIntegers, Parties
      <3>2. y - x = Whole(u, t, n)
        BY <1>3 DEF Growth
      <3>3. Spare(m, u) = y - owed /\ Spare(b, u) = x - owed
        BY <1>1 DEF Spare
      <3>4. owed \in Int
        <4> DEFINE f == b.refund[u]
        <4>1. \A z \in Addr : f[z] \in Int
          BY BalancesAreIntegers
        <4>2. IsFiniteSet(Addr)
          BY DEF PaymentsAssumption
        <4> HIDE DEF f
        <4>3. SumFunctionOnSet(f, Addr) \in Int
          BY <4>1, <4>2, SumIsInteger
        <4> QED BY <4>3 DEF f
      <3> HIDE DEF owed, x, y
      <3> QED BY ONLY <3>1, <3>2, <3>3, <3>4
    <2>4. Part(u, Router, t, Router, n) = Whole(u, t, n)
      BY DEF Part, Whole
    <2>5. Whole(u, t, n) \in Int
      BY DEF Whole
    <2> QED BY <2>1, <2>2, <2>3, <2>4, <2>5
  <1>4. c.ok => b.ok
    BY DEF Legs
  <1> QED BY <1>1, <1>2, <1>3, <1>4 DEF Fair, Steady

\* The same money, and a reason less to succeed.
LEMMA Doubted ==
    ASSUME PaymentsAssumption, NEW b, NEW c, NEW d, NEW S, IsMoney(b), Fair(b, c, S),
           {"ok", "balance", "refund"} \subseteq DOMAIN d, d.ok \in BOOLEAN,
           d.balance = c.balance, d.refund = c.refund, d.ok => c.ok
    PROVE  /\ Fair(b, d, S)
           /\ Steady(b, c) => Steady(b, d)
  <1>1. IsMoney(d) /\ \A u \in Token : Spare(d, u) = Spare(c, u)
    BY DEF Fair, IsMoney, Spare
  <1> QED BY <1>1 DEF Fair, Steady

\* One swap.
LEMMA SwapIsFair ==
    ASSUME PaymentsAssumption, NEW b, NEW S, IsMoney(b), NEW s \in SwapPayment, NEW ans,
           ans.out \in Nat, s.sender \in S, s.dex \in S
    PROVE  LET c == process_single_swap_payment(b, s, ans)
           IN /\ Fair(b, c, S)
              /\ (Treasury # Router /\ s.recipient # Router) => Steady(b, c)
  <1> DEFINE charged_ == Limits!accrue_user_record(b, s.sender, s.amount)
             pulled == pull(charged_, s.sender, s.sell, s.amount)
             traded == trade(pulled, s.dex, s.sell, s.buy, s.amount, ans.out, 0)
             given == deliver(traded, volume_of(b, s.sender), s, s.buy, ans.out)
             c == process_single_swap_payment(b, s, ans)
  <1>1. /\ s.sender \in Addr /\ s.recipient \in Account /\ s.dex \in Addr
        /\ s.sell \in Token /\ s.buy \in Token /\ s.amount \in Nat /\ s.delivered \in BOOLEAN
        /\ s.dex \in Addr /\ s.amount \in Int
    BY DEF SwapPayment
  <1>2. c = [given EXCEPT !.ok = @ /\ swap_admissible(s) /\ output_accepted(s, ans)]
    BY DEF process_single_swap_payment
  <1>3. /\ IsMoney(charged_) /\ charged_.balance = b.balance /\ charged_.refund = b.refund
        /\ charged_.ok => b.ok
    BY BooksAside
  <1> HIDE DEF charged_
  <1>4. IsMoney(charged_) /\ Legs(b, charged_, S)
        /\ \A u \in Token : Growth(b, charged_, u) = 0
    BY <1>3, LegsOfBooks
  <1> DEFINE sell == s.sell
             buy == s.buy
             x == s.sender
             dex == s.dex
             n == s.amount
             out == ans.out
  <1>5. x \in Addr /\ x \in S /\ dex \in Addr /\ dex \in S /\ sell \in Token /\ buy \in Token
        /\ n \in Nat /\ n \in Int /\ out \in Nat /\ 0 \in Nat
    BY <1>1
  <1>6. pulled = pull(charged_, x, sell, n) /\ traded = trade(pulled, dex, sell, buy, n, out, 0)
    OBVIOUS
  <1> HIDE DEF sell, buy, x, dex, n, out, pulled, traded
  <1>7. Legs(charged_, pulled, S)
        /\ \A u \in Token : Growth(charged_, pulled, u) = Whole(u, sell, n)
    BY <1>5, <1>6, <1>4, Pulls, SMTT(30)
  <1>8. IsMoney(pulled)
    BY <1>7 DEF Legs
  <1>9. Legs(pulled, traded, S) /\ Traded(pulled, traded, sell, buy, n, out, 0)
    BY <1>5, <1>6, <1>8, Trades
  <1>10. Legs(charged_, pulled, S)
         /\ \A u \in Token : Growth(charged_, pulled, u) = Whole(u, s.sell, s.amount)
    BY <1>7 DEF sell, n
  <1>11. Legs(pulled, traded, S)
         /\ \A u \in Token : Growth(pulled, traded, u)
              = Whole(u, s.buy, ans.out) - Whole(u, s.sell, s.amount) + Whole(u, s.sell, 0)
    BY <1>9 DEF Traded, sell, buy, n, out
  <1>12. Legs(b, traded, S)
         /\ \A u \in Token : Growth(b, traded, u)
              = Growth(b, charged_, u) + Growth(charged_, pulled, u) + Growth(pulled, traded, u)
    <2>1. IsMoney(pulled)
      BY <1>10 DEF Legs
    <2>2. Legs(charged_, traded, S)
          /\ \A u \in Token : Growth(charged_, traded, u)
               = Growth(charged_, pulled, u) + Growth(pulled, traded, u)
      BY <1>4, <1>10, <1>11, <2>1, LegsFollow
    <2>3. Legs(b, traded, S)
          /\ \A u \in Token : Growth(b, traded, u)
               = Growth(b, charged_, u) + Growth(charged_, traded, u)
      BY <1>4, <2>2, LegsFollow
    <2>4. \A u \in Token : Growth(charged_, pulled, u) \in Int /\ Growth(pulled, traded, u) \in Int
      BY <1>1, <1>10, <1>11 DEF Whole
    <2> QED BY <1>4, <2>2, <2>3, <2>4
  <1>13. \A u \in Token : Growth(b, traded, u) = Whole(u, s.buy, ans.out)
    BY <1>1, <1>4, <1>10, <1>11, <1>12 DEF Whole
  <1>14. IsMoney(traded)
    BY <1>12 DEF Legs
  <1>15. /\ PartedWith(traded, given, s.buy, Router, ans.out)
         /\ given.ok = traded.ok
         /\ (Treasury # Router /\ s.recipient # Router) =>
               SpareFell(traded, given, s.buy, Router, ans.out)
    BY <1>1, <1>14, Deliveries
  <1> HIDE DEF given, c
  <1>16. Fair(b, given, S)
         /\ (SpareFell(traded, given, s.buy, Router, ans.out) => Steady(b, given))
    BY <1>1, <1>12, <1>13, <1>15, PassedOn
  <1>17. /\ {"ok", "balance", "refund"} \subseteq DOMAIN c /\ c.ok \in BOOLEAN
         /\ c.balance = given.balance /\ c.refund = given.refund /\ (c.ok => given.ok)
    BY <1>2, <1>16 DEF Fair, IsMoney
  <1>18. Fair(b, c, S) /\ (Steady(b, given) => Steady(b, c))
    BY <1>16, <1>17, Doubted
  <1> QED BY <1>15, <1>16, <1>18 DEF c

SwapLoop == INSTANCE FoldTheorems WITH Op <- swap_of_batch

LEMMA SwapsAreLoop ==
    ASSUME NEW b, NEW ms
    PROVE  FoldLeft(swap_of_batch, b, ms) = SwapLoop!Looped(b, ms)
  BY DEF FoldLeft, MapThenFoldSet, SwapLoop!Looped, SwapLoop!IsLoopTable, SwapLoop!LoopEntry,
         swap_of_batch, Max, SwapLoop!Highest

\* A batch of swaps, none of which the router receives itself.
LEMMA SwapsAreFair ==
    ASSUME PaymentsAssumption, NEW b, NEW S, IsMoney(b), NEW n \in Nat, NEW ms,
           DOMAIN ms = 1..n,
           \A i \in 1..n : /\ ms[i].swap \in SwapPayment /\ ms[i].answer.out \in Nat
                           /\ ms[i].swap.sender \in S /\ ms[i].swap.dex \in S
    PROVE  /\ Fair(b, FoldLeft(swap_of_batch, b, ms), S)
           /\ (Treasury # Router /\ \A i \in 1..n : ms[i].swap.recipient # Router) =>
                 Steady(b, FoldLeft(swap_of_batch, b, ms))
  <1> DEFINE Direct == Treasury # Router /\ \A i \in 1..n : ms[i].swap.recipient # Router
  <1>1. PICK t : SwapLoop!IsTrace(t, b, ms, n) /\ SwapLoop!Looped(b, ms) = t[n]
    BY SwapLoop!LoopHasTrace
  <1> DEFINE V == {k \in Nat : k <= n => /\ IsMoney(t[k]) /\ Fair(b, t[k], S)
                                         /\ Direct => Steady(b, t[k])}
  <1>2. 0 \in V
    <2>1. t[0] = b
      BY <1>1 DEF SwapLoop!IsTrace
    <2>2. Steady(b, b)
      BY DEF Steady
    <2> QED BY <2>1, <2>2, FairAtFirst
  <1>3. ASSUME NEW k \in Nat, k \in V PROVE k + 1 \in V
    <2> SUFFICES ASSUME k + 1 <= n
                 PROVE  /\ IsMoney(t[k + 1]) /\ Fair(b, t[k + 1], S)
                        /\ Direct => Steady(b, t[k + 1])
      OBVIOUS
    <2> DEFINE c == t[k]
               m == ms[k + 1]
               s == m.swap
               ans == m.answer
               d == process_single_swap_payment(c, s, ans)
    <2>1. k + 1 \in 1..n /\ (k + 1) - 1 = k /\ IsMoney(c) /\ Fair(b, c, S)
          /\ (Direct => Steady(b, c))
      BY <1>3
    <2>2. t[k + 1] = d
      BY <1>1, <2>1 DEF SwapLoop!IsTrace, swap_of_batch
    <2>3. s \in SwapPayment /\ ans.out \in Nat /\ s.sender \in S /\ s.dex \in S
          /\ (Direct => Treasury # Router /\ s.recipient # Router)
      BY <2>1
    <2> HIDE DEF c, m, s, ans, Direct
    <2>4. Fair(c, d, S) /\ ((Treasury # Router /\ s.recipient # Router) => Steady(c, d))
      BY <2>1, <2>3, SwapIsFair
    <2> HIDE DEF d
    <2>5. Fair(b, d, S)
      BY <2>1, <2>4, FairFollows
    <2>6. Direct => Steady(b, d)
      <3>1. d.ok => c.ok
        BY <2>4 DEF Fair
      <3> QED BY <2>1, <2>3, <2>4, <3>1 DEF Steady
    <2> QED BY <2>2, <2>5, <2>6 DEF Fair
  <1> HIDE DEF Direct
  <1>4. n \in V
    <2> HIDE DEF V
    <2> QED BY <1>2, <1>3, NatSetInduction
  <1>5. Fair(b, t[n], S) /\ (Direct => Steady(b, t[n]))
    BY <1>4
  <1> QED BY <1>1, <1>5, SwapsAreLoop DEF Direct

-----------------------------------------------------------------------------
(* Split swaps.                                                            *)

SplitLoop == INSTANCE FoldTheorems WITH Op <- split

LEMMA SplitsAreLoop ==
    ASSUME NEW h, NEW es
    PROVE  FoldLeft(split, h, es) = SplitLoop!Looped(h, es)
  BY DEF FoldLeft, MapThenFoldSet, SplitLoop!Looped, SplitLoop!IsLoopTable, SplitLoop!LoopEntry,
         split, Max, SplitLoop!Highest

\* Between the splits of an amount `n`: the router holds what is not allocated
\* of it, and what the DEXes delivered so far.
Halfway(b, h, S, sell, buy, n) ==
    /\ IsMoney(h.ledger)
    /\ Legs(b, h.ledger, S)
    /\ h.allocated \in Int /\ h.total \in Nat
    /\ \A u \in Token : Growth(b, h.ledger, u)
                          = Whole(u, sell, n - h.allocated) + Whole(u, buy, h.total)

\* One split led from `h` to `g`, through a DEX in S.
SplitTo(h, g, e, share, S) ==
    /\ share \in Int /\ g.allocated = h.allocated + share
    /\ g.total = h.total + e.out
    /\ IsMoney(g.ledger) /\ Legs(h.ledger, g.ledger, S)
    /\ \A u \in Token : Growth(h.ledger, g.ledger, u)
                          = Whole(u, e.buy, e.out) - Whole(u, e.sell, share)
    /\ g.ledger.ok => e.out >= e.min_out

LEMMA OneSplit ==
    ASSUME PaymentsAssumption, NEW S, NEW h, IsMoney(h.ledger), h.allocated \in Int,
           h.total \in Nat, NEW e, e.dex \in Addr, e.dex \in S, e.sell \in Token,
           e.buy \in Token, e.amount \in Nat, e.weight \in Nat, e.out \in Nat
    PROVE  SplitTo(h, split(h, e), e, split_share(h, e), S)
  <1> DEFINE share == split_share(h, e)
             sell == e.sell
             buy == e.buy
             n == e.amount
             dex == e.dex
             out == e.out
             led == h.ledger
             traded == trade(led, dex, sell, buy, share, out, 0)
             g == split(h, e)
             kept == g.ledger
  <1>1. IsMoney(led) /\ sell \in Token /\ buy \in Token
    OBVIOUS
  <1>2. share \in Int
    <2>1. n * e.weight \in Int /\ BpsDivisor \in Nat \ {0}
      BY DEF PaymentsAssumption
    <2>2. (n * e.weight) \div BpsDivisor \in Int
      BY <2>1
    <2> QED BY <2>2, SMTT(30) DEF split_share
  <1>3. /\ kept = [traded EXCEPT !.ok = @ /\ share > 0 /\ out >= e.min_out]
        /\ g.allocated = h.allocated + share /\ g.total = h.total + out
    BY DEF split
  <1>4. dex \in Addr /\ dex \in S /\ out \in Nat /\ 0 \in Nat
        /\ traded = trade(led, dex, sell, buy, share, out, 0)
    OBVIOUS
  <1> HIDE DEF share, sell, buy, dex, out, led, g, kept, traded
  <1>5. Legs(led, traded, S)
        /\ \A u \in Token : Growth(led, traded, u)
             = Whole(u, buy, out) - Whole(u, sell, share) + Whole(u, sell, 0)
    <2>1. Legs(led, traded, S) /\ Traded(led, traded, sell, buy, share, out, 0)
      BY <1>1, <1>2, <1>4, Trades
    <2> QED BY <2>1 DEF Traded
  <1>6. IsMoney(traded)
    BY <1>5 DEF Legs
  <1>7. /\ IsMoney(kept) /\ kept.balance = traded.balance /\ kept.refund = traded.refund
        /\ kept.ok => traded.ok /\ out >= e.min_out
    BY <1>3, <1>6 DEF IsMoney
  <1>8. Legs(traded, kept, S) /\ \A u \in Token : Growth(traded, kept, u) = 0
    BY <1>6, <1>7, LegsOfBooks
  <1>9. Legs(led, kept, S)
        /\ \A u \in Token : Growth(led, kept, u) = Growth(led, traded, u) + Growth(traded, kept, u)
    BY <1>1, <1>5, <1>6, <1>8, LegsFollow
  <1>10. ASSUME NEW u \in Token
         PROVE  Growth(led, kept, u) = Whole(u, buy, out) - Whole(u, sell, share)
    BY <1>2, <1>4, <1>5, <1>8, <1>9 DEF Whole
  <1> QED BY <1>2, <1>3, <1>7, <1>9, <1>10 DEF SplitTo, kept, g, share, led, sell, buy, out

LEMMA SplitKeeps ==
    ASSUME PaymentsAssumption, NEW b, NEW S, IsMoney(b), NEW sell \in Token,
           NEW buy \in Token, NEW n \in Nat, NEW h, Halfway(b, h, S, sell, buy, n),
           NEW e, e.dex \in Addr, e.dex \in S, e.sell = sell, e.buy = buy, e.amount = n,
           e.weight \in Nat, e.out \in Nat
    PROVE  Halfway(b, split(h, e), S, sell, buy, n)
  <1> DEFINE share == split_share(h, e)
             out == e.out
             led == h.ledger
             g == split(h, e)
             kept == g.ledger
  <1>1. /\ IsMoney(led) /\ Legs(b, led, S) /\ h.allocated \in Int /\ h.total \in Nat
        /\ \A u \in Token : Growth(b, led, u)
                              = Whole(u, sell, n - h.allocated) + Whole(u, buy, h.total)
    BY DEF Halfway
  <1>2. /\ share \in Int /\ g.allocated = h.allocated + share /\ g.total = h.total + out
        /\ IsMoney(kept) /\ Legs(led, kept, S)
        /\ \A u \in Token : Growth(led, kept, u) = Whole(u, buy, out) - Whole(u, sell, share)
    <2>1. /\ IsMoney(h.ledger) /\ h.allocated \in Int /\ h.total \in Nat
          /\ e.dex \in Addr /\ e.dex \in S /\ e.sell \in Token /\ e.buy \in Token
          /\ e.amount \in Nat /\ e.weight \in Nat /\ e.out \in Nat
      BY <1>1
    <2> HIDE DEF share, g
    <2>2. SplitTo(h, g, e, share, S)
      BY <2>1, OneSplit DEF share, g
    <2> QED BY <2>2 DEF SplitTo
  <1> HIDE DEF share, led, g, kept, out
  <1>3. Legs(b, kept, S)
        /\ \A u \in Token : Growth(b, kept, u) = Growth(b, led, u) + Growth(led, kept, u)
    BY <1>1, <1>2, LegsFollow, SMTT(30)
  <1>4. out \in Nat
    BY DEF out
  <1>5. ASSUME NEW u \in Token
        PROVE  Growth(b, kept, u) = Whole(u, sell, n - g.allocated) + Whole(u, buy, g.total)
    <2>1. /\ Growth(b, kept, u) = Growth(b, led, u) + Growth(led, kept, u)
          /\ Growth(led, kept, u) = Whole(u, buy, out) - Whole(u, sell, share)
          /\ Growth(b, led, u) = Whole(u, sell, n - h.allocated) + Whole(u, buy, h.total)
      BY <1>1, <1>2, <1>3
    <2>2. /\ h.allocated \in Int /\ h.total \in Nat /\ share \in Int
          /\ g.allocated = h.allocated + share /\ g.total = h.total + out
      BY <1>1, <1>2
    <2> QED BY ONLY <1>4, <2>1, <2>2, n \in Nat DEF Whole
  <1>6. g.allocated \in Int /\ g.total \in Nat
    <2>1. /\ h.allocated \in Int /\ h.total \in Nat /\ share \in Int
          /\ g.allocated = h.allocated + share /\ g.total = h.total + out
      BY <1>1, <1>2
    <2> QED BY ONLY <1>4, <2>1
  <1> QED BY <1>2, <1>3, <1>5, <1>6 DEF Halfway, kept, g

\* The last split takes all that is left.
LEMMA LastSplit ==
    ASSUME NEW h, NEW e, h.allocated \in Int, e.amount \in Nat, e.is_last
    PROVE  split(h, e).allocated = e.amount
  BY DEF split, split_share

\* The splits of `s` one by one, as the loop takes them, with DEXes in S.
Itemised(s, es, len, S) ==
    /\ len \in Nat /\ len > 0 /\ DOMAIN es = 1..len /\ DOMAIN s.splits = 1..len
    /\ \A i \in 1..len :
          /\ es[i].dex \in Addr /\ es[i].dex \in S
          /\ es[i].sell = s.sell /\ es[i].buy = s.buy /\ es[i].amount = s.amount
          /\ es[i].weight \in Nat /\ es[i].out \in Nat
          /\ es[i].min_out = s.splits[i].min_out /\ es[i].min_out \in Nat
          /\ i = len => es[i].is_last

LEMMA SplitLegFields ==
    ASSUME NEW s \in SplitPayment, NEW as, NEW S, s.splits # <<>>,
           \A i \in DOMAIN s.splits : as[i].out \in Nat /\ s.splits[i].dex \in S
    PROVE  Itemised(s, SplitLegs(s, as), Len(s.splits), S)
  <1> DEFINE ws == s.splits
             len == Len(ws)
             es == SplitLegs(s, as)
             R == [dex : Addr, weight : Nat, min_out : Nat]
  <1>1. ws \in Seq(R) /\ ws # <<>>
    BY DEF SplitPayment
  <1>2. len \in Nat /\ len > 0 /\ DOMAIN ws = 1..len
    <2> HIDE DEF ws, R
    <2> QED BY <1>1, SMTT(30)
  <1>3. DOMAIN es = 1..len
    BY <1>2 DEF SplitLegs
  <1>4. ASSUME NEW i \in 1..len
        PROVE  /\ es[i].dex = ws[i].dex /\ es[i].weight = ws[i].weight
               /\ es[i].min_out = ws[i].min_out
               /\ es[i].sell = s.sell /\ es[i].buy = s.buy /\ es[i].amount = s.amount
               /\ es[i].out = as[i].out /\ (i = len => es[i].is_last)
    BY <1>2 DEF SplitLegs
  <1>5. ASSUME NEW i \in 1..len
        PROVE  /\ ws[i].dex \in Addr /\ ws[i].dex \in S /\ ws[i].weight \in Nat
               /\ ws[i].min_out \in Nat /\ as[i].out \in Nat
    <2>1. ws[i] \in R
      <3> HIDE DEF ws, R
      <3> QED BY <1>1, <1>2
    <2>2. as[i].out \in Nat /\ ws[i].dex \in S
      BY <1>2
    <2> QED BY <2>1, <2>2
  <1> HIDE DEF ws, len, es
  <1>6. \A i \in 1..len :
           /\ es[i].dex \in Addr /\ es[i].dex \in S
           /\ es[i].sell = s.sell /\ es[i].buy = s.buy /\ es[i].amount = s.amount
           /\ es[i].weight \in Nat /\ es[i].out \in Nat
           /\ es[i].min_out = ws[i].min_out /\ es[i].min_out \in Nat
           /\ i = len => es[i].is_last
    BY <1>4, <1>5
  <1> QED BY <1>2, <1>3, <1>6 DEF Itemised, ws, len, es

LEMMA SplitSwapIsFair ==
    ASSUME PaymentsAssumption, NEW b, NEW S, IsMoney(b), NEW s \in SplitPayment, NEW as,
           s.splits # <<>>,
           \A i \in DOMAIN s.splits : as[i].out \in Nat /\ s.splits[i].dex \in S,
           s.sender \in S
    PROVE  LET c == process_split_payment_with_swap(b, s, as)
           IN /\ Fair(b, c, S)
              /\ (Treasury # Router /\ s.recipient # Router) => Steady(b, c)
  <1> DEFINE charged_ == Limits!accrue_user_record(b, s.sender, s.amount)
             sell == s.sell
             buy == s.buy
             x == s.sender
             n == s.amount
             len == Len(s.splits)
             es == SplitLegs(s, as)
             pulled == pull(charged_, x, sell, n)
             start == [ledger |-> pulled, allocated |-> 0, total |-> 0]
             end == FoldLeft(split, start, es)
             traded == end.ledger
             given == deliver(traded, volume_of(b, s.sender), s, s.buy, end.total)
             c == process_split_payment_with_swap(b, s, as)
  <1>1. /\ s.sender \in Addr /\ s.recipient \in Account /\ s.delivered \in BOOLEAN
        /\ s.buy \in Token
        /\ x \in Addr /\ x \in S /\ sell \in Token /\ buy \in Token /\ n \in Nat
    BY DEF SplitPayment
  <1>2. c = given
    BY DEF process_split_payment_with_swap
  <1>3. /\ IsMoney(charged_) /\ charged_.balance = b.balance /\ charged_.refund = b.refund
        /\ charged_.ok => b.ok
    BY BooksAside
  <1> HIDE DEF charged_
  <1>4. Legs(b, charged_, S) /\ \A u \in Token : Growth(b, charged_, u) = 0
    BY <1>3, LegsOfBooks
  <1>5. /\ len \in Nat /\ len > 0 /\ DOMAIN es = 1..len
        /\ \A i \in 1..len :
              /\ es[i].dex \in Addr /\ es[i].dex \in S /\ es[i].sell = sell /\ es[i].buy = buy
              /\ es[i].amount = n /\ es[i].weight \in Nat /\ es[i].out \in Nat
              /\ i = len => es[i].is_last
    <2> HIDE DEF len, es
    <2>1. Itemised(s, es, len, S)
      BY SplitLegFields DEF len, es
    <2> QED BY <2>1 DEF Itemised
  <1> HIDE DEF sell, buy, x, n, len, es
  <1>6. Legs(charged_, pulled, S)
        /\ \A u \in Token : Growth(charged_, pulled, u) = Whole(u, sell, n)
    BY <1>1, <1>3, Pulls, SMTT(30)
  <1> HIDE DEF pulled
  <1>7. Legs(b, pulled, S)
        /\ \A u \in Token : Growth(b, pulled, u)
                              = Growth(b, charged_, u) + Growth(charged_, pulled, u)
    BY <1>3, <1>4, <1>6, LegsFollow
  <1>8. Halfway(b, start, S, sell, buy, n)
    <2>1. IsMoney(pulled)
      BY <1>7 DEF Legs
    <2>2. \A u \in Token : Growth(b, pulled, u) = Whole(u, sell, n - 0) + Whole(u, buy, 0)
      BY <1>1, <1>4, <1>6, <1>7 DEF Whole
    <2> QED BY <1>7, <2>1, <2>2 DEF Halfway
  <1> HIDE DEF start, end
  <1>9. PICK t : SplitLoop!IsTrace(t, start, es, len) /\ SplitLoop!Looped(start, es) = t[len]
    BY <1>5, SplitLoop!LoopHasTrace
  <1> DEFINE V == {k \in Nat : k <= len => /\ Halfway(b, t[k], S, sell, buy, n)
                                           /\ k = len /\ k # 0 => t[k].allocated = n}
  <1>10. 0 \in V
    BY <1>8, <1>9 DEF SplitLoop!IsTrace
  <1>11. ASSUME NEW k \in Nat, k \in V PROVE k + 1 \in V
    <2> SUFFICES ASSUME k + 1 <= len
                 PROVE  /\ Halfway(b, t[k + 1], S, sell, buy, n)
                        /\ k + 1 = len => t[k + 1].allocated = n
      OBVIOUS
    <2> DEFINE h == t[k]
               e == es[k + 1]
               g == split(h, e)
    <2>1. k + 1 \in 1..len /\ (k + 1) - 1 = k /\ Halfway(b, h, S, sell, buy, n)
      BY <1>5, <1>11
    <2>2. t[k + 1] = g
      BY <1>9, <2>1 DEF SplitLoop!IsTrace
    <2>3. /\ e.dex \in Addr /\ e.dex \in S /\ e.sell = sell /\ e.buy = buy
          /\ e.amount = n /\ e.weight \in Nat /\ e.out \in Nat
          /\ (k + 1 = len => e.is_last)
      BY <1>5, <2>1
    <2> HIDE DEF h, e
    <2>4. Halfway(b, g, S, sell, buy, n)
      BY <1>1, <2>1, <2>3, SplitKeeps
    <2>5. k + 1 = len => g.allocated = n
      BY <1>1, <2>1, <2>3, LastSplit DEF Halfway
    <2> QED BY <2>2, <2>4, <2>5
  <1>12. len \in V
    <2> HIDE DEF V
    <2> QED BY <1>5, <1>10, <1>11, NatSetInduction
  <1>13. end = t[len] /\ Halfway(b, end, S, sell, buy, n) /\ end.allocated = n
    BY <1>5, <1>9, <1>12, SplitsAreLoop DEF end
  <1>14. /\ IsMoney(traded) /\ Legs(b, traded, S) /\ end.total \in Nat
         /\ \A u \in Token : Growth(b, traded, u) = Whole(u, s.buy, end.total)
    <2>1. \A u \in Token : Growth(b, traded, u) = Whole(u, sell, n - n) + Whole(u, buy, end.total)
      BY <1>13 DEF Halfway
    <2>2. end.total \in Nat
      BY <1>13 DEF Halfway
    <2>3. \A u \in Token : Growth(b, traded, u) = Whole(u, buy, end.total)
      BY <1>1, <2>1, <2>2 DEF Whole
    <2> QED BY <1>13, <2>2, <2>3 DEF Halfway, buy
  <1> HIDE DEF traded
  <1>15. /\ PartedWith(traded, given, s.buy, Router, end.total)
         /\ given.ok = traded.ok
         /\ (Treasury # Router /\ s.recipient # Router) =>
              SpareFell(traded, given, s.buy, Router, end.total)
    BY <1>1, <1>14, Deliveries
  <1> HIDE DEF given, c
  <1>16. Fair(b, given, S)
         /\ (SpareFell(traded, given, s.buy, Router, end.total) => Steady(b, given))
    BY <1>1, <1>14, <1>15, PassedOn
  <1> QED BY <1>2, <1>15, <1>16 DEF c

-----------------------------------------------------------------------------
(* Multi-hop swaps.                                                        *)

HopLoop == INSTANCE FoldTheorems WITH Op <- hop

LEMMA HopsAreLoop ==
    ASSUME NEW h, NEW es
    PROVE  FoldLeft(hop, h, es) = HopLoop!Looped(h, es)
  BY DEF FoldLeft, MapThenFoldSet, HopLoop!Looped, HopLoop!IsLoopTable, HopLoop!LoopEntry,
         hop, Max, HopLoop!Highest

\* Between two hops the router holds the amount that goes on, in token t.
Along(b, h, S, t) ==
    /\ IsMoney(h.ledger)
    /\ Legs(b, h.ledger, S)
    /\ h.amount \in Nat
    /\ h.ledger.ok => \A u \in Token : Growth(b, h.ledger, u) = Whole(u, t, h.amount)

\* One hop led from `h` to `g`, through a DEX in S.
HopTo(h, g, e, S) ==
    /\ g.amount = e.answer.out
    /\ IsMoney(g.ledger) /\ Legs(h.ledger, g.ledger, S)
    /\ g.ledger.ok =>
          /\ e.answer.out >= e.floor
          /\ \A u \in Token : Growth(h.ledger, g.ledger, u)
                                = Whole(u, e.to, e.answer.out) - Whole(u, e.from, h.amount)

LEMMA OneHop ==
    ASSUME PaymentsAssumption, NEW S, NEW h, IsMoney(h.ledger), h.amount \in Nat, NEW e,
           e.from \in Token, e.to \in Token, e.dex \in Addr, e.dex \in S, e.sender \in Addr,
           e.answer.out \in Nat, e.answer.unused \in Nat, e.answer.told_unused \in Nat
    PROVE  HopTo(h, hop(h, e), e, S)
  <1> DEFINE from == e.from
             to == e.to
             dex == e.dex
             x == e.sender
             out == e.answer.out
             unused == e.answer.unused
             told == e.answer.told_unused
             n == h.amount
             led == h.ledger
             traded == trade(led, dex, from, to, n, out, unused)
             g == hop(h, e)
             kept == g.ledger
  <1>1. IsMoney(led) /\ n \in Nat /\ n \in Int
    OBVIOUS
  <1>2. /\ kept = [traded EXCEPT !.ok = @ /\ hop_accepted(e.answer, e.floor, n),
                                 !.balance = transfer(@, from, Router, x, told)]
        /\ g.amount = out
    BY DEF hop
  <1>3. hop_accepted(e.answer, e.floor, n) => unused = told /\ out >= e.floor
    BY DEF hop_accepted
  <1>4. /\ from \in Token /\ to \in Token /\ dex \in Addr /\ dex \in S /\ x \in Addr
        /\ out \in Nat /\ unused \in Nat /\ told \in Nat /\ told \in Int
        /\ x \in Account /\ Router \in Account /\ x # Router
    BY Parties
  <1>5. traded = trade(led, dex, from, to, n, out, unused)
    OBVIOUS
  <1> HIDE DEF from, to, dex, x, out, unused, told, n, led, g, kept, traded
  <1>6. Legs(led, traded, S) /\ Traded(led, traded, from, to, n, out, unused)
    BY <1>1, <1>4, <1>5, Trades
  <1>7. IsMoney(traded)
    BY <1>6 DEF Legs
  <1>8. /\ {"ok", "balance", "refund"} \subseteq DOMAIN kept /\ kept.ok \in BOOLEAN
        /\ kept.balance = transfer(traded.balance, from, Router, x, told)
        /\ kept.refund = traded.refund
        /\ kept.ok => traded.ok /\ unused = told /\ out >= e.floor
    BY <1>2, <1>3, <1>7 DEF IsMoney
  <1>9. Legs(traded, kept, S)
    <2>1. kept.ok => traded.ok /\ told >= 0
      BY <1>4, <1>8
    <2> QED BY <1>4, <1>7, <1>8, <2>1, LegOfTransfer
  <1>10. \A u \in Token : Growth(traded, kept, u)
                            = Part(u, Router, from, x, told) - Part(u, Router, from, Router, told)
    BY <1>4, <1>7, <1>8, GrowthOfTransfer
  <1>11. Legs(led, kept, S)
        /\ \A u \in Token : Growth(led, kept, u) = Growth(led, traded, u) + Growth(traded, kept, u)
    BY <1>1, <1>6, <1>7, <1>9, LegsFollow
  <1>12. ASSUME kept.ok, NEW u \in Token
         PROVE  Growth(led, kept, u) = Whole(u, to, out) - Whole(u, from, n)
    <2>1. /\ Growth(led, kept, u) = Growth(led, traded, u) + Growth(traded, kept, u)
          /\ Growth(traded, kept, u)
               = Part(u, Router, from, x, told) - Part(u, Router, from, Router, told)
          /\ Growth(led, traded, u)
               = Whole(u, to, out) - Whole(u, from, n) + Whole(u, from, unused)
      BY <1>6, <1>10, <1>11 DEF Traded
    <2>2. unused = told /\ out \in Int /\ n \in Int /\ told \in Int /\ x # Router
      BY <1>1, <1>4, <1>8, <1>12
    <2> QED BY ONLY <2>1, <2>2 DEF Part, Whole
  <1>13. IsMoney(kept)
    BY <1>11 DEF Legs
  <1> QED BY <1>2, <1>8, <1>11, <1>12, <1>13 DEF HopTo, kept, g, to, from, out, n, led

LEMMA HopKeeps ==
    ASSUME PaymentsAssumption, NEW b, NEW S, IsMoney(b), NEW h, NEW e,
           e.from \in Token, e.to \in Token, e.dex \in Addr, e.dex \in S, e.sender \in Addr,
           e.answer.out \in Nat, e.answer.unused \in Nat, e.answer.told_unused \in Nat,
           Along(b, h, S, e.from)
    PROVE  Along(b, hop(h, e), S, e.to)
  <1> DEFINE from == e.from
             to == e.to
             out == e.answer.out
             n == h.amount
             led == h.ledger
             g == hop(h, e)
             kept == g.ledger
  <1>1. /\ IsMoney(led) /\ Legs(b, led, S) /\ n \in Nat
        /\ led.ok => \A u \in Token : Growth(b, led, u) = Whole(u, from, n)
    BY DEF Along
  <1>2. /\ g.amount = out /\ out \in Nat /\ IsMoney(kept) /\ Legs(led, kept, S)
        /\ kept.ok => \A u \in Token : Growth(led, kept, u) = Whole(u, to, out) - Whole(u, from, n)
    <2>1. /\ IsMoney(h.ledger) /\ h.amount \in Nat
          /\ e.from \in Token /\ e.to \in Token /\ e.dex \in Addr /\ e.dex \in S
          /\ e.sender \in Addr /\ e.answer.out \in Nat /\ e.answer.unused \in Nat
          /\ e.answer.told_unused \in Nat
      BY <1>1
    <2> HIDE DEF g
    <2>2. HopTo(h, g, e, S)
      BY <2>1, OneHop DEF g
    <2> QED BY <2>2 DEF HopTo
  <1> HIDE DEF from, to, out, n, led, g, kept
  <1>3. Legs(b, kept, S)
        /\ \A u \in Token : Growth(b, kept, u) = Growth(b, led, u) + Growth(led, kept, u)
    BY <1>1, <1>2, LegsFollow
  <1>4. ASSUME kept.ok, NEW u \in Token
        PROVE  Growth(b, kept, u) = Whole(u, to, out)
    <2>1. led.ok
      BY <1>2, <1>4 DEF Legs
    <2>2. /\ Growth(b, kept, u) = Growth(b, led, u) + Growth(led, kept, u)
          /\ Growth(led, kept, u) = Whole(u, to, out) - Whole(u, from, n)
          /\ Growth(b, led, u) = Whole(u, from, n)
      BY <1>1, <1>2, <1>3, <1>4, <2>1
    <2> QED BY ONLY <1>1, <1>2, <2>2 DEF Whole
  <1> QED BY <1>2, <1>3, <1>4 DEF Along, kept, g, to, out

LEMMA HopSwapIsFair ==
    ASSUME PaymentsAssumption, NEW b, NEW S, IsMoney(b), NEW s \in HopPayment, NEW as,
           hops_admissible(s), s.sender \in S, s.dex \in S, s.dex \in Addr,
           \A i \in DOMAIN s.floors :
              /\ as[i].out \in Nat /\ as[i].unused \in Nat /\ as[i].told_unused \in Nat,
           NEW v
    PROVE  LET charged_ == Limits!charge_and_accrue(b, s.sender, s.amount)
               start == [ledger |-> pull(charged_, s.sender, s.path[1], s.amount),
                         amount |-> s.amount]
               end == FoldLeft(hop, start, HopLegs(s, as))
               c == deliver(end.ledger, v, s, s.path[Len(s.path)], end.amount)
           IN /\ Fair(b, c, S)
              /\ (Treasury # Router /\ s.recipient # Router) => Steady(b, c)
  <1> DEFINE slotted == Limits!check_rate_limit(b, s.sender)
             charged_ == Limits!charge_and_accrue(b, s.sender, s.amount)
             x == s.sender
             n == s.amount
             path == s.path
             len == Len(s.floors)
             es == HopLegs(s, as)
             pulled == pull(charged_, x, path[1], n)
             start == [ledger |-> pulled, amount |-> n]
             end == FoldLeft(hop, start, es)
             traded == end.ledger
             t == path[len + 1]
             c == deliver(traded, v, s, t, end.amount)
  <1>1. /\ s.sender \in Addr /\ s.recipient \in Account /\ s.delivered \in BOOLEAN
        /\ x \in Addr /\ x \in S /\ n \in Nat
    BY DEF HopPayment
  <1>2. /\ path \in Seq(Token) /\ Len(path) \in 3..5 /\ len = Len(path) - 1 /\ len \in Nat
        /\ DOMAIN s.floors = 1..len
    BY DEF HopPayment, hops_admissible
  <1>3. \A i \in 1..(len + 1) : path[i] \in Token
    <2> HIDE DEF path, len
    <2> QED BY <1>2
  <1>4. /\ DOMAIN es = 1..len
        /\ \A i \in 1..len :
              /\ es[i].from = path[i] /\ es[i].to = path[i + 1] /\ es[i].dex = s.dex
              /\ es[i].sender = x /\ es[i].answer = as[i]
    BY <1>2 DEF HopLegs
  <1>5. \A i \in 1..len :
           as[i].out \in Nat /\ as[i].unused \in Nat /\ as[i].told_unused \in Nat
    BY <1>2
  <1>6. /\ IsMoney(charged_) /\ charged_.balance = b.balance /\ charged_.refund = b.refund
        /\ charged_.ok => b.ok
    <2>1. charged_ = Limits!accrue_user_record(slotted, s.sender, s.amount)
      BY DEF Limits!charge_and_accrue
    <2>2. /\ IsMoney(slotted) /\ slotted.balance = b.balance /\ slotted.refund = b.refund
          /\ slotted.ok => b.ok
      BY BooksAside
    <2> HIDE DEF slotted, charged_
    <2> QED BY <2>1, <2>2, BooksAside
  <1>7. c = deliver(traded, v, s, path[Len(path)], end.amount)
    BY <1>2
  <1> HIDE DEF charged_, x, n, path, len, es
  <1>8. Legs(b, charged_, S) /\ \A u \in Token : Growth(b, charged_, u) = 0
    BY <1>6, LegsOfBooks
  <1>9. Legs(charged_, pulled, S)
        /\ \A u \in Token : Growth(charged_, pulled, u) = Whole(u, path[1], n)
    <2> DEFINE first == path[1]
    <2>1. first \in Token /\ pulled = pull(charged_, x, first, n)
      BY <1>2, <1>3
    <2> HIDE DEF first, pulled
    <2>2. Legs(charged_, pulled, S)
          /\ \A u \in Token : Growth(charged_, pulled, u) = Whole(u, first, n)
      BY <1>1, <1>6, <2>1, Pulls
    <2> QED BY <2>2 DEF first
  <1> HIDE DEF pulled
  <1>10. Legs(b, pulled, S)
        /\ \A u \in Token : Growth(b, pulled, u)
                              = Growth(b, charged_, u) + Growth(charged_, pulled, u)
    BY <1>6, <1>8, <1>9, LegsFollow
  <1>11. Along(b, start, S, path[1])
    <2>1. IsMoney(pulled)
      BY <1>10 DEF Legs
    <2>2. \A u \in Token : Growth(b, pulled, u) = Whole(u, path[1], n)
      BY <1>1, <1>8, <1>9, <1>10 DEF Whole
    <2> QED BY <1>1, <1>10, <2>1, <2>2 DEF Along
  <1> HIDE DEF start, end
  <1>12. PICK tr : HopLoop!IsTrace(tr, start, es, len) /\ HopLoop!Looped(start, es) = tr[len]
    BY <1>2, <1>4, HopLoop!LoopHasTrace
  <1> DEFINE V == {k \in Nat : k <= len => Along(b, tr[k], S, path[k + 1])}
  <1>13. 0 \in V
    <2>1. tr[0] = start /\ 0 + 1 = 1
      BY <1>12 DEF HopLoop!IsTrace
    <2> QED BY <1>11, <2>1
  <1>14. ASSUME NEW k \in Nat, k \in V PROVE k + 1 \in V
    <2> SUFFICES ASSUME k + 1 <= len
                 PROVE  Along(b, tr[k + 1], S, path[(k + 1) + 1])
      OBVIOUS
    <2> DEFINE h == tr[k]
               e == es[k + 1]
               g == hop(h, e)
    <2>1. k + 1 \in 1..len /\ (k + 1) - 1 = k /\ Along(b, h, S, path[k + 1])
          /\ (k + 1) \in 1..(len + 1) /\ (k + 1) + 1 \in 1..(len + 1)
      BY <1>2, <1>14
    <2>2. tr[k + 1] = g
      BY <1>12, <2>1 DEF HopLoop!IsTrace
    <2>3. /\ e.from = path[k + 1] /\ e.to = path[(k + 1) + 1] /\ e.dex = s.dex
          /\ e.sender = x /\ e.answer = as[k + 1]
      BY <1>4, <2>1
    <2>4. /\ e.from \in Token /\ e.to \in Token /\ e.dex \in Addr /\ e.dex \in S
          /\ e.sender \in Addr
          /\ e.answer.out \in Nat /\ e.answer.unused \in Nat /\ e.answer.told_unused \in Nat
          /\ Along(b, h, S, e.from)
      BY <1>1, <1>3, <1>5, <2>1, <2>3
    <2> HIDE DEF h, e
    <2>5. Along(b, g, S, e.to)
      BY <2>4, HopKeeps
    <2> QED BY <2>2, <2>3, <2>5
  <1>15. len \in V
    <2> HIDE DEF V
    <2> QED BY <1>2, <1>13, <1>14, NatSetInduction
  <1>16. Along(b, end, S, t)
    BY <1>2, <1>4, <1>12, <1>15, HopsAreLoop DEF end
  <1>17. t \in Token
    BY <1>2, <1>3
  <1>18. /\ IsMoney(traded) /\ Legs(b, traded, S) /\ end.amount \in Nat
         /\ traded.ok => \A u \in Token : Growth(b, traded, u) = Whole(u, t, end.amount)
    BY <1>16 DEF Along
  <1> HIDE DEF traded, t
  <1>19. /\ PartedWith(traded, c, t, Router, end.amount)
         /\ c.ok = traded.ok
         /\ (Treasury # Router /\ s.recipient # Router) =>
              SpareFell(traded, c, t, Router, end.amount)
    BY <1>1, <1>17, <1>18, Deliveries
  <1> HIDE DEF c
  <1>20. Fair(b, c, S)
         /\ (SpareFell(traded, c, t, Router, end.amount) => Steady(b, c))
    BY <1>17, <1>18, <1>19, PassedOn
  <1>21. Fair(b, c, S) /\ ((Treasury # Router /\ s.recipient # Router) => Steady(b, c))
    BY <1>19, <1>20
  <1> QED BY <1>7, <1>21 DEF traded, end, start, pulled, charged_, es, n, x, path

-----------------------------------------------------------------------------
(* The raw route.                                                          *)

\* One transfer among those of a call, with a reason to fail.
Moves(b, c, t, x, y, n) ==
    /\ {"ok", "balance", "refund"} \subseteq DOMAIN c /\ c.ok \in BOOLEAN
    /\ c.balance = transfer(b.balance, t, x, y, n)
    /\ c.refund = b.refund
    /\ c.ok => b.ok /\ b.balance[t][x] >= n

Shifted(b, c, t, x, y, n) ==
    \A u \in Token : Growth(b, c, u) = Part(u, Router, t, y, n) - Part(u, Router, t, x, n)

LEMMA MoveIsLeg ==
    ASSUME PaymentsAssumption, NEW b, NEW c, NEW S, IsMoney(b), NEW t \in Token,
           NEW x \in Account, NEW y \in Account, NEW n \in Nat, Moves(b, c, t, x, y, n),
           x = Router \/ x \in S
    PROVE  Legs(b, c, S) /\ IsMoney(c) /\ Shifted(b, c, t, x, y, n)
  <1>1. /\ {"ok", "balance", "refund"} \subseteq DOMAIN c /\ c.ok \in BOOLEAN
        /\ c.balance = transfer(b.balance, t, x, y, n) /\ c.refund = b.refund
        /\ c.ok => b.ok /\ n >= 0 /\ (x = Router \/ (x \in S /\ b.balance[t][x] >= n))
    BY DEF Moves
  <1>2. n \in Int
    OBVIOUS
  <1>3. Legs(b, c, S)
    BY <1>1, <1>2, LegOfTransfer
  <1>4. \A u \in Token :
           Growth(b, c, u) = Part(u, Router, t, y, n) - Part(u, Router, t, x, n)
    BY <1>1, <1>2, GrowthOfTransfer
  <1> QED BY <1>3, <1>4 DEF Legs, Shifted

\* The refunds stay, and the router has as much as before, or is short of `k`.
LEMMA GrownIsShort ==
    ASSUME PaymentsAssumption, NEW b, NEW c, NEW S, IsMoney(b), Legs(b, c, S),
           NEW k \in [Token -> Nat], \A u \in Token : Growth(b, c, u) + k[u] >= 0,
           ASSUME c.ok, NEW u \in Token, b.balance[u][Router] >= 0
           PROVE  c.balance[u][Router] >= 0
    PROVE  Short(b, c, S, k)
  <1>1. IsMoney(c) /\ c.refund = b.refund
    BY DEF Legs
  <1>2. ASSUME NEW u \in Token
        PROVE  Spare(c, u) + k[u] >= Spare(b, u)
    <2> DEFINE owed == SumFunctionOnSet(b.refund[u], Addr)
               y == b.balance[u][Router]
               z == c.balance[u][Router]
    <2>1. y \in Int /\ z \in Int /\ Router \in Account
      BY <1>1, Parties, BalancesAreIntegers
    <2>2. z - y + k[u] >= 0 /\ k[u] \in Int
      BY DEF Growth
    <2>3. Spare(c, u) = z - owed /\ Spare(b, u) = y - owed
      BY <1>1 DEF Spare
    <2>4. owed \in Int
      <3> DEFINE f == b.refund[u]
      <3>1. \A a \in Addr : f[a] \in Int
        BY BalancesAreIntegers
      <3>2. IsFiniteSet(Addr)
        BY DEF PaymentsAssumption
      <3> HIDE DEF f
      <3>3. SumFunctionOnSet(f, Addr) \in Int
        BY <3>1, <3>2, SumIsInteger
      <3> QED BY <3>3 DEF f
    <2> HIDE DEF owed, y, z
    <2> QED BY ONLY <2>1, <2>2, <2>3, <2>4
  <1>3. \A u \in Token, a \in Addr : c.refund[u][a] >= b.refund[u][a]
    <2>1. \A u \in Token, a \in Addr : b.refund[u][a] \in Nat
      BY BalancesAreIntegers
    <2>2. \A u \in Token, a \in Addr : b.refund[u][a] >= b.refund[u][a]
      BY ONLY <2>1
    <2> QED BY <1>1, <2>2
  <1> QED BY <1>1, <1>2, <1>3 DEF Legs, Short

LEMMA GrownIsFair ==
    ASSUME PaymentsAssumption, NEW b, NEW c, NEW S, IsMoney(b), Legs(b, c, S),
           \A u \in Token : Growth(b, c, u) >= 0
    PROVE  Fair(b, c, S)
  <1>1. Nothing \in [Token -> Nat] /\ \A u \in Token : Nothing[u] = 0
    BY DEF Nothing
  <1>2. \A u \in Token : /\ b.balance[u][Router] \in Int /\ c.balance[u][Router] \in Int
                         /\ Growth(b, c, u) = c.balance[u][Router] - b.balance[u][Router]
    BY BalancesAreIntegers, Parties DEF Legs, Growth
  <1>3. \A u \in Token : Growth(b, c, u) + Nothing[u] >= 0
    BY <1>1, <1>2
  <1>4. ASSUME c.ok, NEW u \in Token, b.balance[u][Router] >= 0
        PROVE  c.balance[u][Router] >= 0
    BY <1>2, <1>4
  <1>5. Short(b, c, S, Nothing)
    BY <1>1, <1>3, <1>4, GrownIsShort
  <1>6. \A u \in Token : Spare(b, u) \in Int /\ Spare(c, u) \in Int
    BY SpareIsInteger DEF Legs
  <1>7. ASSUME c.ok, NEW u \in Token
        PROVE  Spare(c, u) >= Spare(b, u)
    <2>1. Spare(c, u) + Nothing[u] >= Spare(b, u)
      BY <1>5, <1>7 DEF Short
    <2> QED BY <1>1, <1>6, <2>1
  <1> QED BY <1>5, <1>7, Zenon DEF Short, Fair

\* The transfers of a raw swap leave the router with what it got, short of the
\* unused input that it paid back and did not get; the payment that follows is
\* made out of what the sender owns.
LEMMA RawIsShort ==
    ASSUME PaymentsAssumption, NEW b, NEW put, NEW spared, NEW given, NEW back, NEW S,
           IsMoney(b), NEW sell \in Token, NEW buy \in Token, NEW x \in Addr, x \in S,
           NEW dex \in Addr, dex \in S, NEW n \in Nat, NEW unused \in Nat, NEW out \in Nat,
           NEW told \in Nat, NEW k \in [Token -> Nat],
           \A u \in Token : k[u] >= Whole(u, sell, told) - Whole(u, sell, unused),
           Moves(b, put, sell, x, dex, n), Moves(put, spared, sell, dex, Router, unused),
           Moves(spared, given, buy, dex, Router, out),
           Moves(given, back, sell, Router, x, told)
    PROVE  Short(b, back, S, k)
  <1>1. /\ x \in Account /\ dex \in Account /\ Router \in Account /\ x # Router /\ dex # Router
    BY Parties
  <1>2. Legs(b, put, S) /\ IsMoney(put) /\ Shifted(b, put, sell, x, dex, n)
    BY <1>1, MoveIsLeg
  <1>3. Legs(put, spared, S) /\ IsMoney(spared)
        /\ Shifted(put, spared, sell, dex, Router, unused)
    BY <1>1, <1>2, MoveIsLeg
  <1>4. Legs(spared, given, S) /\ IsMoney(given)
        /\ Shifted(spared, given, buy, dex, Router, out)
    BY <1>1, <1>3, MoveIsLeg
  <1>5. Legs(given, back, S) /\ IsMoney(back)
        /\ Shifted(given, back, sell, Router, x, told)
    BY <1>1, <1>4, MoveIsLeg
  <1>6. Legs(b, spared, S)
        /\ \A u \in Token : Growth(b, spared, u) = Growth(b, put, u) + Growth(put, spared, u)
    BY <1>2, <1>3, LegsFollow, SMTT(30)
  <1>7. Legs(b, given, S)
        /\ \A u \in Token : Growth(b, given, u) = Growth(b, spared, u) + Growth(spared, given, u)
    BY <1>3, <1>4, <1>6, LegsFollow, SMTT(30)
  <1>8. Legs(b, back, S)
        /\ \A u \in Token : Growth(b, back, u) = Growth(b, given, u) + Growth(given, back, u)
    BY <1>4, <1>5, <1>7, LegsFollow, SMTT(30)
  <1>9. ASSUME NEW u \in Token
        PROVE  /\ Growth(b, back, u) + k[u] >= 0
               /\ Growth(given, back, u) = 0 - Whole(u, sell, told)
               /\ Growth(b, given, u) >= 0
    <2>1. /\ Growth(b, back, u) = Growth(b, given, u) + Growth(given, back, u)
          /\ Growth(b, given, u) = Growth(b, spared, u) + Growth(spared, given, u)
          /\ Growth(b, spared, u) = Growth(b, put, u) + Growth(put, spared, u)
      BY <1>6, <1>7, <1>8
    <2>2. /\ Growth(b, put, u) = Part(u, Router, sell, dex, n) - Part(u, Router, sell, x, n)
          /\ Growth(put, spared, u)
             = Part(u, Router, sell, Router, unused) - Part(u, Router, sell, dex, unused)
          /\ Growth(spared, given, u)
             = Part(u, Router, buy, Router, out) - Part(u, Router, buy, dex, out)
          /\ Growth(given, back, u)
             = Part(u, Router, sell, x, told) - Part(u, Router, sell, Router, told)
      BY <1>2, <1>3, <1>4, <1>5 DEF Shifted
    <2>3. /\ n \in Nat /\ unused \in Nat /\ out \in Nat /\ told \in Nat /\ k[u] \in Nat
          /\ k[u] >= Whole(u, sell, told) - Whole(u, sell, unused)
      OBVIOUS
    <2> QED BY ONLY <1>1, <2>1, <2>2, <2>3 DEF Part, Whole
  <1>10. ASSUME back.ok, NEW u \in Token, b.balance[u][Router] >= 0
         PROVE  back.balance[u][Router] >= 0
    <2> DEFINE w == Whole(u, sell, told)
               had == b.balance[u][Router]
               got == given.balance[u][Router]
               has == back.balance[u][Router]
    <2>1. had \in Int /\ got \in Int /\ has \in Int
      BY <1>1, <1>4, <1>5, BalancesAreIntegers
    <2>2. got - had >= 0 /\ has - got = 0 - w
      BY <1>9 DEF Growth
    <2>3. w \in Nat /\ (u # sell => w = 0) /\ (u = sell => w = told)
      BY DEF Whole
    <2>4. u = sell => got >= w
      <3>1. given.balance[sell][Router] >= told
        BY <1>10 DEF Moves
      <3> QED BY <2>3, <3>1
    <2>5. had >= 0
      BY <1>10
    <2> HIDE DEF w, had, got, has
    <2>6. has >= 0
      <3>1. CASE u = sell
        <4>1. got >= w
          BY <2>4, <3>1
        <4> QED BY ONLY <2>1, <2>2, <2>3, <4>1
      <3>2. CASE u # sell
        <4>1. w = 0
          BY <2>3, <3>2
        <4> QED BY ONLY <2>1, <2>2, <2>5, <4>1
      <3> QED BY <3>1, <3>2
    <2> QED BY <2>6 DEF has
  <1>11. \A u \in Token : Growth(b, back, u) + k[u] >= 0
    BY <1>9
  <1> QED BY <1>8, <1>10, <1>11, GrownIsShort

-----------------------------------------------------------------------------
(* The invariant, and what a step may do.                                  *)

MoneyTypes ==
    /\ balance \in [Token -> [Account -> Nat]]
    /\ allowance \in [Token -> [Addr -> Nat]]
    /\ refund \in Refunds
    /\ taken \in [Token -> Nat]
    /\ dexes \subseteq Addr
    /\ yieldProtocol \in Protocols \cup {NoAddr}
    /\ yieldPrincipal \in [Token -> Nat]
    /\ held \in [Token -> [Protocols -> Nat]]
    /\ admin \in Addr \cup {NoAddr}
    /\ role \in [Role -> Addr \cup {NoAddr}]

MoneyInv == MoneyTypes /\ BooksAreCovered

\* The steps the properties allow.
RefundRule ==
    \A t \in Token, a \in Addr :
       refund'[t][a] < refund[t][a] =>
          \/ /\ a \in consent'
             /\ balance'[t][a] - balance[t][a] = refund[t][a] - refund'[t][a]
             /\ balance[t][Router] - balance'[t][Router] = refund[t][a] - refund'[t][a]
          \/ /\ refund'[t][a] = 0 /\ balance' = balance
             /\ ~frozen /\ archives # <<>>
             /\ signer' = require_role("TreasuryManager")
             /\ \E l \in archived' : l.record_type = "RefundBalance"
                                     /\ l.primary_key = a /\ l.secondary_key = t

ConsentRule ==
    \A t \in Token, a \in Addr :
       balance'[t][a] < balance[t][a] =>
          \/ a \in consent'
          \/ balance[t][a] - balance'[t][a] <= allowance[t][a] - allowance'[t][a]

HaltRule ==
    \A t \in Token, a \in Addr :
       balance'[t][a] < balance[t][a] =>
          /\ ~is_paused
          /\ frozen => signer' = require_role("TreasuryManager")
                       /\ a \in {Treasury, yieldProtocol}

SoundStep == MoneyInv' /\ RefundRule /\ ConsentRule /\ HaltRule

\* What stays when the routes run.
Unserviced == UNCHANGED <<taken, yieldProtocol, yieldPrincipal, held, roleVars>>

-----------------------------------------------------------------------------
(* From a state of a call to a step.                                       *)

LEMMA LedgerIsMoney ==
    ASSUME PaymentsAssumption, MoneyInv
    PROVE  /\ IsMoney(Ledger) /\ Ledger.ok /\ Ledger.balance = balance /\ Ledger.refund = refund
           /\ \A t \in Token, a \in Account : balance[t][a] \in Nat
           /\ \A t \in Token, a \in Addr : balance[t][a] \in Nat /\ refund[t][a] \in Nat
           /\ \A t \in Token : /\ Spare(Ledger, t) = balance[t][Router] - Owed(t)
                               /\ Spare(Ledger, t) + taken[t] >= 0
                               /\ balance[t][Router] \in Nat /\ Owed(t) \in Nat
                               /\ taken[t] \in Nat
  <1>1. balance \in Balances
    BY DEF MoneyInv, MoneyTypes, Balances
  <1>2. IsMoney(Ledger) /\ Ledger.ok /\ Ledger.balance = balance /\ Ledger.refund = refund
    BY <1>1 DEF MoneyInv, MoneyTypes, Ledger, IsMoney
  <1>3. \A t \in Token, a \in Account : balance[t][a] \in Nat
    BY DEF MoneyInv, MoneyTypes
  <1>4. \A t \in Token, a \in Addr : balance[t][a] \in Nat /\ refund[t][a] \in Nat
    <2> TAKE t \in Token, a \in Addr
    <2>1. a \in Account
      BY Parties
    <2>2. refund \in Refunds
      BY DEF MoneyInv, MoneyTypes
    <2>3. refund[t][a] \in Nat
      BY <2>2 DEF Refunds
    <2> QED BY <1>3, <2>1, <2>3
  <1>5. ASSUME NEW t \in Token
        PROVE  /\ Spare(Ledger, t) = balance[t][Router] - Owed(t)
               /\ Spare(Ledger, t) + taken[t] >= 0
               /\ balance[t][Router] \in Nat /\ Owed(t) \in Nat /\ taken[t] \in Nat
    <2>1. balance[t][Router] \in Nat /\ taken[t] \in Nat
      BY <1>3, Parties DEF MoneyInv, MoneyTypes
    <2>2. Owed(t) \in Nat
      <3> DEFINE f == refund[t]
      <3>1. \A a \in Addr : f[a] \in Nat
        BY <1>4
      <3>2. IsFiniteSet(Addr)
        BY DEF PaymentsAssumption
      <3> HIDE DEF f
      <3>3. SumFunctionOnSet(f, Addr) \in Nat
        BY <3>1, <3>2, SumIsNatural
      <3> QED BY <3>3 DEF f, Owed
    <2>3. Owed(t) <= balance[t][Router] + taken[t]
      BY DEF MoneyInv, BooksAreCovered, RefundsCovered
    <2>4. Spare(Ledger, t) = balance[t][Router] - Owed(t)
      BY <1>2 DEF Spare, Owed
    <2> QED BY ONLY <2>1, <2>2, <2>3, <2>4
  <1> QED BY <1>2, <1>3, <1>4, <1>5

\* The balances and refunds of a state that a call ends in.
LEMMA ShortEnds ==
    ASSUME PaymentsAssumption, MoneyInv, NEW c, NEW S, NEW k \in [Token -> Nat],
           Short(Ledger, c, S, k), c.ok
    PROVE  /\ c.balance \in [Token -> [Account -> Nat]]
           /\ c.refund \in Refunds
           /\ \A t \in Token, a \in Addr :
                 /\ c.refund[t][a] >= refund[t][a]
                 /\ a \notin S => c.balance[t][a] >= balance[t][a]
           /\ \A t \in Token :
                 SumFunctionOnSet(c.refund[t], Addr)
                   <= c.balance[t][Router] + (taken[t] + k[t])
  <1> DEFINE b == Ledger
  <1>1. /\ IsMoney(b) /\ b.balance = balance /\ b.refund = refund
        /\ \A t \in Token, a \in Addr : balance[t][a] \in Nat /\ refund[t][a] \in Nat
        /\ \A t \in Token : /\ Spare(b, t) = balance[t][Router] - Owed(t)
                            /\ Spare(b, t) + taken[t] >= 0
                            /\ balance[t][Router] \in Nat /\ Owed(t) \in Nat
                            /\ taken[t] \in Nat
    BY LedgerIsMoney
  <1> HIDE DEF b
  <1>2. /\ IsMoney(c)
        /\ \A t \in Token, a \in Addr :
              /\ c.refund[t][a] >= refund[t][a]
              /\ a \notin S => c.balance[t][a] >= balance[t][a]
              /\ balance[t][a] >= 0 => c.balance[t][a] >= 0
        /\ \A t \in Token : /\ Spare(c, t) + k[t] >= Spare(b, t)
                            /\ balance[t][Router] >= 0 => c.balance[t][Router] >= 0
    BY <1>1 DEF Short, b
  <1>3. /\ \A t \in Token, a \in Account : c.balance[t][a] \in Int
        /\ \A t \in Token, a \in Addr : c.refund[t][a] \in Nat
    BY <1>2, BalancesAreIntegers
  <1>4. ASSUME NEW t \in Token
        PROVE  SumFunctionOnSet(c.refund[t], Addr) \in Int
    <2> DEFINE g == c.refund[t]
    <2>1. \A a \in Addr : g[a] \in Int
      BY <1>3
    <2>2. IsFiniteSet(Addr)
      BY DEF PaymentsAssumption
    <2> HIDE DEF g
    <2>3. SumFunctionOnSet(g, Addr) \in Int
      BY <2>1, <2>2, SumIsInteger
    <2> QED BY <2>3 DEF g
  <1>5. ASSUME NEW t \in Token
        PROVE  /\ c.balance[t][Router] >= 0
               /\ SumFunctionOnSet(c.refund[t], Addr)
                    <= c.balance[t][Router] + (taken[t] + k[t])
    <2> DEFINE owes == SumFunctionOnSet(c.refund[t], Addr)
               y == c.balance[t][Router]
    <2>1. owes \in Int /\ y \in Int
      BY <1>3, <1>4, Parties
    <2>2. Spare(c, t) = y - owes
      BY DEF Spare
    <2>3. /\ Spare(c, t) + k[t] >= Spare(b, t) /\ k[t] \in Nat
          /\ (balance[t][Router] >= 0 => y >= 0)
          /\ Spare(b, t) = balance[t][Router] - Owed(t) /\ Spare(b, t) + taken[t] >= 0
          /\ balance[t][Router] \in Nat /\ Owed(t) \in Nat /\ taken[t] \in Nat
      BY <1>1, <1>2
    <2> HIDE DEF owes, y
    <2>4. y >= 0 /\ owes <= y + (taken[t] + k[t])
      BY ONLY <2>1, <2>2, <2>3
    <2> QED BY <2>4 DEF owes, y
  <1>6. ASSUME NEW t \in Token, NEW a \in Account
        PROVE  c.balance[t][a] \in Nat
    <2>1. c.balance[t][a] \in Int
      BY <1>3
    <2>2. c.balance[t][a] >= 0
      <3>1. CASE a = Router
        BY <1>5, <3>1
      <3>2. CASE a # Router
        <4>1. a \in Addr
          BY <3>2 DEF Account
        <4>2. balance[t][a] \in Nat /\ (balance[t][a] >= 0 => c.balance[t][a] >= 0)
          BY <1>1, <1>2, <4>1
        <4> QED BY <4>2
      <3> QED BY <3>1, <3>2
    <2> QED BY <2>1, <2>2
  <1>7. c.balance \in [Token -> [Account -> Nat]]
    <2>1. c.balance \in Balances
      BY <1>2 DEF IsMoney
    <2> QED BY <1>6, <2>1 DEF Balances
  <1>8. c.refund \in Refunds
    BY <1>2 DEF IsMoney
  <1> QED BY <1>2, <1>5, <1>7, <1>8

\* A call that pays out of the allowances, or with the consent of S, and records
\* what it is short of.
LEMMA ShortIsSound ==
    ASSUME PaymentsAssumption, MoneyInv, NEW c, NEW S, NEW k \in [Token -> Nat],
           Short(Ledger, c, S, k), c.ok,
           balance' = c.balance, refund' = c.refund,
           taken' = [t \in Token |-> taken[t] + k[t]],
           UNCHANGED <<yieldProtocol, yieldPrincipal, held, roleVars>>,
           allowance' \in [Token -> [Addr -> Nat]], dexes' \subseteq Addr,
           ~frozen, ~is_paused
    PROVE  /\ MoneyInv' /\ RefundRule /\ HaltRule
           /\ S \subseteq consent' => ConsentRule
  <1>1. /\ balance' \in [Token -> [Account -> Nat]]
        /\ refund' \in Refunds
        /\ \A t \in Token, a \in Addr :
              refund'[t][a] >= refund[t][a] /\ (a \notin S => balance'[t][a] >= balance[t][a])
        /\ \A t \in Token : Owed(t)' <= balance'[t][Router] + (taken[t] + k[t])
    BY ShortEnds DEF Owed
  <1>2. \A t \in Token, a \in Addr :
           /\ balance[t][a] \in Nat /\ refund[t][a] \in Nat
           /\ balance'[t][a] \in Nat /\ refund'[t][a] \in Nat
    <2> TAKE t \in Token, a \in Addr
    <2>1. a \in Account
      BY Parties
    <2>2. balance[t][a] \in Nat /\ refund[t][a] \in Nat
      BY LedgerIsMoney
    <2>3. balance'[t][a] \in Nat
      BY <1>1, <2>1
    <2>4. refund'[t][a] \in Nat
      BY <1>1 DEF Refunds
    <2> QED BY <2>2, <2>3, <2>4
  <1>3. MoneyTypes'
    <2>1. taken' \in [Token -> Nat]
      BY DEF MoneyInv, MoneyTypes
    <2> QED BY <1>1, <2>1 DEF MoneyInv, MoneyTypes, roleVars
  <1>4. BooksAreCovered'
    BY <1>1 DEF MoneyInv, BooksAreCovered, RefundsCovered
  <1>5. RefundRule
    <2>1. \A t \in Token, a \in Addr : ~(refund'[t][a] < refund[t][a])
      BY ONLY <1>1, <1>2
    <2> QED BY <2>1 DEF RefundRule
  <1>6. HaltRule
    BY DEF HaltRule
  <1>7. S \subseteq consent' => ConsentRule
    <2>1. \A t \in Token, a \in Addr : a \notin S => ~(balance'[t][a] < balance[t][a])
      BY ONLY <1>1, <1>2
    <2> QED BY <2>1 DEF ConsentRule
  <1> QED BY <1>3, <1>4, <1>5, <1>6, <1>7 DEF MoneyInv

LEMMA CallIsSound ==
    ASSUME PaymentsAssumption, MoneyInv, NEW c, NEW S, Fair(Ledger, c, S), c.ok,
           balance' = c.balance, refund' = c.refund, Unserviced,
           allowance' \in [Token -> [Addr -> Nat]], dexes' \subseteq Addr,
           ~frozen, ~is_paused
    PROVE  /\ MoneyInv' /\ RefundRule /\ HaltRule
           /\ S \subseteq consent' => ConsentRule
  <1>1. Short(Ledger, c, S, Nothing)
    BY LedgerIsMoney, FairIsShort
  <1>2. Nothing \in [Token -> Nat]
    BY DEF Nothing
  <1>3. taken' = [t \in Token |-> taken[t] + Nothing[t]]
    BY DEF Nothing, Unserviced, MoneyInv, MoneyTypes
  <1> QED BY <1>1, <1>2, <1>3, ShortIsSound DEF Unserviced

\* A call that moves no tokens and touches no refund.
LEMMA QuietIsSound ==
    ASSUME PaymentsAssumption, MoneyInv, UNCHANGED <<balance, refund>>, Unserviced,
           allowance' \in [Token -> [Addr -> Nat]], dexes' \subseteq Addr
    PROVE  SoundStep
  <1>1. \A t \in Token, a \in Addr : balance[t][a] \in Nat /\ refund[t][a] \in Nat
    BY LedgerIsMoney
  <1>2. \A t \in Token, a \in Addr :
           ~(balance'[t][a] < balance[t][a]) /\ ~(refund'[t][a] < refund[t][a])
    BY <1>1
  <1>3. MoneyTypes'
    BY DEF MoneyInv, MoneyTypes, Unserviced, roleVars
  <1>4. BooksAreCovered'
    BY DEF MoneyInv, BooksAreCovered, RefundsCovered, Unserviced, Owed
  <1> QED BY <1>2, <1>3, <1>4 DEF MoneyInv, SoundStep, RefundRule, ConsentRule, HaltRule

-----------------------------------------------------------------------------
(* The steps of the payments.                                              *)

\* Payments one by one, each signed by its sender.
LEMMA RouteIsSound ==
    ASSUME PaymentsAssumption, MoneyInv, NEW ps \in Seq(Payment), route_payments(ps),
           Swapless, Unattended
    PROVE  SoundStep
  <1> DEFINE c == FoldLeft(settle, Ledger, ps)
             S == batch_senders(ps)
  <1>1. /\ balance' = c.balance /\ refund' = c.refund /\ c.ok
        /\ consent' = S /\ UNCHANGED <<taken, allowance, roleVars>>
        /\ ~frozen /\ ~is_paused
    BY Zenon DEF route_payments, CommitLedger, Limits!Commit, payment_heartbeat
  <1>2. \A i \in DOMAIN ps : ps[i].sender \in S
    BY DEF batch_senders
  <1> HIDE DEF S
  <1>3. IsMoney(Ledger)
    BY LedgerIsMoney
  <1>4. Fair(Ledger, c, S)
    BY <1>2, <1>3, BatchIsFair
  <1> HIDE DEF c
  <1>5. Unserviced /\ allowance' \in [Token -> [Addr -> Nat]] /\ dexes' \subseteq Addr
    BY <1>1 DEF Unserviced, Unattended, Swapless, MoneyInv, MoneyTypes
  <1>6. MoneyInv' /\ RefundRule /\ HaltRule /\ (S \subseteq consent' => ConsentRule)
    BY <1>1, <1>4, <1>5, CallIsSound
  <1> QED BY <1>1, <1>6 DEF SoundStep

\* Two transfers, one of the sender and one of the maker, who both signed.
LEMMA QuoteIsSound ==
    ASSUME PaymentsAssumption, MoneyInv, NEW q \in Quotes, route_payment_with_quote(q),
           Swapless, Unattended
    PROVE  SoundStep
  <1> DEFINE b == Ledger
             in == q.token_in
             out == q.token_out
             x == q.sender
             y == q.maker
             z == q.recipient
             n == q.amount_in
             m == q.amount_out
             mid == [ok |-> TRUE, refund |-> refund,
                     balance |-> transfer(balance, in, x, y, n)]
             c == [ok |-> TRUE, refund |-> refund,
                   balance |-> transfer(mid.balance, out, y, z, m)]
             S == {x, y}
  <1>1. /\ balance' = c.balance /\ UNCHANGED <<refund, taken, allowance, roleVars>>
        /\ consent' = S /\ ~frozen /\ ~is_paused
        /\ in # out /\ balance[in][x] >= n /\ balance[out][y] >= m
    BY DEF route_payment_with_quote, payment_heartbeat
  <1>2. /\ x \in Addr /\ y \in Addr /\ z \in Account /\ in \in Token /\ out \in Token
        /\ n \in Nat /\ m \in Nat /\ x \in Account /\ y \in Account /\ Router \in Account
        /\ x # Router /\ y # Router /\ x \in S /\ y \in S
    BY Parties DEF PaymentsAssumption
  <1>3. /\ IsMoney(b) /\ b.ok /\ b.balance = balance /\ b.refund = refund
    BY LedgerIsMoney
  <1>4. c.refund = refund /\ c.ok
    OBVIOUS
  <1>5. Moves(b, mid, in, x, y, n)
    BY <1>1, <1>3 DEF Moves
  <1> HIDE DEF b, in, out, x, y, z, n, m, S
  <1>6. Legs(b, mid, S) /\ IsMoney(mid) /\ Shifted(b, mid, in, x, y, n)
    BY <1>2, <1>3, <1>5, MoveIsLeg
  <1>7. mid.balance[out][y] >= m
    <2>1. mid.balance = transfer(b.balance, in, x, y, n) /\ n \in Int
      BY <1>2, <1>3
    <2>2. Moved(b, mid, in, x, y, n)
      BY <1>2, <1>3, <2>1, MovedBalances
    <2>3. balance[out][y] \in Int
      BY <1>2, <1>3, BalancesAreIntegers
    <2>4. mid.balance[out][y]
            = balance[out][y] - Part(out, y, in, x, n) + Part(out, y, in, y, n)
      BY <1>2, <1>3, <2>2 DEF Moved
    <2> QED BY <1>1, <1>2, <2>3, <2>4 DEF Part
  <1>8. Moves(mid, c, out, y, z, m)
    BY <1>6, <1>7 DEF Moves, IsMoney
  <1> HIDE DEF mid, c
  <1>9. Legs(mid, c, S) /\ IsMoney(c) /\ Shifted(mid, c, out, y, z, m)
    BY <1>2, <1>6, <1>8, MoveIsLeg
  <1>10. Legs(b, c, S)
         /\ \A u \in Token : Growth(b, c, u) = Growth(b, mid, u) + Growth(mid, c, u)
    BY <1>3, <1>6, <1>9, LegsFollow, SMTT(30)
  <1>11. ASSUME NEW u \in Token
         PROVE  Growth(b, c, u) >= 0
    <2>1. /\ Growth(b, c, u) = Growth(b, mid, u) + Growth(mid, c, u)
          /\ Growth(b, mid, u) = Part(u, Router, in, y, n) - Part(u, Router, in, x, n)
          /\ Growth(mid, c, u) = Part(u, Router, out, z, m) - Part(u, Router, out, y, m)
      BY <1>6, <1>9, <1>10 DEF Shifted
    <2> QED BY ONLY <1>2, <2>1 DEF Part
  <1>12. Fair(b, c, S)
    BY <1>3, <1>10, <1>11, GrownIsFair
  <1>13. Unserviced /\ allowance' \in [Token -> [Addr -> Nat]] /\ dexes' \subseteq Addr
    BY <1>1 DEF Unserviced, Unattended, Swapless, MoneyInv, MoneyTypes
  <1>14. MoneyInv' /\ RefundRule /\ HaltRule /\ (S \subseteq consent' => ConsentRule)
    BY <1>1, <1>4, <1>12, <1>13, CallIsSound DEF b
  <1> QED BY <1>1, <1>14 DEF SoundStep

\* The sender signed the message, not the call: the allowance pays for it.
LEMMA RelayIsSound ==
    ASSUME PaymentsAssumption, MoneyInv, NEW m \in Relays, route_payment_meta(m),
           Swapless, Unattended
    PROVE  SoundStep
  <1> DEFINE p == m.payment
             t == p.token
             x == p.sender
             n == p.amount
             c == process_single_payment(Ledger, p)
             S == {x}
  <1>1. p \in Payment /\ t \in Token /\ x \in Addr /\ n \in Nat /\ x \in S
    BY DEF PaymentsAssumption, Payment
  <1>2. /\ balance' = c.balance /\ refund' = c.refund /\ c.ok
        /\ UNCHANGED <<taken, roleVars>> /\ ~frozen /\ ~is_paused
        /\ allowance[t][x] >= n
        /\ allowance' = [allowance EXCEPT ![t][x] = @ - n]
    BY Zenon DEF route_payment_meta, CommitLedger, Limits!Commit, meta_open, other_call
  <1> HIDE DEF p, c
  <1>3. /\ IsMoney(Ledger) /\ Ledger.balance = balance
        /\ \A u \in Token, a \in Addr : balance[u][a] \in Nat
    BY LedgerIsMoney
  <1>4. Fair(Ledger, c, S)
    BY <1>1, <1>3, PaymentIsFair DEF c
  <1>5. PartedWith(Ledger, c, t, x, n)
    BY <1>1, <1>2, <1>3, Payments DEF c
  <1>6. allowance \in [Token -> [Addr -> Nat]]
    BY DEF MoneyInv, MoneyTypes
  <1> HIDE DEF t, x, n
  <1>7. allowance' \in [Token -> [Addr -> Nat]]
    BY <1>1, <1>2, <1>6
  <1>8. Unserviced /\ dexes' \subseteq Addr
    BY <1>2 DEF Unserviced, Unattended, Swapless, MoneyInv, MoneyTypes
  <1>9. MoneyInv' /\ RefundRule /\ HaltRule
    BY <1>2, <1>4, <1>7, <1>8, CallIsSound
  <1>10. ASSUME NEW u \in Token, NEW a \in Addr, balance'[u][a] < balance[u][a]
         PROVE  balance[u][a] - balance'[u][a] <= allowance[u][a] - allowance'[u][a]
    <2>1. balance'[u][a] >= balance[u][a] - Part(u, a, t, x, n)
      BY <1>2, <1>3, <1>5 DEF PartedWith
    <2>2. balance[u][a] \in Int /\ balance'[u][a] \in Int
      <3>1. IsMoney(c) /\ a \in Account
        BY <1>4, Parties DEF Fair
      <3>2. c.balance[u][a] \in Int
        BY <3>1, BalancesAreIntegers
      <3> QED BY <1>2, <1>3, <3>2
    <2>3. u = t /\ a = x
      <3>1. n \in Nat
        BY <1>1
      <3> QED BY ONLY <1>10, <2>1, <2>2, <3>1 DEF Part
    <2>4. allowance[t][x] \in Nat /\ allowance'[t][x] = allowance[t][x] - n
      BY <1>1, <1>2, <1>6
    <2>5. balance[u][a] \in Int /\ balance'[u][a] \in Int /\ n \in Int
          /\ balance'[u][a] >= balance[u][a] - n
      BY <1>1, <2>1, <2>2, <2>3 DEF Part
    <2>6. balance[u][a] - balance'[u][a] <= n
      BY ONLY <2>5
    <2>7. allowance[u][a] - allowance'[u][a] = n
      BY <1>1, <2>3, <2>4
    <2> QED BY <2>6, <2>7
  <1>11. ConsentRule
    BY <1>10 DEF ConsentRule
  <1> QED BY <1>9, <1>11 DEF SoundStep

\* The router pays `n` of what it holds.
LEMMA RouterPays ==
    ASSUME PaymentsAssumption, MoneyInv, NEW t \in Token, NEW a \in Addr, NEW n \in Nat,
           n <= balance[t][Router], balance' = transfer(balance, t, Router, a, n)
    PROVE  /\ balance' \in [Token -> [Account -> Nat]]
           /\ \A u \in Token, z \in Addr :
                 balance'[u][z] = balance[u][z] + Part(u, z, t, a, n)
           /\ \A u \in Token : balance'[u][Router] = balance[u][Router] - Whole(u, t, n)
  <1>1. /\ a \in Account /\ Router \in Account /\ a # Router /\ n \in Int
        /\ \A z \in Addr : z \in Account /\ z # Router
    BY Parties
  <1>2. balance \in Balances /\ balance \in [Token -> [Account -> Nat]]
    BY SMTT(30) DEF MoneyInv, MoneyTypes, Balances
  <1> DEFINE b == Ledger
             c == [ok |-> TRUE, refund |-> refund, balance |-> balance']
  <1>3. IsMoney(b) /\ b.balance = balance
    BY LedgerIsMoney
  <1>4. c.balance = balance'
    OBVIOUS
  <1> HIDE DEF b, c
  <1>5. Moved(b, c, t, Router, a, n)
    <2>1. c.balance = transfer(b.balance, t, Router, a, n)
      BY <1>3, <1>4
    <2> QED BY <1>1, <1>3, <2>1, MovedBalances
  <1>6. balance' \in Balances
    BY <1>4, <1>5 DEF Moved
  <1>7. \A u \in Token, z \in Account :
           balance'[u][z] = balance[u][z] - Part(u, z, t, Router, n) + Part(u, z, t, a, n)
    BY <1>3, <1>4, <1>5 DEF Moved
  <1>8. ASSUME NEW u \in Token, NEW z \in Account
        PROVE  balance'[u][z] \in Nat
    <2>1. balance[u][z] \in Nat /\ balance[t][Router] \in Nat
      BY <1>1, <1>2
    <2>2. balance'[u][z] = balance[u][z] - Part(u, z, t, Router, n) + Part(u, z, t, a, n)
      BY <1>7
    <2>3. n \in Nat /\ n <= balance[t][Router]
      OBVIOUS
    <2> QED BY ONLY <2>1, <2>2, <2>3 DEF Part
  <1>9. balance' \in [Token -> [Account -> Nat]]
    BY <1>6, <1>8 DEF Balances
  <1>10. ASSUME NEW u \in Token, NEW z \in Addr
         PROVE  balance'[u][z] = balance[u][z] + Part(u, z, t, a, n)
    <2>1. balance[u][z] \in Int /\ z # Router
      BY <1>1, <1>2
    <2>2. balance'[u][z] = balance[u][z] - Part(u, z, t, Router, n) + Part(u, z, t, a, n)
      BY <1>1, <1>7
    <2> QED BY ONLY <1>1, <2>1, <2>2 DEF Part
  <1>11. ASSUME NEW u \in Token
         PROVE  balance'[u][Router] = balance[u][Router] - Whole(u, t, n)
    <2>1. balance[u][Router] \in Int
      BY <1>1, <1>2
    <2>2. balance'[u][Router]
            = balance[u][Router] - Part(u, Router, t, Router, n) + Part(u, Router, t, a, n)
      BY <1>1, <1>7
    <2> QED BY ONLY <1>1, <2>1, <2>2 DEF Part, Whole
  <1> QED BY <1>9, <1>10, <1>11

\* The refund ledger `new` has `n` less than `ref`, in token t, for a.
Lowered(ref, new, t, a, n) ==
    /\ new \in Refunds
    /\ \A u \in Token, x \in Addr : new[u][x] = ref[u][x] - Part(u, x, t, a, n)
    /\ \A u \in Token :
          SumFunctionOnSet(new[u], Addr) = SumFunctionOnSet(ref[u], Addr) - Whole(u, t, n)

LEMMA Debits ==
    ASSUME PaymentsAssumption, NEW ref \in Refunds, NEW t \in Token, NEW a \in Addr,
           NEW n \in Nat, n <= ref[t][a]
    PROVE  Lowered(ref, [ref EXCEPT ![t][a] = @ - n], t, a, n)
  <1> DEFINE new == [ref EXCEPT ![t][a] = @ - n]
  <1>1. ref[t][a] - n \in Nat
    BY DEF Refunds
  <1>2. new \in Refunds
    BY <1>1 DEF Refunds
  <1>3. \A u \in Token, x \in Addr : new[u][x] = ref[u][x] - Part(u, x, t, a, n)
    BY DEF Refunds, Part, Whole
  <1>4. IsFiniteSet(Addr)
    BY DEF PaymentsAssumption
  <1> HIDE DEF new
  <1>5. ASSUME NEW u \in Token
        PROVE  SumFunctionOnSet(new[u], Addr) = SumFunctionOnSet(ref[u], Addr) - Whole(u, t, n)
    <2> DEFINE f == ref[u]
               g == new[u]
    <2>1. (\A x \in Addr : f[x] \in Int) /\ g[a] \in Int
      BY <1>2 DEF Refunds
    <2>2. \A x \in Addr : g[x] = f[x] - Part(u, x, t, a, n)
      BY <1>3
    <2> HIDE DEF f, g
    <2>3. \A x \in Addr : x # a => g[x] = f[x]
      BY <2>1, <2>2 DEF Part, Whole
    <2>4. /\ SumFunctionOnSet(g, Addr) = SumFunctionOnSet(f, Addr) - f[a] + g[a]
          /\ SumFunctionOnSet(f, Addr) \in Int
      BY <1>4, <2>1, <2>3, SumUpdate
    <2>5. SumFunctionOnSet(g, Addr) = SumFunctionOnSet(f, Addr) - Whole(u, t, n)
      BY <2>1, <2>2, <2>4, SMTT(30) DEF Part, Whole
    <2> QED BY <2>5 DEF f, g
  <1> QED BY <1>2, <1>3, <1>5 DEF new, Lowered

\* The refund and the account of the router fall together.
LEMMA RefundIsSound ==
    ASSUME PaymentsAssumption, MoneyInv, NEW t \in Token, NEW a \in Addr, NEW n \in Nat,
           withdraw_refund(a, t, n), Swapless, Unattended
    PROVE  SoundStep
  <1>1. /\ n > 0 /\ n <= refund[t][a] /\ n <= balance[t][Router]
        /\ refund' = [refund EXCEPT ![t][a] = @ - n]
        /\ balance' = transfer(balance, t, Router, a, n)
        /\ consent' = {a} /\ UNCHANGED <<allowance, taken, roleVars>>
    BY DEF withdraw_refund, refund_available, other_call
  <1>2. /\ \A u \in Token, z \in Addr : balance[u][z] \in Nat /\ refund[u][z] \in Nat
        /\ \A u \in Token : balance[u][Router] \in Nat /\ Owed(u) \in Nat /\ taken[u] \in Nat
        /\ refund \in Refunds
    BY LedgerIsMoney DEF MoneyInv, MoneyTypes
  <1>3. /\ balance' \in [Token -> [Account -> Nat]]
        /\ \A u \in Token, z \in Addr :
              balance'[u][z] = balance[u][z] + Part(u, z, t, a, n)
        /\ \A u \in Token : balance'[u][Router] = balance[u][Router] - Whole(u, t, n)
    BY <1>1, RouterPays
  <1>4. Lowered(refund, refund', t, a, n)
    BY <1>1, <1>2, Debits
  <1>5. MoneyTypes'
    BY <1>1, <1>3, <1>4
    DEF MoneyInv, MoneyTypes, Unattended, Swapless, roleVars, Lowered
  <1>6. ASSUME NEW u \in Token
        PROVE  Owed(u)' <= balance'[u][Router] + taken'[u]
    <2>1. Owed(u)' = Owed(u) - Whole(u, t, n)
      BY <1>4 DEF Lowered, Owed
    <2>2. balance'[u][Router] = balance[u][Router] - Whole(u, t, n) /\ taken' = taken
      BY <1>1, <1>3
    <2>3. Owed(u) <= balance[u][Router] + taken[u]
      BY DEF MoneyInv, BooksAreCovered, RefundsCovered
    <2>4. Whole(u, t, n) \in Int
      BY DEF Whole
    <2>5. balance[u][Router] \in Int /\ Owed(u) \in Int /\ taken[u] \in Int /\ taken'[u] = taken[u]
      BY <1>2, <2>2
    <2> QED BY ONLY <2>1, <2>2, <2>3, <2>4, <2>5
  <1>7. BooksAreCovered'
    BY <1>6 DEF BooksAreCovered, RefundsCovered, MoneyInv, Unattended
  <1>8. \A u \in Token, z \in Addr : ~(balance'[u][z] < balance[u][z])
    BY ONLY <1>2, <1>3, n \in Nat DEF Part
  <1>9. ASSUME NEW u \in Token, NEW z \in Addr, refund'[u][z] < refund[u][z]
        PROVE  /\ z \in consent'
               /\ balance'[u][z] - balance[u][z] = refund[u][z] - refund'[u][z]
               /\ balance[u][Router] - balance'[u][Router] = refund[u][z] - refund'[u][z]
    <2>1. refund'[u][z] = refund[u][z] - Part(u, z, t, a, n)
      BY <1>4 DEF Lowered
    <2>2. u = t /\ z = a
      BY <1>2, <1>9, <2>1 DEF Part
    <2>3. /\ refund'[u][z] = refund[u][z] - n /\ balance'[u][z] = balance[u][z] + n
          /\ balance'[u][Router] = balance[u][Router] - n
      BY <1>3, <2>1, <2>2 DEF Part, Whole
    <2>4. z \in consent'
      BY <1>1, <2>2
    <2>5. refund[u][z] \in Int /\ balance[u][z] \in Int /\ balance[u][Router] \in Int /\ n \in Int
      BY <1>2
    <2>6. /\ balance'[u][z] - balance[u][z] = refund[u][z] - refund'[u][z]
          /\ balance[u][Router] - balance'[u][Router] = refund[u][z] - refund'[u][z]
      BY ONLY <2>3, <2>5
    <2> QED BY <2>4, <2>6
  <1>10. RefundRule
    BY <1>9 DEF RefundRule
  <1> QED BY <1>5, <1>7, <1>8, <1>10 DEF SoundStep, MoneyInv, ConsentRule, HaltRule

\* The manager, if there is one, is an address.
LEMMA Managers ==
    ASSUME PaymentsAssumption, MoneyInv, require_role("TreasuryManager") # NoAddr
    PROVE  require_role("TreasuryManager") \in Addr
  BY DEF PaymentsAssumption, MoneyInv, MoneyTypes, require_role

\* What the TreasuryManager takes out is on record.
LEMMA TakingIsSound ==
    ASSUME PaymentsAssumption, MoneyInv, NEW t \in Token, NEW n \in Nat, TakeOut(t, n),
           Swapless, Unattended
    PROVE  SoundStep
  <1> DEFINE manager == require_role("TreasuryManager")
  <1>1. /\ manager # NoAddr /\ n <= balance[t][Router]
        /\ balance' = transfer(balance, t, Router, manager, n)
        /\ taken' = [taken EXCEPT ![t] = @ + n]
        /\ UNCHANGED <<allowance, refund, roleVars>>
    BY DEF TakeOut, other_call
  <1>2. manager \in Addr
    BY <1>1, Managers
  <1> HIDE DEF manager
  <1>3. /\ balance' \in [Token -> [Account -> Nat]]
        /\ \A u \in Token, z \in Addr :
              balance'[u][z] = balance[u][z] + Part(u, z, t, manager, n)
        /\ \A u \in Token : balance'[u][Router] = balance[u][Router] - Whole(u, t, n)
    BY <1>1, <1>2, RouterPays
  <1>4. /\ \A u \in Token, z \in Addr : balance[u][z] \in Nat /\ refund[u][z] \in Nat
        /\ \A u \in Token : balance[u][Router] \in Nat /\ Owed(u) \in Nat /\ taken[u] \in Nat
        /\ taken \in [Token -> Nat]
    BY LedgerIsMoney DEF MoneyInv, MoneyTypes
  <1>5. taken' \in [Token -> Nat] /\ \A u \in Token : taken'[u] = taken[u] + Whole(u, t, n)
    <2>1. taken' = [taken EXCEPT ![t] = @ + n] /\ taken \in [Token -> Nat]
      BY <1>1, <1>4
    <2> QED BY ONLY <2>1, n \in Nat, t \in Token DEF Whole
  <1>6. MoneyTypes'
    BY <1>1, <1>3, <1>5 DEF MoneyInv, MoneyTypes, Unattended, Swapless, roleVars
  <1>7. ASSUME NEW u \in Token
        PROVE  Owed(u)' <= balance'[u][Router] + taken'[u]
    <2>1. Owed(u)' = Owed(u)
      BY <1>1 DEF Owed
    <2>2. /\ balance'[u][Router] = balance[u][Router] - Whole(u, t, n)
          /\ taken'[u] = taken[u] + Whole(u, t, n)
      BY <1>3, <1>5
    <2>3. Owed(u) <= balance[u][Router] + taken[u]
      BY DEF MoneyInv, BooksAreCovered, RefundsCovered
    <2>4. Whole(u, t, n) \in Int
      BY DEF Whole
    <2> QED BY <1>4, <2>1, <2>2, <2>3, <2>4, SMTT(30)
  <1>8. BooksAreCovered'
    BY <1>7 DEF BooksAreCovered, RefundsCovered, MoneyInv, Unattended
  <1>9. \A u \in Token, z \in Addr : ~(balance'[u][z] < balance[u][z])
    BY ONLY <1>3, <1>4, n \in Nat DEF Part
  <1>10. \A u \in Token, z \in Addr : ~(refund'[u][z] < refund[u][z])
    <2>1. refund' = refund /\ \A u \in Token, z \in Addr : refund[u][z] \in Nat
      BY <1>1, <1>4
    <2> QED BY ONLY <2>1
  <1> QED BY <1>6, <1>8, <1>9, <1>10
      DEF SoundStep, MoneyInv, RefundRule, ConsentRule, HaltRule

LEMMA PaymentsAreSound ==
    ASSUME PaymentsAssumption, AccessAssumption, MoneyInv, PaymentsNext, Swapless, Unattended
    PROVE  SoundStep
  <1>1. CASE RouteStep(PaymentArgs, BatchArgs, Quotes, Relays)
    <2>1. ASSUME NEW p \in PaymentArgs, route_payment(p)
          PROVE  SoundStep
      <3>1. <<p>> \in Seq(Payment)
        BY DEF PaymentsAssumption
      <3> QED BY <2>1, <3>1, RouteIsSound DEF route_payment
    <2>2. ASSUME NEW ps \in BatchArgs, route_payments(ps)
          PROVE  SoundStep
      <3>1. ps \in Seq(Payment)
        BY DEF PaymentsAssumption
      <3> QED BY <2>2, <3>1, RouteIsSound
    <2> QED BY <1>1, <2>1, <2>2, QuoteIsSound, RelayIsSound DEF RouteStep
  <1>2. CASE CustodyStep
    <2>1. ASSUME NEW a \in Addr, NEW t \in Token, NEW n \in Withdrawals, withdraw_refund(a, t, n)
          PROVE  SoundStep
      BY <2>1, RefundIsSound DEF PaymentsAssumption
    <2>2. ASSUME NEW a \in Addr, NEW t \in Token, claim_all_refunds(a, t)
          PROVE  SoundStep
      <3> DEFINE n == refund[t][a]
      <3>1. n \in Nat
        BY LedgerIsMoney
      <3>2. withdraw_refund(a, t, n)
        BY <2>2 DEF claim_all_refunds
      <3> HIDE DEF n
      <3> QED BY <3>1, <3>2, RefundIsSound
    <2>3. ASSUME NEW t \in Token, NEW n \in Withdrawals,
                 recover_tokens(t, n) \/ emergency_withdraw(t, n)
          PROVE  SoundStep
      <3>1. n \in Nat /\ TakeOut(t, n)
        BY <2>3 DEF recover_tokens, emergency_withdraw, PaymentsAssumption
      <3> QED BY <3>1, TakingIsSound
    <2>4. ASSUME NEW g \in Approvals, approve(g[1], g[2], g[3])
          PROVE  SoundStep
      <3> DEFINE a == g[1]
                 t == g[2]
                 n == g[3]
      <3>1. a \in Addr /\ t \in Token /\ n \in Nat
        BY DEF PaymentsAssumption
      <3>2. /\ allowance' = [allowance EXCEPT ![t][a] = n]
            /\ UNCHANGED <<balance, refund, taken, roleVars>>
        BY <2>4 DEF approve, other_call
      <3> HIDE DEF a, t, n
      <3>3. allowance' \in [Token -> [Addr -> Nat]] /\ dexes' \subseteq Addr
        BY <3>1, <3>2 DEF MoneyInv, MoneyTypes, Swapless
      <3>4. Unserviced
        BY <3>2 DEF Unserviced, Unattended
      <3> QED BY <3>2, <3>3, <3>4, QuietIsSound
    <2> QED BY <1>2, <2>1, <2>2, <2>3, <2>4 DEF CustodyStep
  <1>3. ASSUME UNCHANGED <<moneyVars, roleVars>>
        PROVE  SoundStep
    <2>1. /\ UNCHANGED <<balance, refund>> /\ Unserviced
          /\ allowance' \in [Token -> [Addr -> Nat]] /\ dexes' \subseteq Addr
      BY <1>3 DEF moneyVars, Unserviced, Unattended, Swapless, MoneyInv, MoneyTypes
    <2> QED BY <2>1, QuietIsSound
  <1>4. CASE OfficeStep
    <2>1. ASSUME \/ \E a \in Suspects : blacklist_address(a)
                 \/ \E a \in Suspects : unblacklist_address(a)
          PROVE  UNCHANGED <<moneyVars, roleVars>>
      BY <2>1 DEF blacklist_address, unblacklist_address, ByOfficer, other_call
    <2>2. ASSUME SwitchStep, UNCHANGED moneyVars
          PROVE  UNCHANGED <<moneyVars, roleVars>>
      BY <2>2 DEF SwitchStep, emergency_freeze, unfreeze, set_pause, set_pause_level
    <2> QED BY <1>3, <1>4, <2>1, <2>2 DEF OfficeStep
  <1>5. CASE LimitsStep
    BY <1>3, <1>5 DEF LimitsStep, LimitsCall, other_call
  <1>6. CASE LedgerCloses
    BY <1>3, <1>6 DEF LedgerCloses, Tick
  <1> QED BY <1>1, <1>2, <1>4, <1>5, <1>6 DEF PaymentsNext

-----------------------------------------------------------------------------
(* The swap routes.                                                        *)

\* Neither the treasury nor the recipient of a swap is the router itself.
Direct ==
    /\ Treasury # Router
    /\ \A s \in SwapArgs \cup SplitArgs \cup HopArgs : s.recipient # Router
    /\ \A ss \in SwapBatches : \A i \in DOMAIN ss : ss[i].recipient # Router

\* The step the property about the surplus allows.
PassRule ==
    lastSwap'.kind \in {"single", "batch", "split", "multihop"} =>
       \A t \in Token : Surplus(t)' = Surplus(t)

SwapKeeps == SoundStep /\ (Direct => PassRule)

\* What a call leaves that no route of these touches.
Routed(S) ==
    /\ consent' = S /\ UNCHANGED <<allowance, dexes, roleVars>>
    /\ ~frozen /\ ~is_paused

LEMMA SwapIsSound ==
    ASSUME PaymentsAssumption, MoneyInv, NEW c, NEW S, Fair(Ledger, c, S), CommitLedger(c),
           Routed(S), UNCHANGED taken, Unattended
    PROVE  SoundStep /\ (Steady(Ledger, c) => PassRule)
  <1>1. balance' = c.balance /\ refund' = c.refund /\ c.ok
    BY DEF CommitLedger, Limits!Commit
  <1>2. Unserviced /\ allowance' \in [Token -> [Addr -> Nat]] /\ dexes' \subseteq Addr
    BY DEF Unserviced, Unattended, Routed, MoneyInv, MoneyTypes
  <1>3. MoneyInv' /\ RefundRule /\ HaltRule /\ (S \subseteq consent' => ConsentRule)
    BY <1>1, <1>2, CallIsSound DEF Routed
  <1>4. SoundStep
    BY <1>3 DEF SoundStep, Routed
  <1>5. ASSUME Steady(Ledger, c), NEW t \in Token
        PROVE  Surplus(t)' = Surplus(t)
    <2>1. Spare(c, t) = Spare(Ledger, t)
      BY <1>1, <1>5 DEF Steady
    <2>2. Spare(Ledger, t) = Surplus(t)
      BY LedgerIsMoney DEF Surplus
    <2>3. Surplus(t)' = Spare(c, t)
      BY <1>1 DEF Surplus, Owed, Spare
    <2> QED BY <2>1, <2>2, <2>3
  <1> QED BY <1>4, <1>5 DEF PassRule

\* Where swaps are open, the contract is neither frozen nor halted.
LEMMA SwapCallIsRouted ==
    ASSUME NEW senders, NEW ds, SwapCall(senders, ds), ~frozen, ~is_paused
    PROVE  Routed(senders \cup ds)
  BY DEF SwapCall, Routed, other_call

LEMMA OpenForSwaps ==
    ASSUME swaps_open
    PROVE  ~frozen /\ ~is_paused
  BY DEF swaps_open, is_paused

LEMMA AnswersAreTyped ==
    ASSUME SwapsAssumption, NEW ans \in Answers
    PROVE  /\ ans.out \in Nat /\ ans.unused \in Nat /\ ans.told_out \in Nat
           /\ ans.told_unused \in Nat
  BY DEF SwapsAssumption

LEMMA SingleIsSound ==
    ASSUME PaymentsAssumption, SwapsAssumption, MoneyInv, NEW s \in SwapArgs,
           NEW ans \in Answers, route_payment_with_swap(s, ans), Unattended
    PROVE  SwapKeeps
  <1> DEFINE c == process_single_swap_payment(Ledger, s, ans)
             S == {s.sender} \cup {s.dex}
  <1>1. CommitLedger(c) /\ SwapCall({s.sender}, {s.dex}) /\ swaps_open /\ UNCHANGED taken
    BY Zenon DEF route_payment_with_swap
  <1>2. Routed(S)
    BY <1>1, OpenForSwaps, SwapCallIsRouted
  <1>3. s \in SwapPayment /\ ans.out \in Nat /\ s.sender \in S /\ s.dex \in S
    BY AnswersAreTyped DEF SwapsAssumption
  <1>4. IsMoney(Ledger)
    BY LedgerIsMoney
  <1> HIDE DEF S
  <1>5. /\ Fair(Ledger, c, S)
        /\ (Treasury # Router /\ s.recipient # Router) => Steady(Ledger, c)
    BY <1>3, <1>4, SwapIsFair
  <1> HIDE DEF c
  <1>6. SoundStep /\ (Steady(Ledger, c) => PassRule)
    BY <1>1, <1>2, <1>5, SwapIsSound
  <1> QED BY <1>5, <1>6 DEF SwapKeeps, Direct

LEMMA SwapBatchIsSound ==
    ASSUME PaymentsAssumption, SwapsAssumption, MoneyInv, NEW ss \in SwapBatches,
           NEW as \in Answered(Len(ss)), route_payments_with_swap(ss, as), Unattended
    PROVE  SwapKeeps
  <1> DEFINE ms == [i \in DOMAIN ss |-> [swap |-> ss[i], answer |-> as[i]]]
             c == FoldLeft(swap_of_batch, Ledger, ms)
             senders == {ss[i].sender : i \in DOMAIN ss}
             ds == {ss[i].dex : i \in DOMAIN ss}
             S == senders \cup ds
             n == Len(ss)
  <1>1. CommitLedger(c) /\ SwapCall(senders, ds) /\ swaps_open /\ UNCHANGED taken
    BY Zenon DEF route_payments_with_swap
  <1>2. Routed(S)
    <2> HIDE DEF senders, ds
    <2> QED BY <1>1, OpenForSwaps, SwapCallIsRouted
  <1>3. ss \in Seq(SwapPayment)
    BY DEF SwapsAssumption
  <1>4. n \in Nat /\ DOMAIN ss = 1..n /\ DOMAIN ms = 1..n
    BY <1>3
  <1>5. \A i \in 1..n : /\ ms[i].swap \in SwapPayment /\ ms[i].answer.out \in Nat
                        /\ ms[i].swap.sender \in S /\ ms[i].swap.dex \in S
                        /\ ms[i].swap = ss[i]
    <2> TAKE i \in 1..n
    <2>1. ms[i].swap = ss[i] /\ ms[i].answer = as[i]
      BY <1>4
    <2>2. ss[i] \in SwapPayment /\ ss[i].sender \in S /\ ss[i].dex \in S
      BY <1>3, <1>4
    <2>3. as[i] \in Answers
      BY DEF Answered
    <2>4. as[i].out \in Nat
      BY <2>3, AnswersAreTyped
    <2> QED BY <2>1, <2>2, <2>4
  <1>6. IsMoney(Ledger)
    BY LedgerIsMoney
  <1> HIDE DEF S, ms, n
  <1>7. /\ Fair(Ledger, c, S)
        /\ (Treasury # Router /\ \A i \in 1..n : ms[i].swap.recipient # Router) =>
              Steady(Ledger, c)
    BY <1>4, <1>5, <1>6, SwapsAreFair
  <1> HIDE DEF c
  <1>8. SoundStep /\ (Steady(Ledger, c) => PassRule)
    BY <1>1, <1>2, <1>7, SwapIsSound
  <1>9. Direct => Treasury # Router /\ \A i \in 1..n : ms[i].swap.recipient # Router
    BY <1>4, <1>5 DEF Direct
  <1> QED BY <1>7, <1>8, <1>9 DEF SwapKeeps

LEMMA SplitIsSound ==
    ASSUME PaymentsAssumption, SwapsAssumption, MoneyInv, NEW s \in SplitArgs,
           NEW as \in Answered(Len(s.splits)), route_split_payment_with_swap(s, as),
           Unattended
    PROVE  SwapKeeps
  <1> DEFINE c == process_split_payment_with_swap(Ledger, s, as)
             ds == {s.splits[i].dex : i \in DOMAIN s.splits}
             S == {s.sender} \cup ds
  <1>1. /\ CommitLedger(c) /\ SwapCall({s.sender}, ds) /\ swaps_open /\ split_admissible(s)
        /\ UNCHANGED taken
    BY Zenon DEF route_split_payment_with_swap
  <1>2. Routed(S)
    <2> HIDE DEF ds
    <2> QED BY <1>1, OpenForSwaps, SwapCallIsRouted
  <1>3. s \in SplitPayment /\ s.sender \in S /\ s.splits # <<>>
    BY <1>1 DEF SwapsAssumption, split_admissible
  <1>4. \A i \in DOMAIN s.splits : as[i].out \in Nat /\ s.splits[i].dex \in S
    <2> TAKE i \in DOMAIN s.splits
    <2>1. s.splits \in Seq([dex : Addr, weight : Nat, min_out : Nat])
      BY <1>3 DEF SplitPayment
    <2>2. i \in 1..Len(s.splits)
      BY <2>1, SMTT(30)
    <2>3. as[i] \in Answers
      BY <2>2 DEF Answered
    <2>4. as[i].out \in Nat
      BY <2>3, AnswersAreTyped
    <2> QED BY <2>4
  <1>5. IsMoney(Ledger)
    BY LedgerIsMoney
  <1> HIDE DEF S
  <1>6. /\ Fair(Ledger, c, S)
        /\ (Treasury # Router /\ s.recipient # Router) => Steady(Ledger, c)
    BY <1>3, <1>4, <1>5, SplitSwapIsFair
  <1> HIDE DEF c
  <1>7. SoundStep /\ (Steady(Ledger, c) => PassRule)
    BY <1>1, <1>2, <1>6, SwapIsSound
  <1> QED BY <1>6, <1>7 DEF SwapKeeps, Direct

LEMMA MultihopIsSound ==
    ASSUME PaymentsAssumption, SwapsAssumption, MoneyInv, NEW s \in HopArgs,
           NEW as \in Answered(Len(s.floors)), route_multihop_swap(s, as), Unattended
    PROVE  SwapKeeps
  <1> DEFINE v == volume_of(Ledger, s.sender)
             charged_ == Limits!charge_and_accrue(Ledger, s.sender, s.amount)
             start == [ledger |-> pull(charged_, s.sender, s.path[1], s.amount),
                       amount |-> s.amount]
             end == FoldLeft(hop, start, HopLegs(s, as))
             c == deliver(end.ledger, v, s, s.path[Len(s.path)], end.amount)
             S == {s.sender, s.dex}
  <1>1. /\ CommitLedger(c) /\ consent' = S /\ hops_admissible(s)
        /\ payment_heartbeat(s.sender) /\ UNCHANGED <<taken, allowance, dexes>>
    BY Zenon DEF route_multihop_swap
  <1>2. Routed(S)
    BY <1>1 DEF Routed, payment_heartbeat
  <1>3. s \in HopPayment /\ s.sender \in S /\ s.dex \in S
    BY DEF SwapsAssumption
  <1>4. s.dex \in Addr
    BY <1>1 DEF hops_admissible, MoneyInv, MoneyTypes
  <1>5. \A i \in DOMAIN s.floors :
           as[i].out \in Nat /\ as[i].unused \in Nat /\ as[i].told_unused \in Nat
    <2> TAKE i \in DOMAIN s.floors
    <2>1. s.floors \in Seq(Nat)
      BY <1>3 DEF HopPayment
    <2>2. i \in 1..Len(s.floors)
      BY <2>1
    <2>3. as[i] \in Answers
      BY <2>2 DEF Answered
    <2> QED BY <2>3, AnswersAreTyped
  <1>6. IsMoney(Ledger)
    BY LedgerIsMoney
  <1> HIDE DEF S, v
  <1>7. /\ Fair(Ledger, c, S)
        /\ (Treasury # Router /\ s.recipient # Router) => Steady(Ledger, c)
    BY <1>1, <1>3, <1>4, <1>5, <1>6, HopSwapIsFair
  <1> HIDE DEF c
  <1>8. SoundStep /\ (Steady(Ledger, c) => PassRule)
    BY <1>1, <1>2, <1>7, SwapIsSound
  <1> QED BY <1>7, <1>8 DEF SwapKeeps, Direct

LEMMA RawIsSound ==
    ASSUME PaymentsAssumption, SwapsAssumption, MoneyInv, NEW s \in RawArgs,
           NEW ans \in Answers, route_payment_with_swap_raw(s, ans), Unattended
    PROVE  SwapKeeps
  <1> DEFINE sell == s.sell
             buy == s.buy
             x == s.sender
             dex == s.dex
             n == s.amount
             b == Ledger
             put == [b EXCEPT
                       !.ok = balance[sell][x] >= n,
                       !.balance = transfer(@, sell, x, dex, n)]
             spared == [put EXCEPT
                          !.ok = @ /\ put.balance[sell][dex] >= ans.unused,
                          !.balance = transfer(@, sell, dex, Router, ans.unused)]
             given == [spared EXCEPT
                         !.ok = @ /\ spared.balance[buy][dex] >= ans.out,
                         !.balance = transfer(@, buy, dex, Router, ans.out)]
             back == [given EXCEPT
                        !.ok = @ /\ given.balance[sell][Router] >= ans.told_unused,
                        !.balance = transfer(@, sell, Router, x, ans.told_unused)]
             p == [sender |-> s.sender, recipient |-> s.recipient, token |-> s.buy,
                   amount |-> ans.told_out, delivered |-> s.delivered]
             c == process_single_payment(back, p)
             S == {x} \cup {dex}
             excess == Max({ans.told_unused - ans.unused, 0})
             k == [t \in Token |-> Whole(t, sell, excess)]
  <1>1. /\ CommitLedger(c) /\ SwapCall({x}, {dex}) /\ ~frozen /\ ~is_paused
        /\ taken' = [taken EXCEPT ![sell] = @ + excess]
        /\ lastSwap' = [kind |-> "raw", arg |-> s, min_out |-> s.min_out,
                        honest |-> does_as_it_says(ans)]
    BY Zenon DEF route_payment_with_swap_raw
  <1>2. Routed(S)
    BY <1>1, SwapCallIsRouted
  <1>3. /\ x \in Addr /\ dex \in Addr /\ sell \in Token /\ buy \in Token /\ n \in Nat
        /\ x \in S /\ dex \in S
    BY DEF SwapsAssumption, RawPayment
  <1>4. /\ ans.out \in Nat /\ ans.unused \in Nat /\ ans.told_unused \in Nat
        /\ ans.told_out \in Nat /\ excess \in Nat
        /\ excess >= ans.told_unused - ans.unused
    <2>1. ASSUME NEW i \in Int
          PROVE  Max({i, 0}) \in Nat /\ Max({i, 0}) >= i
      <3>1. \E m \in {i, 0} : \A j \in {i, 0} : m >= j
        BY SMT
      <3>2. Max({i, 0}) \in {i, 0} /\ \A j \in {i, 0} : Max({i, 0}) >= j
        BY <3>1, Zenon DEF Max
      <3> QED BY <3>2
    <2>2. /\ ans.out \in Nat /\ ans.unused \in Nat /\ ans.told_unused \in Nat
          /\ ans.told_out \in Nat
      BY AnswersAreTyped
    <2> QED BY <2>1, <2>2
  <1>5. p \in Payment /\ p.sender \in S
    BY <1>3, <1>4 DEF SwapsAssumption, RawPayment, Payment
  <1>6. /\ IsMoney(b) /\ b.ok /\ b.balance = balance
        /\ {"ok", "balance", "refund"} \subseteq DOMAIN b /\ b.ok \in BOOLEAN
    BY LedgerIsMoney DEF IsMoney
  <1> HIDE DEF S, p, b, x, dex, sell, buy, n, excess
  <1>7. /\ Moves(b, put, sell, x, dex, n)
        /\ {"ok", "balance", "refund"} \subseteq DOMAIN put /\ put.ok \in BOOLEAN
    <2>1. /\ put.ok = (balance[sell][x] >= n)
          /\ put.balance = transfer(b.balance, sell, x, dex, n)
          /\ put.refund = b.refund /\ {"ok", "balance", "refund"} \subseteq DOMAIN put
      BY <1>6
    <2> HIDE DEF put
    <2>2. put.ok \in BOOLEAN
      <3>1. CASE balance[sell][x] >= n
        BY <2>1, <3>1
      <3>2. CASE ~(balance[sell][x] >= n)
        BY <2>1, <3>2
      <3> QED BY <3>1, <3>2
    <2>3. put.ok => balance[sell][x] >= n
      BY <2>1, Zenon
    <2>4. put.ok => b.ok /\ b.balance[sell][x] >= n
      BY <1>6, <2>3
    <2> QED BY <2>1, <2>2, <2>4 DEF Moves
  <1> HIDE DEF put
  <1>8. /\ Moves(put, spared, sell, dex, Router, ans.unused)
        /\ {"ok", "balance", "refund"} \subseteq DOMAIN spared /\ spared.ok \in BOOLEAN
    <2>1. /\ spared.ok = (put.ok /\ put.balance[sell][dex] >= ans.unused)
          /\ spared.balance = transfer(put.balance, sell, dex, Router, ans.unused)
          /\ spared.refund = put.refund /\ {"ok", "balance", "refund"} \subseteq DOMAIN spared
      BY <1>7
    <2> HIDE DEF spared
    <2> QED BY <1>7, <2>1 DEF Moves
  <1> HIDE DEF spared
  <1>9. /\ Moves(spared, given, buy, dex, Router, ans.out)
        /\ {"ok", "balance", "refund"} \subseteq DOMAIN given /\ given.ok \in BOOLEAN
    <2>1. /\ given.ok = (spared.ok /\ spared.balance[buy][dex] >= ans.out)
          /\ given.balance = transfer(spared.balance, buy, dex, Router, ans.out)
          /\ given.refund = spared.refund /\ {"ok", "balance", "refund"} \subseteq DOMAIN given
      BY <1>8
    <2> HIDE DEF given
    <2> QED BY <1>8, <2>1 DEF Moves
  <1> HIDE DEF given
  <1>10. Moves(given, back, sell, Router, x, ans.told_unused)
    <2>1. /\ back.ok = (given.ok /\ given.balance[sell][Router] >= ans.told_unused)
          /\ back.balance = transfer(given.balance, sell, Router, x, ans.told_unused)
          /\ back.refund = given.refund /\ {"ok", "balance", "refund"} \subseteq DOMAIN back
      BY <1>9
    <2> HIDE DEF back
    <2> QED BY <1>4, <1>9, <2>1 DEF Moves
  <1> HIDE DEF back
  <1>11. Short(b, back, S, k) /\ k \in [Token -> Nat]
    <2>1. k \in [Token -> Nat]
      BY <1>4 DEF Whole
    <2>2. \A u \in Token :
            k[u] >= Whole(u, sell, ans.told_unused) - Whole(u, sell, ans.unused)
      BY <1>4 DEF Whole
    <2> HIDE DEF k
    <2> QED BY <1>3, <1>4, <1>6, <1>7, <1>8, <1>9, <1>10, <2>1, <2>2, RawIsShort
  <1>12. IsMoney(back)
    BY <1>11 DEF Short
  <1>13. Fair(back, c, S)
    BY <1>5, <1>12, PaymentIsFair
  <1> HIDE DEF c
  <1>14. Short(b, c, S, k)
    <2> HIDE DEF k
    <2> QED BY <1>6, <1>11, <1>12, <1>13, ShortFollows
  <1>15. SoundStep
    <2>1. taken' = [t \in Token |-> taken[t] + k[t]]
      <3>1. taken \in [Token -> Nat]
        BY DEF MoneyInv, MoneyTypes
      <3>2. \A t \in Token : taken'[t] = taken[t] + Whole(t, sell, excess)
        BY <1>1, <1>3, <1>4, <3>1 DEF Whole
      <3>3. taken' \in [Token -> Nat] /\ DOMAIN taken' = Token
        BY <1>1, <1>3, <1>4, <3>1
      <3> QED BY <3>2, <3>3
    <2> HIDE DEF k
    <2>2. balance' = c.balance /\ refund' = c.refund /\ c.ok
      BY <1>1 DEF CommitLedger, Limits!Commit
    <2>3. /\ allowance' \in [Token -> [Addr -> Nat]] /\ dexes' \subseteq Addr
          /\ UNCHANGED <<yieldProtocol, yieldPrincipal, held, roleVars>>
      BY <1>2 DEF Unattended, Routed, MoneyInv, MoneyTypes
    <2>4. MoneyInv' /\ RefundRule /\ HaltRule /\ (S \subseteq consent' => ConsentRule)
      BY <1>1, <1>11, <1>14, <2>1, <2>2, <2>3, ShortIsSound DEF b
    <2> QED BY <1>2, <2>4 DEF SoundStep, Routed
  <1>16. PassRule
    BY <1>1 DEF PassRule
  <1> QED BY <1>15, <1>16 DEF SwapKeeps

\* Where no swap runs, there is nothing to pass through.
LEMMA NoSwapPasses == ASSUME lastSwap' = NoSwap PROVE PassRule
  BY DEF PassRule, NoSwap

LEMMA SwapsAreSound ==
    ASSUME PaymentsAssumption, AccessAssumption, SwapsAssumption, MoneyInv, SwapsNext,
           Unattended
    PROVE  SwapKeeps
  <1>1. CASE SwapStep
    BY <1>1, SingleIsSound, SwapBatchIsSound, SplitIsSound, MultihopIsSound, RawIsSound
    DEF SwapStep
  <1>2. CASE RegistryStep
    <2>1. /\ UNCHANGED moneyVars /\ UNCHANGED roleVars /\ lastSwap' = NoSwap
          /\ \E d \in Dexes : dexes' \in {dexes \cup {d}, dexes \ {d}}
      BY <1>2 DEF RegistryStep, register_dex, deregister_dex, other_call
    <2>2. dexes' \subseteq Addr
      BY <2>1 DEF SwapsAssumption, MoneyInv, MoneyTypes
    <2>3. UNCHANGED <<balance, refund>> /\ Unserviced /\ allowance' \in [Token -> [Addr -> Nat]]
      BY <2>1 DEF moneyVars, Unserviced, Unattended, MoneyInv, MoneyTypes
    <2> QED BY <2>1, <2>2, <2>3, QuietIsSound, NoSwapPasses DEF SwapKeeps
  <1>3. CASE PaymentsNext /\ Swapless
    BY <1>3, PaymentsAreSound, NoSwapPasses DEF SwapKeeps, Swapless
  <1> QED BY <1>1, <1>2, <1>3 DEF SwapsNext

-----------------------------------------------------------------------------
(* Yield and archival.                                                     *)

\* An address pays another `n` of what it has.
LEMMA AddressPays ==
    ASSUME PaymentsAssumption, MoneyInv, NEW t \in Token, NEW x \in Addr, NEW y \in Account,
           x # y, NEW n \in Nat, n <= balance[t][x], balance' = transfer(balance, t, x, y, n)
    PROVE  /\ balance' \in [Token -> [Account -> Nat]]
           /\ \A u \in Token : balance'[u][Router] >= balance[u][Router]
           /\ \A u \in Token, z \in Addr : balance'[u][z] < balance[u][z] => z = x
  <1> DEFINE b == Ledger
             c == [ok |-> TRUE, refund |-> refund, balance |-> balance']
  <1>1. /\ x \in Account /\ y \in Account /\ Router \in Account
        /\ x # Router /\ n \in Int
        /\ \A z \in Addr : z \in Account
    BY Parties
  <1>2. IsMoney(b) /\ b.balance = balance
        /\ \A u \in Token, z \in Account : balance[u][z] \in Nat
    BY LedgerIsMoney
  <1>3. c.balance = balance'
    OBVIOUS
  <1> HIDE DEF b, c
  <1>4. Moved(b, c, t, x, y, n)
    <2>1. c.balance = transfer(b.balance, t, x, y, n)
      BY <1>2, <1>3
    <2> QED BY <1>1, <1>2, <2>1, MovedBalances
  <1>5. balance' \in Balances
    BY <1>3, <1>4 DEF Moved
  <1>6. \A u \in Token, z \in Account :
           balance'[u][z] = balance[u][z] - Part(u, z, t, x, n) + Part(u, z, t, y, n)
    BY <1>2, <1>3, <1>4 DEF Moved
  <1>7. ASSUME NEW u \in Token, NEW z \in Account
        PROVE  /\ balance'[u][z] \in Nat
               /\ balance'[u][z] < balance[u][z] => z = x
               /\ z = Router => balance'[u][z] >= balance[u][z]
    <2>1. balance[u][z] \in Nat /\ balance[t][x] \in Nat /\ n \in Nat /\ n <= balance[t][x]
      BY <1>1, <1>2
    <2>2. balance'[u][z] = balance[u][z] - Part(u, z, t, x, n) + Part(u, z, t, y, n)
      BY <1>6
    <2> QED BY ONLY <1>1, <2>1, <2>2, x # y DEF Part
  <1> QED BY <1>1, <1>5, <1>7 DEF Balances

\* What a yield call does to the money and to the books of the principal.
LEMMA YieldIsSound ==
    ASSUME PaymentsAssumption, MoneyInv, NEW t \in Token, NEW x \in Addr, NEW y \in Account,
           x # y, NEW n \in Nat, n <= balance[t][x], balance' = transfer(balance, t, x, y, n),
           x \in {Treasury, yieldProtocol}, x \in consent', ~is_paused,
           signer' = require_role("TreasuryManager"),
           UNCHANGED <<allowance, refund, taken, roleVars, dexes, yieldProtocol>>,
           yieldPrincipal' \in [Token -> Nat], held' \in [Token -> [Protocols -> Nat]],
           \A u \in Token : yieldPrincipal'[u] = SumFunctionOnSet(held'[u], Protocols)
    PROVE  SoundStep
  <1>1. /\ balance' \in [Token -> [Account -> Nat]]
        /\ \A u \in Token : balance'[u][Router] >= balance[u][Router]
        /\ \A u \in Token, z \in Addr : balance'[u][z] < balance[u][z] => z = x
    BY AddressPays
  <1>2. MoneyTypes'
    BY <1>1 DEF MoneyInv, MoneyTypes, roleVars
  <1>3. BooksAreCovered'
    <2>1. ASSUME NEW u \in Token
          PROVE  Owed(u)' <= balance'[u][Router] + taken'[u]
      <3>1. /\ Owed(u) <= balance[u][Router] + taken[u] /\ Owed(u)' = Owed(u)
            /\ taken'[u] = taken[u] /\ balance'[u][Router] >= balance[u][Router]
        BY <1>1 DEF MoneyInv, BooksAreCovered, RefundsCovered, Owed
      <3>2. Owed(u) \in Nat /\ balance[u][Router] \in Nat /\ taken[u] \in Nat
        BY LedgerIsMoney
      <3>3. balance'[u][Router] \in Nat
        <4>1. Router \in Account
          BY Parties
        <4> QED BY ONLY <1>1, <4>1, u \in Token
      <3> QED BY ONLY <3>1, <3>2, <3>3
    <2> QED BY <2>1 DEF BooksAreCovered, RefundsCovered
  <1>4. \A u \in Token, z \in Addr : ~(refund'[u][z] < refund[u][z])
    BY LedgerIsMoney, SMTT(30)
  <1> QED BY <1>1, <1>2, <1>3, <1>4
      DEF SoundStep, MoneyInv, RefundRule, ConsentRule, HaltRule

\* One entry of the principal changes, with the debt of one protocol.
LEMMA PrincipalFollows ==
    ASSUME ServicesAssumption, PaymentsAssumption, MoneyInv, NEW t \in Token,
           NEW p \in Protocols, NEW owes \in Nat, NEW principal \in Nat,
           principal - yieldPrincipal[t] = owes - held[t][p],
           held' = [held EXCEPT ![t][p] = owes],
           yieldPrincipal' = [yieldPrincipal EXCEPT ![t] = principal]
    PROVE  /\ held' \in [Token -> [Protocols -> Nat]] /\ yieldPrincipal' \in [Token -> Nat]
           /\ \A u \in Token : yieldPrincipal'[u] = SumFunctionOnSet(held'[u], Protocols)
  <1>1. /\ held \in [Token -> [Protocols -> Nat]] /\ yieldPrincipal \in [Token -> Nat]
        /\ \A u \in Token : yieldPrincipal[u] = SumFunctionOnSet(held[u], Protocols)
    BY DEF MoneyInv, MoneyTypes, BooksAreCovered
  <1>2. held' \in [Token -> [Protocols -> Nat]] /\ yieldPrincipal' \in [Token -> Nat]
    BY <1>1
  <1>3. /\ yieldPrincipal'[t] = principal /\ held'[t][p] = owes
        /\ \A q \in Protocols : q # p => held'[t][q] = held[t][q]
        /\ \A u \in Token : u # t => /\ yieldPrincipal'[u] = yieldPrincipal[u]
                                     /\ held'[u] = held[u]
    BY <1>1
  <1>4. yieldPrincipal'[t] = SumFunctionOnSet(held'[t], Protocols)
    <2> DEFINE f == held[t]
               g == held'[t]
    <2>1. /\ \A q \in Protocols : f[q] \in Int /\ (q # p => g[q] = f[q])
          /\ g[p] \in Int /\ g[p] = owes
      BY <1>1, <1>3
    <2>2. IsFiniteSet(Protocols)
      BY FS_Subset DEF ServicesAssumption, PaymentsAssumption
    <2>3. /\ yieldPrincipal[t] = SumFunctionOnSet(f, Protocols) /\ yieldPrincipal[t] \in Int
          /\ principal - yieldPrincipal[t] = owes - f[p] /\ f[p] \in Int
      BY <1>1
    <2> HIDE DEF f, g
    <2>4. SumFunctionOnSet(g, Protocols) = SumFunctionOnSet(f, Protocols) - f[p] + g[p]
      BY <2>1, <2>2, SumUpdate, SMTT(30)
    <2>5. SumFunctionOnSet(g, Protocols) = principal
      BY ONLY <2>1, <2>3, <2>4, owes \in Nat, principal \in Nat
    <2> QED BY <1>3, <2>5 DEF g
  <1>5. \A u \in Token : yieldPrincipal'[u] = SumFunctionOnSet(held'[u], Protocols)
    BY <1>1, <1>3, <1>4
  <1> QED BY <1>2, <1>5

LEMMA YieldStepsAreSound ==
    ASSUME PaymentsAssumption, ServicesAssumption, MoneyInv, YieldStep(Token)
    PROVE  SoundStep /\ lastSwap' = NoSwap
  <1>1. /\ yieldProtocol # NoAddr => /\ yieldProtocol \in Protocols
                                      /\ yieldProtocol \in Addr
                                      /\ yieldProtocol \in Account
                                      /\ yieldProtocol # Treasury
        /\ Treasury \in Account
    BY Parties DEF MoneyInv, MoneyTypes, ServicesAssumption
  <1>2. ASSUME NEW p \in Protocols, set_yield_protocol(p)
        PROVE  SoundStep /\ lastSwap' = NoSwap
    <2>1. /\ UNCHANGED <<balance, refund, allowance, taken, dexes, roleVars, yieldPrincipal, held>>
          /\ yieldProtocol' = p /\ lastSwap' = NoSwap
      BY <1>2 DEF set_yield_protocol, Unserved, Swapless, ByManager, other_call
    <2>2. \A u \in Token, z \in Addr :
             ~(balance'[u][z] < balance[u][z]) /\ ~(refund'[u][z] < refund[u][z])
      BY <2>1, LedgerIsMoney, SMTT(30)
    <2>3. MoneyTypes'
      BY <2>1 DEF MoneyInv, MoneyTypes, roleVars
    <2>4. BooksAreCovered'
      BY <2>1 DEF MoneyInv, BooksAreCovered, RefundsCovered, Owed
    <2> QED BY <2>1, <2>2, <2>3, <2>4
        DEF SoundStep, MoneyInv, RefundRule, ConsentRule, HaltRule
  <1>3. ASSUME NEW t \in Token, NEW n \in YieldAmounts, deposit_to_yield(t, n)
        PROVE  SoundStep /\ lastSwap' = NoSwap
    <2> DEFINE p == yieldProtocol
    <2>1. /\ ~is_paused /\ ByManager({Treasury}) /\ p # NoAddr /\ n <= balance[t][Treasury]
          /\ balance' = transfer(balance, t, Treasury, p, n)
          /\ held' = [held EXCEPT ![t][p] = @ + n]
          /\ yieldPrincipal' = [yieldPrincipal EXCEPT ![t] = @ + n]
          /\ Unserved /\ UNCHANGED yieldProtocol
      BY <1>3 DEF deposit_to_yield, require_circuit_closed
    <2>2. /\ p \in Protocols /\ p \in Account /\ p # Treasury /\ Treasury \in Addr /\ n \in Nat
          /\ Treasury \in consent' /\ signer' = require_role("TreasuryManager")
      BY <1>1, <2>1 DEF ByManager, other_call, ServicesAssumption
    <2>3. /\ UNCHANGED <<allowance, refund, taken, roleVars, dexes, yieldProtocol>>
          /\ lastSwap' = NoSwap
      BY <2>1 DEF Unserved, Swapless, ByManager, other_call
    <2> HIDE DEF p
    <2> DEFINE owes == held[t][p] + n
               principal == yieldPrincipal[t] + n
    <2>4. /\ held[t][p] \in Nat /\ yieldPrincipal[t] \in Nat
          /\ held' = [held EXCEPT ![t][p] = owes]
          /\ yieldPrincipal' = [yieldPrincipal EXCEPT ![t] = principal]
      BY <2>1, <2>2 DEF MoneyInv, MoneyTypes
    <2>5. owes \in Nat /\ principal \in Nat /\ principal - yieldPrincipal[t] = owes - held[t][p]
      BY ONLY <2>2, <2>4
    <2> HIDE DEF owes, principal
    <2>6. /\ yieldPrincipal' \in [Token -> Nat] /\ held' \in [Token -> [Protocols -> Nat]]
          /\ \A u \in Token : yieldPrincipal'[u] = SumFunctionOnSet(held'[u], Protocols)
      BY <2>2, <2>4, <2>5, PrincipalFollows
    <2>7. SoundStep
      BY <2>1, <2>2, <2>3, <2>6, YieldIsSound
    <2> QED BY <2>3, <2>7
  <1>4. ASSUME NEW t \in Token, NEW n \in YieldAmounts, withdraw_from_yield(t, n)
        PROVE  SoundStep /\ lastSwap' = NoSwap
    <2> DEFINE p == yieldProtocol
    <2>1. /\ ~is_paused /\ ByManager({p}) /\ p # NoAddr /\ n <= balance[t][p]
          /\ n <= yieldPrincipal[t] /\ n <= held[t][p]
          /\ balance' = transfer(balance, t, p, Treasury, n)
          /\ held' = [held EXCEPT ![t][p] = @ - n]
          /\ yieldPrincipal' = [yieldPrincipal EXCEPT ![t] = remaining(@, n)]
          /\ Unserved /\ UNCHANGED yieldProtocol
      BY <1>4 DEF withdraw_from_yield, require_circuit_closed
    <2>2. /\ p \in Protocols /\ p \in Addr /\ p # Treasury /\ n \in Nat /\ Treasury \in Account
          /\ p \in consent' /\ signer' = require_role("TreasuryManager")
          /\ p \in {Treasury, yieldProtocol}
      BY <1>1, <2>1 DEF ByManager, other_call, ServicesAssumption
    <2>3. /\ UNCHANGED <<allowance, refund, taken, roleVars, dexes, yieldProtocol>>
          /\ lastSwap' = NoSwap
      BY <2>1 DEF Unserved, Swapless, ByManager, other_call
    <2> HIDE DEF p
    <2> DEFINE owes == held[t][p] - n
               principal == yieldPrincipal[t] - n
    <2>4. /\ held[t][p] \in Nat /\ yieldPrincipal[t] \in Nat
          /\ held' = [held EXCEPT ![t][p] = owes]
          /\ yieldPrincipal' = [yieldPrincipal EXCEPT ![t] = principal]
      BY <2>1, <2>2 DEF MoneyInv, MoneyTypes, remaining
    <2>5. owes \in Nat /\ principal \in Nat /\ principal - yieldPrincipal[t] = owes - held[t][p]
      <3>1. n <= held[t][p] /\ n <= yieldPrincipal[t]
        BY <2>1
      <3> QED BY ONLY <2>2, <2>4, <3>1
    <2> HIDE DEF owes, principal
    <2>6. /\ yieldPrincipal' \in [Token -> Nat] /\ held' \in [Token -> [Protocols -> Nat]]
          /\ \A u \in Token : yieldPrincipal'[u] = SumFunctionOnSet(held'[u], Protocols)
      BY <2>2, <2>4, <2>5, PrincipalFollows
    <2>7. SoundStep
      BY <2>1, <2>2, <2>3, <2>6, YieldIsSound
    <2> QED BY <2>3, <2>7
  <1>5. ASSUME NEW t \in Token, NEW n \in YieldAmounts, harvest_yield(t, n)
        PROVE  SoundStep /\ lastSwap' = NoSwap
    <2> DEFINE p == yieldProtocol
    <2>1. /\ ~is_paused /\ ByManager({p}) /\ p # NoAddr /\ n + held[t][p] <= balance[t][p]
          /\ balance' = transfer(balance, t, p, Treasury, n)
          /\ Unserved /\ UNCHANGED <<yieldProtocol, yieldPrincipal, held>>
      BY <1>5 DEF harvest_yield, require_circuit_closed
    <2>2. /\ p \in Protocols /\ p \in Addr /\ p # Treasury /\ n \in Nat /\ Treasury \in Account
          /\ p \in consent' /\ signer' = require_role("TreasuryManager")
          /\ p \in {Treasury, yieldProtocol}
      BY <1>1, <2>1 DEF ByManager, other_call, ServicesAssumption
    <2>3. /\ UNCHANGED <<allowance, refund, taken, roleVars, dexes, yieldProtocol>>
          /\ lastSwap' = NoSwap
      BY <2>1 DEF Unserved, Swapless, ByManager, other_call
    <2> HIDE DEF p
    <2>4. n <= balance[t][p]
      <3>1. balance[t][p] \in Nat
        BY <2>2, LedgerIsMoney
      <3>2. held[t][p] \in Nat
        BY <2>2 DEF MoneyInv, MoneyTypes
      <3> QED BY ONLY <2>1, <2>2, <3>1, <3>2
    <2>5. /\ yieldPrincipal' \in [Token -> Nat] /\ held' \in [Token -> [Protocols -> Nat]]
          /\ \A u \in Token : yieldPrincipal'[u] = SumFunctionOnSet(held'[u], Protocols)
      BY <2>1 DEF MoneyInv, MoneyTypes, BooksAreCovered
    <2>6. SoundStep
      BY <2>1, <2>2, <2>3, <2>4, <2>5, YieldIsSound
    <2> QED BY <2>3, <2>6
  <1> QED BY <1>2, <1>3, <1>4, <1>5 DEF YieldStep

LEMMA ArchiveStepsAreSound ==
    ASSUME PaymentsAssumption, MoneyInv, ArchiveStep
    PROVE  SoundStep /\ lastSwap' = NoSwap
  <1>1. ASSUME NEW leaves \in LeafLists, commit_archive_root(leaves)
        PROVE  SoundStep /\ lastSwap' = NoSwap
    <2>1. /\ UNCHANGED <<moneyVars, dexes, yieldProtocol, yieldPrincipal, held, roleVars>>
          /\ lastSwap' = NoSwap
      BY <1>1 DEF commit_archive_root, Swapless, ByManager, other_call
    <2>2. /\ UNCHANGED <<balance, refund>> /\ Unserviced
          /\ allowance' \in [Token -> [Addr -> Nat]] /\ dexes' \subseteq Addr
      BY <2>1 DEF moneyVars, Unserviced, MoneyInv, MoneyTypes
    <2> QED BY <2>1, <2>2, QuietIsSound
  <1>2. ASSUME NEW epoch, NEW leaves \in LeafLists, prune_archived_entries(epoch, leaves)
        PROVE  SoundStep /\ lastSwap' = NoSwap
    <2>1. /\ UNCHANGED <<balance, allowance, taken, dexes, yieldProtocol, yieldPrincipal,
                         held, roleVars>>
          /\ refund' = refund_after_prune(leaves) /\ archived' = ToSet(leaves)
          /\ ~frozen /\ archives # <<>> /\ signer' = require_role("TreasuryManager")
          /\ lastSwap' = NoSwap
      BY <1>2 DEF prune_archived_entries, is_committed, Swapless, ByManager, other_call
    <2>2. refund \in Refunds
      BY DEF MoneyInv, MoneyTypes
    <2>3. /\ refund' \in Refunds
          /\ \A u \in Token, a \in Addr :
                \/ refund'[u][a] = refund[u][a]
                \/ refund'[u][a] = 0 /\ \E l \in archived' :
                      l.record_type = "RefundBalance" /\ l.primary_key = a /\ l.secondary_key = u
      BY <2>1, <2>2 DEF refund_after_prune, Leaves, Refunds
    <2>4. ASSUME NEW u \in Token
          PROVE  Owed(u)' <= Owed(u)
      <3> DEFINE f == refund[u]
                 g == refund'[u]
      <3>1. \A a \in Addr : g[a] \in Int /\ f[a] \in Int /\ g[a] <= f[a]
        <4> TAKE a \in Addr
        <4>1. refund[u][a] \in Nat /\ refund'[u][a] \in Nat
          BY <2>2, <2>3 DEF Refunds
        <4>2. refund'[u][a] = refund[u][a] \/ refund'[u][a] = 0
          BY <2>3
        <4> QED BY <4>1, <4>2
      <3>2. IsFiniteSet(Addr)
        BY DEF PaymentsAssumption
      <3> HIDE DEF f, g
      <3>3. SumFunctionOnSet(g, Addr) <= SumFunctionOnSet(f, Addr)
        BY <3>1, <3>2, SumMonotone
      <3> QED BY <3>3 DEF f, g, Owed
    <2>5. ASSUME NEW u \in Token
          PROVE  Owed(u)' <= balance'[u][Router] + taken'[u]
      <3>1. Owed(u) <= balance[u][Router] + taken[u]
        BY DEF MoneyInv, BooksAreCovered, RefundsCovered
      <3>2. Owed(u) \in Nat /\ balance[u][Router] \in Nat /\ taken[u] \in Nat
        BY LedgerIsMoney
      <3>3. Owed(u)' \in Nat
        <4> DEFINE g == refund'[u]
        <4>1. \A a \in Addr : g[a] \in Nat
          BY <2>3 DEF Refunds
        <4>2. IsFiniteSet(Addr)
          BY DEF PaymentsAssumption
        <4> HIDE DEF g
        <4>3. SumFunctionOnSet(g, Addr) \in Nat
          BY <4>1, <4>2, SumIsNatural
        <4> QED BY <4>3 DEF g, Owed
      <3>4. balance'[u][Router] = balance[u][Router] /\ taken'[u] = taken[u]
        BY <2>1
      <3> QED BY ONLY <2>4, <3>1, <3>2, <3>3, <3>4
    <2>6. BooksAreCovered'
      BY <2>1, <2>5 DEF MoneyInv, BooksAreCovered, RefundsCovered
    <2>7. MoneyTypes'
      BY <2>1, <2>3 DEF MoneyInv, MoneyTypes, roleVars
    <2>8. \A u \in Token, z \in Addr : ~(balance'[u][z] < balance[u][z])
      BY <2>1, LedgerIsMoney
    <2>9. RefundRule
      <3> SUFFICES ASSUME NEW u \in Token, NEW a \in Addr, refund'[u][a] < refund[u][a]
                   PROVE  /\ refund'[u][a] = 0
                          /\ \E l \in archived' : l.record_type = "RefundBalance"
                                /\ l.primary_key = a /\ l.secondary_key = u
        BY <2>1 DEF RefundRule
      <3>1. refund[u][a] \in Nat
        BY LedgerIsMoney
      <3>2. refund'[u][a] # refund[u][a]
        BY <3>1
      <3> QED BY <2>3, <3>2
    <2> QED BY <2>1, <2>6, <2>7, <2>8, <2>9 DEF SoundStep, MoneyInv, ConsentRule, HaltRule
  <1> QED BY <1>1, <1>2 DEF ArchiveStep

-----------------------------------------------------------------------------
(* The specification.                                                      *)

LEMMA MoneyInitially ==
    ASSUME PaymentsAssumption, ServicesAssumption, ServicesInit
    PROVE  MoneyInv
  <1>1. IsFiniteSet(Addr) /\ IsFiniteSet(Protocols)
    BY FS_Subset DEF PaymentsAssumption, ServicesAssumption
  <1>2. MoneyTypes
    <2>1. Funds \in Nat /\ Deployer \in Addr
      BY DEF PaymentsAssumption
    <2>2. balance \in [Token -> [Account -> Nat]] /\ refund \in Refunds
      BY <2>1 DEF ServicesInit, SwapsInit, PaymentsInit, Refunds
    <2>3. /\ allowance \in [Token -> [Addr -> Nat]] /\ taken \in [Token -> Nat]
          /\ yieldPrincipal \in [Token -> Nat] /\ held \in [Token -> [Protocols -> Nat]]
          /\ dexes \subseteq Addr /\ yieldProtocol = NoAddr
      BY DEF ServicesInit, SwapsInit, PaymentsInit
    <2>4. admin \in Addr \cup {NoAddr} /\ role \in [Role -> Addr \cup {NoAddr}]
      BY <2>1 DEF ServicesInit, SwapsInit, PaymentsInit
    <2> QED BY <2>2, <2>3, <2>4 DEF MoneyTypes
  <1>3. ASSUME NEW t \in Token
        PROVE  Owed(t) <= balance[t][Router] + taken[t]
    <2> DEFINE f == refund[t]
    <2>1. \A a \in Addr : f[a] = 0
      BY DEF ServicesInit, SwapsInit, PaymentsInit
    <2> HIDE DEF f
    <2>2. SumFunctionOnSet(f, Addr) = 0
      BY <1>1, <2>1, SumOfZeros
    <2>3. balance[t][Router] = 0 /\ taken[t] = 0
      BY Parties DEF ServicesInit, SwapsInit, PaymentsInit
    <2> QED BY <2>2, <2>3 DEF f, Owed
  <1>4. ASSUME NEW t \in Token
        PROVE  yieldPrincipal[t] = SumFunctionOnSet(held[t], Protocols)
    <2> DEFINE f == held[t]
    <2>1. \A p \in Protocols : f[p] = 0
      BY DEF ServicesInit
    <2> HIDE DEF f
    <2>2. SumFunctionOnSet(f, Protocols) = 0
      BY <1>1, <2>1, SumOfZeros
    <2>3. yieldPrincipal[t] = 0
      BY DEF ServicesInit
    <2> QED BY <2>2, <2>3 DEF f
  <1> QED BY <1>2, <1>3, <1>4 DEF MoneyInv, BooksAreCovered, RefundsCovered

LEMMA MoneyStep ==
    ASSUME PaymentsAssumption, AccessAssumption, SwapsAssumption, ServicesAssumption,
           MoneyInv, ServicesNext
    PROVE  SwapKeeps
  <1>1. CASE YieldStep(Token)
    BY <1>1, YieldStepsAreSound, NoSwapPasses DEF SwapKeeps
  <1>2. CASE ArchiveStep
    BY <1>2, ArchiveStepsAreSound, NoSwapPasses DEF SwapKeeps
  <1>3. CASE SwapsNext /\ Unattended
    BY <1>3, SwapsAreSound
  <1> QED BY <1>1, <1>2, <1>3 DEF ServicesNext

LEMMA MoneyRests ==
    ASSUME MoneyInv, UNCHANGED allVars
    PROVE  MoneyInv'
  BY DEF allVars, paymentVars, swapVars, serviceVars, accessVars, roleVars, moneyVars,
         MoneyInv, MoneyTypes, BooksAreCovered, RefundsCovered, Owed

LEMMA MoneyAlways == ServicesSpec => []MoneyInv
  <1>1. ServicesInit => MoneyInv
    BY MoneyInitially, PaymentsAssumption, ServicesAssumption
  <1>2. MoneyInv /\ [ServicesNext]_allVars => MoneyInv'
    BY MoneyStep, MoneyRests, PaymentsAssumption, AccessAssumption, SwapsAssumption,
       ServicesAssumption DEF SwapKeeps, SoundStep
  <1> QED BY <1>1, <1>2, PTL DEF ServicesSpec

LEMMA StepsAreSound ==
    ASSUME MoneyInv, [ServicesNext]_allVars
    PROVE  /\ [RefundRule]_allVars /\ [ConsentRule]_allVars /\ [HaltRule]_allVars
           /\ Direct => [PassRule]_allVars
  BY MoneyStep, PaymentsAssumption, AccessAssumption, SwapsAssumption, ServicesAssumption
  DEF SwapKeeps, SoundStep

\* What the books say is somewhere, for all tokens, users, protocols, messages
\* and answers of DEXes: no payment, quote, relay, swap, yield call or pruning
\* promises a refund the account does not hold, or loses principal
\* (lib.rs:638-669, 2049, 2085).
THEOREM BooksStayCovered == ServicesSpec => []BooksAreCovered
  <1>1. MoneyInv => BooksAreCovered
    BY DEF MoneyInv
  <1> QED BY <1>1, MoneyAlways, PTL

\* A refund leaves the books only by being paid out to the user, who signed, or
\* by being pruned as archived (lib.rs:3834-3969, archival.rs).
THEOREM RefundsAreKept == ServicesSpec => RefundsLeaveByRule
  <1>1. MoneyInv /\ [ServicesNext]_allVars => [RefundRule]_allVars
    BY StepsAreSound
  <1> QED BY <1>1, MoneyAlways, PTL DEF ServicesSpec, RefundsLeaveByRule, RefundRule

\* Nobody's balance falls without a signature or an allowance used up by as
\* much, also in the middle of a batch (the require_auth calls of the routes,
\* lib.rs:2653-3713).
THEOREM DebitsNeedConsent == ServicesSpec => NoDebitWithoutConsent
  <1>1. MoneyInv /\ [ServicesNext]_allVars => [ConsentRule]_paymentVars
    BY StepsAreSound DEF allVars
  <1> QED BY <1>1, MoneyAlways, PTL DEF ServicesSpec, NoDebitWithoutConsent, ConsentRule

\* Under a full halt no address is debited by any call, and while the contract
\* is frozen only the treasury and the lending protocol are, by the
\* TreasuryManager (require_circuit_closed and the freeze, lib.rs:2653-3713).
THEOREM HaltsHold == ServicesSpec => HaltStopsMoney
  <1>1. MoneyInv /\ [ServicesNext]_allVars => [HaltRule]_allVars
    BY StepsAreSound
  <1> QED BY <1>1, MoneyAlways, PTL DEF ServicesSpec, HaltStopsMoney, HaltRule

\* A swap leaves the router with exactly the surplus it had, for any number of
\* splits, hops and swaps in a batch and whatever the DEXes deliver and report.
\* The router must not be its own treasury or the recipient of a swap: what it
\* pays itself stays with it (lib.rs:3236-3274, 3578-3622, swaps.rs:89-168).
THEOREM SwapsLeaveNothing ==
    ASSUME Direct
    PROVE  ServicesSpec => SwapsPassThrough
  <1>1. MoneyInv /\ [ServicesNext]_allVars => [PassRule]_<<paymentVars, swapVars>>
    BY StepsAreSound DEF allVars
  <1> QED BY <1>1, MoneyAlways, PTL DEF ServicesSpec, SwapsPassThrough, PassRule
=============================================================================
