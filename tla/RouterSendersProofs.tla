------------------------- MODULE RouterSendersProofs -------------------------
(***************************************************************************)
(* What the senders of the payment router can count on and what they are   *)
(* held to, for all payments, batches and swaps, whatever the DEXes do.    *)
(*                                                                         *)
(* First the terms of a swap.  Between the pull of the input and the       *)
(* delivery of the output nobody but a DEX pays, so the sender gives the   *)
(* input at most; what is delivered is shared by the recipient, the        *)
(* treasury and the refund; and no less is delivered than the floors of    *)
(* the legs, which splits add up and of which hops pass on the last.       *)
(*                                                                         *)
(* Then the windows and slots of the senders: a call changes them as the   *)
(* action of RouterLimits does that it stands for, so the router refines   *)
(* RouterLimits (RouterImplementsLimits).                                  *)
(***************************************************************************)
EXTENDS RouterServicesProofs

-----------------------------------------------------------------------------
(* The terms of a swap.                                                    *)

\* No DEX of a swap is one of those it serves: what a DEX pays out of its own
\* account is nobody's gain if it is the sender, the recipient or the treasury.
AtArmsLength ==
    /\ \A s \in SwapArgs \cup HopArgs : s.dex \notin {s.sender, s.recipient, Treasury}
    /\ \A s \in SplitArgs : \A i \in DOMAIN s.splits :
          s.splits[i].dex \notin {s.sender, s.recipient, Treasury}

\* The step the property about the terms allows.
TermsRule ==
    LET s == lastSwap'.arg
    IN CASE lastSwap'.kind \in {"single", "split"} ->
              Bargain(s, s.sell, s.buy, lastSwap'.min_out)
         [] lastSwap'.kind = "multihop" ->
              Bargain(s, s.path[1], s.path[Len(s.path)], lastSwap'.min_out)
         [] OTHER -> TRUE

\* From `b` to `c` the sender of `s` gave at most its input and nothing it had
\* of `buy`; with it, the recipient and the treasury share `n` of that.
TermsKept(b, c, s, sell, buy, n) ==
    /\ IsMoney(c)
    /\ b.balance[sell][s.sender] - c.balance[sell][s.sender] <= s.amount
    /\ c.balance[buy][s.sender] >= b.balance[buy][s.sender]
    /\ (c.balance[buy][s.recipient] - b.balance[buy][s.recipient])
         + (c.balance[buy][Treasury] - b.balance[buy][Treasury])
         + (c.refund[buy][s.sender] - b.refund[buy][s.sender]) >= n

\* What is delivered reaches the recipient, the treasury or the refunds.
LEMMA Shares ==
    ASSUME PaymentsAssumption, NEW b, IsMoney(b), NEW v, NEW s, s.sender \in Addr,
           s.recipient \in Account, s.delivered \in BOOLEAN, NEW t \in Token, NEW n \in Nat,
           Treasury # Router, s.recipient # Router
    PROVE  LET c == deliver(b, v, s, t, n)
           IN (c.balance[t][s.recipient] - b.balance[t][s.recipient])
                + (c.balance[t][Treasury] - b.balance[t][Treasury])
                + (c.refund[t][s.sender] - b.refund[t][s.sender]) >= n
  <1> DEFINE c == deliver(b, v, s, t, n)
             fee == calculate_fee(n, v)
             y == s.recipient
             a == s.sender
             z == IF s.delivered THEN y ELSE Router
             credit == IF s.delivered THEN 0 ELSE n - fee
  <1>1. fee \in 0..n /\ Paid(b, c, t, Router, n, z, fee) /\ Credited(b, c, t, a, credit)
    BY DeliveredInParts
  <1>2. /\ a \in Addr /\ y \in Account /\ y # Router /\ Treasury \in Account
        /\ credit = (IF s.delivered THEN 0 ELSE n - fee)
        /\ z = (IF s.delivered THEN y ELSE Router)
    BY Parties
  <1> HIDE DEF c, fee, y, a, z, credit
  <1>3. \A u \in {y, Treasury} :
           /\ c.balance[t][u] = b.balance[t][u] - Part(t, u, t, Router, n)
                                  + Part(t, u, t, Treasury, fee) + Part(t, u, t, z, n - fee)
           /\ b.balance[t][u] \in Int
    BY <1>1, <1>2, BalancesAreIntegers DEF Paid
  <1>4. c.refund[t][a] = b.refund[t][a] + credit /\ b.refund[t][a] \in Nat
    <2>1. b.refund \in Refunds /\ b.refund[t][a] \in Nat
      BY <1>2, BalancesAreIntegers DEF IsMoney
    <2>2. CASE credit = 0
      BY <1>1, <2>1, <2>2 DEF Credited
    <2>3. CASE credit # 0
      BY <1>1, <1>2, <2>1, <2>3 DEF Credited, Refunds
    <2> QED BY <2>1, <2>2, <2>3
  <1>5. (c.balance[t][y] - b.balance[t][y]) + (c.balance[t][Treasury] - b.balance[t][Treasury])
          + (c.refund[t][a] - b.refund[t][a]) >= n
    <2>1. fee \in Nat /\ fee <= n /\ n \in Nat
      BY <1>1
    <2>2. CASE s.delivered
      BY ONLY <1>2, <1>3, <1>4, <2>1, <2>2, Treasury # Router DEF Part
    <2>3. CASE ~s.delivered
      BY ONLY <1>2, <1>3, <1>4, <2>1, <2>3, Treasury # Router DEF Part
    <2> QED BY <2>2, <2>3
  <1> QED BY <1>5 DEF c, y, a

\* A swap that pulls its input, trades with others and delivers keeps the terms.
LEMMA TermsAreKept ==
    ASSUME PaymentsAssumption, NEW b, IsMoney(b), NEW d, IsMoney(d),
           d.balance = b.balance, d.refund = b.refund,
           NEW s, s.sender \in Addr, s.recipient \in Account, s.delivered \in BOOLEAN,
           s.amount \in Nat, NEW sell \in Token, NEW buy \in Token, sell # buy,
           NEW D, NEW m, Legs(pull(d, s.sender, sell, s.amount), m, D), m.ok,
           NEW v, NEW n \in Nat, Treasury # Router, s.recipient # Router,
           s.sender \notin D, s.recipient \notin D, Treasury \notin D
    PROVE  TermsKept(b, deliver(m, v, s, buy, n), s, sell, buy, n)
  <1> DEFINE x == s.sender
             y == s.recipient
             k == s.amount
             p == pull(d, x, sell, k)
             c == deliver(m, v, s, buy, n)
  <1>1. /\ x \in Addr /\ y \in Addr /\ Treasury \in Addr /\ Router \in Account /\ k \in Nat
        /\ x \in Account /\ x # Router /\ y # Router /\ y \in Account /\ Treasury \in Account
        /\ x \notin D /\ y \notin D /\ Treasury \notin D
    BY Parties DEF Account
  <1>2. IsMoney(m) /\ m.refund = p.refund
    BY DEF Legs
  <1>3. p.balance = transfer(d.balance, sell, x, Router, k) /\ p.refund = d.refund
    BY DEF IsMoney, pull
  <1>4. /\ PartedWith(m, c, buy, Router, n)
        /\ (c.balance[buy][y] - m.balance[buy][y])
             + (c.balance[buy][Treasury] - m.balance[buy][Treasury])
             + (c.refund[buy][x] - m.refund[buy][x]) >= n
    BY <1>2, Deliveries, Shares
  <1>5. \A u \in Token, a \in {x, y, Treasury} : m.balance[u][a] >= p.balance[u][a]
    BY <1>1 DEF Legs
  <1> HIDE DEF x, y, k, p, c
  <1>6. Moved(d, p, sell, x, Router, k)
    BY <1>1, <1>3, MovedBalances
  <1>7. \A u \in Token, a \in {x, y, Treasury} :
           p.balance[u][a] = b.balance[u][a] - Part(u, a, sell, x, k)
    <2> TAKE u \in Token, a \in {x, y, Treasury}
    <2>1. a \in Account /\ a # Router /\ b.balance[u][a] \in Int
      BY <1>1, BalancesAreIntegers
    <2>2. p.balance[u][a] = b.balance[u][a] - Part(u, a, sell, x, k) + Part(u, a, sell, Router, k)
      BY <1>6, <2>1 DEF Moved
    <2> QED BY ONLY <1>1, <2>1, <2>2 DEF Part
  <1>8. IsMoney(c)
    BY <1>4 DEF PartedWith
  <1>9. \A u \in Token : c.balance[u][x] >= m.balance[u][x]
    <2> TAKE u \in Token
    <2>1. c.balance[u][x] >= m.balance[u][x] - Part(u, x, buy, Router, n)
      BY <1>1, <1>4 DEF PartedWith
    <2>2. Part(u, x, buy, Router, n) = 0
      BY <1>1 DEF Part
    <2>3. m.balance[u][x] \in Int /\ c.balance[u][x] \in Int
      BY <1>1, <1>2, <1>8, BalancesAreIntegers
    <2> QED BY ONLY <2>1, <2>2, <2>3
  <1>10. /\ \A u \in Token, a \in {x, y, Treasury} :
              /\ b.balance[u][a] \in Int /\ m.balance[u][a] \in Int
              /\ c.balance[u][a] \in Int /\ p.balance[u][a] \in Int
         /\ b.refund[buy][x] \in Int /\ c.refund[buy][x] \in Int
         /\ m.refund[buy][x] = b.refund[buy][x]
    <2>1. p.balance \in Balances
      BY <1>6 DEF Moved
    <2>2. \A u \in Token, a \in Account : p.balance[u][a] \in Int
      BY <2>1 DEF Balances
    <2> QED BY <1>1, <1>2, <1>3, <1>8, <2>2, BalancesAreIntegers
  <1>11. b.balance[sell][x] - c.balance[sell][x] <= k
    <2>1. /\ c.balance[sell][x] >= m.balance[sell][x] /\ m.balance[sell][x] >= p.balance[sell][x]
          /\ p.balance[sell][x] = b.balance[sell][x] - Part(sell, x, sell, x, k)
      BY <1>5, <1>7, <1>9
    <2> QED BY ONLY <1>1, <1>10, <2>1, sell \in Token DEF Part
  <1>12. \A a \in {x, y, Treasury} : m.balance[buy][a] >= b.balance[buy][a]
    <2> TAKE a \in {x, y, Treasury}
    <2>1. /\ m.balance[buy][a] >= p.balance[buy][a]
          /\ p.balance[buy][a] = b.balance[buy][a] - Part(buy, a, sell, x, k)
      BY <1>5, <1>7
    <2>2. Part(buy, a, sell, x, k) = 0
      BY DEF Part
    <2> QED BY ONLY <1>10, <2>1, <2>2, buy \in Token
  <1>13. c.balance[buy][x] >= b.balance[buy][x]
    BY ONLY <1>9, <1>10, <1>12, buy \in Token
  <1>14. (c.balance[buy][y] - b.balance[buy][y])
           + (c.balance[buy][Treasury] - b.balance[buy][Treasury])
           + (c.refund[buy][x] - b.refund[buy][x]) >= n
    BY ONLY <1>4, <1>10, <1>12, buy \in Token, n \in Nat
  <1> QED BY <1>8, <1>11, <1>13, <1>14 DEF TermsKept, x, y, k, c

\* And so the bargain of the step it is committed with.
LEMMA TermsAreMet ==
    ASSUME PaymentsAssumption, MoneyInv, NEW c, NEW s, s.sender \in Addr,
           s.recipient \in Account, s.amount \in Nat, NEW sell \in Token, NEW buy \in Token,
           NEW n \in Int, NEW low \in Int, n >= low, TermsKept(Ledger, c, s, sell, buy, n),
           balance' = c.balance, refund' = c.refund
    PROVE  Bargain(s, sell, buy, low)
  <1> DEFINE x == s.sender
             y == s.recipient
             b == Ledger
  <1>1. IsMoney(b) /\ b.balance = balance /\ b.refund = refund
    BY LedgerIsMoney
  <1>2. /\ IsMoney(c)
        /\ balance[sell][x] - c.balance[sell][x] <= s.amount
        /\ c.balance[buy][x] >= balance[buy][x]
        /\ (c.balance[buy][y] - balance[buy][y])
             + (c.balance[buy][Treasury] - balance[buy][Treasury])
             + (c.refund[buy][x] - refund[buy][x]) >= n
    BY <1>1 DEF TermsKept
  <1> HIDE DEF b
  <1>3. x \in Account /\ Treasury \in Account
    BY Parties
  <1>4. /\ balance[buy][y] \in Int /\ c.balance[buy][y] \in Int
        /\ balance[buy][Treasury] \in Int /\ c.balance[buy][Treasury] \in Int
        /\ refund[buy][x] \in Int /\ c.refund[buy][x] \in Int
    <2>1. /\ balance[buy][y] \in Int /\ balance[buy][Treasury] \in Int
          /\ refund[buy][x] \in Int
      BY <1>3, LedgerIsMoney
    <2>2. /\ c.balance[buy][y] \in Int /\ c.balance[buy][Treasury] \in Int
          /\ c.refund[buy][x] \in Int
      BY <1>2, <1>3, BalancesAreIntegers
    <2> QED BY <2>1, <2>2
  <1> DEFINE share == (c.balance[buy][y] - balance[buy][y])
                        + (c.balance[buy][Treasury] - balance[buy][Treasury])
                        + (c.refund[buy][x] - refund[buy][x])
  <1>5. share \in Int
    BY ONLY <1>4
  <1>6. share >= n
    BY <1>2
  <1> HIDE DEF share
  <1>7. share >= low
    BY <1>5, <1>6
  <1> QED BY <1>2, <1>7 DEF Bargain, share

\* Between the splits: nobody but the DEXes has paid, and what they delivered is
\* at least `low` if all of them kept to their floors.
Upheld(b, h, D, low) ==
    /\ IsMoney(h.ledger) /\ Legs(b, h.ledger, D)
    /\ h.allocated \in Int /\ h.total \in Nat
    /\ h.ledger.ok => h.total >= low

LEMMA SplitUpholds ==
    ASSUME PaymentsAssumption, NEW b, IsMoney(b), NEW D, NEW h, NEW low \in Int,
           Upheld(b, h, D, low), NEW e, e.dex \in Addr, e.dex \in D, e.sell \in Token,
           e.buy \in Token, e.amount \in Nat, e.weight \in Nat, e.out \in Nat, e.min_out \in Nat
    PROVE  Upheld(b, split(h, e), D, low + e.min_out)
  <1> DEFINE g == split(h, e)
             share == split_share(h, e)
  <1>1. /\ IsMoney(h.ledger) /\ Legs(b, h.ledger, D) /\ h.allocated \in Int /\ h.total \in Nat
        /\ h.ledger.ok => h.total >= low
    BY DEF Upheld
  <1> HIDE DEF g, share
  <1>2. SplitTo(h, g, e, share, D)
    BY <1>1, OneSplit DEF g, share
  <1>3. /\ share \in Int /\ g.allocated = h.allocated + share /\ g.total = h.total + e.out
        /\ IsMoney(g.ledger) /\ Legs(h.ledger, g.ledger, D)
        /\ g.ledger.ok => e.out >= e.min_out /\ h.ledger.ok
    BY <1>2 DEF SplitTo, Legs
  <1>4. Legs(b, g.ledger, D)
    BY <1>1, <1>3, LegsFollow
  <1>5. g.allocated \in Int /\ g.total \in Nat
    <2>1. /\ h.allocated \in Int /\ h.total \in Nat /\ share \in Int
          /\ g.allocated = h.allocated + share /\ g.total = h.total + e.out
      BY <1>1, <1>3
    <2> QED BY ONLY <2>1, e.out \in Nat
  <1>6. ASSUME g.ledger.ok PROVE g.total >= low + e.min_out
    <2>1. h.total >= low /\ e.out >= e.min_out /\ g.total = h.total + e.out /\ h.total \in Int
      BY <1>1, <1>3, <1>6
    <2> QED BY ONLY <2>1, low \in Int, e.out \in Nat, e.min_out \in Nat
  <1> QED BY <1>3, <1>4, <1>5, <1>6 DEF Upheld, g

LEMMA SplitsUphold ==
    ASSUME PaymentsAssumption, NEW b, IsMoney(b), NEW s \in SplitPayment, NEW as, NEW D,
           s.splits # <<>>,
           \A i \in DOMAIN s.splits : as[i].out \in Nat /\ s.splits[i].dex \in D
    PROVE  Upheld(b, FoldLeft(split, [ledger |-> b, allocated |-> 0, total |-> 0],
                              SplitLegs(s, as)),
                  D, SumFunctionOnSet([i \in DOMAIN s.splits |-> s.splits[i].min_out],
                                      DOMAIN s.splits))
  <1> DEFINE len == Len(s.splits)
             es == SplitLegs(s, as)
             start == [ledger |-> b, allocated |-> 0, total |-> 0]
             end == FoldLeft(split, start, es)
             mins == [i \in DOMAIN s.splits |-> s.splits[i].min_out]
             low(k) == SumFunctionOnSet(mins, 1..k)
  <1>1. /\ len \in Nat /\ DOMAIN es = 1..len /\ DOMAIN s.splits = 1..len
        /\ \A i \in 1..len :
              /\ es[i].dex \in Addr /\ es[i].dex \in D /\ es[i].sell = s.sell
              /\ es[i].buy = s.buy /\ es[i].amount = s.amount /\ es[i].weight \in Nat
              /\ es[i].out \in Nat /\ es[i].min_out = s.splits[i].min_out
              /\ es[i].min_out \in Nat
    <2> HIDE DEF len, es
    <2>1. Itemised(s, es, len, D)
      BY SplitLegFields DEF len, es
    <2> QED BY <2>1 DEF Itemised
  <1>2. s.sell \in Token /\ s.buy \in Token /\ s.amount \in Nat
    BY DEF SplitPayment
  <1> HIDE DEF len, es
  <1>3. \A i \in 1..len : mins[i] = es[i].min_out /\ mins[i] \in Int
    BY <1>1
  <1> HIDE DEF mins, start, end
  <1>4. /\ low(0) = 0
        /\ \A k \in Nat : k <= len => low(k) \in Int
        /\ \A k \in Nat : k + 1 <= len => low(k + 1) = low(k) + es[k + 1].min_out
    <2>1. \A k \in Nat : IsFiniteSet(1..k)
      BY FS_Interval
    <2>2. 1..0 = {}
      OBVIOUS
    <2>3. ASSUME NEW k \in Nat, k <= len PROVE low(k) \in Int
      <3>1. \A i \in 1..k : mins[i] \in Int
        BY <1>1, <1>3, <2>3
      <3> QED BY <2>1, <3>1, SumIsInteger
    <2>4. ASSUME NEW k \in Nat, k + 1 <= len PROVE low(k + 1) = low(k) + es[k + 1].min_out
      <3>1. /\ 1..(k + 1) = (1..k) \cup {k + 1} /\ k + 1 \notin 1..k /\ k + 1 \in 1..len
            /\ \A i \in (1..k) \cup {k + 1} : i \in 1..len
        BY <1>1, <2>4
      <3>2. SumFunctionOnSet(mins, (1..k) \cup {k + 1}) = mins[k + 1] + low(k)
        BY <1>3, <2>1, <3>1, SumAdd
      <3>3. low(k) \in Int
        BY <1>1, <2>3, <2>4
      <3>4. low(k + 1) = mins[k + 1] + low(k)
        BY <3>1, <3>2
      <3>5. mins[k + 1] = es[k + 1].min_out /\ mins[k + 1] \in Int
        BY <1>3, <3>1
      <3> HIDE DEF low
      <3> QED BY ONLY <3>3, <3>4, <3>5
    <2> QED BY <2>2, <2>3, <2>4, SumEmpty
  <1> HIDE DEF low
  <1>5. PICK t : SplitLoop!IsTrace(t, start, es, len) /\ SplitLoop!Looped(start, es) = t[len]
    <2>1. len \in Nat /\ DOMAIN es = 1..len
      BY <1>1
    <2> QED BY ONLY <2>1, SplitLoop!LoopHasTrace
  <1> DEFINE V == {k \in Nat : k <= len => Upheld(b, t[k], D, low(k))}
  <1>6. 0 \in V
    <2>1. Legs(b, b, D) /\ b.ok => 0 >= 0
      BY LegsOfBooks
    <2>2. Upheld(b, start, D, 0)
      BY <2>1, LegsOfBooks DEF Upheld, start
    <2> QED BY <1>4, <1>5, <2>2 DEF SplitLoop!IsTrace
  <1>7. ASSUME NEW k \in Nat, k \in V PROVE k + 1 \in V
    <2> SUFFICES ASSUME k + 1 <= len PROVE Upheld(b, t[k + 1], D, low(k + 1))
      OBVIOUS
    <2> DEFINE h == t[k]
               e == es[k + 1]
    <2>1. k + 1 \in 1..len /\ (k + 1) - 1 = k /\ Upheld(b, h, D, low(k)) /\ low(k) \in Int
      BY <1>1, <1>4, <1>7
    <2>2. t[k + 1] = split(h, e)
      BY <1>5, <2>1 DEF SplitLoop!IsTrace
    <2>3. /\ e.dex \in Addr /\ e.dex \in D /\ e.sell \in Token /\ e.buy \in Token
          /\ e.amount \in Nat /\ e.weight \in Nat /\ e.out \in Nat /\ e.min_out \in Nat
      BY <1>1, <1>2, <2>1
    <2>4. low(k + 1) = low(k) + e.min_out
      BY <1>4
    <2> HIDE DEF h, e
    <2>5. Upheld(b, split(h, e), D, low(k) + e.min_out)
      BY <2>1, <2>3, SplitUpholds
    <2> QED BY <2>2, <2>4, <2>5
  <1>8. len \in V
    <2> HIDE DEF V
    <2> QED BY <1>1, <1>6, <1>7, NatSetInduction
  <1>9. Upheld(b, end, D, low(len))
    BY <1>1, <1>5, <1>8, SplitsAreLoop DEF end
  <1> QED BY <1>1, <1>9 DEF end, start, es, low, mins

\* Between the hops: the same, with the floor of the last of them.
Carried(b, h, D, low) ==
    /\ IsMoney(h.ledger) /\ Legs(b, h.ledger, D)
    /\ h.amount \in Nat
    /\ h.ledger.ok => h.amount >= low

LEMMA HopCarries ==
    ASSUME PaymentsAssumption, NEW b, IsMoney(b), NEW D, NEW h, NEW low, Carried(b, h, D, low),
           NEW e, e.from \in Token, e.to \in Token, e.dex \in Addr, e.dex \in D,
           e.sender \in Addr, e.answer.out \in Nat, e.answer.unused \in Nat,
           e.answer.told_unused \in Nat
    PROVE  Carried(b, hop(h, e), D, e.floor)
  <1> DEFINE g == hop(h, e)
  <1>1. IsMoney(h.ledger) /\ Legs(b, h.ledger, D) /\ h.amount \in Nat
    BY DEF Carried
  <1> HIDE DEF g
  <1>2. HopTo(h, g, e, D)
    BY <1>1, OneHop DEF g
  <1>3. /\ g.amount = e.answer.out /\ IsMoney(g.ledger) /\ Legs(h.ledger, g.ledger, D)
        /\ g.ledger.ok => e.answer.out >= e.floor
    BY <1>2 DEF HopTo
  <1>4. Legs(b, g.ledger, D)
    BY <1>1, <1>3, LegsFollow
  <1> QED BY <1>3, <1>4 DEF Carried, g

LEMMA HopsCarry ==
    ASSUME PaymentsAssumption, NEW b, IsMoney(b), NEW s \in HopPayment, NEW as,
           hops_admissible(s), s.dex \in Addr,
           \A i \in DOMAIN s.floors :
              /\ as[i].out \in Nat /\ as[i].unused \in Nat /\ as[i].told_unused \in Nat
    PROVE  Carried(b, FoldLeft(hop, [ledger |-> b, amount |-> s.amount], HopLegs(s, as)),
                   {s.dex}, s.floors[Len(s.floors)])
  <1> DEFINE path == s.path
             len == Len(s.floors)
             es == HopLegs(s, as)
             start == [ledger |-> b, amount |-> s.amount]
             end == FoldLeft(hop, start, es)
             D == {s.dex}
             low(k) == IF k = 0 THEN 0 ELSE s.floors[k]
  <1>1. s.sender \in Addr /\ s.amount \in Nat
    BY DEF HopPayment
  <1>2. /\ path \in Seq(Token) /\ Len(path) \in 3..5 /\ len = Len(path) - 1 /\ len \in Nat
        /\ DOMAIN s.floors = 1..len
    BY DEF HopPayment, hops_admissible
  <1>3. \A i \in 1..(len + 1) : path[i] \in Token
    <2> HIDE DEF path, len
    <2> QED BY <1>2
  <1>4. /\ DOMAIN es = 1..len
        /\ \A i \in 1..len :
              /\ es[i].from = path[i] /\ es[i].to = path[i + 1] /\ es[i].dex = s.dex
              /\ es[i].sender = s.sender /\ es[i].answer = as[i] /\ es[i].floor = s.floors[i]
    BY <1>2 DEF HopLegs
  <1>5. \A i \in 1..len :
           as[i].out \in Nat /\ as[i].unused \in Nat /\ as[i].told_unused \in Nat
    BY <1>2
  <1> HIDE DEF path, len, es, start, end
  <1>6. PICK t : HopLoop!IsTrace(t, start, es, len) /\ HopLoop!Looped(start, es) = t[len]
    <2>1. len \in Nat /\ DOMAIN es = 1..len
      BY <1>2, <1>4
    <2> QED BY ONLY <2>1, HopLoop!LoopHasTrace
  <1> DEFINE V == {k \in Nat : k <= len => Carried(b, t[k], D, low(k))}
  <1>7. 0 \in V
    <2>1. Legs(b, b, D)
      BY LegsOfBooks
    <2>2. Carried(b, start, D, 0)
      BY <1>1, <2>1 DEF Carried, start
    <2> QED BY <1>6, <2>2 DEF HopLoop!IsTrace
  <1>8. ASSUME NEW k \in Nat, k \in V PROVE k + 1 \in V
    <2> SUFFICES ASSUME k + 1 <= len PROVE Carried(b, t[k + 1], D, low(k + 1))
      OBVIOUS
    <2> DEFINE h == t[k]
               e == es[k + 1]
    <2>1. /\ k + 1 \in 1..len /\ (k + 1) - 1 = k /\ Carried(b, h, D, low(k))
          /\ k + 1 \in 1..(len + 1) /\ (k + 1) + 1 \in 1..(len + 1) /\ k + 1 # 0
      BY <1>2, <1>8
    <2>2. t[k + 1] = hop(h, e)
      BY <1>6, <2>1 DEF HopLoop!IsTrace
    <2>3. /\ e.from = path[k + 1] /\ e.to = path[(k + 1) + 1] /\ e.dex = s.dex
          /\ e.sender = s.sender /\ e.answer = as[k + 1] /\ e.floor = s.floors[k + 1]
      BY <1>4, <2>1
    <2>4. /\ e.from \in Token /\ e.to \in Token /\ e.dex \in Addr /\ e.dex \in D
          /\ e.sender \in Addr
          /\ e.answer.out \in Nat /\ e.answer.unused \in Nat /\ e.answer.told_unused \in Nat
      BY <1>1, <1>3, <1>5, <2>1, <2>3
    <2>5. low(k + 1) = e.floor
      BY <2>1, <2>3
    <2> HIDE DEF h, e, low, D
    <2>6. Carried(b, hop(h, e), D, e.floor)
      BY <2>1, <2>4, HopCarries
    <2> QED BY <2>2, <2>5, <2>6
  <1>9. len \in V
    <2> HIDE DEF V
    <2> QED BY <1>2, <1>7, <1>8, NatSetInduction
  <1>10. low(len) = s.floors[len]
    <2> DEFINE l == Len(path)
    <2>1. l \in 3..5 /\ len = l - 1
      BY <1>2
    <2> HIDE DEF l
    <2>2. len # 0
      BY ONLY <2>1
    <2> QED BY ONLY <2>2
  <1> HIDE DEF low
  <1>11. Carried(b, end, D, low(len))
    BY <1>2, <1>6, <1>9, HopsAreLoop DEF end
  <1> QED BY <1>10, <1>11 DEF end, start, es, len

\* The floors of the splits add up to an integer.
LEMMA LowIsInteger ==
    ASSUME NEW s \in SplitPayment, NEW as, NEW D, s.splits # <<>>,
           \A i \in DOMAIN s.splits : as[i].out \in Nat /\ s.splits[i].dex \in D
    PROVE  SumFunctionOnSet([i \in DOMAIN s.splits |-> s.splits[i].min_out],
                            DOMAIN s.splits) \in Int
  <1> DEFINE len == Len(s.splits)
             mins == [i \in DOMAIN s.splits |-> s.splits[i].min_out]
  <1>1. len \in Nat /\ DOMAIN s.splits = 1..len /\ \A i \in 1..len : s.splits[i].min_out \in Nat
    BY SplitLegFields DEF Itemised
  <1>2. \A i \in 1..len : mins[i] \in Int
    BY <1>1
  <1> HIDE DEF len, mins
  <1>3. IsFiniteSet(1..len)
    BY <1>1, FS_Interval
  <1>4. SumFunctionOnSet(mins, 1..len) \in Int
    BY <1>2, <1>3, SumIsInteger
  <1> QED BY <1>1, <1>4 DEF mins

LEMMA SingleKeepsTerms ==
    ASSUME PaymentsAssumption, SwapsAssumption, MoneyInv, Direct, AtArmsLength,
           NEW s \in SwapArgs, NEW ans \in Answers, route_payment_with_swap(s, ans)
    PROVE  TermsRule
  <1> DEFINE b == Ledger
             v == volume_of(b, s.sender)
             d == Limits!accrue_user_record(b, s.sender, s.amount)
             p == pull(d, s.sender, s.sell, s.amount)
             m == trade(p, s.dex, s.sell, s.buy, s.amount, ans.out, 0)
             g == deliver(m, v, s, s.buy, ans.out)
             c == process_single_swap_payment(b, s, ans)
             D == {s.dex}
  <1>1. /\ CommitLedger(c)
        /\ lastSwap' = [kind |-> "single", arg |-> s, min_out |-> s.min_out]
    BY Zenon DEF route_payment_with_swap
  <1>2. balance' = c.balance /\ refund' = c.refund /\ c.ok
    BY <1>1 DEF CommitLedger, Limits!Commit
  <1>3. /\ s.sender \in Addr /\ s.recipient \in Account /\ s.dex \in Addr /\ s.dex \in D
        /\ s.sell \in Token /\ s.buy \in Token /\ s.amount \in Nat /\ s.delivered \in BOOLEAN
        /\ s.min_out \in Nat /\ s.amount \in Int
    BY DEF SwapsAssumption, SwapPayment
  <1>4. ans.out \in Nat /\ 0 \in Nat
    BY AnswersAreTyped
  <1>5. IsMoney(b)
    BY LedgerIsMoney
  <1>6. c = [g EXCEPT !.ok = @ /\ swap_admissible(s) /\ output_accepted(s, ans)]
    BY DEF process_single_swap_payment
  <1>7. IsMoney(d) /\ d.balance = b.balance /\ d.refund = b.refund
    BY <1>5, BooksAside
  <1> HIDE DEF b, v, d, p, m, g, c
  <1>8. Legs(d, p, {s.sender})
    BY <1>3, <1>7, Pulls DEF p
  <1>9. IsMoney(p)
    BY <1>8 DEF Legs
  <1>10. Legs(p, m, D)
    BY <1>3, <1>4, <1>9, Trades DEF m
  <1>11. IsMoney(m)
    BY <1>10 DEF Legs
  <1>12. IsMoney(g) /\ g.ok = m.ok
    <2> DEFINE t == s.buy
               n == ans.out
    <2>1. t \in Token /\ n \in Nat /\ g = deliver(m, v, s, t, n)
      BY <1>3, <1>4 DEF g
    <2> HIDE DEF t, n
    <2>2. PartedWith(m, g, t, Router, n) /\ g.ok = m.ok
      BY ONLY <1>3, <1>11, <2>1, PaymentsAssumption, Deliveries
    <2> QED BY <2>2 DEF PartedWith
  <1>13. /\ IsMoney(c) /\ c.balance = g.balance /\ c.refund = g.refund
         /\ g.ok /\ swap_admissible(s) /\ output_accepted(s, ans)
    BY <1>2, <1>6, <1>12 DEF IsMoney
  <1>14. m.ok /\ s.sell # s.buy /\ ans.out >= s.min_out
    BY <1>12, <1>13 DEF swap_admissible, output_accepted
  <1>15. /\ Treasury # Router /\ s.recipient # Router
         /\ s.sender \notin D /\ s.recipient \notin D /\ Treasury \notin D
    BY DEF Direct, AtArmsLength
  <1>16. TermsKept(b, g, s, s.sell, s.buy, ans.out)
    <2>1. Legs(pull(d, s.sender, s.sell, s.amount), m, D)
      BY <1>10 DEF p
    <2> HIDE DEF D
    <2> QED BY <1>3, <1>4, <1>5, <1>7, <1>14, <1>15, <2>1, TermsAreKept DEF g
  <1>17. TermsKept(b, c, s, s.sell, s.buy, ans.out)
    BY <1>13, <1>16 DEF TermsKept
  <1>18. Bargain(s, s.sell, s.buy, s.min_out)
    <2>1. ans.out \in Int /\ s.min_out \in Int
      BY <1>3, <1>4
    <2> QED BY <1>2, <1>3, <1>14, <1>17, <2>1, TermsAreMet DEF b
  <1> QED BY <1>1, <1>18 DEF TermsRule

LEMMA SplitKeepsTerms ==
    ASSUME PaymentsAssumption, SwapsAssumption, MoneyInv, Direct, AtArmsLength,
           NEW s \in SplitArgs, NEW as \in Answered(Len(s.splits)),
           route_split_payment_with_swap(s, as)
    PROVE  TermsRule
  <1> DEFINE b == Ledger
             v == volume_of(b, s.sender)
             d == Limits!accrue_user_record(b, s.sender, s.amount)
             p == pull(d, s.sender, s.sell, s.amount)
             end == FoldLeft(split, [ledger |-> p, allocated |-> 0, total |-> 0],
                             SplitLegs(s, as))
             c == process_split_payment_with_swap(b, s, as)
             D == {s.splits[i].dex : i \in DOMAIN s.splits}
             low == SumFunctionOnSet([i \in DOMAIN s.splits |-> s.splits[i].min_out],
                                     DOMAIN s.splits)
  <1>1. /\ CommitLedger(c) /\ split_admissible(s)
        /\ lastSwap' = [kind |-> "split", arg |-> s, min_out |-> low]
    BY Zenon DEF route_split_payment_with_swap
  <1>2. balance' = c.balance /\ refund' = c.refund /\ c.ok
    BY <1>1 DEF CommitLedger, Limits!Commit
  <1>3. /\ s.sender \in Addr /\ s.recipient \in Account /\ s.sell \in Token /\ s.buy \in Token
        /\ s.amount \in Nat /\ s.delivered \in BOOLEAN
        /\ s \in SplitPayment /\ s.splits # <<>> /\ s.sell # s.buy
    BY <1>1 DEF SwapsAssumption, SplitPayment, split_admissible
  <1>4. \A i \in DOMAIN s.splits : as[i].out \in Nat /\ s.splits[i].dex \in D
    <2> TAKE i \in DOMAIN s.splits
    <2>1. s.splits \in Seq([dex : Addr, weight : Nat, min_out : Nat])
      BY <1>3 DEF SplitPayment
    <2>2. i \in 1..Len(s.splits)
      BY <2>1, SMTT(30)
    <2>3. as[i] \in Answers
      BY <2>2 DEF Answered
    <2> QED BY <2>3, AnswersAreTyped
  <1>5. IsMoney(b)
    BY LedgerIsMoney
  <1>6. c = deliver(end.ledger, v, s, s.buy, end.total)
    BY DEF process_split_payment_with_swap
  <1>7. IsMoney(d) /\ d.balance = b.balance /\ d.refund = b.refund
    BY <1>5, BooksAside
  <1>8. low \in Int
    BY <1>3, <1>4, LowIsInteger
  <1>9. /\ Treasury # Router /\ s.recipient # Router
        /\ s.sender \notin D /\ s.recipient \notin D /\ Treasury \notin D
    BY DEF Direct, AtArmsLength
  <1> HIDE DEF b, v, d, p, end, c, D, low
  <1>10. Legs(d, p, {s.sender})
    BY <1>3, <1>7, Pulls DEF p
  <1>11. IsMoney(p)
    BY <1>10 DEF Legs
  <1>12. Upheld(p, end, D, low)
    BY <1>3, <1>4, <1>11, SplitsUphold DEF end, low
  <1>13. IsMoney(end.ledger) /\ Legs(p, end.ledger, D) /\ end.total \in Nat
    BY <1>12 DEF Upheld
  <1>14. c.ok = end.ledger.ok
    BY <1>3, <1>6, <1>13, Deliveries
  <1>15. end.ledger.ok /\ end.total >= low
    BY <1>2, <1>12, <1>14 DEF Upheld
  <1>16. TermsKept(b, c, s, s.sell, s.buy, end.total)
    <2>1. Legs(pull(d, s.sender, s.sell, s.amount), end.ledger, D)
      BY <1>13 DEF p
    <2> QED BY <1>3, <1>5, <1>6, <1>7, <1>9, <1>13, <1>15, <2>1, TermsAreKept
  <1>17. Bargain(s, s.sell, s.buy, low)
    <2>1. end.total \in Int
      BY <1>13
    <2> QED BY <1>2, <1>3, <1>8, <1>15, <1>16, <2>1, TermsAreMet DEF b
  <1> QED BY <1>1, <1>17 DEF TermsRule

LEMMA HopsKeepTerms ==
    ASSUME PaymentsAssumption, SwapsAssumption, MoneyInv, Direct, AtArmsLength,
           NEW s \in HopArgs, NEW as \in Answered(Len(s.floors)), route_multihop_swap(s, as)
    PROVE  TermsRule
  <1> DEFINE b == Ledger
             v == volume_of(b, s.sender)
             slotted == Limits!check_rate_limit(b, s.sender)
             d == Limits!charge_and_accrue(b, s.sender, s.amount)
             sell == s.path[1]
             buy == s.path[Len(s.path)]
             p == pull(d, s.sender, sell, s.amount)
             end == FoldLeft(hop, [ledger |-> p, amount |-> s.amount], HopLegs(s, as))
             c == deliver(end.ledger, v, s, buy, end.amount)
             D == {s.dex}
             low == s.floors[Len(s.floors)]
  <1>1. /\ CommitLedger(c) /\ hops_admissible(s)
        /\ lastSwap' = [kind |-> "multihop", arg |-> s, min_out |-> low]
    BY Zenon DEF route_multihop_swap
  <1>2. balance' = c.balance /\ refund' = c.refund /\ c.ok
    BY <1>1 DEF CommitLedger, Limits!Commit
  <1>3. /\ s.sender \in Addr /\ s.recipient \in Account /\ s.amount \in Nat
        /\ s.delivered \in BOOLEAN /\ s \in HopPayment
    BY DEF SwapsAssumption, HopPayment
  <1>4. s.dex \in Addr
    BY <1>1 DEF hops_admissible, MoneyInv, MoneyTypes
  <1>5. /\ sell \in Token /\ buy \in Token /\ sell # buy
        /\ s.floors \in Seq(Nat) /\ Len(s.floors) \in 1..Len(s.floors) /\ low \in Int
    <2> DEFINE path == s.path
               floors == s.floors
    <2>1. /\ path \in Seq(Token) /\ Len(path) \in 3..5 /\ Len(floors) = Len(path) - 1
          /\ floors \in Seq(Nat)
      BY <1>1, <1>3 DEF hops_admissible, HopPayment
    <2>2. \A i, j \in DOMAIN path : path[i] = path[j] => i = j
      BY <1>1 DEF hops_admissible, IsInjective
    <2> HIDE DEF path, floors
    <2>3. /\ 1 \in DOMAIN path /\ Len(path) \in DOMAIN path /\ 1 # Len(path)
          /\ path[1] \in Token /\ path[Len(path)] \in Token
      BY <2>1
    <2>4. Len(floors) \in 1..Len(floors) /\ floors[Len(floors)] \in Nat
      BY <2>1
    <2>5. path[1] # path[Len(path)]
      BY <2>2, <2>3
    <2>6. sell \in Token /\ buy \in Token /\ sell # buy
      BY ONLY <2>3, <2>5, Zenon DEF path
    <2>7. floors[Len(floors)] \in Int
      BY <2>4
    <2>8. s.floors \in Seq(Nat) /\ Len(s.floors) \in 1..Len(s.floors) /\ low \in Int
      BY ONLY <2>1, <2>4, <2>7, Zenon DEF floors
    <2> QED BY <2>6, <2>8
  <1>6. \A i \in DOMAIN s.floors :
           as[i].out \in Nat /\ as[i].unused \in Nat /\ as[i].told_unused \in Nat
    <2> TAKE i \in DOMAIN s.floors
    <2>1. s.floors \in Seq(Nat)
      BY <1>5
    <2>2. i \in 1..Len(s.floors)
      BY <2>1
    <2>3. as[i] \in Answers
      BY <2>2 DEF Answered
    <2> QED BY <2>3, AnswersAreTyped
  <1>7. IsMoney(b)
    BY LedgerIsMoney
  <1>8. IsMoney(d) /\ d.balance = b.balance /\ d.refund = b.refund
    <2>1. d = Limits!accrue_user_record(slotted, s.sender, s.amount)
      BY DEF Limits!charge_and_accrue
    <2>2. IsMoney(slotted) /\ slotted.balance = b.balance /\ slotted.refund = b.refund
      BY <1>7, BooksAside
    <2> HIDE DEF slotted, d
    <2> QED BY <2>1, <2>2, BooksAside
  <1>9. /\ Treasury # Router /\ s.recipient # Router
        /\ s.sender \notin D /\ s.recipient \notin D /\ Treasury \notin D
    BY DEF Direct, AtArmsLength
  <1> HIDE DEF b, v, d, sell, buy, p, end, c, low
  <1>10. Legs(d, p, {s.sender})
    BY <1>3, <1>5, <1>8, Pulls DEF p
  <1>11. IsMoney(p)
    BY <1>10 DEF Legs
  <1>12. Carried(p, end, D, low)
    BY <1>1, <1>3, <1>4, <1>6, <1>11, HopsCarry DEF end, low
  <1> HIDE DEF D
  <1>13. IsMoney(end.ledger) /\ Legs(p, end.ledger, D) /\ end.amount \in Nat
    BY <1>12 DEF Carried
  <1>14. c.ok = end.ledger.ok
    <2>1. buy \in Token /\ c = deliver(end.ledger, v, s, buy, end.amount)
      BY <1>5 DEF c
    <2> QED BY <1>3, <1>13, <2>1, Deliveries
  <1>15. end.ledger.ok /\ end.amount >= low
    BY <1>2, <1>12, <1>14 DEF Carried
  <1>16. TermsKept(b, c, s, sell, buy, end.amount)
    <2>1. Legs(pull(d, s.sender, sell, s.amount), end.ledger, D)
      BY <1>13 DEF p
    <2> QED BY <1>3, <1>5, <1>7, <1>8, <1>9, <1>13, <1>15, <2>1, TermsAreKept DEF c
  <1>17. Bargain(s, sell, buy, low)
    <2>1. end.amount \in Int
      BY <1>13
    <2> QED BY <1>2, <1>3, <1>5, <1>15, <1>16, <2>1, TermsAreMet DEF b
  <1> QED BY <1>1, <1>17 DEF TermsRule, sell, buy

\* Where no such swap runs, there are no terms.
LEMMA NoTerms ==
    ASSUME lastSwap'.kind \notin {"single", "split", "multihop"}
    PROVE  TermsRule
  BY DEF TermsRule

LEMMA StepsKeepTerms ==
    ASSUME PaymentsAssumption, SwapsAssumption, ServicesAssumption, MoneyInv, Direct,
           AtArmsLength, ServicesNext
    PROVE  TermsRule
  <1>1. CASE SwapStep
    <2>1. CASE \E s \in SwapArgs, ans \in Answers : route_payment_with_swap(s, ans)
      BY <2>1, SingleKeepsTerms
    <2>2. CASE \E ss \in SwapBatches : \E as \in Answered(Len(ss)) :
                  route_payments_with_swap(ss, as)
      BY <2>2, NoTerms DEF route_payments_with_swap
    <2>3. CASE \E s \in SplitArgs : \E as \in Answered(Len(s.splits)) :
                  route_split_payment_with_swap(s, as)
      BY <2>3, SplitKeepsTerms
    <2>4. CASE \E s \in HopArgs : \E as \in Answered(Len(s.floors)) : route_multihop_swap(s, as)
      BY <2>4, HopsKeepTerms
    <2>5. CASE \E s \in RawArgs, ans \in Answers : route_payment_with_swap_raw(s, ans)
      BY <2>5, NoTerms DEF route_payment_with_swap_raw
    <2> QED BY <1>1, <2>1, <2>2, <2>3, <2>4, <2>5 DEF SwapStep
  <1>2. CASE RegistryStep \/ Swapless
    BY <1>2, NoTerms DEF RegistryStep, Swapless, NoSwap
  <1>3. CASE YieldStep(Token) \/ ArchiveStep
    <2>1. lastSwap' = NoSwap
      BY <1>3, YieldStepsAreSound, ArchiveStepsAreSound
    <2> QED BY <2>1, NoTerms DEF NoSwap
  <1> QED BY <1>1, <1>2, <1>3 DEF ServicesNext, SwapsNext

\* A swap through the single, split and multi-hop routes keeps the sender's
\* terms, for any number of splits and hops and whatever the DEXes deliver and
\* report: at most the input leaves the sender, and what arrives is at least what
\* the floors add up to.  The router must not be treasury or recipient, nor a DEX
\* one of the parties it serves (lib.rs:3164-3171, 3597-3622, swaps.rs:118-150).
THEOREM SwapTermsAreKept ==
    ASSUME Direct, AtArmsLength
    PROVE  ServicesSpec => SwapsKeepTheirTerms
  <1>1. MoneyInv /\ [ServicesNext]_allVars => [TermsRule]_<<paymentVars, swapVars>>
    BY StepsKeepTerms, PaymentsAssumption, SwapsAssumption, ServicesAssumption DEF allVars
  <1> QED BY <1>1, MoneyAlways, PTL DEF ServicesSpec, SwapsKeepTheirTerms, TermsRule

-----------------------------------------------------------------------------
(* The windows and slots of the senders.                                   *)

\* A state of a call, as far as the senders' books go, and those books.
HasBooks(b) ==
    /\ {"ok", "record", "legacy", "rate", "spentAt", "lifetime", "charged"} \subseteq DOMAIN b
    /\ b.ok \in BOOLEAN

BooksOf(b) == [ok |-> TRUE, record |-> b.record, legacy |-> b.legacy, rate |-> b.rate,
               spentAt |-> b.spentAt, lifetime |-> b.lifetime, charged |-> b.charged]

\* From `b` to `c` the books became `d`, if nothing was refused.
Leads(b, c, d) == HasBooks(c) /\ (c.ok => b.ok /\ BooksOf(c) = d)

\* Nothing of it was theirs.
Spares(b, c) == Leads(b, c, BooksOf(b))

LEMMA SparedFields ==
    ASSUME NEW b, NEW c, HasBooks(b), DOMAIN c = DOMAIN b, c.ok \in BOOLEAN, c.ok => b.ok,
           c.record = b.record, c.legacy = b.legacy, c.rate = b.rate,
           c.spentAt = b.spentAt, c.lifetime = b.lifetime, c.charged = b.charged
    PROVE  Spares(b, c)
  BY DEF Spares, Leads, HasBooks, BooksOf

LEMMA LeadsOn ==
    ASSUME NEW b, NEW c, NEW e, NEW d, Leads(b, c, d), Spares(c, e)
    PROVE  Leads(b, e, d)
  BY DEF Leads, Spares

\* What a window takes, and a slot.
LEMMA Accrued ==
    ASSUME NEW b, NEW a, NEW n, HasBooks(b)
    PROVE  Leads(b, Limits!accrue_user_record(b, a, n),
                 Limits!accrue_user_record(BooksOf(b), a, n))
  <1> DEFINE d == BooksOf(b)
             r == Limits!roll_window(Limits!load_user_record(b, a))
             q == [r EXCEPT !.spent = @ + n, !.volume = @ + n]
             c == Limits!accrue_user_record(b, a, n)
             e == Limits!accrue_user_record(d, a, n)
  <1>0. /\ d.ok = TRUE /\ d.record = b.record /\ d.legacy = b.legacy /\ d.rate = b.rate
        /\ d.spentAt = b.spentAt /\ d.lifetime = b.lifetime /\ d.charged = b.charged
    BY DEF BooksOf
  <1>1. r = Limits!roll_window(Limits!load_user_record(d, a))
    BY <1>0 DEF Limits!load_user_record
  <1> HIDE DEF r
  <1>2. CASE r.spent + n > DailyMax
    <2>1. c = [b EXCEPT !.ok = FALSE]
      BY <1>2 DEF Limits!accrue_user_record, r
    <2>2. HasBooks(c) /\ c.ok = FALSE
      BY <2>1 DEF HasBooks
    <2> QED BY <2>2 DEF Leads
  <1>3. CASE ~(r.spent + n > DailyMax)
    <2> DEFINE legacy_ == [b.legacy EXCEPT ![a] = IF b.record[a] = NoRecord THEN NoRecord ELSE @]
               spentAt_ == [b.spentAt EXCEPT ![a][now] = @ + n]
    <2>1. c = [b EXCEPT !.record[a] = q,
                        !.legacy[a] = IF b.record[a] = NoRecord THEN NoRecord ELSE @,
                        !.spentAt[a][now] = @ + n,
                        !.lifetime[a] = @ + n]
      BY <1>3 DEF Limits!accrue_user_record, r
    <2>2. e = [d EXCEPT !.record[a] = q,
                        !.legacy[a] = IF d.record[a] = NoRecord THEN NoRecord ELSE @,
                        !.spentAt[a][now] = @ + n,
                        !.lifetime[a] = @ + n]
      BY <1>1, <1>3 DEF Limits!accrue_user_record
    <2> HIDE DEF c, e, q
    <2>3. /\ HasBooks(c) /\ c.ok = b.ok
          /\ c.record = [b.record EXCEPT ![a] = q] /\ c.legacy = legacy_ /\ c.rate = b.rate
          /\ c.spentAt = spentAt_
          /\ c.lifetime = [b.lifetime EXCEPT ![a] = @ + n] /\ c.charged = b.charged
      BY <2>1 DEF HasBooks
    <2>4. e = [ok |-> TRUE, record |-> [b.record EXCEPT ![a] = q], legacy |-> legacy_,
               rate |-> b.rate, spentAt |-> spentAt_,
               lifetime |-> [b.lifetime EXCEPT ![a] = @ + n], charged |-> b.charged]
      BY <2>2 DEF BooksOf
    <2>5. BooksOf(c) = e
      BY <2>3, <2>4 DEF BooksOf
    <2> QED BY <2>3, <2>5 DEF Leads, c, e
  <1> QED BY <1>2, <1>3

LEMMA Slotted ==
    ASSUME NEW b, NEW a, HasBooks(b)
    PROVE  Leads(b, Limits!check_rate_limit(b, a), Limits!check_rate_limit(BooksOf(b), a))
  <1> DEFINE d == BooksOf(b)
             used == Limits!rate_limit_used(b, a)
             slot == [window |-> now, count |-> used + 1]
             c == Limits!check_rate_limit(b, a)
             e == Limits!check_rate_limit(d, a)
  <1>0. /\ d.ok = TRUE /\ d.record = b.record /\ d.legacy = b.legacy /\ d.rate = b.rate
        /\ d.spentAt = b.spentAt /\ d.lifetime = b.lifetime /\ d.charged = b.charged
        /\ used = Limits!rate_limit_used(d, a)
    BY DEF BooksOf, Limits!rate_limit_used
  <1> HIDE DEF used
  <1>1. CASE Limits!is_unlimited(a)
    <2>1. c = b /\ e = d
      BY <1>1 DEF Limits!check_rate_limit
    <2> QED BY <2>1 DEF Leads
  <1>2. CASE ~Limits!is_unlimited(a) /\ used >= rateLimit
    <2>1. c = [b EXCEPT !.ok = FALSE]
      BY <1>2 DEF Limits!check_rate_limit, used
    <2>2. HasBooks(c) /\ c.ok = FALSE
      BY <2>1 DEF HasBooks
    <2> QED BY <2>2 DEF Leads
  <1>3. CASE ~Limits!is_unlimited(a) /\ ~(used >= rateLimit)
    <2>1. c = [b EXCEPT !.rate[a] = slot, !.charged[a] = @ + 1]
      BY <1>3 DEF Limits!check_rate_limit, used
    <2>2. e = [d EXCEPT !.rate[a] = slot, !.charged[a] = @ + 1]
      BY <1>0, <1>3 DEF Limits!check_rate_limit
    <2> HIDE DEF c, e, slot
    <2>3. /\ HasBooks(c) /\ c.ok = b.ok /\ c.record = b.record /\ c.legacy = b.legacy
          /\ c.rate = [b.rate EXCEPT ![a] = slot] /\ c.spentAt = b.spentAt
          /\ c.lifetime = b.lifetime /\ c.charged = [b.charged EXCEPT ![a] = @ + 1]
      BY <2>1 DEF HasBooks
    <2>4. e = [ok |-> TRUE, record |-> b.record, legacy |-> b.legacy,
               rate |-> [b.rate EXCEPT ![a] = slot], spentAt |-> b.spentAt,
               lifetime |-> b.lifetime, charged |-> [b.charged EXCEPT ![a] = @ + 1]]
      BY <2>2 DEF BooksOf
    <2>5. BooksOf(c) = e
      BY <2>3, <2>4 DEF BooksOf
    <2> QED BY <2>3, <2>5 DEF Leads, c, e
  <1> QED BY <1>1, <1>2, <1>3

LEMMA Charged ==
    ASSUME NEW b, NEW a, NEW n, HasBooks(b)
    PROVE  Leads(b, Limits!charge_and_accrue(b, a, n),
                 Limits!charge_and_accrue(BooksOf(b), a, n))
  <1> DEFINE s == Limits!check_rate_limit(b, a)
             c == Limits!accrue_user_record(s, a, n)
  <1>1. Leads(b, s, Limits!check_rate_limit(BooksOf(b), a))
    BY Slotted
  <1> HIDE DEF s
  <1>2. Leads(s, c, Limits!accrue_user_record(BooksOf(s), a, n))
    BY <1>1, Accrued DEF Leads
  <1> HIDE DEF c
  <1> QED BY <1>1, <1>2 DEF Leads, Limits!charge_and_accrue, s, c

-----------------------------------------------------------------------------
(* What a call does for one payment: its sender is charged, the rest of it *)
(* leaves the books alone.                                                 *)

LEMMA PulledApart ==
    ASSUME NEW b, HasBooks(b), NEW a, NEW t, NEW n
    PROVE  Spares(b, pull(b, a, t, n))
  <1> DEFINE c == pull(b, a, t, n)
  <1>1. /\ DOMAIN c = DOMAIN b /\ c.ok \in BOOLEAN /\ (c.ok => b.ok)
        /\ c.record = b.record /\ c.legacy = b.legacy /\ c.rate = b.rate
        /\ c.spentAt = b.spentAt /\ c.lifetime = b.lifetime /\ c.charged = b.charged
    BY DEF pull, HasBooks
  <1> HIDE DEF c
  <1> QED BY <1>1, SparedFields DEF c

LEMMA TradedApart ==
    ASSUME NEW b, HasBooks(b), NEW dex, NEW sell, NEW buy, NEW n, NEW out, NEW unused
    PROVE  Spares(b, trade(b, dex, sell, buy, n, out, unused))
  <1> DEFINE c == trade(b, dex, sell, buy, n, out, unused)
  <1>1. /\ DOMAIN c = DOMAIN b /\ c.ok \in BOOLEAN /\ (c.ok => b.ok)
        /\ c.record = b.record /\ c.legacy = b.legacy /\ c.rate = b.rate
        /\ c.spentAt = b.spentAt /\ c.lifetime = b.lifetime /\ c.charged = b.charged
    BY DEF trade, HasBooks
  <1> HIDE DEF c
  <1> QED BY <1>1, SparedFields DEF c

LEMMA DeliveredApart ==
    ASSUME NEW b, HasBooks(b), NEW v, NEW s, NEW t, NEW n
    PROVE  Spares(b, deliver(b, v, s, t, n))
  <1> DEFINE c == deliver(b, v, s, t, n)
  <1>1. /\ DOMAIN c = DOMAIN b /\ c.ok = b.ok
        /\ c.record = b.record /\ c.legacy = b.legacy /\ c.rate = b.rate
        /\ c.spentAt = b.spentAt /\ c.lifetime = b.lifetime /\ c.charged = b.charged
    BY DEF deliver, HasBooks
  <1>2. b.ok \in BOOLEAN
    BY DEF HasBooks
  <1> HIDE DEF c
  <1> QED BY <1>1, <1>2, SparedFields DEF c

LEMMA PaymentCounts ==
    ASSUME NEW b, HasBooks(b), NEW p
    PROVE  Leads(b, process_single_payment(b, p),
                 Limits!accrue_user_record(BooksOf(b), p.sender, p.amount))
  <1> DEFINE c == Limits!accrue_user_record(b, p.sender, p.amount)
             e == process_single_payment(b, p)
  <1>1. Leads(b, c, Limits!accrue_user_record(BooksOf(b), p.sender, p.amount))
    BY Accrued
  <1>2. /\ DOMAIN e = DOMAIN c /\ e.ok \in BOOLEAN /\ (e.ok => c.ok)
        /\ e.record = c.record /\ e.legacy = c.legacy /\ e.rate = c.rate
        /\ e.spentAt = c.spentAt /\ e.lifetime = c.lifetime /\ e.charged = c.charged
    <2>1. HasBooks(c)
      BY <1>1 DEF Leads
    <2> HIDE DEF c
    <2>2. CASE b.balance[p.token][p.sender] < p.amount
      <3>1. e = [c EXCEPT !.ok = FALSE]
        BY <2>2 DEF process_single_payment, c
      <3> QED BY <2>1, <3>1 DEF HasBooks
    <2>3. CASE ~(b.balance[p.token][p.sender] < p.amount)
      <3>1. \E bal, ref : e = [c EXCEPT !.balance = bal, !.refund = ref]
        <4>1. PICK bal, fee, rest : e = [c EXCEPT !.balance = bal,
                   !.refund = IF p.delivered \/ rest = 0 THEN @
                              ELSE credit_refund_balance(@, p, rest)]
          BY <2>3 DEF process_single_payment, c
        <4> QED BY <4>1
      <3>2. PICK bal, ref : e = [c EXCEPT !.balance = bal, !.refund = ref]
        BY <3>1
      <3> HIDE DEF e
      <3> QED BY <2>1, <3>2 DEF HasBooks
    <2> QED BY <2>2, <2>3
  <1>3. HasBooks(c)
    BY <1>1 DEF Leads
  <1> HIDE DEF c, e
  <1>4. Spares(c, e)
    BY <1>2, <1>3, SparedFields
  <1> QED BY <1>1, <1>4, LeadsOn DEF e

LEMMA SettleCharges ==
    ASSUME NEW b, HasBooks(b), NEW p
    PROVE  Leads(b, settle(b, p), Limits!charge_and_accrue(BooksOf(b), p.sender, p.amount))
  <1> DEFINE s == Limits!check_rate_limit(b, p.sender)
             c == process_single_payment(s, p)
  <1>1. Leads(b, s, Limits!check_rate_limit(BooksOf(b), p.sender))
    BY Slotted
  <1> HIDE DEF s
  <1>2. Leads(s, c, Limits!accrue_user_record(BooksOf(s), p.sender, p.amount))
    BY <1>1, PaymentCounts DEF Leads
  <1> HIDE DEF c
  <1> QED BY <1>1, <1>2 DEF Leads, Limits!charge_and_accrue, s, c, settle

LEMMA SwapCounts ==
    ASSUME NEW b, HasBooks(b), NEW s, NEW ans
    PROVE  Leads(b, process_single_swap_payment(b, s, ans),
                 Limits!accrue_user_record(BooksOf(b), s.sender, s.amount))
  <1> DEFINE c == Limits!accrue_user_record(b, s.sender, s.amount)
             p == pull(c, s.sender, s.sell, s.amount)
             t == trade(p, s.dex, s.sell, s.buy, s.amount, ans.out, 0)
             d == deliver(t, volume_of(b, s.sender), s, s.buy, ans.out)
             e == process_single_swap_payment(b, s, ans)
             w == Limits!accrue_user_record(BooksOf(b), s.sender, s.amount)
  <1>1. Leads(b, c, w)
    BY Accrued
  <1> HIDE DEF c
  <1>2. Spares(c, p)
    BY <1>1, PulledApart DEF Leads
  <1> HIDE DEF p
  <1>3. Spares(p, t)
    BY <1>2, TradedApart DEF Leads, Spares
  <1> HIDE DEF t
  <1>4. Spares(t, d)
    BY <1>3, DeliveredApart DEF Leads, Spares
  <1>5. e = [d EXCEPT !.ok = @ /\ swap_admissible(s) /\ output_accepted(s, ans)]
    BY DEF process_single_swap_payment, d, t, p, c
  <1> HIDE DEF d, e, w
  <1>6. Spares(d, e)
    <2>1. HasBooks(d)
      BY <1>4 DEF Leads, Spares
    <2>2. /\ DOMAIN e = DOMAIN d /\ e.ok \in BOOLEAN /\ (e.ok => d.ok)
          /\ e.record = d.record /\ e.legacy = d.legacy /\ e.rate = d.rate
          /\ e.spentAt = d.spentAt /\ e.lifetime = d.lifetime /\ e.charged = d.charged
      BY <1>5, <2>1 DEF HasBooks
    <2> QED BY <2>1, <2>2, SparedFields
  <1>7. Leads(b, t, w)
    BY <1>1, <1>2, <1>3, LeadsOn
  <1>8. Leads(b, d, w)
    BY <1>4, <1>7, LeadsOn
  <1> QED BY <1>6, <1>8, LeadsOn DEF e, w

-----------------------------------------------------------------------------
(* Batches: the rounds of the call and those of RouterLimits go together.  *)

EntriesOf(ps) == [i \in DOMAIN ps |-> <<ps[i].sender, ps[i].amount>>]

Charges == INSTANCE FoldTheorems WITH Op <- Limits!charge_entry
Accruals == INSTANCE FoldTheorems WITH Op <- Limits!accrue_entry

LEMMA ChargesAreLoop ==
    ASSUME NEW b, NEW es
    PROVE  Limits!FoldLeft(Limits!charge_entry, b, es) = Charges!Looped(b, es)
  BY DEF Limits!FoldLeft, Limits!MapThenFoldSet, Charges!Looped, Charges!IsLoopTable,
         Charges!LoopEntry, Limits!charge_entry, Limits!Max, Charges!Highest

LEMMA AccrualsAreLoop ==
    ASSUME NEW b, NEW es
    PROVE  Limits!FoldLeft(Limits!accrue_entry, b, es) = Accruals!Looped(b, es)
  BY DEF Limits!FoldLeft, Limits!MapThenFoldSet, Accruals!Looped, Accruals!IsLoopTable,
         Accruals!LoopEntry, Limits!accrue_entry, Limits!Max, Accruals!Highest

\* One round of each.
Together(b, c, d, e) ==
    HasBooks(c) /\ (c.ok => b.ok /\ (BooksOf(b) = d => BooksOf(c) = e))

LEMMA RoundsTogether ==
    ASSUME NEW t, NEW u, NEW n \in Nat, HasBooks(t[0]), u[0] = BooksOf(t[0]),
           \A i \in 1..n : HasBooks(t[i - 1]) => Together(t[i - 1], t[i], u[i - 1], u[i])
    PROVE  Leads(t[0], t[n], u[n])
  <1> DEFINE V == {k \in Nat : k <= n => Leads(t[0], t[k], u[k])}
  <1>1. 0 \in V
    BY DEF Leads
  <1>2. ASSUME NEW k \in Nat, k \in V PROVE k + 1 \in V
    <2> SUFFICES ASSUME k + 1 <= n PROVE Leads(t[0], t[k + 1], u[k + 1])
      OBVIOUS
    <2>1. k + 1 \in 1..n /\ (k + 1) - 1 = k /\ Leads(t[0], t[k], u[k])
      BY <1>2
    <2>2. Together(t[k], t[k + 1], u[k], u[k + 1])
      BY <2>1 DEF Leads
    <2> QED BY <2>1, <2>2 DEF Leads, Together
  <1> HIDE DEF V
  <1>3. n \in V
    BY <1>1, <1>2, NatSetInduction
  <1> QED BY <1>3 DEF V

LEMMA BatchCharges ==
    ASSUME NEW b, HasBooks(b), NEW ps, NEW n \in Nat, DOMAIN ps = 1..n
    PROVE  Leads(b, FoldLeft(settle, b, ps),
                 Limits!FoldLeft(Limits!charge_entry, BooksOf(b), EntriesOf(ps)))
  <1> DEFINE es == EntriesOf(ps)
  <1>1. DOMAIN es = 1..n /\ \A i \in 1..n : es[i][1] = ps[i].sender /\ es[i][2] = ps[i].amount
    BY DEF EntriesOf
  <1> HIDE DEF es
  <1>2. PICK t : SettleLoop!IsTrace(t, b, ps, n) /\ SettleLoop!Looped(b, ps) = t[n]
    BY SettleLoop!LoopHasTrace
  <1>3. PICK u : Charges!IsTrace(u, BooksOf(b), es, n) /\ Charges!Looped(BooksOf(b), es) = u[n]
    BY <1>1, Charges!LoopHasTrace
  <1>4. t[0] = b /\ u[0] = BooksOf(b)
    BY <1>2, <1>3 DEF SettleLoop!IsTrace, Charges!IsTrace
  <1>5. ASSUME NEW i \in 1..n, HasBooks(t[i - 1])
        PROVE  Together(t[i - 1], t[i], u[i - 1], u[i])
    <2>1. t[i] = settle(t[i - 1], ps[i])
      BY <1>2 DEF SettleLoop!IsTrace
    <2>2. u[i] = Limits!charge_and_accrue(u[i - 1], ps[i].sender, ps[i].amount)
      BY <1>1, <1>3 DEF Charges!IsTrace, Limits!charge_entry
    <2>3. Leads(t[i - 1], settle(t[i - 1], ps[i]),
                Limits!charge_and_accrue(BooksOf(t[i - 1]), ps[i].sender, ps[i].amount))
      BY <1>5, SettleCharges
    <2> QED BY <2>1, <2>2, <2>3 DEF Leads, Together
  <1>6. Leads(t[0], t[n], u[n])
    BY <1>4, <1>5, RoundsTogether
  <1> QED BY <1>2, <1>3, <1>4, <1>6, SettlesAreLoop, ChargesAreLoop DEF es

LEMMA SwapBatchCounts ==
    ASSUME NEW b, HasBooks(b), NEW ss, NEW as, NEW n \in Nat, DOMAIN ss = 1..n
    PROVE  Leads(b, FoldLeft(swap_of_batch, b,
                             [i \in DOMAIN ss |-> [swap |-> ss[i], answer |-> as[i]]]),
                 Limits!FoldLeft(Limits!accrue_entry, BooksOf(b), EntriesOf(ss)))
  <1> DEFINE es == EntriesOf(ss)
             ms == [i \in DOMAIN ss |-> [swap |-> ss[i], answer |-> as[i]]]
  <1>1. /\ DOMAIN es = 1..n /\ DOMAIN ms = 1..n
        /\ \A i \in 1..n : /\ es[i][1] = ss[i].sender /\ es[i][2] = ss[i].amount
                           /\ ms[i].swap = ss[i] /\ ms[i].answer = as[i]
    BY DEF EntriesOf
  <1> HIDE DEF es, ms
  <1>2. PICK t : SwapLoop!IsTrace(t, b, ms, n) /\ SwapLoop!Looped(b, ms) = t[n]
    BY <1>1, SwapLoop!LoopHasTrace
  <1>3. PICK u : Accruals!IsTrace(u, BooksOf(b), es, n) /\ Accruals!Looped(BooksOf(b), es) = u[n]
    BY <1>1, Accruals!LoopHasTrace
  <1>4. t[0] = b /\ u[0] = BooksOf(b)
    BY <1>2, <1>3 DEF SwapLoop!IsTrace, Accruals!IsTrace
  <1>5. ASSUME NEW i \in 1..n, HasBooks(t[i - 1])
        PROVE  Together(t[i - 1], t[i], u[i - 1], u[i])
    <2>1. t[i] = process_single_swap_payment(t[i - 1], ss[i], as[i])
      BY <1>1, <1>2 DEF SwapLoop!IsTrace, swap_of_batch
    <2>2. u[i] = Limits!accrue_user_record(u[i - 1], ss[i].sender, ss[i].amount)
      BY <1>1, <1>3 DEF Accruals!IsTrace, Limits!accrue_entry
    <2>3. Leads(t[i - 1], process_single_swap_payment(t[i - 1], ss[i], as[i]),
                Limits!accrue_user_record(BooksOf(t[i - 1]), ss[i].sender, ss[i].amount))
      BY <1>5, SwapCounts
    <2> QED BY <2>1, <2>2, <2>3 DEF Leads, Together
  <1>6. Leads(t[0], t[n], u[n])
    BY <1>4, <1>5, RoundsTogether
  <1> QED BY <1>2, <1>3, <1>4, <1>6, SwapsAreLoop, AccrualsAreLoop DEF es, ms

\* The loops over splits and hops leave the books alone.
LEMMA SplitsApart ==
    ASSUME NEW h, HasBooks(h.ledger), NEW es, NEW n \in Nat, DOMAIN es = 1..n
    PROVE  Spares(h.ledger, FoldLeft(split, h, es).ledger)
  <1>1. PICK t : SplitLoop!IsTrace(t, h, es, n) /\ SplitLoop!Looped(h, es) = t[n]
    BY SplitLoop!LoopHasTrace
  <1> DEFINE V == {k \in Nat : k <= n => Spares(h.ledger, t[k].ledger)}
  <1>2. 0 \in V
    BY <1>1 DEF SplitLoop!IsTrace, Spares, Leads
  <1>3. ASSUME NEW k \in Nat, k \in V PROVE k + 1 \in V
    <2> SUFFICES ASSUME k + 1 <= n PROVE Spares(h.ledger, t[k + 1].ledger)
      OBVIOUS
    <2> DEFINE g == t[k]
               e == es[k + 1]
               m == trade(g.ledger, e.dex, e.sell, e.buy, split_share(g, e), e.out, 0)
               c == t[k + 1].ledger
    <2>1. k + 1 \in 1..n /\ (k + 1) - 1 = k /\ Spares(h.ledger, g.ledger)
      BY <1>3
    <2>2. t[k + 1] = split(g, e)
      BY <1>1, <2>1 DEF SplitLoop!IsTrace
    <2>3. c = [m EXCEPT !.ok = @ /\ split_share(g, e) > 0 /\ e.out >= e.min_out]
      BY <2>2 DEF split
    <2> HIDE DEF g, e
    <2>4. Spares(g.ledger, m)
      BY <2>1, TradedApart DEF Spares, Leads
    <2> HIDE DEF m, c
    <2>5. HasBooks(m)
      BY <2>4 DEF Spares, Leads
    <2>6. /\ DOMAIN c = DOMAIN m /\ c.ok \in BOOLEAN /\ (c.ok => m.ok)
          /\ c.record = m.record /\ c.legacy = m.legacy /\ c.rate = m.rate
          /\ c.spentAt = m.spentAt /\ c.lifetime = m.lifetime /\ c.charged = m.charged
      BY <2>3, <2>5 DEF HasBooks
    <2>7. Spares(m, c)
      BY <2>5, <2>6, SparedFields
    <2>8. Spares(h.ledger, m)
      BY <2>1, <2>4, LeadsOn DEF Spares
    <2> QED BY <2>7, <2>8, LeadsOn DEF Spares, c
  <1> HIDE DEF V
  <1>4. n \in V
    BY <1>2, <1>3, NatSetInduction
  <1> QED BY <1>1, <1>4, SplitsAreLoop DEF V

LEMMA HopsApart ==
    ASSUME NEW h, HasBooks(h.ledger), NEW es, NEW n \in Nat, DOMAIN es = 1..n
    PROVE  Spares(h.ledger, FoldLeft(hop, h, es).ledger)
  <1>1. PICK t : HopLoop!IsTrace(t, h, es, n) /\ HopLoop!Looped(h, es) = t[n]
    BY HopLoop!LoopHasTrace
  <1> DEFINE V == {k \in Nat : k <= n => Spares(h.ledger, t[k].ledger)}
  <1>2. 0 \in V
    BY <1>1 DEF HopLoop!IsTrace, Spares, Leads
  <1>3. ASSUME NEW k \in Nat, k \in V PROVE k + 1 \in V
    <2> SUFFICES ASSUME k + 1 <= n PROVE Spares(h.ledger, t[k + 1].ledger)
      OBVIOUS
    <2> DEFINE g == t[k]
               e == es[k + 1]
               m == trade(g.ledger, e.dex, e.from, e.to, g.amount, e.answer.out, e.answer.unused)
               c == t[k + 1].ledger
    <2>1. k + 1 \in 1..n /\ (k + 1) - 1 = k /\ Spares(h.ledger, g.ledger)
      BY <1>3
    <2>2. t[k + 1] = hop(g, e)
      BY <1>1, <2>1 DEF HopLoop!IsTrace
    <2>3. c = [m EXCEPT !.ok = @ /\ hop_accepted(e.answer, e.floor, g.amount),
                        !.balance = transfer(@, e.from, Router, e.sender, e.answer.told_unused)]
      BY <2>2 DEF hop
    <2> HIDE DEF g, e
    <2>4. Spares(g.ledger, m)
      BY <2>1, TradedApart DEF Spares, Leads
    <2> HIDE DEF m, c
    <2>5. HasBooks(m)
      BY <2>4 DEF Spares, Leads
    <2>6. /\ DOMAIN c = DOMAIN m /\ c.ok \in BOOLEAN /\ (c.ok => m.ok)
          /\ c.record = m.record /\ c.legacy = m.legacy /\ c.rate = m.rate
          /\ c.spentAt = m.spentAt /\ c.lifetime = m.lifetime /\ c.charged = m.charged
      BY <2>3, <2>5 DEF HasBooks
    <2>7. Spares(m, c)
      BY <2>5, <2>6, SparedFields
    <2>8. Spares(h.ledger, m)
      BY <2>1, <2>4, LeadsOn DEF Spares
    <2> QED BY <2>7, <2>8, LeadsOn DEF Spares, c
  <1> HIDE DEF V
  <1>4. n \in V
    BY <1>2, <1>3, NatSetInduction
  <1> QED BY <1>1, <1>4, HopsAreLoop DEF V

LEMMA SplitCounts ==
    ASSUME NEW b, HasBooks(b), NEW s, NEW as, NEW n \in Nat, DOMAIN s.splits = 1..n
    PROVE  Leads(b, process_split_payment_with_swap(b, s, as),
                 Limits!accrue_user_record(BooksOf(b), s.sender, s.amount))
  <1> DEFINE c == Limits!accrue_user_record(b, s.sender, s.amount)
             w == Limits!accrue_user_record(BooksOf(b), s.sender, s.amount)
             h == [ledger |-> pull(c, s.sender, s.sell, s.amount), allocated |-> 0, total |-> 0]
             es == SplitLegs(s, as)
             e == FoldLeft(split, h, es)
  <1>1. Leads(b, c, w)
    BY Accrued
  <1> HIDE DEF c
  <1>2. HasBooks(c)
    BY <1>1 DEF Leads
  <1>3. Spares(c, h.ledger)
    BY <1>2, PulledApart
  <1>4. DOMAIN es = 1..n
    BY DEF SplitLegs
  <1>5. process_split_payment_with_swap(b, s, as)
          = deliver(e.ledger, volume_of(b, s.sender), s, s.buy, e.total)
    BY DEF process_split_payment_with_swap, c
  <1> HIDE DEF h, es, w
  <1>6. HasBooks(h.ledger)
    BY <1>3 DEF Spares, Leads
  <1>7. Spares(h.ledger, e.ledger)
    BY <1>4, <1>6, SplitsApart
  <1> HIDE DEF e
  <1>8. Spares(e.ledger, deliver(e.ledger, volume_of(b, s.sender), s, s.buy, e.total))
    <2>1. HasBooks(e.ledger)
      BY <1>7 DEF Spares, Leads
    <2> QED BY <2>1, DeliveredApart
  <1>9. Leads(b, e.ledger, w)
    BY <1>1, <1>3, <1>7, LeadsOn
  <1> QED BY <1>5, <1>8, <1>9, LeadsOn DEF w

\* A multi-hop swap takes a slot as well.
LEMMA HopsCount ==
    ASSUME NEW b, HasBooks(b), NEW s, NEW as, NEW n \in Nat, DOMAIN s.floors = 1..n,
           NEW v, NEW t,
           NEW h, h = [ledger |-> pull(Limits!charge_and_accrue(b, s.sender, s.amount),
                                       s.sender, s.path[1], s.amount),
                       amount |-> s.amount],
           NEW e, e = FoldLeft(hop, h, HopLegs(s, as))
    PROVE  Leads(b, deliver(e.ledger, v, s, t, e.amount),
                 Limits!charge_and_accrue(BooksOf(b), s.sender, s.amount))
  <1> DEFINE c == Limits!charge_and_accrue(b, s.sender, s.amount)
             w == Limits!charge_and_accrue(BooksOf(b), s.sender, s.amount)
             es == HopLegs(s, as)
  <1>1. Leads(b, c, w)
    BY Charged
  <1>0. h.ledger = pull(c, s.sender, s.path[1], s.amount)
    OBVIOUS
  <1> HIDE DEF c
  <1>2. HasBooks(c)
    BY <1>1 DEF Leads
  <1>3. Spares(c, h.ledger)
    BY <1>0, <1>2, PulledApart
  <1>4. DOMAIN es = 1..n
    BY DEF HopLegs
  <1> HIDE DEF es, w
  <1>6. HasBooks(h.ledger)
    BY <1>3 DEF Spares, Leads
  <1>7. Spares(h.ledger, e.ledger)
    <2>1. e = FoldLeft(hop, h, es)
      BY DEF es
    <2> QED BY <1>4, <1>6, <2>1, HopsApart
  <1>8. Spares(e.ledger, deliver(e.ledger, v, s, t, e.amount))
    <2>1. HasBooks(e.ledger)
      BY <1>7 DEF Spares, Leads
    <2> QED BY <2>1, DeliveredApart
  <1>9. Leads(b, e.ledger, w)
    BY <1>1, <1>3, <1>7, LeadsOn
  <1> QED BY <1>8, <1>9, LeadsOn DEF w

\* One payment of RouterLimits is a batch of one.
LEMMA OneCharge ==
    ASSUME NEW b, NEW e
    PROVE  Limits!FoldLeft(Limits!charge_entry, b, <<e>>)
             = Limits!charge_and_accrue(b, e[1], e[2])
  <1>1. PICK t : Charges!IsTrace(t, b, <<e>>, 1) /\ Charges!Looped(b, <<e>>) = t[1]
    BY Charges!LoopHasTrace
  <1>2. t[1] = Limits!charge_entry(t[0], <<e>>[1]) /\ t[0] = b
    BY <1>1 DEF Charges!IsTrace
  <1> QED BY <1>1, <1>2, ChargesAreLoop DEF Limits!charge_entry

LEMMA OneAccrual ==
    ASSUME NEW b, NEW e
    PROVE  Limits!FoldLeft(Limits!accrue_entry, b, <<e>>)
             = Limits!accrue_user_record(b, e[1], e[2])
  <1>1. PICK t : Accruals!IsTrace(t, b, <<e>>, 1) /\ Accruals!Looped(b, <<e>>) = t[1]
    BY Accruals!LoopHasTrace
  <1>2. t[1] = Limits!accrue_entry(t[0], <<e>>[1]) /\ t[0] = b
    BY <1>1 DEF Accruals!IsTrace
  <1> QED BY <1>1, <1>2, AccrualsAreLoop DEF Limits!accrue_entry

LEMMA SwapAdmits ==
    ASSUME NEW b, HasBooks(b), NEW s, NEW ans, process_single_swap_payment(b, s, ans).ok
    PROVE  swap_admissible(s)
  <1> DEFINE e == process_single_swap_payment(b, s, ans)
  <1>1. HasBooks(e)
    BY SwapCounts DEF Leads
  <1> QED BY <1>1 DEF process_single_swap_payment, HasBooks

\* A batch of swaps that is accepted has accepted each of them.
LEMMA BatchAdmits ==
    ASSUME NEW b, HasBooks(b), NEW ss, NEW as, NEW n \in Nat, DOMAIN ss = 1..n,
           FoldLeft(swap_of_batch, b,
                    [i \in DOMAIN ss |-> [swap |-> ss[i], answer |-> as[i]]]).ok
    PROVE  \A i \in 1..n : swap_admissible(ss[i])
  <1> DEFINE ms == [i \in DOMAIN ss |-> [swap |-> ss[i], answer |-> as[i]]]
  <1>1. /\ DOMAIN ms = 1..n
        /\ \A i \in 1..n : ms[i].swap = ss[i] /\ ms[i].answer = as[i]
    OBVIOUS
  <1>2. FoldLeft(swap_of_batch, b, ms).ok
    OBVIOUS
  <1> HIDE DEF ms
  <1>3. PICK t : SwapLoop!IsTrace(t, b, ms, n) /\ SwapLoop!Looped(b, ms) = t[n]
    BY <1>1, SwapLoop!LoopHasTrace
  <1> DEFINE V == {k \in Nat : k <= n =>
                     HasBooks(t[k]) /\ (t[k].ok => \A i \in 1..k : swap_admissible(ss[i]))}
  <1>4. 0 \in V
    BY <1>3 DEF SwapLoop!IsTrace
  <1>5. ASSUME NEW k \in Nat, k \in V PROVE k + 1 \in V
    <2> SUFFICES ASSUME k + 1 <= n
                 PROVE  /\ HasBooks(t[k + 1])
                        /\ t[k + 1].ok => \A i \in 1..(k + 1) : swap_admissible(ss[i])
      OBVIOUS
    <2>1. /\ k + 1 \in 1..n /\ (k + 1) - 1 = k /\ HasBooks(t[k])
          /\ t[k].ok => \A i \in 1..k : swap_admissible(ss[i])
      BY <1>5
    <2>2. t[k + 1] = process_single_swap_payment(t[k], ss[k + 1], as[k + 1])
      BY <1>1, <1>3, <2>1 DEF SwapLoop!IsTrace, swap_of_batch
    <2>3. HasBooks(t[k + 1]) /\ (t[k + 1].ok => t[k].ok)
      BY <2>1, <2>2, SwapCounts DEF Leads
    <2>4. t[k + 1].ok => swap_admissible(ss[k + 1])
      BY <2>1, <2>2, SwapAdmits
    <2>5. \A i \in 1..(k + 1) : i \in 1..k \/ i = k + 1
      OBVIOUS
    <2> QED BY <2>1, <2>3, <2>4, <2>5
  <1> HIDE DEF V
  <1>6. n \in V
    BY <1>4, <1>5, NatSetInduction
  <1> QED BY <1>2, <1>3, <1>6, SwapsAreLoop DEF V

-----------------------------------------------------------------------------
(* The calls, as RouterLimits sees them.                                   *)

LEMMA LedgerHasBooks == HasBooks(Ledger) /\ BooksOf(Ledger) = Limits!Books
  BY DEF HasBooks, Ledger, BooksOf, Limits!Books

\* A call commits the books that RouterLimits would.
LEMMA BooksCommitted ==
    ASSUME NEW c, NEW d, Limits!Commit(c), Leads(Ledger, c, d)
    PROVE  Limits!Commit(d)
  <1>1. BooksOf(c) = d
    BY DEF Limits!Commit, Leads
  <1>2. /\ d.ok /\ d.record = c.record /\ d.legacy = c.legacy /\ d.rate = c.rate
        /\ d.spentAt = c.spentAt /\ d.lifetime = c.lifetime /\ d.charged = c.charged
    BY <1>1 DEF BooksOf
  <1> QED BY <1>2 DEF Limits!Commit

\* The calls leave the clock and the switches of the limiter alone.
Unswitched == UNCHANGED <<now, rateLimit, exempt>>

\* Several payments with the limiter, and without it.
LEMMA ManyCharged ==
    ASSUME NEW c, NEW es \in Limits!BatchesOf(LimitEntries), Unswitched, Limits!Commit(c),
           Leads(Ledger, c, Limits!FoldLeft(Limits!charge_entry, BooksOf(Ledger), es))
    PROVE  Limits!LimitsNext
  <1>1. Limits!Commit(Limits!FoldLeft(Limits!charge_entry, Limits!Books, es))
    BY BooksCommitted, LedgerHasBooks
  <1>2. Limits!route_charged(es)
    BY <1>1 DEF Limits!route_charged, Unswitched
  <1> QED BY <1>2 DEF Limits!LimitsNext

LEMMA ManyCounted ==
    ASSUME NEW c, NEW es \in Limits!BatchesOf(UnchargedEntries), Unswitched, Limits!Commit(c),
           Leads(Ledger, c, Limits!FoldLeft(Limits!accrue_entry, BooksOf(Ledger), es))
    PROVE  Limits!LimitsNext
  <1>1. Limits!Commit(Limits!FoldLeft(Limits!accrue_entry, Limits!Books, es))
    BY BooksCommitted, LedgerHasBooks
  <1>2. Limits!route_uncharged(es)
    BY <1>1 DEF Limits!route_uncharged, Unswitched
  <1> QED BY <1>2 DEF Limits!LimitsNext

LEMMA OneIsABatch ==
    ASSUME NEW payments, NEW e \in payments
    PROVE  <<e>> \in Limits!BatchesOf(payments)
  <1>1. 1 \in 0..MaxBatch
    BY EntriesAssumption DEF EntriesAssumption
  <1>2. <<e>> \in [1..1 -> payments]
    OBVIOUS
  <1> QED BY <1>1, <1>2 DEF Limits!BatchesOf

LEMMA OneCharged ==
    ASSUME NEW c, NEW a, NEW n, <<a, n>> \in LimitEntries, Unswitched, Limits!Commit(c),
           Leads(Ledger, c, Limits!charge_and_accrue(BooksOf(Ledger), a, n))
    PROVE  Limits!LimitsNext
  <1>1. Limits!FoldLeft(Limits!charge_entry, BooksOf(Ledger), <<<<a, n>>>>)
          = Limits!charge_and_accrue(BooksOf(Ledger), a, n)
    <2> DEFINE e == <<a, n>>
    <2>1. e[1] = a /\ e[2] = n
      OBVIOUS
    <2> HIDE DEF e
    <2>2. Limits!FoldLeft(Limits!charge_entry, BooksOf(Ledger), <<e>>)
            = Limits!charge_and_accrue(BooksOf(Ledger), a, n)
      BY <2>1, OneCharge
    <2> QED BY <2>2 DEF e
  <1> QED BY <1>1, OneIsABatch, ManyCharged

LEMMA OneCounted ==
    ASSUME NEW c, NEW a, NEW n, <<a, n>> \in UnchargedEntries, Unswitched, Limits!Commit(c),
           Leads(Ledger, c, Limits!accrue_user_record(BooksOf(Ledger), a, n))
    PROVE  Limits!LimitsNext
  <1>1. Limits!FoldLeft(Limits!accrue_entry, BooksOf(Ledger), <<<<a, n>>>>)
          = Limits!accrue_user_record(BooksOf(Ledger), a, n)
    <2> DEFINE e == <<a, n>>
    <2>1. e[1] = a /\ e[2] = n
      OBVIOUS
    <2> HIDE DEF e
    <2>2. Limits!FoldLeft(Limits!accrue_entry, BooksOf(Ledger), <<e>>)
            = Limits!accrue_user_record(BooksOf(Ledger), a, n)
      BY <2>1, OneAccrual
    <2> QED BY <2>2 DEF e
  <1> QED BY <1>1, OneIsABatch, ManyCounted

\* The payments of a call are a batch of RouterLimits.
LEMMA EntriesAreABatch ==
    ASSUME NEW payments, NEW ps, NEW n \in 0..MaxBatch, DOMAIN ps = 1..n,
           \A i \in 1..n : <<ps[i].sender, ps[i].amount>> \in payments
    PROVE  EntriesOf(ps) \in Limits!BatchesOf(payments)
  <1>1. EntriesOf(ps) \in [1..n -> payments]
    BY DEF EntriesOf
  <1> QED BY <1>1 DEF Limits!BatchesOf

LEMMA HeartbeatKeepsNow == ASSUME NEW a, payment_heartbeat(a) PROVE now' = now
  BY DEF payment_heartbeat

LEMMA OtherCallKeepsNow == ASSUME NEW a, other_call(a) PROVE now' = now
  BY DEF other_call, dmsVars

\* The routes, one by one.
LEMMA RouteObeys ==
    ASSUME NEW ps, NEW n \in 0..MaxBatch, DOMAIN ps = 1..n,
           \A i \in 1..n : IsCharged(ps[i].sender, ps[i].amount), route_payments(ps)
    PROVE  Limits!LimitsNext
  <1> DEFINE c == FoldLeft(settle, Ledger, ps)
             es == EntriesOf(ps)
  <1>0. n \in Nat
    BY EntriesAssumption DEF EntriesAssumption
  <1>1. /\ Unswitched /\ Limits!Commit(c)
        /\ \A i \in 1..n : admissible(ps[i])
    BY HeartbeatKeepsNow DEF route_payments, CommitLedger, Unswitched
  <1>2. es \in Limits!BatchesOf(LimitEntries)
    <2>1. \A i \in 1..n : <<ps[i].sender, ps[i].amount>> \in LimitEntries
      BY <1>1 DEF admissible, IsCharged
    <2> QED BY <2>1, EntriesAreABatch
  <1>3. Leads(Ledger, c, Limits!FoldLeft(Limits!charge_entry, BooksOf(Ledger), es))
    BY <1>0, LedgerHasBooks, BatchCharges
  <1> HIDE DEF c, es
  <1> QED BY <1>1, <1>2, <1>3, ManyCharged

LEMMA QuoteObeys ==
    ASSUME NEW q \in Quotes, route_payment_with_quote(q)
    PROVE  Limits!LimitsNext
  <1> DEFINE c == Limits!charge_and_accrue(Ledger, q.sender, q.amount_in)
  <1>1. Unswitched /\ Limits!Commit(c) /\ q.amount_in > 0
    BY HeartbeatKeepsNow DEF route_payment_with_quote, Unswitched
  <1>2. <<q.sender, q.amount_in>> \in LimitEntries
    BY <1>1, EntriesAssumption DEF EntriesAssumption, IsCharged
  <1>3. Leads(Ledger, c, Limits!charge_and_accrue(BooksOf(Ledger), q.sender, q.amount_in))
    BY LedgerHasBooks, Charged
  <1> HIDE DEF c
  <1> QED BY <1>1, <1>2, <1>3, OneCharged

LEMMA RelayObeys ==
    ASSUME NEW m \in Relays, route_payment_meta(m)
    PROVE  Limits!LimitsNext
  <1> DEFINE p == m.payment
             c == process_single_payment(Ledger, p)
  <1>1. Unswitched /\ Limits!Commit(c) /\ p.amount > 0
    BY OtherCallKeepsNow DEF route_payment_meta, Unswitched, CommitLedger, admissible
  <1>2. <<p.sender, p.amount>> \in UnchargedEntries
    BY <1>1, EntriesAssumption DEF EntriesAssumption, IsUncharged
  <1>3. Leads(Ledger, c, Limits!accrue_user_record(BooksOf(Ledger), p.sender, p.amount))
    BY LedgerHasBooks, PaymentCounts
  <1> HIDE DEF c, p
  <1> QED BY <1>1, <1>2, <1>3, OneCounted

LEMMA RoutesObey == RouteStep(PaymentArgs, BatchArgs, Quotes, Relays) => Limits!LimitsNext
  <1>1. ASSUME NEW p \in PaymentArgs, route_payment(p) PROVE Limits!LimitsNext
    <2> DEFINE ps == <<p>>
    <2>1. DOMAIN ps = 1..1 /\ 1 \in 0..MaxBatch
          /\ \A i \in 1..1 : IsCharged(ps[i].sender, ps[i].amount)
      BY EntriesAssumption DEF EntriesAssumption
    <2>2. route_payments(ps)
      BY <1>1 DEF route_payment
    <2> HIDE DEF ps
    <2> QED BY <2>1, <2>2, RouteObeys
  <1>2. ASSUME NEW ps \in BatchArgs, route_payments(ps) PROVE Limits!LimitsNext
    <2>1. /\ ps \in Seq(Payment) /\ Len(ps) <= MaxBatch /\ MaxBatch \in Nat
          /\ \A i \in DOMAIN ps : IsCharged(ps[i].sender, ps[i].amount)
      BY PaymentsAssumption, EntriesAssumption DEF PaymentsAssumption, EntriesAssumption
    <2>2. Len(ps) \in 0..MaxBatch /\ DOMAIN ps = 1..Len(ps)
      BY <2>1
    <2> QED BY <1>2, <2>1, <2>2, RouteObeys
  <1> QED BY <1>1, <1>2, QuoteObeys, RelayObeys DEF RouteStep

LEMMA SwapCallUnswitched == ASSUME NEW a, NEW ds, SwapCall(a, ds) PROVE Unswitched
  BY OtherCallKeepsNow DEF SwapCall, Unswitched

LEMMA SingleObeys ==
    ASSUME NEW s \in SwapArgs, NEW ans, route_payment_with_swap(s, ans)
    PROVE  Limits!LimitsNext
  <1> DEFINE c == process_single_swap_payment(Ledger, s, ans)
  <1>1. Unswitched /\ Limits!Commit(c) /\ c.ok
    BY SwapCallUnswitched DEF route_payment_with_swap, CommitLedger, Limits!Commit
  <1>2. s.amount > 0
    <2>1. swap_admissible(s)
      BY <1>1, LedgerHasBooks, SwapAdmits
    <2> QED BY <2>1 DEF swap_admissible, within_limits
  <1>3. <<s.sender, s.amount>> \in UnchargedEntries
    BY <1>2, SwapEntriesAssumption DEF SwapEntriesAssumption, IsUncharged
  <1>4. Leads(Ledger, c, Limits!accrue_user_record(BooksOf(Ledger), s.sender, s.amount))
    BY LedgerHasBooks, SwapCounts
  <1> HIDE DEF c
  <1> QED BY <1>1, <1>3, <1>4, OneCounted

LEMMA SwapBatchObeys ==
    ASSUME NEW ss \in SwapBatches, NEW as, route_payments_with_swap(ss, as)
    PROVE  Limits!LimitsNext
  <1> DEFINE n == Len(ss)
             c == FoldLeft(swap_of_batch, Ledger,
                           [i \in DOMAIN ss |-> [swap |-> ss[i], answer |-> as[i]]])
             es == EntriesOf(ss)
  <1>1. /\ n \in Nat /\ n \in 0..MaxBatch /\ DOMAIN ss = 1..n
        /\ \A i \in 1..n : IsUncharged(ss[i].sender, ss[i].amount)
    <2>1. /\ ss \in Seq(SwapPayment) /\ Len(ss) <= MaxBatch
          /\ \A i \in DOMAIN ss : IsUncharged(ss[i].sender, ss[i].amount)
      BY SwapsAssumption, SwapEntriesAssumption DEF SwapsAssumption, SwapEntriesAssumption
    <2>2. Len(ss) \in Nat /\ DOMAIN ss = 1..Len(ss) /\ MaxBatch \in Nat
      BY <2>1, EntriesAssumption DEF EntriesAssumption
    <2> QED BY <2>1, <2>2
  <1> HIDE DEF n
  <1>2. Unswitched /\ Limits!Commit(c) /\ c.ok
    BY SwapCallUnswitched DEF route_payments_with_swap, CommitLedger, Limits!Commit
  <1>3. \A i \in 1..n : swap_admissible(ss[i])
    BY <1>1, <1>2, LedgerHasBooks, BatchAdmits
  <1>4. \A i \in 1..n : <<ss[i].sender, ss[i].amount>> \in UnchargedEntries
    BY <1>1, <1>3 DEF swap_admissible, within_limits, IsUncharged
  <1>5. es \in Limits!BatchesOf(UnchargedEntries)
    BY <1>1, <1>4, EntriesAreABatch
  <1>6. Leads(Ledger, c, Limits!FoldLeft(Limits!accrue_entry, BooksOf(Ledger), es))
    BY <1>1, LedgerHasBooks, SwapBatchCounts
  <1> HIDE DEF c, es
  <1> QED BY <1>2, <1>5, <1>6, ManyCounted

LEMMA SplitObeys ==
    ASSUME NEW s \in SplitArgs, NEW as, route_split_payment_with_swap(s, as)
    PROVE  Limits!LimitsNext
  <1> DEFINE c == process_split_payment_with_swap(Ledger, s, as)
  <1>1. Unswitched /\ Limits!Commit(c) /\ s.amount > 0
    BY SwapCallUnswitched
    DEF route_split_payment_with_swap, CommitLedger, split_admissible, within_limits
  <1>2. <<s.sender, s.amount>> \in UnchargedEntries
    BY <1>1, SwapEntriesAssumption DEF SwapEntriesAssumption, IsUncharged
  <1>3. PICK n \in Nat : DOMAIN s.splits = 1..n
    <2>1. s.splits \in Seq([dex : Addr, weight : Nat, min_out : Nat])
      BY SwapsAssumption DEF SwapsAssumption, SplitPayment
    <2> QED BY <2>1
  <1>4. Leads(Ledger, c, Limits!accrue_user_record(BooksOf(Ledger), s.sender, s.amount))
    BY <1>3, LedgerHasBooks, SplitCounts
  <1> HIDE DEF c
  <1> QED BY <1>1, <1>2, <1>4, OneCounted

LEMMA MultihopObeys ==
    ASSUME NEW s \in HopArgs, NEW as, route_multihop_swap(s, as)
    PROVE  Limits!LimitsNext
  <1> DEFINE h == [ledger |-> pull(Limits!charge_and_accrue(Ledger, s.sender, s.amount),
                                   s.sender, s.path[1], s.amount),
                   amount |-> s.amount]
             e == FoldLeft(hop, h, HopLegs(s, as))
             c == deliver(e.ledger, volume_of(Ledger, s.sender), s, s.path[Len(s.path)],
                          e.amount)
  <1>1. Unswitched /\ Limits!Commit(c) /\ s.amount > 0
    BY HeartbeatKeepsNow
    DEF route_multihop_swap, CommitLedger, hops_admissible, within_limits, Unswitched
  <1>2. <<s.sender, s.amount>> \in LimitEntries
    BY <1>1, SwapEntriesAssumption DEF SwapEntriesAssumption, IsCharged
  <1>3. PICK n \in Nat : DOMAIN s.floors = 1..n
    <2>1. s.floors \in Seq(Nat)
      BY SwapsAssumption DEF SwapsAssumption, HopPayment
    <2> QED BY <2>1
  <1>4. Leads(Ledger, c, Limits!charge_and_accrue(BooksOf(Ledger), s.sender, s.amount))
    <2>1. h = [ledger |-> pull(Limits!charge_and_accrue(Ledger, s.sender, s.amount),
                               s.sender, s.path[1], s.amount),
               amount |-> s.amount]
          /\ e = FoldLeft(hop, h, HopLegs(s, as))
      OBVIOUS
    <2> HIDE DEF h, e
    <2> QED BY <1>3, <2>1, LedgerHasBooks, HopsCount
  <1> HIDE DEF c
  <1> QED BY <1>1, <1>2, <1>4, OneCharged

\* The raw route moves tokens first, and counts what the DEX says it sent.
LEMMA RawObeys ==
    ASSUME NEW s \in RawArgs, NEW ans \in Answers, route_payment_with_swap_raw(s, ans)
    PROVE  Limits!LimitsNext
  <1> DEFINE p == [sender |-> s.sender, recipient |-> s.recipient, token |-> s.buy,
                   amount |-> ans.told_out, delivered |-> s.delivered]
  <1>1. PICK back : /\ Spares(Ledger, back)
                    /\ CommitLedger(process_single_payment(back, p))
    <2> DEFINE put == [Ledger EXCEPT
                         !.ok = balance[s.sell][s.sender] >= s.amount,
                         !.balance = transfer(@, s.sell, s.sender, s.dex, s.amount)]
               spared == [put EXCEPT
                            !.ok = @ /\ put.balance[s.sell][s.dex] >= ans.unused,
                            !.balance = transfer(@, s.sell, s.dex, Router, ans.unused)]
               given == [spared EXCEPT
                           !.ok = @ /\ spared.balance[s.buy][s.dex] >= ans.out,
                           !.balance = transfer(@, s.buy, s.dex, Router, ans.out)]
               b == [given EXCEPT
                       !.ok = @ /\ given.balance[s.sell][Router] >= ans.told_unused,
                       !.balance = transfer(@, s.sell, Router, s.sender, ans.told_unused)]
    <2>1. CommitLedger(process_single_payment(b, p))
      BY DEF route_payment_with_swap_raw
    <2>2. Ledger.ok = TRUE /\ HasBooks(Ledger)
      BY LedgerHasBooks DEF Ledger
    <2> HIDE DEF p
    <2>3. Spares(Ledger, b)
      <3>1. /\ DOMAIN put = DOMAIN Ledger /\ put.ok \in BOOLEAN
            /\ put.record = Ledger.record /\ put.legacy = Ledger.legacy
            /\ put.rate = Ledger.rate /\ put.spentAt = Ledger.spentAt
            /\ put.lifetime = Ledger.lifetime /\ put.charged = Ledger.charged
        BY DEF Ledger
      <3> HIDE DEF put
      <3>2. /\ DOMAIN spared = DOMAIN Ledger /\ spared.ok \in BOOLEAN
            /\ spared.record = Ledger.record /\ spared.legacy = Ledger.legacy
            /\ spared.rate = Ledger.rate /\ spared.spentAt = Ledger.spentAt
            /\ spared.lifetime = Ledger.lifetime /\ spared.charged = Ledger.charged
        BY <2>2, <3>1 DEF HasBooks
      <3> HIDE DEF spared
      <3>3. /\ DOMAIN given = DOMAIN Ledger /\ given.ok \in BOOLEAN
            /\ given.record = Ledger.record /\ given.legacy = Ledger.legacy
            /\ given.rate = Ledger.rate /\ given.spentAt = Ledger.spentAt
            /\ given.lifetime = Ledger.lifetime /\ given.charged = Ledger.charged
        BY <2>2, <3>2 DEF HasBooks
      <3> HIDE DEF given
      <3>4. /\ DOMAIN b = DOMAIN Ledger /\ b.ok \in BOOLEAN
            /\ b.record = Ledger.record /\ b.legacy = Ledger.legacy
            /\ b.rate = Ledger.rate /\ b.spentAt = Ledger.spentAt
            /\ b.lifetime = Ledger.lifetime /\ b.charged = Ledger.charged
        BY <2>2, <3>3 DEF HasBooks
      <3> HIDE DEF b
      <3> QED BY <2>2, <3>4, SparedFields
    <2> HIDE DEF b
    <2> QED BY <2>1, <2>3
  <1> DEFINE c == process_single_payment(back, p)
  <1>2. Unswitched /\ Limits!Commit(c)
    <2>1. Unswitched
      BY SwapCallUnswitched DEF route_payment_with_swap_raw
    <2> QED BY <1>1, <2>1 DEF CommitLedger
  <1>3. <<s.sender, ans.told_out>> \in UnchargedEntries
    <2>1. s.min_out > 0 /\ ans.told_out >= s.min_out
      BY DEF route_payment_with_swap_raw
    <2>2. s.min_out \in Nat /\ ans.told_out \in Nat
          /\ IsUncharged(s.sender, ans.told_out)
      BY SwapsAssumption, SwapEntriesAssumption
      DEF SwapsAssumption, SwapEntriesAssumption, RawPayment
    <2> QED BY <2>1, <2>2 DEF IsUncharged
  <1>4. Leads(Ledger, c, Limits!accrue_user_record(BooksOf(Ledger), s.sender, ans.told_out))
    <2>1. p.sender = s.sender /\ p.amount = ans.told_out
      OBVIOUS
    <2> HIDE DEF p
    <2>2. HasBooks(back)
      BY <1>1 DEF Spares, Leads
    <2>3. Leads(back, c, Limits!accrue_user_record(BooksOf(back), s.sender, ans.told_out))
      BY <2>1, <2>2, PaymentCounts
    <2> HIDE DEF c
    <2> QED BY <1>1, <2>3 DEF Spares, Leads
  <1> HIDE DEF c
  <1> QED BY <1>2, <1>3, <1>4, OneCounted

LEMMA SwapsObey == SwapStep => Limits!LimitsNext
  <1> SUFFICES ASSUME SwapStep PROVE Limits!LimitsNext
    OBVIOUS
  <1>1. ASSUME NEW s \in SwapArgs, NEW ans \in Answers, route_payment_with_swap(s, ans)
        PROVE  Limits!LimitsNext
    BY <1>1, SingleObeys
  <1>2. ASSUME NEW ss \in SwapBatches, NEW as \in Answered(Len(ss)),
               route_payments_with_swap(ss, as)
        PROVE  Limits!LimitsNext
    BY <1>2, SwapBatchObeys
  <1>3. ASSUME NEW s \in SplitArgs, NEW as \in Answered(Len(s.splits)),
               route_split_payment_with_swap(s, as)
        PROVE  Limits!LimitsNext
    BY <1>3, SplitObeys
  <1>4. ASSUME NEW s \in HopArgs, NEW as \in Answered(Len(s.floors)),
               route_multihop_swap(s, as)
        PROVE  Limits!LimitsNext
    BY <1>4, MultihopObeys
  <1>5. ASSUME NEW s \in RawArgs, NEW ans \in Answers, route_payment_with_swap_raw(s, ans)
        PROVE  Limits!LimitsNext
    BY <1>5, RawObeys
  <1> QED BY <1>1, <1>2, <1>3, <1>4, <1>5 DEF SwapStep

\* The calls that are RouterLimits' own.
LEMMA LimitsStepObeys == LimitsStep => Limits!LimitsNext
  <1> SUFFICES ASSUME LimitsStep PROVE Limits!LimitsNext
    OBVIOUS
  <1>1. Partners \subseteq Addr
    BY PaymentsAssumption DEF PaymentsAssumption
  <1>2. ASSUME NEW a \in Addr, LimitsCall(Limits!migrate_user_record(a), NoAddr)
        PROVE  Limits!LimitsNext
    BY <1>2 DEF LimitsCall, Limits!LimitsNext
  <1>3. ASSUME NEW n \in RateLimits, LimitsCall(Limits!set_rate_limit(n), admin)
        PROVE  Limits!LimitsNext
    BY <1>3 DEF LimitsCall, Limits!LimitsNext
  <1>4. ASSUME NEW a \in Partners, LimitsCall(Limits!set_rate_limit_whitelist(a), admin)
        PROVE  Limits!LimitsNext
    BY <1>1, <1>4 DEF LimitsCall, Limits!LimitsNext
  <1>5. ASSUME NEW a \in Partners, LimitsCall(Limits!remove_rate_limit_whitelist(a), admin)
        PROVE  Limits!LimitsNext
    BY <1>1, <1>5 DEF LimitsCall, Limits!LimitsNext
  <1> QED BY <1>2, <1>3, <1>4, <1>5 DEF LimitsStep

\* Leaves that name absent entries prune nothing of them.
LEMMA PruneSkipsAbsent ==
    ASSUME NEW S, NEW V, Limits!prune_legacy(S, V)
    PROVE  LET L == {a \in Addr : legacy[a] # NoRecord}
           IN Limits!prune_legacy(S \cap L, V \cap L)
  <1> DEFINE L == {a \in Addr : legacy[a] # NoRecord}
             keptIn(s, a) == IF a \in s THEN Limits!without_spending(legacy[a]) ELSE legacy[a]
             leftIn(s, v, a) == IF a \in v THEN Limits!without_volume(keptIn(s, a))
                                ELSE keptIn(s, a)
             spentIn(s, a, t) == IF a \in s /\ legacy[a] # NoRecord /\ legacy[a].reset = t
                                 THEN spentAt[a][t] - legacy[a].spent ELSE spentAt[a][t]
             lifeIn(v, a) == IF a \in v /\ legacy[a] # NoRecord
                             THEN lifetime[a] - legacy[a].volume ELSE lifetime[a]
  <1>1. ASSUME NEW a \in Addr PROVE leftIn(S, V, a) = leftIn(S \cap L, V \cap L, a)
    BY DEF Limits!without_spending, Limits!without_volume
  <1>2. \A a \in Addr, t \in 0..MaxTime : spentIn(S, a, t) = spentIn(S \cap L, a, t)
    OBVIOUS
  <1>3. \A a \in Addr : lifeIn(V, a) = lifeIn(V \cap L, a)
    OBVIOUS
  <1>4. /\ legacy' = [a \in Addr |-> leftIn(S, V, a)]
        /\ spentAt' = [a \in Addr |-> [t \in 0..MaxTime |-> spentIn(S, a, t)]]
        /\ lifetime' = [a \in Addr |-> lifeIn(V, a)]
        /\ UNCHANGED <<now, record, rateCounter, rateLimit, exempt, charged>>
    BY DEF Limits!prune_legacy
  <1>5. /\ legacy' = [a \in Addr |-> leftIn(S \cap L, V \cap L, a)]
        /\ spentAt' = [a \in Addr |-> [t \in 0..MaxTime |-> spentIn(S \cap L, a, t)]]
        /\ lifetime' = [a \in Addr |-> lifeIn(V \cap L, a)]
    <2> HIDE DEF L, leftIn, spentIn, lifeIn
    <2> QED BY <1>1, <1>2, <1>3, <1>4
  <1>6. Limits!prune_legacy(S \cap L, V \cap L)
    BY <1>4, <1>5 DEF Limits!prune_legacy
  <1> QED BY <1>6

LEMMA ArchivalObeys == ArchiveStep => Limits!LimitsNext \/ UNCHANGED Limits!limitsVars
  <1>1. ASSUME NEW leaves, commit_archive_root(leaves) PROVE UNCHANGED Limits!limitsVars
    <2>1. now' = now
      BY <1>1, OtherCallKeepsNow DEF commit_archive_root, ByManager
    <2> QED BY <1>1, <2>1 DEF commit_archive_root, senderVars, Limits!limitsVars
  <1>2. ASSUME NEW epoch, NEW leaves, prune_archived_entries(epoch, leaves)
        PROVE  Limits!LimitsNext
    <2> DEFINE L == {a \in Addr : legacy[a] # NoRecord}
               S == Users(leaves, "UserSpending")
               V == Users(leaves, "UserVolume")
    <2>1. Limits!prune_legacy(S, V)
      BY <1>2 DEF prune_archived_entries
    <2> HIDE DEF S, V
    <2>2. Limits!prune_legacy(S \cap L, V \cap L)
      BY <2>1, PruneSkipsAbsent
    <2> QED BY <2>2 DEF Limits!LimitsNext
  <1> QED BY <1>1, <1>2 DEF ArchiveStep

\* Nothing else touches the senders' books or the clock.
LEMMA OthersRest ==
    CustodyStep \/ OfficeStep \/ RegistryStep \/ YieldStep(Token)
      => UNCHANGED Limits!limitsVars
  <1> SUFFICES ASSUME CustodyStep \/ OfficeStep \/ RegistryStep \/ YieldStep(Token)
               PROVE  UNCHANGED <<now, senderVars>>
    BY DEF Limits!limitsVars, senderVars
  <1>1. CASE CustodyStep
    BY <1>1, OtherCallKeepsNow
    DEF CustodyStep, withdraw_refund, claim_all_refunds, recover_tokens,
        emergency_withdraw, TakeOut, approve
  <1>2. CASE OfficeStep
    <2>1. ASSUME NEW a, blacklist_address(a) \/ unblacklist_address(a)
          PROVE  UNCHANGED <<now, senderVars>>
      BY <2>1, OtherCallKeepsNow DEF blacklist_address, unblacklist_address, ByOfficer
    <2>2. SwitchStep => now' = now
      BY DEF SwitchStep, emergency_freeze, unfreeze, set_pause_level, set_pause
    <2> QED BY <1>2, <2>1, <2>2 DEF OfficeStep
  <1>3. CASE RegistryStep
    BY <1>3, OtherCallKeepsNow DEF RegistryStep, register_dex, deregister_dex
  <1>4. CASE YieldStep(Token)
    BY <1>4, OtherCallKeepsNow
    DEF YieldStep, set_yield_protocol, deposit_to_yield, withdraw_from_yield,
        harvest_yield, ByManager, Unserved
  <1> QED BY <1>1, <1>2, <1>3, <1>4

LEMMA CallsObey == [ServicesNext]_allVars => [Limits!LimitsNext]_(Limits!limitsVars)
  <1> SUFFICES ASSUME [ServicesNext]_allVars
               PROVE  Limits!LimitsNext \/ UNCHANGED Limits!limitsVars
    OBVIOUS
  <1>1. CASE UNCHANGED allVars
    BY <1>1 DEF allVars, paymentVars, accessVars, senderVars, Limits!limitsVars
  <1>2. CASE PaymentsNext
    <2>1. LedgerCloses => Limits!LimitsNext
      BY DEF LedgerCloses, Limits!LimitsNext
    <2> QED BY <1>2, <2>1, RoutesObey, OthersRest, LimitsStepObeys DEF PaymentsNext
  <1>3. CASE SwapStep \/ RegistryStep
    BY <1>3, SwapsObey, OthersRest
  <1>4. CASE YieldStep(Token) \/ ArchiveStep
    BY <1>4, OthersRest, ArchivalObeys
  <1> QED BY <1>1, <1>2, <1>3, <1>4 DEF ServicesNext, SwapsNext

\* Whatever way a payment takes through the router, alone, in a batch, as a
\* quote, relayed or swapped, the window and the slots of its sender change as
\* RouterLimits has it, and nothing but migration and archival changes them
\* otherwise (lib.rs, swaps.rs, archival.rs over storage.rs and rate_limit.rs).
THEOREM RouterImplementsLimits == ServicesSpec => PaymentsImplementLimits
  <1>1. ServicesInit => Limits!LimitsInit
    BY DEF ServicesInit, SwapsInit, PaymentsInit
  <1> QED BY <1>1, CallsObey, PTL
          DEF ServicesSpec, PaymentsImplementLimits, Limits!LimitsSpec

-----------------------------------------------------------------------------
(* What is proved of RouterLimits holds of the router.                     *)

\* The theorems of RouterLimits, whose definitions are those of Limits.
Senders == INSTANCE RouterLimitsProofs WITH Start <- 0, Entries <- LimitEntries

LEMMA SameCharge ==
    ASSUME NEW b, NEW e
    PROVE  Limits!charge_entry(b, e) = Senders!charge_entry(b, e)
  <1>1. ASSUME NEW a
        PROVE  Limits!check_rate_limit(b, a) = Senders!check_rate_limit(b, a)
    BY DEF Limits!check_rate_limit, Senders!check_rate_limit,
           Limits!is_unlimited, Senders!is_unlimited,
           Limits!rate_limit_used, Senders!rate_limit_used
  <1>2. ASSUME NEW c, NEW a, NEW n
        PROVE  Limits!accrue_user_record(c, a, n) = Senders!accrue_user_record(c, a, n)
    BY DEF Limits!accrue_user_record, Senders!accrue_user_record,
           Limits!load_user_record, Senders!load_user_record,
           Limits!roll_window, Senders!roll_window
  <1> QED BY <1>1, <1>2
          DEF Limits!charge_entry, Senders!charge_entry,
              Limits!charge_and_accrue, Senders!charge_and_accrue

SenderCharges == INSTANCE FoldTheorems WITH Op <- Senders!charge_entry

LEMMA SenderChargesAreLoop ==
    ASSUME NEW b, NEW es
    PROVE  Senders!FoldLeft(Senders!charge_entry, b, es) = SenderCharges!Looped(b, es)
  BY DEF Senders!FoldLeft, Senders!MapThenFoldSet, SenderCharges!Looped,
         SenderCharges!IsLoopTable, SenderCharges!LoopEntry, Senders!charge_entry,
         Senders!Max, SenderCharges!Highest

LEMMA SameCharges ==
    ASSUME NEW b, NEW es, NEW n \in Nat, DOMAIN es = 1..n
    PROVE  Limits!FoldLeft(Limits!charge_entry, b, es)
             = Senders!FoldLeft(Senders!charge_entry, b, es)
  <1>1. PICK t : Charges!IsTrace(t, b, es, n) /\ Charges!Looped(b, es) = t[n]
    BY Charges!LoopHasTrace
  <1>2. PICK u : SenderCharges!IsTrace(u, b, es, n) /\ SenderCharges!Looped(b, es) = u[n]
    BY SenderCharges!LoopHasTrace
  <1> DEFINE V == {k \in Nat : k <= n => t[k] = u[k]}
  <1>3. 0 \in V
    BY <1>1, <1>2 DEF Charges!IsTrace, SenderCharges!IsTrace
  <1>4. ASSUME NEW k \in Nat, k \in V PROVE k + 1 \in V
    <2> SUFFICES ASSUME k + 1 <= n PROVE t[k + 1] = u[k + 1]
      OBVIOUS
    <2>1. k + 1 \in 1..n /\ (k + 1) - 1 = k /\ t[k] = u[k]
      BY <1>4
    <2>2. t[k + 1] = Limits!charge_entry(t[k], es[k + 1])
      BY <1>1, <2>1 DEF Charges!IsTrace
    <2>3. u[k + 1] = Senders!charge_entry(u[k], es[k + 1])
      BY <1>2, <2>1 DEF SenderCharges!IsTrace
    <2> QED BY <2>1, <2>2, <2>3, SameCharge
  <1> HIDE DEF V
  <1>5. n \in V
    BY <1>3, <1>4, NatSetInduction
  <1> QED BY <1>1, <1>2, <1>5, ChargesAreLoop, SenderChargesAreLoop DEF V

LEMMA SameAccruals ==
    ASSUME NEW b, NEW es
    PROVE  Limits!FoldLeft(Limits!accrue_entry, b, es)
             = Senders!FoldLeft(Senders!accrue_entry, b, es)
  BY DEF Limits!FoldLeft, Senders!FoldLeft, Limits!MapThenFoldSet,
         Senders!MapThenFoldSet, Limits!Max, Senders!Max, Limits!accrue_entry,
         Senders!accrue_entry, Limits!roll_window, Senders!roll_window,
         Limits!load_user_record, Senders!load_user_record,
         Limits!accrue_user_record, Senders!accrue_user_record

LEMMA SameCommit == ASSUME NEW b PROVE Limits!Commit(b) = Senders!Commit(b)
  BY DEF Limits!Commit, Senders!Commit

LEMMA SameBooks == Limits!Books = Senders!Books
  BY DEF Limits!Books, Senders!Books

LEMMA SameBatches ==
    ASSUME NEW payments PROVE Limits!BatchesOf(payments) = Senders!BatchesOf(payments)
  BY DEF Limits!BatchesOf, Senders!BatchesOf

LEMMA SameCharged ==
    ASSUME NEW es \in Limits!BatchesOf(LimitEntries)
    PROVE  Limits!route_charged(es) = Senders!route_charged(es)
  <1>1. PICK n \in 0..MaxBatch : es \in [1..n -> LimitEntries]
    BY DEF Limits!BatchesOf
  <1>2. n \in Nat /\ DOMAIN es = 1..n
    BY <1>1, EntriesAssumption DEF EntriesAssumption
  <1>3. Limits!FoldLeft(Limits!charge_entry, Limits!Books, es)
          = Senders!FoldLeft(Senders!charge_entry, Senders!Books, es)
    BY <1>2, SameCharges, SameBooks
  <1> QED BY <1>3, SameCommit DEF Limits!route_charged, Senders!route_charged

LEMMA SameUncharged ==
    ASSUME NEW es PROVE Limits!route_uncharged(es) = Senders!route_uncharged(es)
  BY SameAccruals, SameCommit, SameBooks
  DEF Limits!route_uncharged, Senders!route_uncharged

LEMMA SameMigration ==
    ASSUME NEW a PROVE Limits!migrate_user_record(a) = Senders!migrate_user_record(a)
  BY DEF Limits!migrate_user_record, Senders!migrate_user_record,
         Limits!packed_from_legacy, Senders!packed_from_legacy

LEMMA SamePruning ==
    ASSUME NEW s, NEW v PROVE Limits!prune_legacy(s, v) = Senders!prune_legacy(s, v)
  BY DEF Limits!prune_legacy, Senders!prune_legacy, Limits!without_spending,
         Senders!without_spending, Limits!without_volume, Senders!without_volume

LEMMA SameSettings ==
    ASSUME NEW a
    PROVE  /\ Limits!set_rate_limit(a) = Senders!set_rate_limit(a)
           /\ Limits!set_rate_limit_whitelist(a) = Senders!set_rate_limit_whitelist(a)
           /\ Limits!remove_rate_limit_whitelist(a) = Senders!remove_rate_limit_whitelist(a)
  BY DEF Limits!set_rate_limit, Senders!set_rate_limit,
         Limits!set_rate_limit_whitelist, Senders!set_rate_limit_whitelist,
         Limits!remove_rate_limit_whitelist,
         Senders!remove_rate_limit_whitelist, Limits!bookVars, Senders!bookVars

LEMMA SameLedger == Limits!NextLedger = Senders!NextLedger
  BY DEF Limits!NextLedger, Senders!NextLedger

LEMMA SameNext == Limits!LimitsNext <=> Senders!LimitsNext
  <1>1. Limits!LimitsNext => Senders!LimitsNext
    BY SameCharged, SameUncharged, SameMigration, SamePruning, SameSettings, SameLedger,
       SameBatches
    DEF Limits!LimitsNext, Senders!LimitsNext
  <1>2. Senders!LimitsNext => Limits!LimitsNext
    BY SameCharged, SameUncharged, SameMigration, SamePruning, SameSettings, SameLedger,
       SameBatches
    DEF Limits!LimitsNext, Senders!LimitsNext
  <1> QED BY <1>1, <1>2

LEMMA SameInit == Limits!LimitsInit <=> Senders!LimitsInit
  BY DEF Limits!LimitsInit, Senders!LimitsInit

LEMMA SameExactness ==
    /\ Limits!SpendingIsExact <=> Senders!SpendingIsExact
    /\ Limits!DailySpanBound <=> Senders!DailySpanBound
  BY DEF Limits!SpendingIsExact, Senders!SpendingIsExact, Limits!WindowIsExact,
         Senders!WindowIsExact, Limits!VolumeIsLifetime,
         Senders!VolumeIsLifetime, Limits!DailySpanBound,
         Senders!DailySpanBound, Limits!Routed, Senders!Routed, Limits!Books,
         Senders!Books, Limits!load_user_record, Senders!load_user_record,
         Limits!SumFunctionOnSet, Senders!SumFunctionOnSet,
         Limits!FoldFunctionOnSet, Senders!FoldFunctionOnSet,
         Limits!MapThenFoldSet, Senders!MapThenFoldSet

\* RouterLimits asks of its constants no more than the router does.
LEMMA LimitsAreParameters ==
    /\ NoTime \notin Nat
    /\ NoRecord \notin [reset : Nat \cup {NoTime}, spent : Nat, volume : Nat]
    /\ LimitEntries \cup UnchargedEntries \subseteq Addr \X (Nat \ {0})
    /\ {Day, DailyMax, DefaultRateLimit} \subseteq Nat \ {0}
    /\ {MaxTime, MaxRateLimit, MaxBatch} \subseteq Nat
    /\ 0 \in 0..MaxTime
    /\ RateLimits \subseteq Nat
    /\ LegacyRecords \subseteq Senders!LegacyRecord
    /\ \A r \in LegacyRecords : r.reset = NoTime => r.spent = 0 /\ r.volume > 0
  <1>1. LegacyRecords \subseteq Senders!LegacyRecord
    <2>1. LegacyRecords \subseteq [reset : {0, NoTime}, spent : 0..DailyMax, volume : Nat]
      BY EntriesAssumption DEF EntriesAssumption
    <2>2. (0..0) \cup {NoTime} = {0, NoTime}
      OBVIOUS
    <2> QED BY <2>1, <2>2 DEF Senders!LegacyRecord
  <1>2. NoTime \notin Nat /\ MaxTime \in Nat
    BY AccessAssumption DEF AccessAssumption
  <1>3. MaxRateLimit \in Nat /\ MaxBatch \in Nat
    BY EntriesAssumption DEF EntriesAssumption
  <1>4. /\ NoRecord \notin [reset : Nat \cup {NoTime}, spent : Nat, volume : Nat]
        /\ LimitEntries \cup UnchargedEntries \subseteq Addr \X (Nat \ {0})
        /\ {Day, DailyMax, DefaultRateLimit} \subseteq Nat \ {0}
        /\ RateLimits \subseteq Nat
        /\ \A r \in LegacyRecords : r.reset = NoTime => r.spent = 0 /\ r.volume > 0
    BY EntriesAssumption DEF EntriesAssumption
  <1> QED BY <1>1, <1>2, <1>3, <1>4

\* In the whole router the window of a sender is exact and its volume complete,
\* no day holds more than two full windows, and no payment takes a slot beyond
\* the cap, whichever routes, quotes, relays and swaps the payments take.
THEOREM RouterKeepsLimits ==
    ServicesSpec => /\ [](Limits!SpendingIsExact /\ Limits!DailySpanBound)
                    /\ Limits!RateCapHolds
  <1>1. ServicesSpec => Senders!LimitsSpec
    <2>1. ServicesInit => Senders!LimitsInit
      BY SameInit DEF ServicesInit, SwapsInit, PaymentsInit
    <2>2. [ServicesNext]_allVars => [Senders!LimitsNext]_(Senders!limitsVars)
      BY CallsObey, SameNext DEF Limits!limitsVars, Senders!limitsVars
    <2> QED BY <2>1, <2>2, PTL DEF ServicesSpec, Senders!LimitsSpec
  <1>2. Senders!LimitsSpec
          => [](Senders!SpendingIsExact /\ Senders!DailySpanBound)
    BY LimitsAreParameters, Senders!SpendingStaysExact, Senders!DailySpansAreBounded, PTL
  <1>3. ServicesSpec => Limits!RateCapHolds
    <2>1. Senders!LimitsSpec => Senders!RateCapHolds
      BY LimitsAreParameters, Senders!RateCapsHold
    <2>2. [\A a \in Addr : charged'[a] > charged[a] => charged'[a] <= rateLimit
             ]_(Senders!limitsVars)
            => [\A a \in Addr : charged'[a] > charged[a] => charged'[a] <= rateLimit
                 ]_(Limits!limitsVars)
      BY DEF Limits!limitsVars, Senders!limitsVars
    <2> QED BY <1>1, <2>1, <2>2, PTL DEF Limits!RateCapHolds, Senders!RateCapHolds
  <1> QED BY <1>1, <1>2, <1>3, SameExactness, PTL
=============================================================================
