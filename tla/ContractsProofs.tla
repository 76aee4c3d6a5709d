--------------------------- MODULE ContractsProofs ---------------------------
(***************************************************************************)
(* What is signed once is used once, and what is granted is the most that  *)
(* is spent, in the single-purpose contracts, for all parties, messages    *)
(* and amounts: a message in use is tied to the nonce, the nullifier or    *)
(* the mark that its use leaves behind.  And their books add up: the       *)
(* supply of the token to its balances, what is locked to the funds of the *)
(* escrows, the pool of the flash loans to the fees it has earned; the     *)
(* counters and the capital of the yield-bearing escrow to its open        *)
(* escrows; and the price that the oracle answers is the mean of the       *)
(* prices it was told.                                                     *)
(***************************************************************************)
EXTENDS SignedMessages, TimelockEscrow, FlashLoan, TwapOracle, YieldEscrow,
        SumTheorems, SequencesExt

-----------------------------------------------------------------------------
(* Grants of the pausable token.                                           *)

GrantsTyped ==
    /\ allowances \in [TokenPair -> [amount : Nat, expires : Nat]]
    /\ granted \in [TokenPair -> Nat]
    /\ spent \in [TokenPair -> Nat]

GrantsInv == GrantsTyped /\ GrantsBound

LEMMA GrantsInitially == TokenInit => GrantsInv
  BY DEF TokenInit, GrantsInv, GrantsTyped, GrantsBound, NoAllowance

LEMMA StoredAllowance ==
    ASSUME NEW n \in Nat, NEW t \in Nat
    PROVE  /\ stored_allowance(n, t) \in [amount : Nat, expires : Nat]
           /\ stored_allowance(n, t).amount = n
  BY DEF stored_allowance, NoAllowance

\* A grant starts from nothing spent.
LEMMA GrantKeeps ==
    ASSUME GrantsInv, NEW o \in Party, NEW s \in Party, NEW n \in Nat, NEW t \in Nat,
           Grant(o, s, n, t)
    PROVE  GrantsInv'
  <1> DEFINE pair == <<o, s>>
             b == stored_allowance(n, t)
  <1>1. pair \in TokenPair /\ b \in [amount : Nat, expires : Nat] /\ b.amount = n
    BY StoredAllowance DEF TokenPair
  <1>2. /\ allowances' = [allowances EXCEPT ![pair] = b]
        /\ granted' = [granted EXCEPT ![pair] = n]
        /\ spent' = [spent EXCEPT ![pair] = 0]
    BY DEF Grant
  <1> HIDE DEF pair, b
  <1>3. GrantsTyped'
    BY <1>1, <1>2 DEF GrantsInv, GrantsTyped
  <1>4. ASSUME NEW p \in TokenPair
        PROVE  spent'[p] + allowances'[p].amount <= granted'[p]
    BY <1>1, <1>2 DEF GrantsInv, GrantsTyped, GrantsBound
  <1> QED BY <1>3, <1>4 DEF GrantsInv, GrantsBound

\* What is spent is taken off what is left; an expired rest counts as nothing.
LEMMA SpendKeeps ==
    ASSUME GrantsInv, NEW o \in Party, NEW s \in Party, NEW n \in Nat, Spend(o, s, n)
    PROVE  GrantsInv'
  <1> DEFINE pair == <<o, s>>
             a == read_allowance(o, s)
             b == stored_allowance(a.amount - n, a.expires)
  <1>1. pair \in TokenPair /\ allowances[pair] \in [amount : Nat, expires : Nat]
    BY DEF TokenPair, GrantsInv, GrantsTyped
  <1>2. /\ a \in [amount : Nat, expires : Nat]
        /\ a.amount <= allowances[pair].amount
    BY <1>1 DEF read_allowance
  <1>3. /\ a.amount >= n
        /\ allowances' = [allowances EXCEPT ![pair] = b]
        /\ spent' = [spent EXCEPT ![pair] = @ + n]
        /\ granted' = granted
    BY DEF Spend
  <1> HIDE DEF pair, a
  <1>4. a.amount \in Nat /\ a.expires \in Nat /\ a.amount - n \in Nat
    BY <1>2, <1>3
  <1>5. b \in [amount : Nat, expires : Nat] /\ b.amount = a.amount - n
    BY <1>4, StoredAllowance
  <1> HIDE DEF b
  <1>6. GrantsTyped'
    BY <1>1, <1>3, <1>5 DEF GrantsInv, GrantsTyped
  <1>7. ASSUME NEW p \in TokenPair
        PROVE  spent'[p] + allowances'[p].amount <= granted'[p]
    <2>1. /\ spent[p] \in Nat /\ granted[p] \in Nat /\ allowances[p].amount \in Nat
          /\ spent[p] + allowances[p].amount <= granted[p]
      BY DEF GrantsInv, GrantsTyped, GrantsBound
    <2>2. CASE p = pair
      BY <1>1, <1>2, <1>3, <1>4, <1>5, <2>1, <2>2 DEF GrantsInv, GrantsTyped
    <2>3. CASE p # pair
      BY <1>3, <2>1, <2>3 DEF GrantsInv, GrantsTyped
    <2> QED BY <2>2, <2>3
  <1> QED BY <1>6, <1>7 DEF GrantsInv, GrantsBound

\* The calls that grant and spend nothing.
LEMMA GrantsRest ==
    ASSUME GrantsInv, UNCHANGED grantVars
    PROVE  GrantsInv'
  BY DEF grantVars, GrantsInv, GrantsTyped, GrantsBound

LEMMA ControlLeavesGrants == ControlStep => UNCHANGED <<grantVars, permitNonce, permitted>>
  BY DEF ControlStep, token_initialize, AdminCall, token_set_admin, set_paused,
         set_frozen, cancel_freeze, freeze_account_until, cancel_freeze_until,
         set_compliance_hook, set_max_supply

LEMMA MoneyLeavesPermits == MoneyStep => UNCHANGED <<permitNonce, permitted>>
  BY DEF MoneyStep, mint, batch_mint, burn, burn_from, transfer_checked,
         transfer_from_checked

LEMMA MoneyKeepsGrants == GrantsInv /\ MoneyStep => GrantsInv'
  <1> SUFFICES ASSUME GrantsInv, MoneyStep PROVE GrantsInv'
    OBVIOUS
  <1>0. TokenAmounts \subseteq Nat
    BY TokenAssumption
  <1>1. ASSUME NEW a \in Party, NEW n \in TokenAmounts, mint(a, n)
        PROVE  GrantsInv'
    BY <1>1, GrantsRest DEF mint, batch_mint
  <1>2. ASSUME NEW ps \in MintBatches, batch_mint(ps)
        PROVE  GrantsInv'
    BY <1>2, GrantsRest DEF batch_mint
  <1>3. ASSUME NEW a \in Party, NEW n \in TokenAmounts, burn(a, n)
        PROVE  GrantsInv'
    BY <1>3, GrantsRest DEF burn
  <1>4. ASSUME NEW s \in Party, NEW a \in Party, NEW n \in TokenAmounts, burn_from(s, a, n)
        PROVE  GrantsInv'
    BY <1>0, <1>4, SpendKeeps DEF burn_from
  <1>5. ASSUME NEW a \in Party, NEW b \in Party, NEW n \in TokenAmounts,
               transfer_checked(a, b, n)
        PROVE  GrantsInv'
    BY <1>5, GrantsRest DEF transfer_checked
  <1>6. ASSUME NEW s \in Party, NEW a \in Party, NEW b \in Party, NEW n \in TokenAmounts,
               transfer_from_checked(s, a, b, n)
        PROVE  GrantsInv'
    BY <1>0, <1>6, SpendKeeps DEF transfer_from_checked
  <1> QED BY <1>1, <1>2, <1>3, <1>4, <1>5, <1>6 DEF MoneyStep

LEMMA GrantStepKeepsGrants == GrantsInv /\ GrantStep => GrantsInv'
  <1> SUFFICES ASSUME GrantsInv, GrantStep PROVE GrantsInv'
    OBVIOUS
  <1>1. ASSUME NEW g \in Approvals, approve(g)
        PROVE  GrantsInv'
    <2>1. g.owner \in Party /\ g.spender \in Party /\ g.value \in Nat /\ g.expires \in Nat
      BY TokenAssumption
    <2> QED BY <1>1, <2>1, GrantKeeps DEF approve
  <1>2. ASSUME NEW p \in Permits, permit(p)
        PROVE  GrantsInv'
    <2>1. p.owner \in Party /\ p.spender \in Party /\ p.value \in Nat /\ Forever \in Nat
      BY TokenAssumption
    <2> QED BY <1>2, <2>1, GrantKeeps DEF permit
  <1> QED BY <1>1, <1>2 DEF GrantStep

LEMMA GrantsStep == GrantsInv /\ [TokenNext]_<<tokenVars, clock>> => GrantsInv'
  <1> SUFFICES ASSUME GrantsInv, [TokenNext]_<<tokenVars, clock>> PROVE GrantsInv'
    OBVIOUS
  <1>1. CASE ControlStep
    BY <1>1, ControlLeavesGrants, GrantsRest
  <1>2. CASE MoneyStep
    BY <1>2, MoneyKeepsGrants
  <1>3. CASE GrantStep
    BY <1>3, GrantStepKeepsGrants
  <1>4. CASE TokenTimePasses
    BY <1>4, GrantsRest DEF TokenTimePasses
  <1>5. CASE UNCHANGED <<tokenVars, clock>>
    BY <1>5, GrantsRest DEF tokenVars
  <1> QED BY <1>1, <1>2, <1>3, <1>4, <1>5 DEF TokenNext

\* No spender gets more out of a grant than was granted, however approvals,
\* permits, transfers and burns follow one another (pausable_token
\* lib.rs:404-440, 517-589, 860-884).
THEOREM GrantsAreBounds == TokenSpec => []GrantsBound
  <1>1. GrantsInv => GrantsBound
    BY DEF GrantsInv
  <1> QED BY <1>1, GrantsInitially, GrantsStep, PTL DEF TokenSpec

-----------------------------------------------------------------------------
(* The supply of the pausable token.                                       *)

mint_total(n, p) == n + p[2]
mint_credit(s, p) == credit(s, p[1], p[2])

Totals == INSTANCE FoldTheorems WITH Op <- mint_total
Credits == INSTANCE FoldTheorems WITH Op <- mint_credit

LEMMA MintedIsLoop ==
    ASSUME NEW ps
    PROVE  FoldLeft(LAMBDA n, p : n + p[2], 0, ps) = Totals!Looped(0, ps)
  BY DEF FoldLeft, MapThenFoldSet, Totals!Looped, Totals!IsLoopTable, Totals!LoopEntry,
         mint_total, Max, Totals!Highest

LEMMA CreditsAreLoop ==
    ASSUME NEW s, NEW ps
    PROVE  FoldLeft(LAMBDA t, p : credit(t, p[1], p[2]), s, ps) = Credits!Looped(s, ps)
  BY DEF FoldLeft, MapThenFoldSet, Credits!Looped, Credits!IsLoopTable, Credits!LoopEntry,
         mint_credit, Max, Credits!Highest

Balances == [Party -> Nat]
HeldIn(s) == SumFunctionOnSet(s, Party)

\* One credit raises the sum of a sheet by its amount.
LEMMA CreditRaisesSum ==
    ASSUME NEW s \in Balances, NEW a \in Party, NEW n \in Int, s[a] + n >= 0
    PROVE  /\ credit(s, a, n) \in Balances
           /\ HeldIn(credit(s, a, n)) = HeldIn(s) + n
           /\ HeldIn(s) \in Nat
  <1> DEFINE g == credit(s, a, n)
  <1>1. g \in Balances /\ g[a] = s[a] + n /\ \A b \in Party : b # a => g[b] = s[b]
    BY DEF Balances, credit
  <1>2. \A b \in Party : s[b] \in Nat /\ g[b] \in Nat
    BY <1>1 DEF Balances
  <1> HIDE DEF g
  <1>3. IsFiniteSet(Party)
    BY LedgerAssumption
  <1>4. HeldIn(g) = HeldIn(s) - s[a] + g[a] /\ HeldIn(s) \in Int
    BY <1>1, <1>2, <1>3, SumUpdate DEF HeldIn
  <1>5. HeldIn(s) \in Nat
    BY <1>2, <1>3, SumIsNatural DEF HeldIn
  <1>6. HeldIn(g) = HeldIn(s) + n
    BY <1>1, <1>2, <1>4
  <1> QED BY <1>1, <1>5, <1>6 DEF g

\* A batch raises it by the sum of its amounts.
LEMMA BatchRaisesSum ==
    ASSUME NEW s \in Balances, NEW ps \in Seq(Party \X Int),
           \A i \in DOMAIN ps : ps[i][2] > 0
    PROVE  /\ Credits!Looped(s, ps) \in Balances
           /\ Totals!Looped(0, ps) \in Nat
           /\ HeldIn(Credits!Looped(s, ps)) = HeldIn(s) + Totals!Looped(0, ps)
  <1> DEFINE n == Len(ps)
  <1>1. n \in Nat /\ DOMAIN ps = 1..n /\ \A i \in 1..n : ps[i][1] \in Party /\ ps[i][2] \in Nat
    OBVIOUS
  <1> HIDE DEF n
  <1>2. PICK t : Totals!IsTrace(t, 0, ps, n) /\ Totals!Looped(0, ps) = t[n]
    BY <1>1, Totals!LoopHasTrace
  <1>3. t[0] = 0 /\ \A i \in 1..n : t[i] = t[i - 1] + ps[i][2]
    BY <1>2 DEF Totals!IsTrace, mint_total
  <1> DEFINE W == [i \in 0..n |-> {r \in Balances : t[i] \in Nat /\ HeldIn(r) = HeldIn(s) + t[i]}]
  <1>4. s \in W[0]
    <2>1. HeldIn(s) \in Nat
      BY LedgerAssumption, SumIsNatural DEF HeldIn, Balances
    <2> QED BY <1>1, <1>3, <2>1
  <1>5. ASSUME NEW i \in 1..n, NEW r \in W[i - 1]
        PROVE  mint_credit(r, ps[i]) \in W[i]
    <2>1. /\ i - 1 \in 0..n /\ i \in 0..n
          /\ r \in Balances /\ t[i - 1] \in Nat /\ HeldIn(r) = HeldIn(s) + t[i - 1]
      BY <1>1
    <2>2. ps[i][1] \in Party /\ ps[i][2] \in Nat /\ r[ps[i][1]] + ps[i][2] >= 0
      BY <1>1, <2>1 DEF Balances
    <2>3. /\ mint_credit(r, ps[i]) \in Balances
          /\ HeldIn(mint_credit(r, ps[i])) = HeldIn(r) + ps[i][2]
      BY <2>1, <2>2, CreditRaisesSum DEF mint_credit
    <2>4. t[i] = t[i - 1] + ps[i][2]
      BY <1>3
    <2>5. HeldIn(s) \in Nat
      BY LedgerAssumption, SumIsNatural DEF HeldIn, Balances
    <2>6. t[i] \in Nat /\ HeldIn(mint_credit(r, ps[i])) = HeldIn(s) + t[i]
      BY <2>1, <2>2, <2>3, <2>4, <2>5
    <2> QED BY <2>1, <2>3, <2>6
  <1> HIDE DEF W
  <1>6. Credits!Looped(s, ps) \in W[n]
    BY <1>1, <1>4, <1>5, Credits!LoopInvariant
  <1> QED BY <1>1, <1>2, <1>6 DEF W

\* What totals are counted in has no units before there is an admin to mint.
SupplyInv ==
    /\ tokenBalance \in Balances
    /\ totalSupply \in Nat /\ maxSupply \in Nat
    /\ SupplyAddsUp
    /\ tokenAdmin = NoParty => totalSupply = 0

LEMMA SupplyInitially == TokenInit => SupplyInv
  <1> SUFFICES ASSUME TokenInit PROVE SupplyInv
    OBVIOUS
  <1>1. tokenBalance \in Balances /\ \A a \in Party : tokenBalance[a] = 0
    BY DEF TokenInit, Balances
  <1>2. HeldIn(tokenBalance) = 0
    BY <1>1, LedgerAssumption, SumOfZeros DEF HeldIn
  <1>3. DefaultCap \in Nat
    BY TokenAssumption
  <1> QED BY <1>1, <1>2, <1>3 DEF TokenInit, SupplyInv, SupplyAddsUp, HeldIn

LEMMA SupplyRest ==
    ASSUME SupplyInv, UNCHANGED <<tokenBalance, totalSupply, maxSupply>>,
           tokenAdmin' = NoParty => tokenAdmin = NoParty
    PROVE  SupplyInv'
  BY DEF SupplyInv, SupplyAddsUp

LEMMA ControlKeepsSupply == SupplyInv /\ ControlStep => SupplyInv'
  <1> SUFFICES ASSUME SupplyInv, ControlStep PROVE SupplyInv'
    OBVIOUS
  <1>0. NoParty \notin Party
    BY LedgerAssumption
  <1>1. ASSUME NEW a \in Party, token_initialize(a)
        PROVE  SupplyInv'
    <2>1. /\ totalSupply = 0 /\ totalSupply' = 0 /\ tokenBalance' = tokenBalance
          /\ maxSupply' = DefaultCap /\ tokenAdmin' = a
      BY <1>1 DEF token_initialize, SupplyInv
    <2>2. DefaultCap \in Nat
      BY TokenAssumption
    <2>3. HeldIn(tokenBalance) = 0 /\ tokenBalance \in Balances
      BY <2>1 DEF SupplyInv, SupplyAddsUp, HeldIn
    <2>4. /\ tokenBalance' \in Balances /\ SumFunctionOnSet(tokenBalance', Party) = 0
          /\ totalSupply' = 0 /\ maxSupply' \in Nat /\ tokenAdmin' # NoParty
      BY <1>0, <2>1, <2>2, <2>3 DEF HeldIn
    <2> QED BY <2>4 DEF SupplyInv, SupplyAddsUp
  <1>2. ASSUME NEW n \in SupplyCaps, set_max_supply(n)
        PROVE  SupplyInv'
    <2>1. n \in Nat
      BY TokenAssumption
    <2> QED BY <1>2, <2>1 DEF set_max_supply, AdminCall, cap_holds_supply, controlVars,
                             SupplyInv, SupplyAddsUp
  <1>3. ASSUME NEW a \in Party, token_set_admin(a)
        PROVE  SupplyInv'
    BY <1>0, <1>3, SupplyRest DEF token_set_admin, AdminCall
  <1>4. ASSUME \/ \E b \in BOOLEAN : set_paused(b)
               \/ \E a \in Freezable, b \in BOOLEAN : set_frozen(a, b)
               \/ \E a \in Freezable : cancel_freeze(a)
               \/ \E a \in Freezable, t \in FreezeTimes : freeze_account_until(a, t)
               \/ \E a \in Freezable : cancel_freeze_until(a)
               \/ \E h \in Hooks \cup {NoParty} : set_compliance_hook(h)
        PROVE  SupplyInv'
    BY <1>4, SupplyRest DEF AdminCall, set_paused, set_frozen, cancel_freeze,
         freeze_account_until, cancel_freeze_until, set_compliance_hook
  <1> QED BY <1>1, <1>2, <1>3, <1>4 DEF ControlStep

LEMMA MintKeepsSupply ==
    ASSUME SupplyInv, NEW ps \in Seq(Party \X Int), batch_mint(ps)
    PROVE  SupplyInv'
  <1>1. /\ \A i \in DOMAIN ps : ps[i][2] > 0
        /\ tokenAdmin # NoParty /\ tokenAdmin' = tokenAdmin
        /\ totalSupply + Totals!Looped(0, ps) <= maxSupply
        /\ tokenBalance' = Credits!Looped(tokenBalance, ps)
        /\ totalSupply' = totalSupply + Totals!Looped(0, ps)
        /\ maxSupply' = maxSupply
    BY MintedIsLoop, CreditsAreLoop DEF batch_mint, ByAdmin, controlVars
  <1>2. /\ Credits!Looped(tokenBalance, ps) \in Balances
        /\ Totals!Looped(0, ps) \in Nat
        /\ HeldIn(Credits!Looped(tokenBalance, ps))
             = HeldIn(tokenBalance) + Totals!Looped(0, ps)
    BY <1>1, BatchRaisesSum DEF SupplyInv
  <1> QED BY <1>1, <1>2 DEF SupplyInv, SupplyAddsUp, HeldIn

LEMMA BurnKeepsSupply ==
    ASSUME SupplyInv, NEW a \in Party, NEW n \in Nat, can_transfer(tokenBalance, a, n),
           tokenBalance' = credit(tokenBalance, a, -n), totalSupply' = totalSupply - n,
           UNCHANGED <<maxSupply, tokenAdmin>>
    PROVE  SupplyInv'
  <1>1. tokenBalance \in Balances /\ tokenBalance[a] + (-n) >= 0 /\ -n \in Int
    BY DEF SupplyInv, can_transfer, Balances
  <1>2. /\ tokenBalance' \in Balances
        /\ HeldIn(tokenBalance') = HeldIn(tokenBalance) + (-n)
    BY <1>1, CreditRaisesSum
  <1>3. HeldIn(tokenBalance') \in Nat
    BY <1>2, LedgerAssumption, SumIsNatural DEF HeldIn, Balances
  <1> QED BY <1>2, <1>3 DEF SupplyInv, SupplyAddsUp, HeldIn

\* Also a transfer to oneself.
LEMMA MoveKeepsSupply ==
    ASSUME SupplyInv, NEW a \in Party, NEW b \in Party, NEW n \in Nat,
           can_transfer(tokenBalance, a, n), tokenBalance' = moved(a, b, n),
           UNCHANGED <<totalSupply, maxSupply, tokenAdmin>>
    PROVE  SupplyInv'
  <1> DEFINE s == credit(tokenBalance, a, -n)
  <1>1. tokenBalance \in Balances /\ tokenBalance[a] + (-n) >= 0 /\ -n \in Int
    BY DEF SupplyInv, can_transfer, Balances
  <1>2. s \in Balances /\ HeldIn(s) = HeldIn(tokenBalance) + (-n) /\ HeldIn(tokenBalance) \in Nat
    BY <1>1, CreditRaisesSum
  <1>3. tokenBalance' = credit(s, b, n)
    <2> DEFINE t == credit(s, b, n)
    <2>1. tokenBalance' = [[tokenBalance EXCEPT ![a] = @ - n] EXCEPT ![b] = @ + n]
      BY DEF moved, transfer
    <2>2. ASSUME NEW x \in Party PROVE (tokenBalance')[x] = t[x]
      BY <1>1, <2>1 DEF Balances, credit
    <2>3. tokenBalance' \in [Party -> Int] /\ t \in [Party -> Int]
      BY <1>1, <2>1 DEF Balances, credit
    <2> HIDE DEF t
    <2>4. tokenBalance' = t
      BY <2>2, <2>3
    <2> QED BY <2>4 DEF t
  <1> HIDE DEF s
  <1>4. s[b] + n >= 0
    BY <1>2 DEF Balances
  <1>5. tokenBalance' \in Balances /\ HeldIn(tokenBalance') = HeldIn(s) + n
    BY <1>2, <1>3, <1>4, CreditRaisesSum
  <1>6. HeldIn(tokenBalance') = HeldIn(tokenBalance)
    BY <1>2, <1>5
  <1> QED BY <1>5, <1>6 DEF SupplyInv, SupplyAddsUp, HeldIn

LEMMA MoneyKeepsSupply == SupplyInv /\ MoneyStep => SupplyInv'
  <1> SUFFICES ASSUME SupplyInv, MoneyStep PROVE SupplyInv'
    OBVIOUS
  <1>0. TokenAmounts \subseteq Nat /\ MintBatches \subseteq Seq(Party \X Int)
    BY TokenAssumption
  <1>1. ASSUME NEW a \in Party, NEW n \in TokenAmounts, mint(a, n)
        PROVE  SupplyInv'
    <2>1. << <<a, n>> >> \in Seq(Party \X Int)
      BY <1>0
    <2> QED BY <1>1, <2>1, MintKeepsSupply DEF mint
  <1>2. ASSUME NEW ps \in MintBatches, batch_mint(ps)
        PROVE  SupplyInv'
    BY <1>0, <1>2, MintKeepsSupply
  <1>3. ASSUME NEW a \in Party, NEW n \in TokenAmounts, burn(a, n)
        PROVE  SupplyInv'
    BY <1>0, <1>3, BurnKeepsSupply DEF burn, controlVars
  <1>4. ASSUME NEW s \in Party, NEW a \in Party, NEW n \in TokenAmounts, burn_from(s, a, n)
        PROVE  SupplyInv'
    BY <1>0, <1>4, BurnKeepsSupply DEF burn_from, controlVars
  <1>5. ASSUME NEW a \in Party, NEW b \in Party, NEW n \in TokenAmounts,
               transfer_checked(a, b, n)
        PROVE  SupplyInv'
    BY <1>0, <1>5, MoveKeepsSupply DEF transfer_checked, controlVars
  <1>6. ASSUME NEW s \in Party, NEW a \in Party, NEW b \in Party, NEW n \in TokenAmounts,
               transfer_from_checked(s, a, b, n)
        PROVE  SupplyInv'
    BY <1>0, <1>6, MoveKeepsSupply DEF transfer_from_checked, controlVars
  <1> QED BY <1>1, <1>2, <1>3, <1>4, <1>5, <1>6 DEF MoneyStep

LEMMA SupplyStep == SupplyInv /\ [TokenNext]_<<tokenVars, clock>> => SupplyInv'
  <1> SUFFICES ASSUME SupplyInv, [TokenNext]_<<tokenVars, clock>> PROVE SupplyInv'
    OBVIOUS
  <1>1. CASE ControlStep
    BY <1>1, ControlKeepsSupply
  <1>2. CASE MoneyStep
    BY <1>2, MoneyKeepsSupply
  <1>3. CASE GrantStep
    BY <1>3, SupplyRest DEF GrantStep, approve, permit, controlVars
  <1>4. CASE TokenTimePasses
    BY <1>4, SupplyRest DEF TokenTimePasses, controlVars
  <1>5. CASE UNCHANGED <<tokenVars, clock>>
    BY <1>5, SupplyRest DEF tokenVars, controlVars
  <1> QED BY <1>1, <1>2, <1>3, <1>4, <1>5 DEF TokenNext

\* The supply counter is the sum of the balances and stays under the cap,
\* whatever is minted in batches, sent to oneself or burned by others, and
\* however the cap moves (pausable_token lib.rs:456-472, 591-661, 860-880).
THEOREM SupplyIsTheSum == TokenSpec => []SupplyAddsUp
  <1>1. SupplyInv => SupplyAddsUp
    BY DEF SupplyInv
  <1> QED BY <1>1, SupplyInitially, SupplyStep, PTL DEF TokenSpec

-----------------------------------------------------------------------------
(* Movements of the pausable token.                                        *)

\* One step of TokensMoveByRule.
MoveRule ==
    /\ \A a \in Party : FrozenMeansStill(a)
    /\ \A a, b \in Party : Compliant(a, b)
    /\ \A p \in TokenPair : Unexpired(p)

\* A call that leaves balances and the record of what was spent alone.
LEMMA RestMovesByRule ==
    ASSUME SupplyInv, GrantsInv, UNCHANGED <<tokenBalance, spent>>
    PROVE  MoveRule
  <1>1. \A a \in Party : tokenBalance[a] \in Nat
    BY DEF SupplyInv, Balances
  <1>2. \A p \in TokenPair : spent[p] \in Nat
    BY DEF GrantsInv, GrantsTyped
  <1> QED BY <1>1, <1>2 DEF MoveRule, FrozenMeansStill, Compliant, Unexpired

\* A grant restarts the count of what is spent.
LEMMA GrantMovesByRule ==
    ASSUME SupplyInv, GrantsInv, NEW a \in Party, NEW b \in Party, NEW n, NEW t,
           Grant(a, b, n, t), UNCHANGED tokenBalance
    PROVE  MoveRule
  <1>1. \A x \in Party : tokenBalance[x] \in Nat
    BY DEF SupplyInv, Balances
  <1>2. \A p \in TokenPair : spent[p] \in Nat /\ ~(spent'[p] > spent[p])
    <2>1. spent \in [TokenPair -> Nat] /\ spent' = [spent EXCEPT ![<<a, b>>] = 0]
      BY DEF GrantsInv, GrantsTyped, Grant
    <2> QED BY <2>1
  <1> QED BY <1>1, <1>2 DEF MoveRule, FrozenMeansStill, Compliant, Unexpired

\* More than nothing is spent of an allowance only while it lasts.
LEMMA SpendIsInTime ==
    ASSUME GrantsInv, clock \in Nat, NEW a \in Party, NEW b \in Party, NEW n \in Nat,
           Spend(a, b, n)
    PROVE  \A p \in TokenPair : Unexpired(p)
  <1>1. SUFFICES ASSUME NEW p \in TokenPair, spent'[p] > spent[p]
                 PROVE  clock <= allowances[p].expires
    BY DEF Unexpired
  <1>2. /\ allowances \in [TokenPair -> [amount : Nat, expires : Nat]]
        /\ spent \in [TokenPair -> Nat]
        /\ spent' = [spent EXCEPT ![<<a, b>>] = @ + n]
        /\ read_allowance(a, b).amount >= n
    BY DEF GrantsInv, GrantsTyped, Spend
  <1>3. p = <<a, b>> /\ n > 0
    BY <1>1, <1>2
  <1>4. ~(allowances[p].amount > 0 /\ allowances[p].expires < clock)
    <2> SUFFICES ASSUME allowances[p].amount > 0, allowances[p].expires < clock PROVE FALSE
      OBVIOUS
    <2>1. read_allowance(a, b) = [allowances[p] EXCEPT !.amount = 0]
      BY <1>3 DEF read_allowance
    <2>2. read_allowance(a, b).amount = 0
      BY <1>2, <2>1
    <2> QED BY <1>2, <1>3, <2>2
  <1>5. allowances[p].amount > 0
    <2> SUFFICES ASSUME ~(allowances[p].amount > 0) PROVE FALSE
      OBVIOUS
    <2>1. read_allowance(a, b) = allowances[p]
      BY <1>3 DEF read_allowance
    <2> QED BY <1>2, <1>3, <2>1
  <1> QED BY <1>2, <1>4, <1>5

\* A mint only raises the balances of accounts that may move.
LEMMA CreditsReachMovable ==
    ASSUME NEW s \in Balances, NEW ps \in Seq(Party \X Int), NEW M,
           \A i \in DOMAIN ps : ps[i][2] > 0 /\ ps[i][1] \in M
    PROVE  \A a \in Party : /\ Credits!Looped(s, ps)[a] >= s[a]
                            /\ a \notin M => Credits!Looped(s, ps)[a] = s[a]
  <1> DEFINE n == Len(ps)
             W == {r \in Balances : \A a \in Party : /\ r[a] >= s[a]
                                                     /\ a \notin M => r[a] = s[a]}
  <1>1. n \in Nat /\ DOMAIN ps = 1..n /\ \A i \in 1..n : ps[i][1] \in Party /\ ps[i][2] \in Nat
    OBVIOUS
  <1>2. s \in W
    BY DEF Balances
  <1>3. ASSUME NEW i \in 1..n, NEW r \in W PROVE mint_credit(r, ps[i]) \in W
    <2>1. r \in Balances /\ \A a \in Party : r[a] \in Nat /\ s[a] \in Nat
      BY DEF Balances
    <2>2. ps[i][1] \in Party /\ ps[i][2] \in Nat /\ ps[i][1] \in M
      BY <1>1
    <2>3. mint_credit(r, ps[i]) \in Balances
      BY <2>1, <2>2 DEF mint_credit, credit, Balances
    <2>4. \A a \in Party : mint_credit(r, ps[i])[a] = IF a = ps[i][1] THEN r[a] + ps[i][2] ELSE r[a]
      BY <2>1, <2>2 DEF mint_credit, credit, Balances
    <2> QED BY <2>1, <2>2, <2>3, <2>4
  <1> HIDE DEF n, W
  <1>4. Credits!Looped(s, ps) \in W
    BY <1>1, <1>2, <1>3, Credits!LoopKeeps
  <1> QED BY <1>4 DEF W

LEMMA MintMovesByRule ==
    ASSUME SupplyInv, GrantsInv, NEW ps \in Seq(Party \X Int), batch_mint(ps)
    PROVE  MoveRule
  <1> DEFINE M == {a \in Party : assert_movable(a)}
  <1>1. /\ tokenBalance \in Balances
        /\ tokenBalance' = Credits!Looped(tokenBalance, ps)
        /\ \A i \in DOMAIN ps : ps[i][2] > 0 /\ ps[i][1] \in M
        /\ caller' = tokenAdmin /\ spent' = spent
    <2>1. /\ tokenBalance' = Credits!Looped(tokenBalance, ps)
          /\ \A i \in DOMAIN ps : ps[i][2] > 0 /\ assert_movable(ps[i][1])
          /\ caller' = tokenAdmin /\ spent' = spent
      BY CreditsAreLoop DEF batch_mint, ByAdmin, grantVars
    <2>2. \A i \in DOMAIN ps : ps[i][1] \in Party
      OBVIOUS
    <2> QED BY <2>1, <2>2 DEF SupplyInv
  <1>2. \A a \in Party : /\ tokenBalance'[a] >= tokenBalance[a]
                         /\ a \notin M => tokenBalance'[a] = tokenBalance[a]
    BY <1>1, CreditsReachMovable
  <1>3. tokenBalance' \in Balances
    BY <1>1, BatchRaisesSum
  <1>4. \A a \in Party : tokenBalance[a] \in Nat /\ tokenBalance'[a] \in Nat
    BY <1>1, <1>3 DEF Balances
  <1>5. \A p \in TokenPair : spent[p] \in Nat
    BY DEF GrantsInv, GrantsTyped
  <1>6. \A a \in Party : FrozenMeansStill(a)
    BY <1>1, <1>2 DEF FrozenMeansStill, assert_movable
  <1>7. \A a, b \in Party : Compliant(a, b)
    BY <1>2, <1>4 DEF Compliant
  <1>8. \A p \in TokenPair : Unexpired(p)
    BY <1>1, <1>5 DEF Unexpired
  <1> QED BY <1>6, <1>7, <1>8 DEF MoveRule

LEMMA BurnMovesByRule ==
    ASSUME SupplyInv, NEW a \in Party, NEW n \in Nat, assert_movable(a),
           tokenBalance' = credit(tokenBalance, a, -n),
           caller' # tokenAdmin => ~is_frozen(caller'),
           \A p \in TokenPair : Unexpired(p)
    PROVE  MoveRule
  <1>1. \A b \in Party : /\ tokenBalance[b] \in Nat
                         /\ tokenBalance'[b] = IF b = a THEN tokenBalance[b] - n ELSE tokenBalance[b]
    BY DEF SupplyInv, Balances, credit
  <1>2. \A b \in Party : FrozenMeansStill(b)
    BY <1>1 DEF FrozenMeansStill, assert_movable
  <1>3. \A b, c \in Party : Compliant(b, c)
    BY <1>1 DEF Compliant
  <1> QED BY <1>2, <1>3 DEF MoveRule

LEMMA TransferMovesByRule ==
    ASSUME SupplyInv, NEW a \in Party, NEW b \in Party, NEW n \in Nat,
           assert_settled(a, b), validate_compliance(a, b),
           tokenBalance' = moved(a, b, n),
           caller' # tokenAdmin => ~is_frozen(caller'),
           \A p \in TokenPair : Unexpired(p)
    PROVE  MoveRule
  <1>1. \A c \in Party :
           /\ tokenBalance[c] \in Nat
           /\ c \notin {a, b} => tokenBalance'[c] = tokenBalance[c]
           /\ c # a => tokenBalance'[c] >= tokenBalance[c]
           /\ c # b => tokenBalance'[c] <= tokenBalance[c]
           /\ a = b => tokenBalance'[c] = tokenBalance[c]
           /\ tokenBalance'[c] \in Int
    BY DEF SupplyInv, Balances, moved, transfer
  <1>2. \A c \in Party : FrozenMeansStill(c)
    BY <1>1 DEF FrozenMeansStill, assert_settled, assert_movable
  <1>3. ASSUME NEW c \in Party, NEW d \in Party PROVE Compliant(c, d)
    <2> SUFFICES ASSUME tokenBalance'[c] < tokenBalance[c], tokenBalance'[d] > tokenBalance[d]
                 PROVE  c = a /\ d = b
      BY DEF Compliant, validate_compliance
    <2> QED BY <1>1
  <1> QED BY <1>2, <1>3 DEF MoveRule

LEMMA MoneyMovesByRule ==
    ASSUME SupplyInv, GrantsInv, clock \in Nat, MoneyStep
    PROVE  MoveRule
  <1>0. TokenAmounts \subseteq Nat /\ MintBatches \subseteq Seq(Party \X Int)
    BY TokenAssumption
  <1>1. ASSUME spent' = spent PROVE \A p \in TokenPair : Unexpired(p)
    BY <1>1 DEF Unexpired, GrantsInv, GrantsTyped
  <1>2. ASSUME NEW a \in Party, NEW n \in TokenAmounts, mint(a, n) PROVE MoveRule
    <2>1. << <<a, n>> >> \in Seq(Party \X Int)
      BY <1>0
    <2> QED BY <1>2, <2>1, MintMovesByRule DEF mint
  <1>3. ASSUME NEW ps \in MintBatches, batch_mint(ps) PROVE MoveRule
    BY <1>0, <1>3, MintMovesByRule
  <1>4. ASSUME NEW a \in Party, NEW n \in TokenAmounts, burn(a, n) PROVE MoveRule
    <2>1. assert_movable(a) /\ caller' = a /\ spent' = spent
          /\ tokenBalance' = credit(tokenBalance, a, -n)
      BY <1>4 DEF burn, grantVars
    <2>2. caller' # tokenAdmin => ~is_frozen(caller')
      BY <2>1 DEF assert_movable
    <2> QED BY <1>0, <1>1, <2>1, <2>2, BurnMovesByRule
  <1>5. ASSUME NEW s \in Party, NEW a \in Party, NEW n \in TokenAmounts, burn_from(s, a, n)
        PROVE  MoveRule
    <2>1. assert_movable(a) /\ assert_movable(s) /\ caller' = s /\ Spend(a, s, n)
          /\ tokenBalance' = credit(tokenBalance, a, -n)
      BY <1>5 DEF burn_from, assert_settled
    <2>2. caller' # tokenAdmin => ~is_frozen(caller')
      BY <2>1 DEF assert_movable
    <2>3. \A p \in TokenPair : Unexpired(p)
      BY <1>0, <2>1, SpendIsInTime
    <2> QED BY <1>0, <2>1, <2>2, <2>3, BurnMovesByRule
  <1>6. ASSUME NEW a \in Party, NEW b \in Party, NEW n \in TokenAmounts,
               transfer_checked(a, b, n)
        PROVE  MoveRule
    <2>1. assert_settled(a, b) /\ validate_compliance(a, b) /\ caller' = a
          /\ tokenBalance' = moved(a, b, n) /\ spent' = spent
      BY <1>6 DEF transfer_checked, grantVars
    <2>2. caller' # tokenAdmin => ~is_frozen(caller')
      BY <2>1 DEF assert_settled, assert_movable
    <2> QED BY <1>0, <1>1, <2>1, <2>2, TransferMovesByRule
  <1>7. ASSUME NEW s \in Party, NEW a \in Party, NEW b \in Party, NEW n \in TokenAmounts,
               transfer_from_checked(s, a, b, n)
        PROVE  MoveRule
    <2>1. assert_settled(a, b) /\ validate_compliance(a, b) /\ caller' = s
          /\ tokenBalance' = moved(a, b, n) /\ Spend(a, s, n) /\ assert_movable(s)
      BY <1>7 DEF transfer_from_checked
    <2>2. caller' # tokenAdmin => ~is_frozen(caller')
      BY <2>1 DEF assert_movable
    <2>3. \A p \in TokenPair : Unexpired(p)
      BY <1>0, <2>1, SpendIsInTime
    <2> QED BY <1>0, <2>1, <2>2, <2>3, TransferMovesByRule
  <1> QED BY <1>2, <1>3, <1>4, <1>5, <1>6, <1>7, <1>1 DEF MoneyStep

ClockRuns == clock \in Nat

LEMMA ClockStep ==
    /\ clock \in Nat => ClockRuns
    /\ ClockRuns /\ [TokenNext]_<<tokenVars, clock>> => ClockRuns'
  <1>1. ControlStep \/ MoneyStep \/ GrantStep => clock' = clock
    BY DEF ControlStep, MoneyStep, GrantStep, token_initialize, AdminCall,
           token_set_admin, set_paused, set_frozen, cancel_freeze,
           freeze_account_until, cancel_freeze_until, set_compliance_hook,
           set_max_supply, mint, batch_mint, burn, burn_from, transfer_checked,
           transfer_from_checked, approve, permit
  <1> QED BY <1>1 DEF ClockRuns, TokenNext, TokenTimePasses, TimePasses

LEMMA StepMovesByRule ==
    SupplyInv /\ GrantsInv /\ clock \in Nat /\ [TokenNext]_<<tokenVars, clock>>
        => [MoveRule]_tokenVars
  <1> SUFFICES ASSUME SupplyInv, GrantsInv, clock \in Nat, TokenNext
               PROVE  MoveRule
    BY DEF tokenVars
  <1>1. CASE ControlStep
    <2>1. UNCHANGED grantVars /\ (tokenBalance' = tokenBalance)
      BY <1>1, ControlLeavesGrants
         DEF ControlStep, token_initialize, AdminCall, token_set_admin, set_paused,
             set_frozen, cancel_freeze, freeze_account_until, cancel_freeze_until,
             set_compliance_hook, set_max_supply
    <2> QED BY <2>1, RestMovesByRule DEF grantVars
  <1>2. CASE MoneyStep
    BY <1>2, MoneyMovesByRule
  <1>3. CASE GrantStep
    <2>1. ASSUME NEW g \in Approvals, approve(g) PROVE MoveRule
      <3>1. g.owner \in Party /\ g.spender \in Party
        BY TokenAssumption
      <3> QED BY <2>1, <3>1, GrantMovesByRule DEF approve
    <2>2. ASSUME NEW p \in Permits, permit(p) PROVE MoveRule
      <3>1. p.owner \in Party /\ p.spender \in Party
        BY TokenAssumption
      <3> QED BY <2>2, <3>1, GrantMovesByRule DEF permit
    <2> QED BY <1>3, <2>1, <2>2 DEF GrantStep
  <1>4. CASE TokenTimePasses
    BY <1>4, RestMovesByRule DEF TokenTimePasses, grantVars
  <1> QED BY <1>1, <1>2, <1>3, <1>4 DEF TokenNext

\* Balances move by the rules alone: none while the token is paused, none of
\* a frozen account or by a frozen spender, none past the compliance hook, and
\* no allowance is spent after its expiry (pausable_token lib.rs:385-440,
\* 591-661, 810-884, 955-1010).
THEOREM BalancesMoveByRule == TokenSpec => TokensMoveByRule
  <1>1. TokenSpec => []GrantsInv
    BY GrantsInitially, GrantsStep, PTL DEF TokenSpec
  <1>2. TokenSpec => []SupplyInv
    BY SupplyInitially, SupplyStep, PTL DEF TokenSpec
  <1>3. TokenSpec => []ClockRuns
    BY ClockStep, PTL DEF TokenSpec
  <1>4. SupplyInv /\ GrantsInv /\ ClockRuns /\ [TokenNext]_<<tokenVars, clock>>
          => [/\ \A a \in Party : FrozenMeansStill(a)
              /\ \A a, b \in Party : Compliant(a, b)
              /\ \A p \in TokenPair : Unexpired(p)]_tokenVars
    BY StepMovesByRule DEF MoveRule, ClockRuns
  <1> QED BY <1>1, <1>2, <1>3, <1>4, PTL DEF TokenSpec, TokensMoveByRule

-----------------------------------------------------------------------------
(* Permits of the pausable token.                                          *)

PermitsInv ==
    /\ permitNonce \in [Party -> Nat]
    /\ permitted \in [Permits -> Nat]
    /\ PermitsRunOnce

\* A permit that runs has the current nonce, so none with it has run before.
LEMMA PermitKeeps ==
    ASSUME PermitsInv, NEW p \in Permits, permit(p)
    PROVE  PermitsInv'
  <1>1. p.owner \in Party /\ p.nonce \in Nat
    BY TokenAssumption
  <1>2. /\ p.nonce = permitNonce[p.owner]
        /\ permitNonce' = [permitNonce EXCEPT ![p.owner] = @ + 1]
        /\ permitted' = [permitted EXCEPT ![p] = @ + 1]
    BY DEF permit, next_nonce
  <1>3. permitNonce' \in [Party -> Nat] /\ permitted' \in [Permits -> Nat]
    BY <1>1, <1>2 DEF PermitsInv
  <1>4. \A q \in Permits : q.owner \in Party /\ q.nonce \in Nat
    BY TokenAssumption
  <1>5. ASSUME NEW q \in Permits, q.owner = p.owner, permitted[q] > 0
        PROVE  q.nonce < p.nonce
    BY <1>2, <1>5 DEF PermitsInv, PermitsRunOnce
  <1>6. permitted[p] = 0
    BY <1>1, <1>5 DEF PermitsInv
  <1>7. permitted'[p] = 1 /\ \A q \in Permits \ {p} : permitted'[q] = permitted[q]
    BY <1>2, <1>6 DEF PermitsInv
  <1>8. \A q \in Permits : permitted'[q] <= 1
    BY <1>7 DEF PermitsInv, PermitsRunOnce
  <1>9. ASSUME NEW q \in Permits, permitted'[q] > 0
        PROVE  q.nonce < permitNonce'[q.owner]
    <2>1. CASE q = p
      BY <1>1, <1>2, <2>1 DEF PermitsInv
    <2>2. CASE q # p
      <3>1. q.nonce < permitNonce[q.owner]
        BY <1>7, <1>9, <2>2 DEF PermitsInv, PermitsRunOnce
      <3>2. permitNonce'[q.owner] >= permitNonce[q.owner]
        BY <1>1, <1>2, <1>4 DEF PermitsInv
      <3> QED BY <1>3, <1>4, <3>1, <3>2 DEF PermitsInv
    <2> QED BY <2>1, <2>2
  <1>10. ASSUME NEW q \in Permits, NEW r \in Permits, permitted'[q] > 0,
                permitted'[r] > 0, q.owner = r.owner, q.nonce = r.nonce
         PROVE  q = r
    <2>1. CASE q = p /\ r # p
      BY <1>5, <1>7, <1>4, <1>10, <2>1
    <2>2. CASE q # p /\ r = p
      BY <1>5, <1>7, <1>4, <1>10, <2>2
    <2>3. CASE q # p /\ r # p
      BY <1>7, <1>10, <2>3 DEF PermitsInv, PermitsRunOnce
    <2> QED BY <2>1, <2>2, <2>3
  <1> QED BY <1>3, <1>8, <1>9, <1>10 DEF PermitsInv, PermitsRunOnce

LEMMA PermitsRest ==
    ASSUME PermitsInv, UNCHANGED <<permitNonce, permitted>>
    PROVE  PermitsInv'
  BY DEF PermitsInv, PermitsRunOnce

LEMMA PermitsStep == PermitsInv /\ [TokenNext]_<<tokenVars, clock>> => PermitsInv'
  <1> SUFFICES ASSUME PermitsInv, [TokenNext]_<<tokenVars, clock>> PROVE PermitsInv'
    OBVIOUS
  <1>1. CASE ControlStep
    BY <1>1, ControlLeavesGrants, PermitsRest
  <1>2. CASE MoneyStep
    BY <1>2, MoneyLeavesPermits, PermitsRest
  <1>3. ASSUME NEW g \in Approvals, approve(g)
        PROVE  PermitsInv'
    BY <1>3, PermitsRest DEF approve
  <1>4. ASSUME NEW p \in Permits, permit(p)
        PROVE  PermitsInv'
    BY <1>4, PermitKeeps
  <1>5. CASE TokenTimePasses
    BY <1>5, PermitsRest DEF TokenTimePasses
  <1>6. CASE UNCHANGED <<tokenVars, clock>>
    BY <1>6, PermitsRest DEF tokenVars
  <1> QED BY <1>1, <1>2, <1>3, <1>4, <1>5, <1>6 DEF TokenNext, GrantStep

\* A permit is used once, and no two for one nonce, whoever submits them and
\* whatever is approved and revoked in between (pausable_token lib.rs:543-585).
THEOREM PermitsAreUsedOnce == TokenSpec => []PermitsRunOnce
  <1>1. TokenInit => PermitsInv
    BY DEF TokenInit, PermitsInv, PermitsRunOnce
  <1>2. PermitsInv => PermitsRunOnce
    BY DEF PermitsInv
  <1> QED BY <1>1, <1>2, PermitsStep, PTL DEF TokenSpec

-----------------------------------------------------------------------------
(* Payment intents of the proxy, one by one and in tolerant batches.       *)

Tolerant == INSTANCE FoldTheorems WITH Op <- run_intent

LEMMA TolerantIsLoop ==
    ASSUME NEW b, NEW is
    PROVE  FoldLeft(run_intent, b, is) = Tolerant!Looped(b, is)
  BY DEF FoldLeft, MapThenFoldSet, Tolerant!Looped, Tolerant!IsLoopTable,
         Tolerant!LoopEntry, Max, Tolerant!Highest

RunBy(runs, a) == {i \in Intents : i.from = a /\ runs[i] > 0}

\* The books of the intents: what ran, against the nonces consumed.
SoundBooks ==
    {b \in [nonce : [Party -> Nat], runs : [Intents -> Nat], trapped : BOOLEAN] :
        /\ \A i, j \in Intents :
              /\ b.runs[i] <= 1
              /\ (b.runs[i] > 0 /\ b.runs[j] > 0 /\ i.from = j.from
                    /\ i.nonce = j.nonce) => i = j
        /\ \A a \in Party : {i.nonce : i \in RunBy(b.runs, a)} = 0..(b.nonce[a] - 1)}

\* An intent that runs has the next nonce, so none with it has run before.
LEMMA RunKeepsBooks ==
    ASSUME NEW b \in SoundBooks, NEW i \in Intents
    PROVE  run_intent(b, i) \in SoundBooks
  <1>1. /\ b \in [nonce : [Party -> Nat], runs : [Intents -> Nat], trapped : BOOLEAN]
        /\ \A j, k \in Intents :
              /\ b.runs[j] <= 1
              /\ (b.runs[j] > 0 /\ b.runs[k] > 0 /\ j.from = k.from
                    /\ j.nonce = k.nonce) => j = k
        /\ \A a \in Party : {j.nonce : j \in RunBy(b.runs, a)} = 0..(b.nonce[a] - 1)
    BY DEF SoundBooks
  <1>2. \A j \in Intents : j.from \in Party /\ j.nonce \in Nat
    BY ProxyAssumption
  <1> DEFINE answer == verify_payment_intent(b.nonce, i)
  <1>3. CASE answer = "Trap"
    <2>1. run_intent(b, i) = [b EXCEPT !.trapped = TRUE]
      BY <1>3 DEF run_intent
    <2> QED BY <1>1, <2>1 DEF SoundBooks
  <1>4. CASE answer = "Err"
    BY <1>4 DEF run_intent
  <1>5. CASE answer = "Ok"
    <2>1. i.nonce = b.nonce[i.from]
      BY <1>5 DEF verify_payment_intent
    <2> DEFINE nonce == [b.nonce EXCEPT ![i.from] = i.nonce + 1]
               runs == [b.runs EXCEPT ![i] = @ + 1]
    <2>2. run_intent(b, i) = [nonce |-> nonce, runs |-> runs, trapped |-> b.trapped]
      BY <1>1, <1>5 DEF run_intent
    <2>3. ASSUME NEW j \in Intents, j.from = i.from, b.runs[j] > 0
          PROVE  j.nonce < i.nonce
      <3>1. j \in RunBy(b.runs, i.from)
        BY <2>3 DEF RunBy
      <3>2. j.nonce \in 0..(b.nonce[i.from] - 1)
        BY <1>1, <1>2, <3>1
      <3> QED BY <1>1, <1>2, <2>1, <3>2
    <2>4. b.runs[i] = 0
      BY <1>1, <1>2, <2>3
    <2>5. /\ nonce \in [Party -> Nat] /\ nonce[i.from] = i.nonce + 1
          /\ \A a \in Party : a # i.from => nonce[a] = b.nonce[a]
      BY <1>1, <1>2
    <2>6. /\ runs \in [Intents -> Nat] /\ runs[i] = 1
          /\ \A j \in Intents : j # i => runs[j] = b.runs[j]
      BY <1>1, <2>4
    <2> HIDE DEF nonce, runs
    <2>7. ASSUME NEW j \in Intents, NEW k \in Intents
          PROVE  /\ runs[j] <= 1
                 /\ (runs[j] > 0 /\ runs[k] > 0 /\ j.from = k.from
                       /\ j.nonce = k.nonce) => j = k
      <3>1. runs[j] <= 1
        BY <1>1, <2>6
      <3>2. ASSUME runs[j] > 0, runs[k] > 0, j.from = k.from, j.nonce = k.nonce
            PROVE  j = k
        <4>1. CASE j = i /\ k # i
          BY <1>2, <2>3, <2>6, <3>2, <4>1
        <4>2. CASE j # i /\ k = i
          BY <1>2, <2>3, <2>6, <3>2, <4>2
        <4>3. CASE j # i /\ k # i
          BY <1>1, <2>6, <3>2, <4>3
        <4> QED BY <4>1, <4>2, <4>3
      <3> QED BY <3>1, <3>2
    <2>8. ASSUME NEW a \in Party
          PROVE  {j.nonce : j \in RunBy(runs, a)} = 0..(nonce[a] - 1)
      <3>1. CASE a # i.from
        <4>1. RunBy(runs, a) = RunBy(b.runs, a)
          BY <2>6, <3>1 DEF RunBy
        <4> QED BY <1>1, <2>5, <3>1, <4>1
      <3>2. CASE a = i.from
        <4>1. RunBy(runs, a) = RunBy(b.runs, a) \cup {i}
          BY <2>6, <3>2 DEF RunBy
        <4>2. {j.nonce : j \in RunBy(b.runs, a)} = 0..(i.nonce - 1)
          BY <1>1, <2>1, <3>2
        <4>3. {j.nonce : j \in RunBy(b.runs, a) \cup {i}}
                = {j.nonce : j \in RunBy(b.runs, a)} \cup {i.nonce}
          OBVIOUS
        <4>4. i.nonce \in Nat /\ nonce[a] - 1 = i.nonce
          BY <1>2, <2>5, <3>2
        <4>5. 0..(i.nonce - 1) \cup {i.nonce} = 0..i.nonce
          BY <4>4
        <4> QED BY <4>1, <4>2, <4>3, <4>4, <4>5
      <3> QED BY <3>1, <3>2
    <2>9. run_intent(b, i) \in [nonce : [Party -> Nat], runs : [Intents -> Nat], trapped : BOOLEAN]
      BY <1>1, <2>2, <2>5, <2>6
    <2> QED BY <2>2, <2>7, <2>8, <2>9 DEF SoundBooks
  <1> QED BY <1>3, <1>4, <1>5 DEF verify_payment_intent

IntentsInv == IntentBooks \in SoundBooks

LEMMA IntentsOnce == IntentsInv => IntentsRunOnce
  BY DEF IntentsInv, IntentBooks, SoundBooks, IntentsRunOnce, RunBy

LEMMA CommitKeepsBooks ==
    ASSUME NEW b \in SoundBooks, CommitIntents(b)
    PROVE  IntentsInv'
  <1>1. b = [nonce |-> intentNonce', runs |-> intentRuns', trapped |-> FALSE]
    BY DEF CommitIntents, SoundBooks
  <1>2. IntentBooks' = b
    BY <1>1 DEF IntentBooks
  <1> QED BY <1>2 DEF IntentsInv, SoundBooks, RunBy

LEMMA IntentsStep == IntentsInv /\ [ProxyNext]_<<proxyVars, clock>> => IntentsInv'
  <1> SUFFICES ASSUME IntentsInv, [ProxyNext]_<<proxyVars, clock>> PROVE IntentsInv'
    OBVIOUS
  <1>0. ASSUME UNCHANGED intentVars
        PROVE  IntentsInv'
    BY <1>0 DEF IntentsInv, IntentBooks, SoundBooks, RunBy, intentVars
  <1>1. ASSUME NEW i \in Intents, CommitIntents(run_intent(IntentBooks, i))
        PROVE  IntentsInv'
    BY <1>1, RunKeepsBooks, CommitKeepsBooks DEF IntentsInv
  <1>2. ASSUME NEW is \in IntentBatches, execute_batch_tolerant(is)
        PROVE  IntentsInv'
    <2>1. is \in Seq(Intents)
      BY ProxyAssumption
    <2> DEFINE n == Len(is)
    <2>2. n \in Nat /\ DOMAIN is = 1..n /\ \A k \in 1..n : is[k] \in Intents
      BY <2>1
    <2> HIDE DEF n
    <2>3. \A k \in 1..n : \A b \in SoundBooks : run_intent(b, is[k]) \in SoundBooks
      BY <2>2, RunKeepsBooks
    <2>4. Tolerant!Looped(IntentBooks, is) \in SoundBooks
      BY <2>2, <2>3, Tolerant!LoopKeeps DEF IntentsInv
    <2>5. CommitIntents(Tolerant!Looped(IntentBooks, is))
      BY <1>2, TolerantIsLoop DEF execute_batch_tolerant
    <2> QED BY <2>4, <2>5, CommitKeepsBooks
  <1>3. ASSUME \/ \E i \in Intents : execute_payment_intent(i)
               \/ \E i \in Intents, f \in Forwards : forward_with_meta(i, f)
        PROVE  IntentsInv'
    BY <1>1, <1>3 DEF execute_payment_intent, forward_with_meta
  <1>4. ASSUME \/ \E a \in Party, l \in Logics : proxy_initialize(a, l)
               \/ \E l \in Logics : upgrade_logic(l)
               \/ \E a \in Party : proxy_transfer_admin(a)
               \/ \E g \in ProxyAllowances : allow_proxy(g[1], g[2])
               \/ \E m \in MetaPayments : execute_meta_payment(m)
        PROVE  IntentsInv'
    BY <1>0, <1>4 DEF proxy_initialize, upgrade_logic, proxy_transfer_admin,
                      allow_proxy, execute_meta_payment, intentVars
  <1>5. ASSUME \/ \E k \in SessionKeys, n \in SessionLimits, t \in SessionTimes :
                    authorize_session_key(k, n, t)
               \/ \E f \in Forwards : forward(f)
        PROVE  IntentsInv'
    BY <1>0, <1>5 DEF authorize_session_key, forward
  <1>6. ASSUME UNCHANGED proxyVars
        PROVE  IntentsInv'
    BY <1>0, <1>6 DEF proxyVars
  <1> QED BY <1>2, <1>3, <1>4, <1>5, <1>6 DEF ProxyNext

LEMMA IntentsInitially == ProxyInit => IntentsInv
  <1> SUFFICES ASSUME ProxyInit PROVE IntentsInv
    OBVIOUS
  <1>1. \A a \in Party : RunBy(intentRuns, a) = {}
    BY DEF RunBy, ProxyInit
  <1>2. \A a \in Party : intentNonce[a] = 0
    BY DEF ProxyInit
  <1>3. 0..(0 - 1) = {}
    OBVIOUS
  <1>4. \A a \in Party : {i.nonce : i \in RunBy(intentRuns, a)} = 0..(intentNonce[a] - 1)
    BY <1>1, <1>2, <1>3
  <1>5. intentNonce \in [Party -> Nat] /\ intentRuns \in [Intents -> Nat]
        /\ \A i \in Intents : intentRuns[i] = 0
    BY DEF ProxyInit
  <1> QED BY <1>4, <1>5 DEF IntentsInv, IntentBooks, SoundBooks

\* An intent runs once, and exactly one for each nonce that the counter of its
\* account has passed: alone, with a forwarded call, or as an item of a batch
\* in which others fail (payment_proxy lib.rs:540-570, 736-759, 782-827).
THEOREM IntentsAreUsedOnce == ProxySpec => []IntentsRunOnce
  BY IntentsInitially, IntentsOnce, IntentsStep, PTL DEF ProxySpec

-----------------------------------------------------------------------------
(* Session keys of the proxy.                                              *)

Counting == INSTANCE FoldTheorems WITH Op <- charge_if_session

LEMMA ChargesAreLoop ==
    ASSUME NEW b, NEW ps
    PROVE  FoldLeft(charge_if_session, b, ps) = Counting!Looped(b, ps)
  BY DEF FoldLeft, MapThenFoldSet, Counting!Looped, Counting!IsLoopTable,
         Counting!LoopEntry, Max, Counting!Highest

\* What a call has counted so far: granted = spent + remaining, key by key.
WithinGrant(grant) ==
    {b \in [ok : BOOLEAN, sessions : [Party -> [remaining : Nat, valid_until : Nat]],
            spent : [Party -> Nat]] :
        \A a \in Party : b.sessions[a].remaining + b.spent[a] = grant[a]}

LEMMA ChargeKeepsWithin ==
    ASSUME NEW grant \in [Party -> Nat], NEW b \in WithinGrant(grant), NEW p \in Party \X Int
    PROVE  charge_if_session(b, p) \in WithinGrant(grant)
  <1> DEFINE a == p[1]
             n == p[2]
             s == b.sessions[a]
  <1>1. a \in Party /\ n \in Int
    OBVIOUS
  <1>2. /\ b \in [ok : BOOLEAN, sessions : [Party -> [remaining : Nat, valid_until : Nat]],
                  spent : [Party -> Nat]]
        /\ \A k \in Party : b.sessions[k].remaining + b.spent[k] = grant[k]
    BY DEF WithinGrant
  <1>3. CASE s = NoSession
    BY <1>3 DEF charge_if_session
  <1>4. CASE s # NoSession /\ (session_expired(s) \/ n <= 0 \/ n > s.remaining)
    <2>1. charge_if_session(b, p) = [b EXCEPT !.ok = FALSE]
      BY <1>4 DEF charge_if_session
    <2> QED BY <1>2, <2>1 DEF WithinGrant
  <1>5. CASE s # NoSession /\ ~(session_expired(s) \/ n <= 0 \/ n > s.remaining)
    <2> DEFINE r == [b EXCEPT !.sessions[a].remaining = s.remaining - n, !.spent[a] = @ + n]
    <2>1. charge_if_session(b, p) = r
      BY <1>5 DEF charge_if_session
    <2>2. s \in [remaining : Nat, valid_until : Nat] /\ b.spent[a] \in Nat
      BY <1>1, <1>2
    <2>3. n \in Nat /\ s.remaining - n \in Nat
      BY <1>1, <1>5, <2>2
    <2> DEFINE left == [b.sessions EXCEPT ![a] = [s EXCEPT !.remaining = s.remaining - n]]
               gone == [b.spent EXCEPT ![a] = @ + n]
    <2>4. left \in [Party -> [remaining : Nat, valid_until : Nat]] /\ gone \in [Party -> Nat]
      BY <1>1, <1>2, <2>2, <2>3
    <2>5. r = [[b EXCEPT !.sessions = left] EXCEPT !.spent = gone]
      BY <1>1, <1>2
    <2>6. r.ok = b.ok /\ r.sessions = left /\ r.spent = gone
      <3> HIDE DEF r, left, gone
      <3> QED BY <1>2, <2>5
    <2>7. r \in [ok : BOOLEAN, sessions : [Party -> [remaining : Nat, valid_until : Nat]],
                 spent : [Party -> Nat]]
      <3> HIDE DEF r, left, gone
      <3> QED BY <1>2, <2>4, <2>5
    <2> HIDE DEF r
    <2>8. ASSUME NEW k \in Party
          PROVE  r.sessions[k].remaining + r.spent[k] = grant[k]
      <3>1. CASE k = a
        <4>1. r.sessions[a].remaining = s.remaining - n /\ r.spent[a] = b.spent[a] + n
          BY <1>1, <1>2, <2>2, <2>6
        <4> QED BY <1>2, <2>2, <2>3, <3>1, <4>1
      <3>2. CASE k # a
        BY <1>2, <2>6, <3>2
      <3> QED BY <3>1, <3>2
    <2> QED BY <2>1, <2>7, <2>8 DEF WithinGrant
  <1> QED BY <1>3, <1>4, <1>5

SessionBooks == [ok |-> TRUE, sessions |-> sessions, spent |-> sessionSpent]

SessionInv ==
    /\ sessionGrant \in [Party -> Nat]
    /\ SessionBooks \in WithinGrant(sessionGrant)

LEMMA SessionCaps == SessionInv => SessionCapHolds
  <1> SUFFICES ASSUME SessionInv, NEW a \in Party
               PROVE  /\ sessionSpent[a] <= sessionGrant[a]
                      /\ sessions[a].remaining = sessionGrant[a] - sessionSpent[a]
    BY DEF SessionCapHolds
  <1>1. /\ sessions[a].remaining \in Nat /\ sessionSpent[a] \in Nat /\ sessionGrant[a] \in Nat
        /\ sessions[a].remaining + sessionSpent[a] = sessionGrant[a]
    BY DEF SessionInv, SessionBooks, WithinGrant
  <1> QED BY <1>1

LEMMA SessionRest ==
    ASSUME SessionInv, UNCHANGED sessionVars
    PROVE  SessionInv'
  BY DEF SessionInv, SessionBooks, WithinGrant, sessionVars

LEMMA ForwardKeepsSessions ==
    ASSUME SessionInv, NEW f \in Forwards, charge_session_allowance(f)
    PROVE  SessionInv'
  <1>1. f.payments \in Seq(Party \X Int)
    BY ProxyAssumption
  <1> DEFINE n == Len(f.payments)
             end == IF f.func \in Counted THEN Counting!Looped(SessionBooks, f.payments)
                    ELSE SessionBooks
  <1>2. n \in Nat /\ DOMAIN f.payments = 1..n /\ \A k \in 1..n : f.payments[k] \in Party \X Int
    BY <1>1
  <1> HIDE DEF n
  <1>3. \A k \in 1..n : \A b \in WithinGrant(sessionGrant) :
            charge_if_session(b, f.payments[k]) \in WithinGrant(sessionGrant)
    BY <1>2, ChargeKeepsWithin DEF SessionInv
  <1>4. Counting!Looped(SessionBooks, f.payments) \in WithinGrant(sessionGrant)
    BY <1>2, <1>3, Counting!LoopKeeps DEF SessionInv
  <1>5. end \in WithinGrant(sessionGrant)
    BY <1>4 DEF SessionInv
  <1>6. /\ end.ok /\ sessions' = end.sessions /\ sessionSpent' = end.spent
        /\ sessionGrant' = sessionGrant
    BY ChargesAreLoop DEF charge_session_allowance, SessionBooks
  <1> HIDE DEF end
  <1>7. SessionBooks' = [end EXCEPT !.ok = TRUE]
    BY <1>5, <1>6 DEF SessionBooks, WithinGrant
  <1> QED BY <1>5, <1>6, <1>7 DEF SessionInv, WithinGrant

LEMMA SessionStep == SessionInv /\ [ProxyNext]_<<proxyVars, clock>> => SessionInv'
  <1> SUFFICES ASSUME SessionInv, [ProxyNext]_<<proxyVars, clock>> PROVE SessionInv'
    OBVIOUS
  <1>1. ASSUME NEW k \in SessionKeys, NEW n \in SessionLimits, NEW t \in SessionTimes,
               authorize_session_key(k, n, t)
        PROVE  SessionInv'
    <2>1. k \in Party /\ n \in Nat /\ t \in Nat
      BY ProxyAssumption
    <2>2. /\ sessions \in [Party -> [remaining : Nat, valid_until : Nat]]
          /\ sessionSpent \in [Party -> Nat] /\ sessionGrant \in [Party -> Nat]
          /\ \A a \in Party : sessions[a].remaining + sessionSpent[a] = sessionGrant[a]
      BY DEF SessionInv, SessionBooks, WithinGrant
    <2>3. /\ sessions' = [sessions EXCEPT ![k] = [remaining |-> n, valid_until |-> t]]
          /\ sessionGrant' = [sessionGrant EXCEPT ![k] = n]
          /\ sessionSpent' = [sessionSpent EXCEPT ![k] = 0]
      BY <1>1 DEF authorize_session_key
    <2>4. /\ sessions' \in [Party -> [remaining : Nat, valid_until : Nat]]
          /\ sessionSpent' \in [Party -> Nat] /\ sessionGrant' \in [Party -> Nat]
      BY <2>1, <2>2, <2>3
    <2>5. ASSUME NEW a \in Party
          PROVE  sessions'[a].remaining + sessionSpent'[a] = sessionGrant'[a]
      BY <2>1, <2>2, <2>3
    <2> QED BY <2>4, <2>5 DEF SessionInv, SessionBooks, WithinGrant
  <1>2. ASSUME \/ \E f \in Forwards : forward(f)
               \/ \E i \in Intents, f \in Forwards : forward_with_meta(i, f)
        PROVE  SessionInv'
    BY <1>2, ForwardKeepsSessions DEF forward, forward_with_meta
  <1>3. ASSUME \/ \E a \in Party, l \in Logics : proxy_initialize(a, l)
               \/ \E l \in Logics : upgrade_logic(l)
               \/ \E a \in Party : proxy_transfer_admin(a)
               \/ \E g \in ProxyAllowances : allow_proxy(g[1], g[2])
               \/ \E m \in MetaPayments : execute_meta_payment(m)
        PROVE  SessionInv'
    BY <1>3, SessionRest DEF proxy_initialize, upgrade_logic, proxy_transfer_admin,
                             allow_proxy, execute_meta_payment
  <1>4. ASSUME \/ \E i \in Intents : execute_payment_intent(i)
               \/ \E is \in IntentBatches : execute_batch_tolerant(is)
        PROVE  SessionInv'
    BY <1>4, SessionRest DEF execute_payment_intent, execute_batch_tolerant
  <1>5. ASSUME UNCHANGED proxyVars
        PROVE  SessionInv'
    BY <1>5, SessionRest DEF proxyVars
  <1> QED BY <1>1, <1>2, <1>3, <1>4, <1>5 DEF ProxyNext

\* Between two grants a session key spends at most its limit, whether its
\* payments come one by one or several in one call (payment_proxy
\* lib.rs:846-921).
THEOREM SessionCapsHold == ProxySpec => []SessionCapHolds
  <1>1. ProxyInit => SessionInv
    BY DEF ProxyInit, SessionInv, SessionBooks, WithinGrant, NoSession
  <1> QED BY <1>1, SessionCaps, SessionStep, PTL DEF ProxySpec

-----------------------------------------------------------------------------
(* Meta payments of the proxy.                                             *)

MetaInv ==
    /\ proxyMetaNonce \in [Party -> Nat]
    /\ metaRuns \in [MetaPayments -> Nat]
    /\ MetaRunsOnce

LEMMA MetaKeeps ==
    ASSUME MetaInv, NEW m \in MetaPayments, execute_meta_payment(m)
    PROVE  MetaInv'
  <1>1. \A k \in MetaPayments : k.sender \in Party /\ k.nonce \in Nat
    BY ProxyAssumption
  <1>2. /\ m.nonce = proxyMetaNonce[m.sender]
        /\ proxyMetaNonce' = [proxyMetaNonce EXCEPT ![m.sender] = m.nonce + 1]
        /\ metaRuns' = [metaRuns EXCEPT ![m] = @ + 1]
    BY DEF execute_meta_payment, consume_nonce
  <1>3. proxyMetaNonce' \in [Party -> Nat] /\ metaRuns' \in [MetaPayments -> Nat]
    BY <1>1, <1>2 DEF MetaInv
  <1>4. ASSUME NEW k \in MetaPayments, k.sender = m.sender, metaRuns[k] > 0
        PROVE  k.nonce < m.nonce
    BY <1>2, <1>4 DEF MetaInv, MetaRunsOnce
  <1>5. metaRuns[m] = 0
    BY <1>1, <1>4 DEF MetaInv
  <1>6. metaRuns'[m] = 1 /\ \A k \in MetaPayments \ {m} : metaRuns'[k] = metaRuns[k]
    BY <1>2, <1>5 DEF MetaInv
  <1>7. \A k \in MetaPayments : metaRuns'[k] <= 1
    BY <1>6 DEF MetaInv, MetaRunsOnce
  <1>8. ASSUME NEW k \in MetaPayments, metaRuns'[k] > 0
        PROVE  k.nonce < proxyMetaNonce'[k.sender]
    <2>1. CASE k = m
      BY <1>1, <1>2, <2>1 DEF MetaInv
    <2>2. CASE k # m
      <3>1. k.nonce < proxyMetaNonce[k.sender]
        BY <1>6, <1>8, <2>2 DEF MetaInv, MetaRunsOnce
      <3>2. proxyMetaNonce'[k.sender] >= proxyMetaNonce[k.sender]
        BY <1>1, <1>2 DEF MetaInv
      <3> QED BY <1>1, <1>3, <3>1, <3>2 DEF MetaInv
    <2> QED BY <2>1, <2>2
  <1>9. ASSUME NEW k \in MetaPayments, NEW j \in MetaPayments, metaRuns'[k] > 0,
               metaRuns'[j] > 0, k.sender = j.sender, k.nonce = j.nonce
        PROVE  k = j
    <2>1. CASE k = m /\ j # m
      BY <1>1, <1>4, <1>6, <1>9, <2>1
    <2>2. CASE k # m /\ j = m
      BY <1>1, <1>4, <1>6, <1>9, <2>2
    <2>3. CASE k # m /\ j # m
      BY <1>6, <1>9, <2>3 DEF MetaInv, MetaRunsOnce
    <2> QED BY <2>1, <2>2, <2>3
  <1> QED BY <1>3, <1>7, <1>8, <1>9 DEF MetaInv, MetaRunsOnce

LEMMA MetaStep == MetaInv /\ [ProxyNext]_<<proxyVars, clock>> => MetaInv'
  <1> SUFFICES ASSUME MetaInv, [ProxyNext]_<<proxyVars, clock>> PROVE MetaInv'
    OBVIOUS
  <1>0. ASSUME UNCHANGED <<proxyMetaNonce, metaRuns>>
        PROVE  MetaInv'
    BY <1>0 DEF MetaInv, MetaRunsOnce
  <1>1. ASSUME NEW m \in MetaPayments, execute_meta_payment(m)
        PROVE  MetaInv'
    BY <1>1, MetaKeeps
  <1>2. ASSUME \/ \E a \in Party, l \in Logics : proxy_initialize(a, l)
               \/ \E l \in Logics : upgrade_logic(l)
               \/ \E a \in Party : proxy_transfer_admin(a)
               \/ \E g \in ProxyAllowances : allow_proxy(g[1], g[2])
        PROVE  MetaInv'
    BY <1>0, <1>2 DEF proxy_initialize, upgrade_logic, proxy_transfer_admin,
                      allow_proxy, metaVars
  <1>3. ASSUME \/ \E k \in SessionKeys, n \in SessionLimits, t \in SessionTimes :
                    authorize_session_key(k, n, t)
               \/ \E f \in Forwards : forward(f)
        PROVE  MetaInv'
    BY <1>0, <1>3 DEF authorize_session_key, forward, metaVars
  <1>4. ASSUME \/ \E i \in Intents : execute_payment_intent(i)
               \/ \E is \in IntentBatches : execute_batch_tolerant(is)
               \/ \E i \in Intents, f \in Forwards : forward_with_meta(i, f)
        PROVE  MetaInv'
    BY <1>0, <1>4 DEF execute_payment_intent, execute_batch_tolerant,
                      forward_with_meta, metaVars
  <1>5. CASE UNCHANGED proxyVars
    BY <1>0, <1>5 DEF proxyVars, metaVars
  <1> QED BY <1>1, <1>2, <1>3, <1>4, <1>5 DEF ProxyNext

\* A meta payment runs once, and no two for one nonce, with and without a fee
\* (payment_proxy lib.rs:622-655).
THEOREM MetaPaymentsRunOnce == ProxySpec => []MetaRunsOnce
  <1>1. ProxyInit => MetaInv
    BY DEF ProxyInit, MetaInv, MetaRunsOnce
  <1>2. MetaInv => MetaRunsOnce
    BY DEF MetaInv
  <1> QED BY <1>1, <1>2, MetaStep, PTL DEF ProxySpec

-----------------------------------------------------------------------------
(* Nullifiers of the payments proved in zero knowledge.                    *)

NullifiersInv ==
    /\ accepted \in Seq(Provable)
    /\ \A i \in DOMAIN accepted : accepted[i][2] \in nullifiers
    /\ \A i, j \in DOMAIN accepted : accepted[i][2] = accepted[j][2] => i = j
    /\ \A c \in zkPayments : \E i \in DOMAIN accepted : accepted[i][1] = c

LEMMA NullifiersStep == NullifiersInv /\ [ZkNext]_zkVars => NullifiersInv'
  <1> SUFFICES ASSUME NullifiersInv, [ZkNext]_zkVars PROVE NullifiersInv'
    OBVIOUS
  <1>1. ASSUME NEW length \in KeyLengths, constructor(length)
        PROVE  NullifiersInv'
    BY <1>1 DEF constructor, NullifiersInv
  <1>2. ASSUME NEW proof \in Commitment \X Nullifier, NEW c \in Commitment,
               NEW n \in Nullifier, submit(proof, c, n)
        PROVE  NullifiersInv'
    <2> DEFINE k == Len(accepted) + 1
    <2>1. /\ n \notin nullifiers /\ <<c, n>> \in Provable
          /\ nullifiers' = nullifiers \cup {n} /\ zkPayments' = zkPayments \cup {c}
          /\ accepted' = Append(accepted, <<c, n>>)
      BY <1>2 DEF submit, verify_proof, burn_nullifier
    <2>2. /\ accepted' \in Seq(Provable)
          /\ DOMAIN accepted' = DOMAIN accepted \cup {k} /\ k \notin DOMAIN accepted
          /\ accepted'[k] = <<c, n>>
          /\ \A i \in DOMAIN accepted : accepted'[i] = accepted[i]
      BY <2>1 DEF NullifiersInv
    <2>3. \A i \in DOMAIN accepted' : accepted'[i][2] \in nullifiers'
      BY <2>1, <2>2 DEF NullifiersInv
    <2>4. ASSUME NEW i \in DOMAIN accepted', NEW j \in DOMAIN accepted',
                 accepted'[i][2] = accepted'[j][2]
          PROVE  i = j
      BY <2>1, <2>2, <2>4 DEF NullifiersInv
    <2>5. \A d \in zkPayments' : \E i \in DOMAIN accepted' : accepted'[i][1] = d
      BY <2>1, <2>2 DEF NullifiersInv
    <2> QED BY <2>2, <2>3, <2>4, <2>5 DEF NullifiersInv
  <1>3. CASE UNCHANGED zkVars
    BY <1>3 DEF zkVars, NullifiersInv
  <1> QED BY <1>1, <1>2, <1>3 DEF ZkNext

\* A nullifier pays once, whatever commitment it comes back with, and every
\* payment on record was proved (zk_payment lib.rs:84-118).
THEOREM NullifiersAreUsedOnce == ZkSpec => []NullifiersPayOnce
  <1>1. ZkInit => NullifiersInv
    BY DEF ZkInit, NullifiersInv
  <1>2. NullifiersInv => NullifiersPayOnce
    BY DEF NullifiersInv, NullifiersPayOnce
  <1> QED BY <1>1, <1>2, NullifiersStep, PTL DEF ZkSpec

\* Of all the messages that authorise a payment by themselves none is used
\* twice, however the calls of the contracts that take them interleave.
THEOREM SignedMessagesRunOnce == TokenSpec /\ ProxySpec /\ ZkSpec => []MessagesAreUsedOnce
  <1>1. PermitsRunOnce /\ IntentsRunOnce /\ MetaRunsOnce /\ NullifiersPayOnce
          => MessagesAreUsedOnce
    BY DEF MessagesAreUsedOnce
  <1> QED BY <1>1, PermitsAreUsedOnce, IntentsAreUsedOnce, MetaPaymentsRunOnce,
          NullifiersAreUsedOnce, PTL

-----------------------------------------------------------------------------
(* Payments of the time-locked escrow.                                     *)

Lock == [depositor : Party, recipient : Party, token : Coin,
         amount : Nat, release_time : Nat, claimed : BOOLEAN]
Receipt == [total : Nat, at : Int]

\* An open escrow has paid nothing; a claimed one its amount, in its time.
LockSettled(e, paid) ==
    /\ ~e.claimed => paid.total = 0
    /\ e.claimed => paid.total = e.amount /\ paid.at >= e.release_time

LocksInv ==
    /\ clock \in Nat
    /\ locks \in Seq(Lock) /\ lockPaid \in Seq(Receipt)
    /\ Len(lockPaid) = Len(locks)
    /\ \A id \in 1..Len(locks) : LockSettled(locks[id], lockPaid[id])

LEMMA LocksStep == LocksInv /\ [TimelockNext]_<<lockVars, clock>> => LocksInv'
  <1> SUFFICES ASSUME LocksInv, [TimelockNext]_<<lockVars, clock>> PROVE LocksInv'
    OBVIOUS
  <1>1. ASSUME NEW d \in Party, NEW r \in Party, NEW c \in Coin,
               NEW n \in LockAmounts, NEW t \in LockTimes, deposit(d, r, c, n, t)
        PROVE  LocksInv'
    <2> DEFINE e == [depositor |-> d, recipient |-> r, token |-> c, amount |-> n,
                     release_time |-> t, claimed |-> FALSE]
               paid == [total |-> 0, at |-> MaxClock]
    <2>1. n \in Nat /\ t \in Nat /\ MaxClock \in Int
      BY LockAssumption, LedgerAssumption
    <2>2. locks' = Append(locks, e) /\ lockPaid' = Append(lockPaid, paid) /\ clock' = clock
      BY <1>1 DEF deposit
    <2>3. e \in Lock /\ paid \in Receipt /\ LockSettled(e, paid)
      BY <2>1 DEF Lock, Receipt, LockSettled
    <2> HIDE DEF e, paid
    <2>4. /\ locks' \in Seq(Lock) /\ Len(locks') = Len(locks) + 1
          /\ locks'[Len(locks) + 1] = e
          /\ \A id \in 1..Len(locks) : locks'[id] = locks[id]
      BY <2>2, <2>3 DEF LocksInv
    <2>5. /\ lockPaid' \in Seq(Receipt) /\ Len(lockPaid') = Len(locks) + 1
          /\ lockPaid'[Len(locks) + 1] = paid
          /\ \A id \in 1..Len(locks) : lockPaid'[id] = lockPaid[id]
      BY <2>2, <2>3 DEF LocksInv
    <2>6. \A id \in 1..Len(locks') : LockSettled(locks'[id], lockPaid'[id])
      BY <2>3, <2>4, <2>5 DEF LocksInv
    <2> QED BY <2>2, <2>4, <2>5, <2>6 DEF LocksInv
  <1>2. ASSUME NEW id \in DOMAIN locks, claim(id)
        PROVE  LocksInv'
    <2> DEFINE e == [locks[id] EXCEPT !.claimed = TRUE]
               paid == [total |-> locks[id].amount, at |-> clock]
    <2>1. id \in 1..Len(locks) /\ locks[id] \in Lock /\ lockPaid[id] \in Receipt
          /\ LockSettled(locks[id], lockPaid[id]) /\ clock \in Nat
      BY <1>2 DEF LocksInv
    <2>2. ~locks[id].claimed /\ clock >= locks[id].release_time /\ clock' = clock
      BY <1>2 DEF claim, released
    <2>3. lockPaid[id].total = 0 /\ locks[id].amount \in Nat
      BY <2>1, <2>2 DEF LockSettled, Lock
    <2>4. locks' = [locks EXCEPT ![id] = e] /\ lockPaid' = [lockPaid EXCEPT ![id] = paid]
      <3>1. locks' = [locks EXCEPT ![id].claimed = TRUE]
        BY <1>2 DEF claim, mark_claimed
      <3>2. lockPaid' = [lockPaid EXCEPT ![id] =
                           [total |-> lockPaid[id].total + locks[id].amount,
                            at |-> IF lockPaid[id].total = 0 THEN clock
                                   ELSE lockPaid[id].at]]
        BY <1>2 DEF claim
      <3>3. locks' = [locks EXCEPT ![id] = e]
        BY <3>1
      <3>4. lockPaid[id].total + locks[id].amount = locks[id].amount
        BY <2>3
      <3>5. lockPaid' = [lockPaid EXCEPT ![id] = paid]
        BY <2>3, <3>2, <3>4, Zenon
      <3> QED BY <3>3, <3>5
    <2>5. e \in Lock /\ paid \in Receipt /\ LockSettled(e, paid)
      <3>1. e \in Lock
        BY <2>1 DEF Lock
      <3>2. paid \in Receipt
        BY <2>1, <2>3 DEF Receipt
      <3>3. /\ e.claimed = TRUE /\ e.amount = locks[id].amount
            /\ e.release_time = locks[id].release_time
        BY <2>1 DEF Lock
      <3> QED BY <2>2, <3>1, <3>2, <3>3 DEF LockSettled
    <2> HIDE DEF e, paid
    <2>6. /\ locks' \in Seq(Lock) /\ Len(locks') = Len(locks) /\ locks'[id] = e
          /\ \A k \in 1..Len(locks) \ {id} : locks'[k] = locks[k]
      BY <2>1, <2>4, <2>5 DEF LocksInv
    <2>7. /\ lockPaid' \in Seq(Receipt) /\ Len(lockPaid') = Len(locks)
          /\ lockPaid'[id] = paid
          /\ \A k \in 1..Len(locks) \ {id} : lockPaid'[k] = lockPaid[k]
      BY <2>1, <2>4, <2>5 DEF LocksInv
    <2> QED BY <2>1, <2>2, <2>5, <2>6, <2>7 DEF LocksInv
  <1>3. CASE TimePasses /\ UNCHANGED lockVars
    BY <1>3 DEF TimePasses, lockVars, LocksInv
  <1>4. CASE UNCHANGED <<lockVars, clock>>
    BY <1>4 DEF lockVars, LocksInv
  <1> QED BY <1>1, <1>2, <1>3, <1>4 DEF TimelockNext

LEMMA LocksPay == LocksInv => LocksPayInTime
  <1> SUFFICES ASSUME LocksInv, NEW id \in DOMAIN locks
               PROVE  /\ lockPaid[id].total <= locks[id].amount
                      /\ lockPaid[id].total > 0
                            => lockPaid[id].at >= locks[id].release_time
    BY DEF LocksPayInTime
  <1>1. /\ locks[id] \in Lock /\ lockPaid[id] \in Receipt
        /\ LockSettled(locks[id], lockPaid[id])
    BY DEF LocksInv
  <1> QED BY <1>1 DEF Lock, Receipt, LockSettled

-----------------------------------------------------------------------------
(* Funds of the time-locked escrow: the open escrows of a token add up to  *)
(* what the contract owns of it.                                           *)

OpenIn(ls, c) == {id \in DOMAIN ls : ls[id].token = c /\ ~ls[id].claimed}
AmountsOf(ls) == [id \in DOMAIN ls |-> ls[id].amount]

LEMMA OpenIsFinite ==
    ASSUME NEW ls \in Seq(Lock), NEW c
    PROVE  /\ IsFiniteSet(OpenIn(ls, c))
           /\ \A id \in OpenIn(ls, c) : AmountsOf(ls)[id] = ls[id].amount /\ ls[id].amount \in Nat
           /\ SumFunctionOnSet(AmountsOf(ls), OpenIn(ls, c)) \in Nat
  <1>1. DOMAIN ls = 1..Len(ls) /\ Len(ls) \in Nat
    OBVIOUS
  <1>2. IsFiniteSet(DOMAIN ls)
    BY <1>1, FS_Interval
  <1>3. IsFiniteSet(OpenIn(ls, c))
    BY <1>2, FS_Subset DEF OpenIn
  <1>4. ASSUME NEW id \in OpenIn(ls, c)
        PROVE  AmountsOf(ls)[id] = ls[id].amount /\ ls[id].amount \in Nat
    <2>1. id \in DOMAIN ls /\ ls[id] \in Lock
      BY DEF OpenIn
    <2> QED BY <2>1 DEF AmountsOf, Lock
  <1> QED BY <1>3, <1>4, SumIsNatural

LEMMA OpenGrows ==
    ASSUME NEW ls \in Seq(Lock), NEW e \in Lock, ~e.claimed, NEW c
    PROVE  SumFunctionOnSet(AmountsOf(Append(ls, e)), OpenIn(Append(ls, e), c))
             = SumFunctionOnSet(AmountsOf(ls), OpenIn(ls, c))
                 + (IF e.token = c THEN e.amount ELSE 0)
  <1> DEFINE ms == Append(ls, e)
             k == Len(ls) + 1
             old == OpenIn(ls, c)
  <1>1. /\ ms \in Seq(Lock) /\ ms[k] = e
        /\ DOMAIN ms = DOMAIN ls \cup {k} /\ k \notin DOMAIN ls
        /\ \A id \in DOMAIN ls : ms[id] = ls[id]
    OBVIOUS
  <1> HIDE DEF ms
  <1>2. k \notin old /\ IsFiniteSet(old)
    BY <1>1, OpenIsFinite, ZenonT(30) DEF OpenIn
  <1>3. OpenIn(ms, c) = IF e.token = c THEN old \cup {k} ELSE old
    BY <1>1 DEF OpenIn
  <1>4. ASSUME NEW id \in old
        PROVE  AmountsOf(ls)[id] \in Int /\ AmountsOf(ms)[id] = AmountsOf(ls)[id]
    <2>1. id \in DOMAIN ls /\ id \in DOMAIN ms /\ ms[id] = ls[id]
      BY <1>1 DEF OpenIn
    <2>2. AmountsOf(ls)[id] = ls[id].amount /\ ls[id].amount \in Nat
      BY OpenIsFinite
    <2> QED BY <2>1, <2>2 DEF AmountsOf
  <1>5. SumFunctionOnSet(AmountsOf(ms), old) = SumFunctionOnSet(AmountsOf(ls), old)
    BY <1>2, <1>4, SumCongruence
  <1>6. AmountsOf(ms)[k] = e.amount /\ e.amount \in Nat
    BY <1>1 DEF AmountsOf, Lock
  <1>7. \A id \in old \cup {k} : AmountsOf(ms)[id] \in Int
    BY <1>4, <1>6
  <1>8. SumFunctionOnSet(AmountsOf(ms), old \cup {k})
          = e.amount + SumFunctionOnSet(AmountsOf(ms), old)
    BY <1>2, <1>6, <1>7, SumAdd
  <1>9. SumFunctionOnSet(AmountsOf(ls), old) \in Nat
    BY OpenIsFinite
  <1> QED BY <1>3, <1>5, <1>6, <1>8, <1>9 DEF ms

LEMMA OpenShrinks ==
    ASSUME NEW ls \in Seq(Lock), NEW k \in DOMAIN ls, ~ls[k].claimed, NEW c,
           NEW ms, ms = [ls EXCEPT ![k].claimed = TRUE]
    PROVE  SumFunctionOnSet(AmountsOf(ms), OpenIn(ms, c))
             = SumFunctionOnSet(AmountsOf(ls), OpenIn(ls, c))
                 - (IF ls[k].token = c THEN ls[k].amount ELSE 0)
  <1> DEFINE old == OpenIn(ls, c)
             new == OpenIn(ms, c)
  <1>0. ls[k] \in Lock
    OBVIOUS
  <1>1. /\ DOMAIN ms = DOMAIN ls
        /\ \A id \in DOMAIN ls : ms[id].amount = ls[id].amount /\ ms[id].token = ls[id].token
        /\ ms[k].claimed = TRUE
        /\ \A id \in DOMAIN ls \ {k} : ms[id].claimed = ls[id].claimed
    BY <1>0 DEF Lock
  <1>2. AmountsOf(ms) = AmountsOf(ls)
    BY <1>1 DEF AmountsOf
  <1>3. new = IF ls[k].token = c THEN old \ {k} ELSE old
    BY <1>1 DEF OpenIn
  <1>4. ls[k].token = c => k \in old
    BY DEF OpenIn
  <1>5. IsFiniteSet(old) /\ \A id \in old : AmountsOf(ls)[id] \in Int
    BY OpenIsFinite
  <1>6. IsFiniteSet(old \ {k}) /\ \A id \in old \ {k} : AmountsOf(ls)[id] \in Int
    BY <1>5, FS_Subset
  <1>7. SumFunctionOnSet(AmountsOf(ls), old) \in Int
        /\ SumFunctionOnSet(AmountsOf(ls), old \ {k}) \in Int
    BY <1>5, <1>6, SumIsInteger
  <1>8. ls[k].token = c
          => SumFunctionOnSet(AmountsOf(ls), old)
               = ls[k].amount + SumFunctionOnSet(AmountsOf(ls), old \ {k})
    <2> SUFFICES ASSUME ls[k].token = c
                 PROVE  SumFunctionOnSet(AmountsOf(ls), old)
                          = ls[k].amount + SumFunctionOnSet(AmountsOf(ls), old \ {k})
      OBVIOUS
    <2>1. k \in old /\ AmountsOf(ls)[k] = ls[k].amount
      BY <1>4 DEF AmountsOf
    <2> HIDE DEF old
    <2> QED BY <1>5, <2>1, SumRemove
  <1>9. ls[k].amount \in Nat
    BY <1>0 DEF Lock
  <1> HIDE DEF old, new
  <1>10. SumFunctionOnSet(AmountsOf(ms), new)
           = SumFunctionOnSet(AmountsOf(ls), old)
               - (IF ls[k].token = c THEN ls[k].amount ELSE 0)
    BY <1>2, <1>3, <1>7, <1>8, <1>9
  <1> QED BY <1>10 DEF old, new

LEMMA LockedIsSum == \A c : LockedIn(c) = SumFunctionOnSet(AmountsOf(locks), OpenIn(locks, c))
  BY DEF LockedIn, AmountsOf, OpenIn

FundsInv ==
    /\ lockSheet \in [Coin -> [Party \cup {LockVault} -> Int]]
    /\ LocksFunded

LEMMA FundsInitially == TimelockInit => FundsInv
  <1> SUFFICES ASSUME TimelockInit PROVE FundsInv
    OBVIOUS
  <1>1. lockSheet \in [Coin -> [Party \cup {LockVault} -> Int]]
        /\ \A c \in Coin : lockSheet[c][LockVault] = 0
    BY LockAssumption DEF TimelockInit
  <1>2. \A c : OpenIn(locks, c) = {}
    BY DEF TimelockInit, OpenIn
  <1>3. \A c : LockedIn(c) = 0
    BY <1>2, LockedIsSum, SumEmpty
  <1> QED BY <1>1, <1>3 DEF FundsInv, LocksFunded

LEMMA FundsStep == LocksInv /\ FundsInv /\ [TimelockNext]_<<lockVars, clock>> => FundsInv'
  <1> SUFFICES ASSUME LocksInv, FundsInv, [TimelockNext]_<<lockVars, clock>> PROVE FundsInv'
    OBVIOUS
  <1> DEFINE Sum(ls, c) == SumFunctionOnSet(AmountsOf(ls), OpenIn(ls, c))
  <1>0. /\ \A c \in Coin : lockSheet[c][LockVault] = Sum(locks, c)
        /\ \A c \in Coin : Sum(locks, c) \in Nat
    BY LockedIsSum, OpenIsFinite DEF FundsInv, LocksFunded, LocksInv
  <1>p. (\A c \in Coin : lockSheet'[c][LockVault] = Sum(locks', c)) => LocksFunded'
    <2>1. \A c : LockedIn(c)' = Sum(locks', c)
      BY DEF LockedIn, AmountsOf, OpenIn
    <2> QED BY <2>1 DEF LocksFunded
  <1>1. ASSUME NEW d \in Party, NEW r \in Party, NEW c \in Coin,
               NEW n \in LockAmounts, NEW t \in LockTimes, deposit(d, r, c, n, t)
        PROVE  FundsInv'
    <2> DEFINE e == [depositor |-> d, recipient |-> r, token |-> c, amount |-> n,
                     release_time |-> t, claimed |-> FALSE]
    <2>1. n \in Nat /\ t \in Nat /\ d # LockVault
      BY LockAssumption
    <2>2. e \in Lock /\ ~e.claimed /\ e.token = c /\ e.amount = n
      BY <2>1 DEF Lock
    <2>3. /\ locks' = Append(locks, e)
          /\ lockSheet' = [lockSheet EXCEPT ![c] =
                [[lockSheet[c] EXCEPT ![d] = @ - n] EXCEPT ![LockVault] = @ + n]]
      BY <1>1 DEF deposit, transfer
    <2> HIDE DEF e
    <2>4. lockSheet' \in [Coin -> [Party \cup {LockVault} -> Int]]
      <3>1. lockSheet[c] \in [Party \cup {LockVault} -> Int]
        BY DEF FundsInv
      <3>2. [[lockSheet[c] EXCEPT ![d] = @ - n] EXCEPT ![LockVault] = @ + n]
                \in [Party \cup {LockVault} -> Int]
        BY <2>1, <3>1
      <3> QED BY <2>3, <3>2 DEF FundsInv
    <2>5. \A k \in Coin : lockSheet'[k][LockVault]
                            = lockSheet[k][LockVault] + (IF k = c THEN n ELSE 0)
      BY <1>0, <2>1, <2>3 DEF FundsInv
    <2>6. \A k \in Coin : Sum(locks', k) = Sum(locks, k) + (IF k = c THEN n ELSE 0)
      BY <2>2, <2>3, OpenGrows DEF LocksInv
    <2> HIDE DEF Sum
    <2> QED BY <1>0, <1>p, <2>4, <2>5, <2>6 DEF FundsInv
  <1>2. ASSUME NEW id \in DOMAIN locks, claim(id)
        PROVE  FundsInv'
    <2> DEFINE e == locks[id]
    <2>0. e \in Lock
      BY DEF LocksInv
    <2>1. e \in Lock /\ e.token \in Coin /\ e.recipient \in Party /\ e.amount \in Nat
      BY <2>0 DEF Lock
    <2>2. e.recipient # LockVault
      BY <2>1, LockAssumption
    <2>3. /\ ~e.claimed
          /\ locks' = [locks EXCEPT ![id].claimed = TRUE]
          /\ lockSheet' = [lockSheet EXCEPT ![e.token] =
                [[lockSheet[e.token] EXCEPT ![LockVault] = @ - e.amount]
                    EXCEPT ![e.recipient] = @ + e.amount]]
      BY <1>2 DEF claim, transfer, mark_claimed
    <2>4. ASSUME NEW k \in Coin
          PROVE  Sum(locks', k) = Sum(locks, k) - (IF e.token = k THEN e.amount ELSE 0)
      <3>1. locks \in Seq(Lock) /\ id \in DOMAIN locks /\ ~locks[id].claimed
            /\ locks' = [locks EXCEPT ![id].claimed = TRUE]
        BY <2>3 DEF LocksInv
      <3>2. SumFunctionOnSet(AmountsOf(locks'), OpenIn(locks', k))
              = SumFunctionOnSet(AmountsOf(locks), OpenIn(locks, k))
                  - (IF locks[id].token = k THEN locks[id].amount ELSE 0)
        <4> DEFINE ls == locks
                   ms == locks'
        <4>1. ls \in Seq(Lock) /\ id \in DOMAIN ls /\ ~ls[id].claimed
          BY <3>1
        <4>2. ms = [ls EXCEPT ![id].claimed = TRUE]
          BY <3>1
        <4> HIDE DEF ls, ms
        <4>3. k \in Coin
          BY <2>4
        <4>4. SumFunctionOnSet(AmountsOf(ms), OpenIn(ms, k))
                = SumFunctionOnSet(AmountsOf(ls), OpenIn(ls, k))
                    - (IF ls[id].token = k THEN ls[id].amount ELSE 0)
          BY ONLY <4>1, <4>2, <4>3, OpenShrinks, ZenonT(30)
        <4> QED BY <4>4 DEF ls, ms
      <3> QED BY <3>2
    <2> HIDE DEF e, Sum
    <2>5. lockSheet' \in [Coin -> [Party \cup {LockVault} -> Int]]
      <3>1. lockSheet[e.token] \in [Party \cup {LockVault} -> Int]
        BY <2>1 DEF FundsInv
      <3>2. [[lockSheet[e.token] EXCEPT ![LockVault] = @ - e.amount]
                EXCEPT ![e.recipient] = @ + e.amount]
                \in [Party \cup {LockVault} -> Int]
        BY <2>1, <3>1
      <3> QED BY <2>3, <3>2 DEF FundsInv
    <2>6. \A k \in Coin : lockSheet'[k][LockVault]
                            = lockSheet[k][LockVault] - (IF e.token = k THEN e.amount ELSE 0)
      BY <1>0, <2>1, <2>2, <2>3 DEF FundsInv
    <2> QED BY <1>0, <1>p, <2>4, <2>5, <2>6 DEF FundsInv
  <1>3. ASSUME UNCHANGED lockVars
        PROVE  FundsInv'
    <2>1. locks' = locks /\ lockSheet' = lockSheet
      BY <1>3 DEF lockVars
    <2> QED BY <1>0, <1>p, <2>1 DEF FundsInv
  <1> QED BY <1>1, <1>2, <1>3 DEF TimelockNext

\* An escrow pays at most its amount, and not before its release time, and the
\* contract owns of each token exactly what its open escrows hold, so that no
\* escrow lives off another (timelock_escrow lib.rs:60-111).
THEOREM EscrowsPayOnceInTime == TimelockSpec => []LocksPayOnceInTime
  <1>1. TimelockInit /\ clock \in Nat => LocksInv /\ FundsInv
    BY FundsInitially DEF TimelockInit, LocksInv
  <1>2. LocksInv /\ FundsInv => LocksPayOnceInTime
    BY LocksPay DEF FundsInv, LocksPayOnceInTime
  <1> QED BY <1>1, <1>2, LocksStep, FundsStep, PTL DEF TimelockSpec

-----------------------------------------------------------------------------
(* The price of a flash loan.  That a larger loan never costs less is      *)
(* arithmetic: each of the three roundings upward is monotone, and so is   *)
(* the rate, across the kink too.                                          *)

LEMMA DivMonotone ==
    ASSUME NEW a \in Int, NEW b \in Int, NEW d \in Nat \ {0}, a <= b
    PROVE  (a \div d) <= (b \div d)
  BY Z3

LEMMA TimesMonotone ==
    ASSUME NEW a \in Nat, NEW b \in Nat, NEW x \in Nat, NEW y \in Nat,
           a <= b, x <= y
    PROVE  (a * x) <= (b * y)
  BY Z3

LEMMA CeilMonotone ==
    ASSUME NEW a \in Nat, NEW b \in Nat, NEW d \in Nat \ {0}, a <= b
    PROVE  /\ ceil_div(a, d) \in Nat /\ ceil_div(b, d) \in Nat
           /\ ceil_div(a, d) <= ceil_div(b, d)
  <1> DEFINE top(n) == n + d - 1
  <1>1. top(a) \in Nat /\ top(b) \in Nat /\ top(a) <= top(b)
    OBVIOUS
  <1>2. (top(a) \div d) \in Nat /\ (top(b) \div d) \in Nat
    BY <1>1, Z3
  <1>3. (top(a) \div d) <= (top(b) \div d)
    BY <1>1, DivMonotone
  <1> QED BY <1>2, <1>3 DEF ceil_div

\* The rate is linear on each side of the kink, 10 where they meet.
LEMMA RateMonotone ==
    ASSUME NEW u \in Nat, NEW v \in Nat, u <= v
    PROVE  /\ utilization_bps_fee(u) \in Nat /\ utilization_bps_fee(v) \in Nat
           /\ utilization_bps_fee(u) <= utilization_bps_fee(v)
  BY Z3 DEF utilization_bps_fee, ceil_div, BASE_FEE_BPS, KINK_FEE_BPS,
            MAX_FEE_BPS, KINK_UTILIZATION_BPS, BPS_DIVISOR

\* A fee is a number, and grows with the amount.
LEMMA FeeMonotone ==
    ASSUME NEW m \in Nat, NEW n \in Nat, NEW r \in Nat \ {0}, m <= n
    PROVE  /\ calculate_fee_of_loan(m, r) \in Nat
           /\ calculate_fee_of_loan(n, r) \in Nat
           /\ calculate_fee_of_loan(m, r) <= calculate_fee_of_loan(n, r)
  <1> DEFINE used(k) == ceil_div(k * BPS_DIVISOR, r)
             rate(k) == utilization_bps_fee(used(k))
  <1>1. m * BPS_DIVISOR \in Nat /\ n * BPS_DIVISOR \in Nat
        /\ m * BPS_DIVISOR <= n * BPS_DIVISOR
    BY DEF BPS_DIVISOR
  <1>2. used(m) \in Nat /\ used(n) \in Nat /\ used(m) <= used(n)
    BY <1>1, CeilMonotone
  <1> HIDE DEF used
  <1>3. rate(m) \in Nat /\ rate(n) \in Nat /\ rate(m) <= rate(n)
    BY <1>2, RateMonotone
  <1>4. calculate_fee_of_loan(m, r) = ceil_div(m * rate(m), BPS_DIVISOR)
        /\ calculate_fee_of_loan(n, r) = ceil_div(n * rate(n), BPS_DIVISOR)
    BY DEF calculate_fee_of_loan, calculate_amount_fee, used
  <1> HIDE DEF rate
  <1>5. m * rate(m) \in Nat /\ n * rate(n) \in Nat
    BY <1>3, Z3
  <1>6. (m * rate(m)) <= (n * rate(n))
    BY <1>3, TimesMonotone
  <1>7. BPS_DIVISOR \in Nat \ {0}
    BY DEF BPS_DIVISOR
  <1> QED BY <1>4, <1>5, <1>6, <1>7, CeilMonotone

-----------------------------------------------------------------------------
(* The provider earns the fee of every loan.  LoanInv is inductive because *)
(* the lock leaves at most one frame open: of a second one nothing would   *)
(* say what the outer one required.                                        *)

LEMMA LoanInitially == FlashLoanInit => LoanInv
  BY LoanAssumption DEF FlashLoanInit, LoanInv, Sheet, Earned

LEMMA LoanStep == LoanInv /\ [FlashLoanNext]_loanVars => LoanInv'
  <1> SUFFICES ASSUME LoanInv, [FlashLoanNext]_loanVars
               PROVE  LoanInv'
    OBVIOUS
  <1> USE DEF Sheet
  <1>0. LoanReserve \in Nat
    BY LoanAssumption
  <1>1. ASSUME NEW c \in LoanCoins, NEW n \in LoanAmounts, flash_loan(c, n)
        PROVE  LoanInv'
    <2>1. frames = <<>> /\ Earned(reserve, loanFees) /\ ~loanLock
      BY <1>1 DEF flash_loan, lock_is_free, LoanInv
    <2> DEFINE fee == calculate_fee_of_loan(n, reserve[c])
    <2>2. n \in Nat /\ reserve[c] \in Nat \ {0}
      BY <1>1, LoanAssumption DEF flash_loan, LoanInv
    <2>3. fee \in Nat
      BY <2>2, FeeMonotone
    <2> HIDE DEF fee
    <2> DEFINE f == [coin |-> c, fee |-> fee,
                     required_balance |-> reserve[c] + fee,
                     before |-> [reserve |-> reserve, purse |-> purse,
                                 loanLock |-> loanLock, loanFees |-> loanFees,
                                 loansMade |-> loansMade]]
    <2>4. frames' = Append(frames, f)
      BY <1>1 DEF flash_loan, fee
    <2> HIDE DEF f
    <2>5. frames' = <<f>> /\ frames'[1] = f
      BY <2>1, <2>4
    <2>6. reserve' = [reserve EXCEPT ![c] = @ - n] /\ loanFees' = loanFees /\ loanLock'
      BY <1>1 DEF flash_loan
    <2>7. /\ f.coin = c /\ f.fee = fee /\ f.required_balance = reserve[c] + fee
          /\ f.before.reserve = reserve /\ f.before.loanFees = loanFees
          /\ f.before.loanLock = loanLock
      BY DEF f
    <2>8. loanLock = FALSE
      BY <1>1, <2>1 DEF LoanInv
    <2>9. FrameInv(frames[1])'
      BY <2>1, <2>2, <2>3, <2>5, <2>6, <2>7, <2>8 DEF FrameInv, LoanInv
    <2>10. reserve' \in Sheet /\ loanFees' \in Sheet
      BY <2>2, <2>6, <1>1, LoanAssumption DEF LoanInv
    <2> QED BY <2>5, <2>6, <2>9, <2>10 DEF LoanInv
  <1>2. ASSUME NEW c \in LoanCoins, NEW n \in LoanPayments, pay_provider(c, n)
        PROVE  LoanInv'
    <2>1. /\ n \in Nat /\ reserve' = [reserve EXCEPT ![c] = @ + n]
          /\ loanFees' = loanFees /\ loanLock' = loanLock /\ frames' = frames
      BY <1>2, LoanAssumption DEF pay_provider
    <2>2. reserve' \in Sheet /\ \A k \in LoanCoins : reserve'[k] >= reserve[k]
      BY <2>1 DEF LoanInv
    <2>3. frames = <<>> => Earned(reserve, loanFees)'
      BY <1>0, <2>1, <2>2 DEF LoanInv, Earned
    <2>4. frames # <<>> => FrameInv(frames[1])'
      <3> SUFFICES ASSUME frames # <<>> PROVE FrameInv(frames[1])'
        OBVIOUS
      <3> DEFINE f == frames[1]
      <3>1. FrameInv(f)
        BY DEF LoanInv
      <3>2. \A k \in LoanCoins \ {f.coin} : reserve'[k] >= f.before.reserve[k]
        BY <2>2, <3>1 DEF FrameInv, LoanInv
      <3> QED BY <2>1, <3>1, <3>2 DEF FrameInv
    <2> QED BY <2>1, <2>2, <2>3, <2>4 DEF LoanInv
  <1>3. ASSUME flash_loan_returns
        PROVE  LoanInv'
    <2> DEFINE f == frames[1]
    <2>1. frames = <<f>> /\ FrameInv(f) /\ Len(frames) = 1
      BY <1>3 DEF flash_loan_returns, LoanInv
    <2>2. /\ repaid(f) /\ loanFees' = [loanFees EXCEPT ![f.coin] = @ + f.fee]
          /\ frames' = <<>> /\ loanLock' = FALSE /\ reserve' = reserve
      BY <1>3, <2>1 DEF flash_loan_returns
    <2>3. Earned(reserve, loanFees)'
      <3>1. f.coin \in LoanCoins /\ f.fee \in Nat
        BY <2>1 DEF FrameInv
      <3>2. reserve[f.coin] >= f.before.reserve[f.coin] + f.fee
        BY <2>1, <2>2 DEF FrameInv, repaid
      <3>3. \A k \in LoanCoins : f.before.reserve[k] >= LoanReserve + loanFees[k]
        BY <2>1 DEF FrameInv, Earned
      <3>4. \A k \in LoanCoins : f.before.reserve[k] \in Int
        BY <2>1 DEF FrameInv
      <3>5. reserve'[f.coin] >= LoanReserve + loanFees'[f.coin]
        BY <2>2, <3>1, <3>2, <3>3, <3>4, <1>0, SMTT(30) DEF LoanInv
      <3>6. \A k \in LoanCoins \ {f.coin} : reserve[k] >= f.before.reserve[k]
        BY <2>1 DEF FrameInv
      <3>7. ASSUME NEW k \in LoanCoins, k # f.coin
            PROVE  reserve'[k] >= LoanReserve + loanFees'[k]
        <4>1. reserve'[k] = reserve[k] /\ loanFees'[k] = loanFees[k]
          BY <2>2, <3>7 DEF LoanInv
        <4>2. /\ reserve[k] \in Int /\ loanFees[k] \in Int
              /\ f.before.reserve[k] \in Int
          BY <3>4 DEF LoanInv
        <4>3. reserve[k] >= f.before.reserve[k]
          BY <3>6, <3>7
        <4>4. f.before.reserve[k] >= LoanReserve + loanFees[k]
          BY <3>3
        <4> QED BY <1>0, <4>1, <4>2, <4>3, <4>4
      <3> QED BY <3>5, <3>7 DEF Earned
    <2> QED BY <2>1, <2>2, <2>3 DEF LoanInv, FrameInv
  <1>4. ASSUME flash_loan_fails
        PROVE  LoanInv'
    <2> DEFINE f == frames[1]
    <2>1. frames = <<f>> /\ FrameInv(f) /\ Len(frames) = 1
      BY <1>4 DEF flash_loan_fails, LoanInv
    <2>2. /\ reserve' = f.before.reserve /\ loanFees' = f.before.loanFees
          /\ loanLock' = f.before.loanLock /\ frames' = <<>>
      BY <1>4, <2>1 DEF flash_loan_fails
    <2> QED BY <2>1, <2>2 DEF LoanInv, FrameInv, Earned
  <1>5. CASE UNCHANGED loanVars
    BY <1>5 DEF loanVars, LoanInv, FrameInv, Earned
  <1> QED BY <1>1, <1>2, <1>3, <1>4, <1>5 DEF FlashLoanNext

LEMMA LoanConsequence == LoanInv => LoansEarnTheirFees
  <1> SUFFICES ASSUME LoanInv PROVE LoansEarnTheirFees
    OBVIOUS
  <1>1. ASSUME NEW c \in LoanCoins, NEW m \in LoanAmounts, NEW n \in LoanAmounts,
               0 < m, m <= n, n <= reserve[c]
        PROVE  calculate_fee_of_loan(m, reserve[c]) <= calculate_fee_of_loan(n, reserve[c])
    <2>1. m \in Nat /\ n \in Nat /\ reserve[c] \in Nat \ {0}
      BY <1>1, LoanAssumption DEF LoanInv, Sheet
    <2> QED BY <1>1, <2>1, FeeMonotone
  <1> QED BY <1>1 DEF LoanInv, LoansEarnTheirFees, Earned

\* LoanInv holds in every state: between calls the reserve has earned its
\* fees, and within a call an error gives everything back (lib.rs:88-106).
THEOREM LoanInvariant == FlashLoanSpec => []LoanInv
  <1> QED BY LoanInitially, LoanStep, PTL DEF FlashLoanSpec

\* Every loan that succeeds has earned its fee, for all reserves and amounts
\* and whatever the borrower does, and a larger loan costs no less.
THEOREM LoansEarn == FlashLoanSpec => []LoansEarnTheirFees
  BY LoanInvariant, LoanConsequence, PTL

-----------------------------------------------------------------------------
(* The averages of the price oracle.                                       *)

\* Remainders: a wrapped sum is the wrap of the sum.
LEMMA RemainderIs ==
    ASSUME NEW x \in Int, NEW d \in Nat \ {0}
    PROVE  /\ x % d \in 0..(d - 1) /\ (x \div d) \in Int
           /\ x = d * (x \div d) + (x % d)
  BY Z3

LEMMA RemainderIsUnique ==
    ASSUME NEW d \in Nat \ {0}, NEW p \in Int, NEW q \in Int,
           NEW u \in 0..(d - 1), NEW v \in 0..(d - 1), d * p + u = d * q + v
    PROVE  u = v
  <1>1. u \in Int /\ v \in Int /\ d \in Int /\ d > 0 /\ u < d /\ v < d /\ u >= 0 /\ v >= 0
    OBVIOUS
  <1>2. d * (p - q) = v - u
    BY <1>1, Z3
  <1>3. p - q \in Int /\ v - u < d /\ v - u > -d
    BY <1>1
  <1>4. CASE p - q >= 1
    <2>1. d * (p - q) >= d
      BY <1>1, <1>3, <1>4, Z3
    <2> QED BY <1>2, <1>3, <2>1, <1>1
  <1>5. CASE p - q <= -1
    <2>1. d * (p - q) <= -d
      BY <1>1, <1>3, <1>5, Z3
    <2> QED BY <1>2, <1>3, <2>1, <1>1
  <1>6. CASE p - q = 0
    <2>1. d * (p - q) = 0
      BY <1>1, <1>6
    <2> QED BY <1>1, <1>2, <2>1
  <1> QED BY <1>3, <1>4, <1>5, <1>6

LEMMA RemainderOfShift ==
    ASSUME NEW d \in Nat \ {0}, NEW x \in Int, NEW y \in Int, NEW k \in Int,
           x = d * k + y
    PROVE  x % d = y % d
  <1>1. /\ x % d \in 0..(d - 1) /\ (x \div d) \in Int /\ x = d * (x \div d) + (x % d)
        /\ y % d \in 0..(d - 1) /\ (y \div d) \in Int /\ y = d * (y \div d) + (y % d)
    BY RemainderIs
  <1> DEFINE p == x \div d
             q == k + (y \div d)
             u == x % d
             v == y % d
  <1>2. p \in Int /\ q \in Int /\ d * p + u = d * k + (d * (y \div d) + v)
    <2>1. x = d * p + u /\ y = d * (y \div d) + v
      BY <1>1
    <2> HIDE DEF u, v, p
    <2>2. p \in Int /\ q \in Int
      BY <1>1 DEF p
    <2> QED BY <2>1, <2>2
  <1>3. d * q = d * k + d * (y \div d)
    BY <1>1, Z3
  <1>4. d * p + u = d * q + v
    <2>1. d * k \in Int /\ d * (y \div d) \in Int /\ u \in Int /\ v \in Int
      BY <1>1
    <2> HIDE DEF p, q, u, v
    <2> QED BY <1>2, <1>3, <2>1
  <1>5. u \in 0..(d - 1) /\ v \in 0..(d - 1)
    BY <1>1
  <1> HIDE DEF p, q, u, v
  <1>6. u = v
    BY <1>2, <1>4, <1>5, RemainderIsUnique
  <1> QED BY <1>6 DEF u, v

LEMMA WrappedSum ==
    ASSUME NEW d \in Nat \ {0}, NEW x \in Int, NEW y \in Int
    PROVE  /\ ((x % d) + y) % d = (x + y) % d
           /\ (y - (x % d)) % d = (y - x) % d
           /\ (((x + y) % d) - (x % d)) % d = y % d
  <1> DEFINE q == x \div d
             u == x % d
  <1>1. u \in 0..(d - 1) /\ q \in Int /\ x = d * q + u
    BY RemainderIs
  <1>2. u \in Int /\ d * q \in Int /\ d * (-q) = -(d * q)
    BY <1>1, Z3
  <1> HIDE DEF q, u
  <1>3. x + y = d * q + (u + y) /\ y - u = d * q + (y - x)
    BY <1>1, <1>2
  <1>4. (x + y) % d = (u + y) % d /\ (y - u) % d = (y - x) % d
    <2>1. \A i, j \in Int : i = d * q + j => i % d = j % d
      BY <1>1, RemainderOfShift
    <2>2. x + y \in Int /\ u + y \in Int /\ y - u \in Int /\ y - x \in Int
      BY <1>2
    <2>3. (x + y) % d = (u + y) % d
      BY <1>3, <2>1, <2>2
    <2>4. (y - u) % d = (y - x) % d
      BY <1>3, <2>1, <2>2
    <2> QED BY <2>3, <2>4
  <1> DEFINE z == x + y
             p == z \div d
             v == z % d
  <1>5. v \in 0..(d - 1) /\ p \in Int /\ z = d * p + v /\ z \in Int
    BY RemainderIs
  <1>6. d * p \in Int /\ d * (q - p) = d * q - d * p /\ v \in Int /\ q - p \in Int
    BY <1>1, <1>5, Z3
  <1>7. z = x + y
    OBVIOUS
  <1> HIDE DEF z, p, v
  <1>8. v - u = d * (q - p) + y
    BY <1>1, <1>2, <1>5, <1>6, <1>7
  <1>9. (v - u) % d = y % d
    <2>1. v - u \in Int
      BY <1>2, <1>6
    <2> QED BY <1>6, <1>8, <2>1, RemainderOfShift, ZenonT(30)
  <1> QED BY <1>4, <1>9 DEF u, v, z

LEMMA SmallRemainder ==
    ASSUME NEW d \in Nat \ {0}, NEW x \in 0..(d - 1)
    PROVE  x % d = x
  BY Z3

\* Sums over a span of seconds.
LEMMA SpanIsFinite == \A a, b \in Int : IsFiniteSet(a..b)
  BY FS_Interval

LEMMA SumOfSpans ==
    ASSUME NEW f, NEW a \in Int, NEW b \in Int, NEW c \in Int, a <= b, b <= c,
           \A x \in a..(c - 1) : f[x] \in Int
    PROVE  SumFunctionOnSet(f, a..(c - 1))
             = SumFunctionOnSet(f, a..(b - 1)) + SumFunctionOnSet(f, b..(c - 1))
  <1> DEFINE S == a..(c - 1)
             R == a..(b - 1)
  <1>1. R \in SUBSET S /\ S \ R = b..(c - 1)
    OBVIOUS
  <1>2. IsFiniteSet(S)
    BY SpanIsFinite
  <1> QED BY <1>1, <1>2, SumSplit

LEMMA SumOfConstant ==
    ASSUME NEW f, NEW a \in Int, NEW b \in Int, a <= b, NEW c \in Int,
           \A x \in a..(b - 1) : f[x] = c
    PROVE  SumFunctionOnSet(f, a..(b - 1)) = c * (b - a)
  <1> DEFINE W == {n \in Nat : a + n <= b => SumFunctionOnSet(f, a..(a + n - 1)) = c * n}
  <1>1. 0 \in W
    <2>1. a..(a + 0 - 1) = {} /\ c * 0 = 0
      OBVIOUS
    <2> QED BY <2>1, SumEmpty
  <1>2. ASSUME NEW n \in Nat, n \in W PROVE n + 1 \in W
    <2> SUFFICES ASSUME a + (n + 1) <= b
                 PROVE  SumFunctionOnSet(f, a..(a + (n + 1) - 1)) = c * (n + 1)
      OBVIOUS
    <2> DEFINE S == a..(a + n - 1)
    <2>1. /\ a..(a + (n + 1) - 1) = S \cup {a + n} /\ a + n \notin S
          /\ \A x \in S \cup {a + n} : x \in a..(b - 1)
      OBVIOUS
    <2>2. IsFiniteSet(S)
      BY SpanIsFinite
    <2>3. SumFunctionOnSet(f, S) = c * n
      BY <1>2
    <2>4. f[a + n] = c /\ \A x \in S \cup {a + n} : f[x] \in Int
      BY <2>1
    <2> HIDE DEF S
    <2>5. SumFunctionOnSet(f, S \cup {a + n}) = c + c * n
      BY <2>1, <2>2, <2>3, <2>4, SumAdd
    <2>6. c + c * n = c * (n + 1)
      BY Z3
    <2> QED BY <2>1, <2>5, <2>6
  <1> HIDE DEF W
  <1>3. \A n \in Nat : n \in W
    BY <1>1, <1>2, NatSetInduction
  <1>4. b - a \in Nat /\ a + (b - a) = b /\ b - a \in W
    BY <1>3
  <1> QED BY <1>4 DEF W

Observation == [timestamp : Nat, price : 1..MaxPrice, cumulative_price : 0..(Word - 1)]

\* A history of prices: each observation is later than those before it, and
\* its cumulative price is what has accumulated until then.
Chained(r) ==
    /\ r \in Seq(Observation)
    /\ \A i, j \in DOMAIN r : i < j => r[i].timestamp < r[j].timestamp
    /\ \A i \in DOMAIN r : i > 1 =>
          r[i].cumulative_price = accumulate(r[i - 1], r[i].price, r[i].timestamp)

\* What is retained is the end of what was recorded.
Retains(s, r) ==
    /\ s \in Seq(Observation)
    /\ Len(s) <= Len(r) /\ (r # <<>> => s # <<>>)
    /\ \A i \in DOMAIN s : s[i] = r[i + (Len(r) - Len(s))]

OracleInv ==
    /\ recorded \in [Pair -> Seq(Observation)]
    /\ observations \in [Pair -> Seq(Observation)]
    /\ \A p \in Pair : Chained(recorded[p]) /\ Retains(observations[p], recorded[p])

LEMMA AccumulateIsWord ==
    ASSUME NEW o \in Observation, NEW n, NEW t \in Nat
    PROVE  accumulate(o, n, t) \in 0..(Word - 1)
  <1>1. Word \in Nat \ {0} /\ o.cumulative_price \in Int /\ o.price \in Int /\ o.timestamp \in Int
    BY OracleAssumption DEF Observation
  <1>2. o.price * (t - o.timestamp) \in Int
    BY <1>1
  <1>3. o.cumulative_price + o.price * (t - o.timestamp) \in Int
    BY <1>1, <1>2
  <1> QED BY <1>1, <1>3, RemainderIs DEF accumulate

\* A new observation continues the history.
LEMMA HistoryGrows ==
    ASSUME NEW r, Chained(r), NEW o \in Observation,
           r = <<>> \/ (/\ o.timestamp > LastOf(r).timestamp
                        /\ o.cumulative_price = accumulate(LastOf(r), o.price, o.timestamp))
    PROVE  Chained(Append(r, o))
  <1> DEFINE g == Append(r, o)
             n == Len(r)
  <1>1. /\ r \in Seq(Observation) /\ n \in Nat /\ DOMAIN r = 1..n
        /\ \A i, j \in 1..n : i < j => r[i].timestamp < r[j].timestamp
        /\ \A i \in 1..n : i > 1 =>
              r[i].cumulative_price = accumulate(r[i - 1], r[i].price, r[i].timestamp)
    BY DEF Chained
  <1>2. /\ g \in Seq(Observation) /\ DOMAIN g = 1..(n + 1) /\ g[n + 1] = o
        /\ \A i \in 1..n : g[i] = r[i]
    BY <1>1
  <1>3. n > 0 => /\ o.timestamp > r[n].timestamp
                 /\ o.cumulative_price = accumulate(r[n], o.price, o.timestamp)
    BY <1>1 DEF LastOf
  <1> HIDE DEF g, n
  <1>4. ASSUME NEW i \in 1..(n + 1), NEW j \in 1..(n + 1), i < j
        PROVE  g[i].timestamp < g[j].timestamp
    <2>1. i \in 1..n /\ g[i] = r[i] /\ n > 0
      BY <1>1, <1>2, <1>4
    <2>2. \A k \in 1..n : r[k].timestamp \in Nat
      <3>1. \A k \in 1..n : r[k] \in Observation
        BY <1>1
      <3> QED BY <3>1 DEF Observation
    <2>3. CASE j \in 1..n
      BY <1>1, <1>2, <1>4, <2>1, <2>3
    <2>4. CASE j = n + 1
      <3>1. g[j] = o /\ o.timestamp > r[n].timestamp /\ o.timestamp \in Nat
        BY <1>2, <1>3, <2>1, <2>4 DEF Observation
      <3>2. n \in 1..n /\ (i = n \/ r[i].timestamp < r[n].timestamp)
        BY <1>1, <2>1
      <3>3. r[n].timestamp \in Nat /\ r[i].timestamp \in Nat
        BY <2>1, <2>2, <3>2
      <3> QED BY <2>1, <3>1, <3>2, <3>3
    <2> QED BY <1>1, <2>3, <2>4
  <1>5. ASSUME NEW i \in 1..(n + 1), i > 1
        PROVE  g[i].cumulative_price = accumulate(g[i - 1], g[i].price, g[i].timestamp)
    <2>1. i - 1 \in 1..n /\ g[i - 1] = r[i - 1] /\ n > 0
      BY <1>1, <1>2, <1>5
    <2>2. CASE i \in 1..n
      BY <1>1, <1>2, <1>5, <2>1, <2>2
    <2>3. CASE i = n + 1
      <3>1. g[i] = o /\ i - 1 = n
        BY <1>1, <1>2, <2>3
      <3> QED BY <1>3, <2>1, <3>1
    <2> QED BY <1>1, <2>2, <2>3
  <1>6. Chained(g)
    BY <1>2, <1>4, <1>5 DEF Chained
  <1> QED BY <1>6 DEF g

\* Pruning keeps the end.
LEMMA PruningRetains ==
    ASSUME NEW r \in Seq(Observation), NEW s, Retains(s, r), NEW o \in Observation
    PROVE  Retains(prune(Append(s, o)), Append(r, o))
  <1> DEFINE g == Append(r, o)
             h == Append(s, o)
             n == Len(r)
             m == Len(s)
  <1>1. /\ n \in Nat /\ m \in Nat /\ m <= n /\ DOMAIN s = 1..m /\ s \in Seq(Observation)
        /\ \A i \in 1..m : s[i] = r[i + (n - m)]
    BY DEF Retains
  <1>2. /\ g \in Seq(Observation) /\ Len(g) = n + 1 /\ g[n + 1] = o
        /\ h \in Seq(Observation) /\ Len(h) = m + 1 /\ h[m + 1] = o
        /\ \A i \in 1..n : g[i] = r[i]
        /\ \A i \in 1..m : h[i] = s[i]
    BY <1>1
  <1> HIDE DEF g, h, n, m
  <1>3. \A i \in 1..(m + 1) : h[i] = g[i + (n - m)]
    <2> SUFFICES ASSUME NEW i \in 1..(m + 1) PROVE h[i] = g[i + (n - m)]
      OBVIOUS
    <2>1. CASE i \in 1..m
      <3>1. i + (n - m) \in 1..n
        BY <1>1, <2>1
      <3> QED BY <1>1, <1>2, <2>1, <3>1
    <2>2. CASE i = m + 1
      <3>1. i + (n - m) = n + 1
        BY <1>1, <2>2
      <3> QED BY <1>2, <2>2, <3>1
    <2> QED BY <1>1, <2>1, <2>2
  <1>4. CASE Len(h) > MaxObservations
    <2>1. MaxObservations \in Nat /\ MaxObservations >= 1
      BY OracleAssumption
    <2> DEFINE t == Tail(h)
    <2>2. m >= 1 /\ h # <<>>
      BY <1>1, <1>2, <1>4, <2>1
    <2>3. t \in Seq(Observation) /\ Len(t) = m /\ \A i \in 1..m : t[i] = h[i + 1]
      BY <1>1, <1>2, <2>2
    <2>4. prune(h) = t
      BY <1>4 DEF prune
    <2> HIDE DEF t
    <2>5. ASSUME NEW i \in 1..m PROVE t[i] = g[i + ((n + 1) - m)]
      <3>1. i + 1 \in 1..(m + 1) /\ (i + 1) + (n - m) = i + ((n + 1) - m)
        BY <1>1
      <3> QED BY <1>3, <2>3, <3>1
    <2>6. Retains(t, g)
      <3>1. DOMAIN t = 1..m /\ t # <<>> /\ Len(t) <= Len(g)
        BY <1>1, <1>2, <2>2, <2>3
      <3> QED BY <1>2, <2>3, <2>5, <3>1 DEF Retains
    <2> QED BY <2>4, <2>6 DEF g, h
  <1>5. CASE ~(Len(h) > MaxObservations)
    <2>1. prune(h) = h
      BY <1>5 DEF prune
    <2>2. DOMAIN h = 1..(m + 1) /\ h # <<>> /\ Len(h) <= Len(g) /\ Len(g) - Len(h) = n - m
      BY <1>1, <1>2
    <2>3. Retains(h, g)
      BY <1>2, <1>3, <2>2 DEF Retains
    <2> QED BY <2>1, <2>3 DEF g, h
  <1> QED BY <1>4, <1>5

LEMMA LastRetained ==
    ASSUME NEW r \in Seq(Observation), NEW s, Retains(s, r), s # <<>>
    PROVE  r # <<>> /\ LastOf(s) = LastOf(r)
  <1>1. Len(s) \in Nat /\ Len(s) >= 1 /\ Len(r) \in Nat /\ Len(s) <= Len(r) /\ DOMAIN s = 1..Len(s)
    BY DEF Retains
  <1>2. Len(s) \in DOMAIN s /\ Len(s) + (Len(r) - Len(s)) = Len(r)
    BY <1>1
  <1> QED BY <1>1, <1>2 DEF Retains, LastOf

LEMMA OracleInitially == OracleInit => OracleInv
  <1>1. <<>> \in Seq(Observation) /\ Len(<<>>) = 0 /\ DOMAIN <<>> = {}
    OBVIOUS
  <1>2. Chained(<<>>) /\ Retains(<<>>, <<>>)
    BY <1>1 DEF Chained, Retains
  <1> QED BY <1>1, <1>2 DEF OracleInit, OracleInv

LEMMA ObserveKeeps ==
    ASSUME OracleInv, NEW p \in Pair, NEW price \in Int, NEW t \in Nat, observe(p, price, t)
    PROVE  OracleInv'
  <1> DEFINE s == observations[p]
             r == recorded[p]
             first == s = <<>>
             o == [timestamp |-> t, price |-> price,
                   cumulative_price |-> IF first THEN 0 ELSE accumulate(LastOf(s), price, t)]
  <1>1. /\ s \in Seq(Observation) /\ r \in Seq(Observation) /\ Chained(r) /\ Retains(s, r)
        /\ recorded \in [Pair -> Seq(Observation)]
        /\ observations \in [Pair -> Seq(Observation)]
    BY DEF OracleInv
  <1>2. \/ /\ observations' = [observations EXCEPT ![p] = prune(Append(s, o))]
           /\ recorded' = [recorded EXCEPT ![p] = Append(r, o)]
        \/ UNCHANGED <<observations, recorded>>
    BY DEF observe
  <1>3. /\ price \in 1..MaxPrice
        /\ ~first => t >= LastOf(s).timestamp + MinInterval
    BY OracleAssumption DEF observe
  <1>4. ~first => LastOf(s) \in Observation
    <2> SUFFICES ASSUME ~first PROVE LastOf(s) \in Observation
      OBVIOUS
    <2>1. Len(s) \in 1..Len(s)
      BY <1>1
    <2> QED BY <1>1, <2>1 DEF LastOf
  <1>5. o \in Observation
    <2>1. 0 \in 0..(Word - 1)
      BY OracleAssumption
    <2>2. o.cumulative_price \in 0..(Word - 1)
      BY <1>4, <2>1, AccumulateIsWord
    <2> QED BY <1>3, <2>2 DEF Observation
  <1>6. ~first => /\ r # <<>> /\ LastOf(s) = LastOf(r)
                  /\ o.timestamp > LastOf(r).timestamp
                  /\ o.cumulative_price = accumulate(LastOf(r), o.price, o.timestamp)
    <2> SUFFICES ASSUME ~first
                 PROVE  /\ r # <<>> /\ LastOf(s) = LastOf(r)
                        /\ o.timestamp > LastOf(r).timestamp
                        /\ o.cumulative_price = accumulate(LastOf(r), o.price, o.timestamp)
      OBVIOUS
    <2>1. r # <<>> /\ LastOf(s) = LastOf(r)
      BY <1>1, LastRetained
    <2>2. MinInterval \in Nat \ {0} /\ LastOf(s).timestamp \in Nat
      BY <1>4, OracleAssumption DEF Observation
    <2> QED BY <1>3, <2>1, <2>2
  <1>7. first => r = <<>>
    BY <1>1 DEF Retains
  <1> HIDE DEF s, r, o, first
  <1>8. Chained(Append(r, o))
    BY <1>1, <1>5, <1>6, <1>7, HistoryGrows
  <1>9. Retains(prune(Append(s, o)), Append(r, o))
    BY <1>1, <1>5, PruningRetains
  <1>10. CASE UNCHANGED <<observations, recorded>>
    BY <1>10 DEF OracleInv
  <1>11. CASE /\ observations' = [observations EXCEPT ![p] = prune(Append(s, o))]
              /\ recorded' = [recorded EXCEPT ![p] = Append(r, o)]
    <2>1. /\ prune(Append(s, o)) \in Seq(Observation)
          /\ Append(r, o) \in Seq(Observation)
      BY <1>8, <1>9 DEF Chained, Retains
    <2>2. /\ recorded' \in [Pair -> Seq(Observation)]
          /\ observations' \in [Pair -> Seq(Observation)]
      BY <1>1, <1>11, <2>1
    <2>3. ASSUME NEW q \in Pair
          PROVE  Chained(recorded'[q]) /\ Retains(observations'[q], recorded'[q])
      <3>1. CASE q = p
        BY <1>1, <1>8, <1>9, <1>11, <3>1
      <3>2. CASE q # p
        BY <1>1, <1>11, <3>2 DEF OracleInv
      <3> QED BY <3>1, <3>2
    <2> QED BY <2>2, <2>3 DEF OracleInv, Chained, Retains, accumulate
  <1> QED BY <1>2, <1>10, <1>11 DEF s, r, o, first

LEMMA OracleStep == OracleInv /\ [OracleNext]_<<oracleVars, clock>> => OracleInv'
  <1> SUFFICES ASSUME OracleInv, [OracleNext]_<<oracleVars, clock>> PROVE OracleInv'
    OBVIOUS
  <1>1. CASE UNCHANGED <<observations, recorded>>
    BY <1>1 DEF OracleInv
  <1>2. ASSUME NEW o \in OracleArgs, observe(o[1], o[2], o[3])
        PROVE  OracleInv'
    <2>1. o[1] \in Pair /\ o[2] \in Int /\ o[3] \in Nat
      BY OracleAssumption
    <2> QED BY <1>2, <2>1, ObserveKeeps
  <1> QED BY <1>1, <1>2
          DEF OracleNext, oracle_initialize, trip_circuit_breaker, reset_circuit_breaker,
              set_max_single_update_dev_bps, set_max_staleness, oracleVars

\* What a history of `n` observations looks like, second by second.
Priced(r, n) ==
    /\ DOMAIN r = 1..n /\ n \in Nat
    /\ \A i \in 1..n : /\ r[i].timestamp \in Nat
                       /\ r[i].price \in 1..MaxPrice
                       /\ r[i].cumulative_price \in 0..(Word - 1)
    /\ \A i, j \in 1..n : i < j => r[i].timestamp < r[j].timestamp
    /\ \A i \in 1..(n - 1) :
          r[i + 1].cumulative_price
             = (r[i].cumulative_price
                  + r[i].price * (r[i + 1].timestamp - r[i].timestamp)) % Word

\* The price in force at time `t`.
PriceIn(r, t) == r[Max({i \in DOMAIN r : r[i].timestamp <= t})].price

LEMMA ChainIsPriced ==
    ASSUME NEW r, Chained(r)
    PROVE  Priced(r, Len(r))
  <1>1. /\ r \in Seq(Observation) /\ DOMAIN r = 1..Len(r) /\ Len(r) \in Nat
        /\ \A i \in 1..Len(r) : r[i] \in Observation
    BY DEF Chained
  <1>2. \A i \in 1..Len(r) : /\ r[i].timestamp \in Nat
                             /\ r[i].price \in 1..MaxPrice
                             /\ r[i].cumulative_price \in 0..(Word - 1)
    BY <1>1 DEF Observation
  <1>3. \A i, j \in 1..Len(r) : i < j => r[i].timestamp < r[j].timestamp
    BY <1>1 DEF Chained
  <1>4. ASSUME NEW i \in 1..(Len(r) - 1)
        PROVE  r[i + 1].cumulative_price
                  = (r[i].cumulative_price
                       + r[i].price * (r[i + 1].timestamp - r[i].timestamp)) % Word
    <2>1. i + 1 \in DOMAIN r /\ i + 1 > 1 /\ (i + 1) - 1 = i
      BY <1>1
    <2>2. r[i + 1].cumulative_price
             = accumulate(r[(i + 1) - 1], r[i + 1].price, r[i + 1].timestamp)
      BY <2>1 DEF Chained
    <2> QED BY <2>1, <2>2 DEF accumulate
  <1> QED BY <1>1, <1>2, <1>3, <1>4 DEF Priced

\* The observation in force at time `t` is number `k`.
LEMMA InForce ==
    ASSUME NEW r, NEW n, Priced(r, n), NEW k \in 1..n, NEW t \in Int,
           r[k].timestamp <= t, k < n => t < r[k + 1].timestamp
    PROVE  PriceIn(r, t) = r[k].price
  <1> DEFINE S == {i \in DOMAIN r : r[i].timestamp <= t}
  <1>1. /\ n \in Nat /\ DOMAIN r = 1..n
        /\ \A i \in 1..n : r[i].timestamp \in Nat
        /\ \A i, j \in 1..n : i < j => r[i].timestamp < r[j].timestamp
    BY DEF Priced
  <1>2. k \in S /\ S \subseteq Nat
    BY <1>1
  <1>3. ASSUME NEW y \in S, y > k PROVE FALSE
    <2>1. k + 1 \in DOMAIN r /\ k < n /\ (y = k + 1 \/ y > k + 1)
      BY <1>1, <1>3
    <2>2. r[k + 1].timestamp <= r[y].timestamp
      BY <1>1, <1>3, <2>1
    <2> QED BY <1>1, <1>3, <2>1, <2>2
  <1>4. \A y \in S : k >= y
    BY <1>2, <1>3
  <1> HIDE DEF S
  <1>5. Max(S) \in S /\ \A y \in S : Max(S) >= y
    BY <1>2, <1>4 DEF Max
  <1>6. Max(S) = k
    <2>1. Max(S) \in Nat /\ k \in Nat
      BY <1>2, <1>5
    <2>2. Max(S) >= k /\ k >= Max(S)
      BY <1>2, <1>4, <1>5
    <2> QED BY <2>1, <2>2
  <1> QED BY <1>6 DEF S, PriceIn

\* What lies between two observations is the sum of the prices of the seconds
\* between them, wrapped.
LEMMA Accumulated ==
    ASSUME NEW r, NEW n, Priced(r, n), NEW m \in 1..(n - 1), NEW target \in Int,
           r[m].timestamp <= target, target < r[m + 1].timestamp, NEW f,
           \A t \in target..(r[n].timestamp - 1) : f[t] = PriceIn(r, t)
    PROVE  LET at == r[m].cumulative_price + r[m].price * (target - r[m].timestamp)
               sum == SumFunctionOnSet(f, target..(r[n].timestamp - 1))
           IN  /\ at \in Int /\ sum \in 0..(MaxPrice * (r[n].timestamp - target))
               /\ r[n].cumulative_price = (at + sum) % Word
  <1> DEFINE at == r[m].cumulative_price + r[m].price * (target - r[m].timestamp)
             end == r[n].timestamp
             Sum(k) == SumFunctionOnSet(f, target..(r[k].timestamp - 1))
  <1>1. /\ n \in Nat /\ DOMAIN r = 1..n /\ n >= 1 /\ m \in 1..n /\ m + 1 \in 1..n
        /\ \A i \in 1..n : /\ r[i].timestamp \in Nat /\ r[i].timestamp \in Int
                           /\ r[i].price \in 1..MaxPrice /\ r[i].price \in Int
                           /\ r[i].cumulative_price \in Int
        /\ \A i, j \in 1..n : i < j => r[i].timestamp < r[j].timestamp
    <2>1. m \in 1..n /\ m + 1 \in 1..n /\ n >= 1
      BY DEF Priced
    <2>2. \A x : x \in 1..MaxPrice \/ x \in 0..(Word - 1) => x \in Int
      BY OracleAssumption
    <2> QED BY <2>1, <2>2 DEF Priced
  <1>0. \A i \in 1..(n - 1) :
           r[i + 1].cumulative_price
              = (r[i].cumulative_price
                   + r[i].price * (r[i + 1].timestamp - r[i].timestamp)) % Word
    BY DEF Priced
  <1>2. Word \in Nat \ {0} /\ MaxPrice \in Nat \ {0}
    BY OracleAssumption
  <1>3. end \in Nat /\ \A i \in 1..n : r[i].timestamp <= end
    <2>1. n \in 1..n /\ \A i \in 1..n : i = n \/ i < n
      BY <1>1
    <2>2. \A i \in 1..n : r[i].timestamp \in Nat
      BY <1>1
    <2>3. \A i \in 1..n : i < n => r[i].timestamp < r[n].timestamp
      BY <1>1, <2>1
    <2> QED BY <2>1, <2>2, <2>3
  \* The price in force.
  <1>4. ASSUME NEW k \in 1..n, NEW t \in target..(end - 1), r[k].timestamp <= t,
               k < n => t < r[k + 1].timestamp
        PROVE  f[t] = r[k].price
    BY <1>3, <1>4, InForce
  <1> HIDE DEF end, Sum
  <1>5. ASSUME NEW k \in 1..(n - 1), NEW a \in Int, r[k].timestamp <= a, target <= a,
               a <= r[k + 1].timestamp
        PROVE  SumFunctionOnSet(f, a..(r[k + 1].timestamp - 1))
                  = r[k].price * (r[k + 1].timestamp - a)
    <2>1. /\ k \in 1..n /\ k + 1 \in 1..n /\ r[k + 1].timestamp \in Int
          /\ r[k + 1].timestamp <= end /\ end \in Int
      BY <1>1, <1>3
    <2>2. ASSUME NEW t \in a..(r[k + 1].timestamp - 1) PROVE f[t] = r[k].price
      <3>1. t \in target..(end - 1) /\ t < r[k + 1].timestamp
        BY <1>5, <2>1
      <3>2. r[k].timestamp \in Int
        BY <1>1, <2>1
      <3>3. r[k].timestamp <= t
        BY <1>5, <2>1, <3>2
      <3> QED BY <1>4, <2>1, <3>1, <3>3
    <2>3. r[k].price \in Int
      BY <1>1
    <2> DEFINE v == r[k + 1].timestamp
               p == r[k].price
    <2>4. /\ v \in Int /\ a <= v /\ p \in Int
          /\ \A t \in a..(v - 1) : f[t] = p
      BY <1>5, <2>1, <2>2, <2>3
    <2> HIDE DEF v, p
    <2>5. SumFunctionOnSet(f, a..(v - 1)) = p * (v - a)
      BY <2>4, SumOfConstant
    <2> QED BY <2>5 DEF v, p
  \* Every price in force is a price.
  <1>6. ASSUME NEW t \in target..(end - 1) PROVE f[t] \in 1..MaxPrice
    <2> DEFINE S == {i \in DOMAIN r : r[i].timestamp <= t}
    <2>1. S \in SUBSET (1..n) /\ m \in S
      <3>1. r[m].timestamp \in Int /\ t \in Int /\ target <= t
        BY <1>1, <1>3
      <3> QED BY <1>1, <3>1
    <2>2. Max(S) \in 1..n
      <3>1. Totals!Highest(S) \in S
        BY <1>1, <2>1, Totals!HighestIsThere
      <3>2. Max(S) = Totals!Highest(S)
        BY DEF Max, Totals!Highest
      <3> QED BY <2>1, <3>1, <3>2
    <2>3. f[t] = r[Max(S)].price
      BY DEF PriceIn, end
    <2> HIDE DEF S
    <2> QED BY <1>1, <2>2, <2>3
  <1>7. at \in Int
    <2>1. /\ r[m].cumulative_price \in Int /\ r[m].price \in Int /\ r[m].timestamp \in Int
      BY <1>1
    <2> QED BY <2>1
  <1> DEFINE W == {j \in Nat : m + 1 + j <= n =>
                      /\ Sum(m + 1 + j) \in Int
                      /\ r[m + 1 + j].cumulative_price = (at + Sum(m + 1 + j)) % Word}
  <1>8. 0 \in W
    <2> DEFINE p == r[m].price
               c == r[m].cumulative_price
               u == r[m].timestamp
               v == r[m + 1].timestamp
    <2>1. /\ p \in Int /\ c \in Int /\ u \in Int /\ v \in Int /\ m \in 1..n /\ m + 1 \in 1..n
          /\ u <= target /\ target <= v
      BY <1>1
    <2>2. Sum(m + 1) = p * (v - target)
      BY <1>5, <2>1 DEF Sum
    <2>3. r[m + 1].cumulative_price = (c + p * (v - u)) % Word
      <3> QED BY <1>0
    <2>4. at = c + p * (target - u)
      OBVIOUS
    <2>5. m + 1 + 0 = m + 1
      OBVIOUS
    <2> HIDE DEF p, c, u, v, at, Sum
    <2>6. (c + p * (target - u)) + p * (v - target) = c + p * (v - u)
      BY <2>1, Z3
    <2>7. p * (v - target) \in Int
      BY <2>1
    <2>8. Sum(m + 1) \in Int /\ at + Sum(m + 1) = c + p * (v - u)
      BY <2>2, <2>4, <2>6, <2>7
    <2> QED BY <2>3, <2>5, <2>8
  <1>9. ASSUME NEW j \in Nat, j \in W PROVE j + 1 \in W
    <2> DEFINE k == m + 1 + j
               p == r[k].price
               c == r[k].cumulative_price
               u == r[k].timestamp
               v == r[k + 1].timestamp
    <2>0. m + 1 + (j + 1) = k + 1 /\ k \in Nat
      OBVIOUS
    <2> SUFFICES ASSUME k + 1 <= n
                 PROVE  /\ Sum(k + 1) \in Int
                        /\ r[k + 1].cumulative_price = (at + Sum(k + 1)) % Word
      BY <2>0
    <2>1. /\ k \in 1..(n - 1) /\ k \in 1..n /\ k + 1 \in 1..n /\ k > m
          /\ Sum(k) \in Int /\ c = (at + Sum(k)) % Word
      BY <1>1, <1>9
    <2> HIDE DEF k
    <2>2. /\ p \in Int /\ c \in Int /\ u \in Int /\ v \in Int /\ u <= v /\ v <= end /\ end \in Int
      <3>1. p \in Int /\ c \in Int /\ u \in Int /\ v \in Int
        BY <1>1, <2>1
      <3>2. k < k + 1
        BY <2>1
      <3>3. u < v
        BY <1>1, <2>1, <3>2
      <3> QED BY <1>3, <2>1, <3>1, <3>3
    <2>3. target <= u
      <3>1. m + 1 \in 1..n /\ r[m + 1].timestamp \in Int
        BY <1>1
      <3>2. k = m + 1 \/ r[m + 1].timestamp < r[k].timestamp
        BY <1>1, <2>1, <3>1
      <3> QED BY <2>2, <3>1, <3>2
    <2>4. SumFunctionOnSet(f, u..(v - 1)) = p * (v - u)
      BY <1>5, <2>1, <2>2, <2>3, SMTT(30)
    <2>11. Sum(k) = SumFunctionOnSet(f, target..(u - 1))
           /\ Sum(k + 1) = SumFunctionOnSet(f, target..(v - 1))
      BY DEF Sum
    <2>12. r[k + 1].cumulative_price = (c + p * (v - u)) % Word
      BY <1>0, <2>1
    <2> HIDE DEF p, c, u, v
    <2>5. Sum(k + 1) = Sum(k) + p * (v - u)
      <3>1. \A x \in target..(v - 1) : f[x] \in Int
        BY <1>6, <2>2
      <3>2. SumFunctionOnSet(f, target..(v - 1))
              = SumFunctionOnSet(f, target..(u - 1)) + SumFunctionOnSet(f, u..(v - 1))
        BY <2>2, <2>3, <3>1, SumOfSpans
      <3> QED BY <2>4, <2>11, <3>2
    <2> HIDE DEF at, Sum
    <2>7. p * (v - u) \in Int
      BY <2>2
    <2>8. at + Sum(k) \in Int
      BY <1>7, <2>1
    <2>9. (c + p * (v - u)) % Word = ((at + Sum(k)) + p * (v - u)) % Word
      BY <1>2, <2>1, <2>7, <2>8, WrappedSum
    <2>10. (at + Sum(k)) + p * (v - u) = at + Sum(k + 1) /\ Sum(k + 1) \in Int
      BY <1>7, <2>1, <2>5, <2>7
    <2> QED BY <2>9, <2>10, <2>12
  <1>10. r[n].cumulative_price = (at + Sum(n)) % Word
    <2> HIDE DEF W
    <2>1. \A j \in Nat : j \in W
      BY <1>8, <1>9, NatSetInduction
    <2>2. n - m - 1 \in Nat /\ m + 1 + (n - m - 1) = n
      <3>1. n \in Nat /\ m \in 1..(n - 1)
        BY <1>1
      <3> QED BY ONLY <3>1
    <2>3. n - m - 1 \in W
      BY <2>1, <2>2
    <2> QED BY <2>2, <2>3, <1>1 DEF W
  <1>11. Sum(n) \in 0..(MaxPrice * (end - target))
    <2> DEFINE I == target..(end - 1)
               top == [t \in I |-> MaxPrice]
    <2>1. IsFiniteSet(I) /\ end \in Int /\ target <= end
      <3>1. end \in Int /\ m + 1 \in 1..n /\ r[m + 1].timestamp <= end /\ r[m + 1].timestamp \in Int
        BY <1>1, <1>3
      <3> QED BY <3>1, SpanIsFinite
    <2>2. \A t \in I : /\ f[t] \in Nat /\ f[t] \in Int /\ f[t] <= top[t]
                       /\ top[t] \in Int /\ top[t] = MaxPrice
      BY <1>2, <1>6
    <2>7. MaxPrice \in Int /\ \A t \in target..(end - 1) : top[t] = MaxPrice
      BY <1>2
    <2> HIDE DEF top
    <2>3. SumFunctionOnSet(f, I) <= SumFunctionOnSet(top, I)
      BY <2>1, <2>2, SumMonotone
    <2>4. SumFunctionOnSet(top, I) = MaxPrice * (end - target)
      BY <2>1, <2>7, SumOfConstant
    <2>5. SumFunctionOnSet(f, I) \in Nat
      BY <2>1, <2>2, SumIsNatural
    <2>6. MaxPrice * (end - target) \in Int
      BY <1>2, <2>1
    <2> QED BY <2>3, <2>4, <2>5, <2>6 DEF Sum, end
  <1> QED BY <1>7, <1>10, <1>11 DEF Sum, end

LEMMA TwapIsMean ==
    ASSUME OracleInv, NEW p \in Pair, NEW w \in 1..MaxWindow, twap_answers(p, w)
    PROVE  twap(p, w) = MeanPrice(p, w)
  <1> DEFINE s == observations[p]
             r == recorded[p]
             n == Len(r)
             end == LastOf(r).timestamp
             target == end - w
             I == target..(end - 1)
             f == [t \in I |-> PriceAt(p, t)]
             S == {i \in DOMAIN s : s[i].timestamp <= target}
             b == Max(S)
             m == b + (n - Len(s))
             sum == SumFunctionOnSet(f, I)
             at == r[m].cumulative_price + r[m].price * (target - r[m].timestamp)
  <1>1. Chained(r) /\ Retains(s, r) /\ s # <<>> /\ r \in Seq(Observation) /\ s \in Seq(Observation)
    BY DEF OracleInv, twap_answers
  <1>2. LastOf(s) = LastOf(r) /\ r # <<>>
    BY <1>1, LastRetained
  <1>3. s[1].timestamp <= target
    BY <1>2 DEF twap_answers
  <1>4. /\ n \in Nat /\ n >= 1 /\ Len(s) \in Nat /\ Len(s) >= 1 /\ Len(s) <= n
        /\ DOMAIN s = 1..Len(s) /\ DOMAIN r = 1..n
        /\ \A i \in 1..Len(s) : s[i] = r[i + (n - Len(s))]
        /\ \A i \in 1..n : r[i] \in Observation
    <2>1. /\ n \in Nat /\ n >= 1 /\ Len(s) \in Nat /\ Len(s) >= 1
          /\ DOMAIN s = 1..Len(s) /\ DOMAIN r = 1..n
          /\ \A i \in 1..n : r[i] \in Observation
      BY <1>1, <1>2
    <2>2. Len(s) <= n /\ \A i \in DOMAIN s : s[i] = r[i + (n - Len(s))]
      BY <1>1 DEF Retains
    <2> QED BY <2>1, <2>2
  <1>5. end = r[n].timestamp /\ end \in Nat /\ w \in Nat /\ w >= 1 /\ target \in Int /\ target < end
    <2>1. end = r[n].timestamp /\ n \in 1..n
      BY <1>4 DEF LastOf
    <2>2. end \in Nat
      BY <1>4, <2>1 DEF Observation
    <2>3. w \in Nat /\ w >= 1
      BY OracleAssumption
    <2> HIDE DEF end
    <2> QED BY <2>1, <2>2, <2>3
  <1>6. /\ S \in SUBSET (1..Len(s)) /\ b \in S /\ \A i \in S : b >= i
    <2>1. S \in SUBSET (1..Len(s)) /\ 1 \in S
      BY <1>3, <1>4
    <2>2. Totals!Highest(S) \in S /\ \A i \in S : Totals!Highest(S) >= i
      BY <1>4, <2>1, Totals!HighestIsThere
    <2>3. b = Totals!Highest(S)
      BY DEF Max, Totals!Highest
    <2> QED BY <2>1, <2>2, <2>3
  <1>15. \A i \in 1..Len(s) : i \in S <=> s[i].timestamp <= target
    BY <1>4
  <1> HIDE DEF S, b
  <1>7. /\ b \in 1..Len(s) /\ m \in 1..n /\ s[b] = r[m] /\ r[m].timestamp <= target
        /\ m = b + (n - Len(s))
    <2>1. b \in 1..Len(s) /\ s[b].timestamp <= target
      BY <1>6, <1>15
    <2>2. m \in 1..n /\ m = b + (n - Len(s))
      <3>1. n \in Nat /\ Len(s) \in Nat /\ Len(s) <= n
        BY <1>4
      <3> HIDE DEF n
      <3> QED BY <2>1, <3>1
    <2> QED BY <1>4, <2>1, <2>2
  <1> HIDE DEF m, target, n
  <1>8. m \in 1..(n - 1) /\ target < r[m + 1].timestamp
    <2>1. m # n
      <3> SUFFICES ASSUME m = n PROVE FALSE
        OBVIOUS
      <3>1. r[m].timestamp = end
        BY <1>5
      <3> HIDE DEF end
      <3> QED BY <1>5, <1>7, <3>1, SMTT(30)
    <2>2. m \in 1..(n - 1) /\ b + 1 \in 1..Len(s) /\ (b + 1) + (n - Len(s)) = m + 1
      BY <1>4, <1>7, <2>1
    <2>3. s[b + 1] = r[m + 1] /\ r[m + 1].timestamp \in Nat
      <3>1. m + 1 \in 1..n
        BY <1>4, <2>2
      <3>2. r[m + 1].timestamp \in Nat
        BY <1>4, <3>1 DEF Observation
      <3>3. s[b + 1] = r[(b + 1) + (n - Len(s))]
        BY <1>4, <2>2
      <3> QED BY <2>2, <3>2, <3>3
    <2>4. b + 1 \notin S
      BY <1>4, <1>6, <1>7
    <2>5. ~(s[b + 1].timestamp <= target)
      BY <1>15, <2>2, <2>4
    <2> QED BY <1>5, <2>2, <2>3, <2>5
  <1>9. \A t \in I : f[t] = PriceIn(r, t)
    BY DEF PriceAt, PriceIn, target
  <1>10. /\ at \in Int /\ sum \in 0..(MaxPrice * (end - target))
         /\ r[n].cumulative_price = (at + sum) % Word
    <2>1. Priced(r, n)
      BY <1>1, ChainIsPriced DEF n
    <2>2. /\ target \in Int /\ r[m].timestamp <= target /\ end = r[n].timestamp
      BY <1>5, <1>7
    <2>3. \A t \in target..(r[n].timestamp - 1) : f[t] = PriceIn(r, t)
      BY <1>9, <2>2
    <2> HIDE DEF f, end, r
    <2> QED BY <1>8, <2>1, <2>2, <2>3, Accumulated
  <1>11. sum \in 0..(Word - 1)
    <2>1. /\ MaxPrice \in Nat /\ MaxWindow \in Nat /\ Word \in Nat /\ MaxPrice * MaxWindow < Word
      BY OracleAssumption
    <2>2. end - target = w /\ w \in Nat /\ w <= MaxWindow
      <3>1. end \in Nat /\ w \in Nat /\ w <= MaxWindow /\ target = end - w
        BY <1>5, <2>1 DEF target
      <3> HIDE DEF end
      <3> QED BY <3>1
    <2>3. MaxPrice * w <= MaxPrice * MaxWindow
      BY <2>1, <2>2, Z3
    <2>4. MaxPrice * w \in Nat /\ MaxPrice * MaxWindow \in Nat
      BY <2>1, <2>2
    <2>5. sum \in 0..(MaxPrice * w)
      BY <1>10, <2>2
    <2> HIDE DEF sum
    <2> QED BY <2>1, <2>3, <2>4, <2>5
  <1>12. (LastOf(s).cumulative_price - (at % Word)) % Word = sum
    <2>1. LastOf(s).cumulative_price = (at + sum) % Word
      BY <1>2, <1>4, <1>10 DEF LastOf
    <2>2. Word \in Nat \ {0}
      BY OracleAssumption
    <2> HIDE DEF at, sum
    <2>3. sum \in Int
      BY <1>11, <2>2
    <2>4. (((at + sum) % Word) - (at % Word)) % Word = sum % Word
      BY <1>10, <2>2, <2>3, WrappedSum
    <2> QED BY <1>11, <2>1, <2>2, <2>4, SmallRemainder
  <1>13. twap(p, w) = ((LastOf(s).cumulative_price - (at % Word)) % Word) \div w
    <2>1. base_index(s, LastOf(s).timestamp - w) = b
      BY <1>2 DEF base_index, b, S, target
    <2>2. s[b] = r[m]
      BY <1>7
    <2> QED BY <1>2, <2>1, <2>2 DEF twap, target
  <1>14. MeanPrice(p, w) = sum \div w
    BY DEF MeanPrice, SumFunction, target
  <1> QED BY <1>12, <1>13, <1>14

\* A consulted price is the mean over the seconds of the window of the price
\* in force in each, wherever the window starts, after pruning and across
\* wraps of the cumulative price, and no staler than asked (twap_oracle
\* lib.rs:680-735, 808-835).
THEOREM ConsultedPriceIsMean == OracleSpec => []ConsultIsTheMean
  <1>1. OracleInv => ConsultIsTheMean
    <2> SUFFICES ASSUME OracleInv, NEW p \in Pair, NEW w \in 1..MaxWindow, consult_answers(p, w)
                 PROVE  /\ twap(p, w) = MeanPrice(p, w)
                        /\ clock - LastOf(recorded[p]).timestamp <= staleness[p]
      BY DEF ConsultIsTheMean
    <2>1. twap_answers(p, w) /\ observations[p] # <<>>
          /\ clock - LastOf(observations[p]).timestamp <= staleness[p]
      BY DEF consult_answers
    <2>2. LastOf(observations[p]) = LastOf(recorded[p])
      BY <2>1, LastRetained DEF OracleInv
    <2> QED BY <2>1, <2>2, TwapIsMean
  <1> QED BY <1>1, OracleInitially, OracleStep, PTL DEF OracleSpec

-----------------------------------------------------------------------------
(* The yield-bearing escrow.  Sums over a sequence, and the arithmetic of  *)
(* rates and yields.                                                       *)

plus(a, b) == a + b

Adding == INSTANCE FoldTheorems WITH Op <- plus

LEMMA SumOfIsLoop == \A s : SumOf(s) = Adding!Looped(0, s)
  BY DEF SumOf, FoldLeft, MapThenFoldSet, Adding!Looped, Adding!IsLoopTable,
         Adding!LoopEntry, plus, Max, Adding!Highest

LEMMA SumOfNumbers ==
    ASSUME NEW s, NEW n \in Nat, DOMAIN s = 1..n
    PROVE  /\ (\A i \in 1..n : s[i] \in Int) => SumOf(s) \in Int
           /\ (\A i \in 1..n : s[i] \in Nat) => SumOf(s) \in Nat
  <1>1. ASSUME \A i \in 1..n : s[i] \in Int
        PROVE  SumOf(s) \in Int
    <2>1. 0 \in Int /\ \A i \in 1..n : \A a \in Int : plus(a, s[i]) \in Int
      BY <1>1 DEF plus
    <2> QED BY <2>1, SumOfIsLoop, Adding!LoopKeeps
  <1>2. ASSUME \A i \in 1..n : s[i] \in Nat
        PROVE  SumOf(s) \in Nat
    <2>1. 0 \in Nat /\ \A i \in 1..n : \A a \in Nat : plus(a, s[i]) \in Nat
      BY <1>2 DEF plus
    <2> QED BY <2>1, SumOfIsLoop, Adding!LoopKeeps
  <1> QED BY <1>1, <1>2

LEMMA ProductsAreNatural == \A a, b \in Nat : a * b \in Nat
  OBVIOUS

LEMMA QuotientsAreNatural == \A a \in Nat, d \in Nat \ {0} : (a \div d) \in Nat
  BY Z3

LEMMA QuotientsAreIntegers == \A a \in Int, d \in Nat \ {0} : (a \div d) \in Int
  BY Z3

-----------------------------------------------------------------------------
(* Types of the yield-bearing escrow, and what ties the clocks, the        *)
(* indices and the mode together.                                          *)

Strategy == [address : Pool, weight : Nat]

OpenedEscrow ==
    [status : {"active", "released", "cancelled"}, payer : Payers,
     beneficiary : Beneficiaries, token : YieldCoins, principal : Nat,
     release_ledger : Nat, share : Nat, reward_debt : Nat]

IndexState == [index : Nat, updated_at : Nat, rate_bps : Nat, total_principal : Int]

PortfolioTyped ==
    /\ yieldAdmin \in Party \cup {NoParty}
    /\ strategies \in Seq(Strategy)
    /\ emergency \in BOOLEAN
    /\ emergency => yieldAdmin # NoParty

EscrowsTyped ==
    /\ clock \in Nat
    /\ yieldState \in [YieldCoins -> IndexState]
    /\ \A c \in YieldCoins : yieldState[c].updated_at <= clock
    /\ escrows \in [EscrowIds -> {NoEscrow} \cup OpenedEscrow]

\* What an open escrow has earned counts from an index of the past.
DebtsPast ==
    \A id \in EscrowIds :
        is_active(id) => escrows[id].reward_debt <= yieldState[escrows[id].token].index

Settled(id) == escrows[id].status \in {"released", "cancelled"}

\* The one payment of a settled escrow is a right one.
RightPayment(id, p) ==
    /\ ~emergency => p.beneficiary + p.payer >= escrows[id].principal
    /\ escrows[id].status = "released" /\ ~emergency
          => p.beneficiary >= escrows[id].principal
    /\ escrows[id].status = "cancelled" => p.beneficiary = 0

PaidOnce ==
    /\ payouts = [id \in EscrowIds |-> payouts[id]]
    /\ \A id \in EscrowIds :
          /\ ~Settled(id) => payouts[id] = <<>>
          /\ Settled(id) => \E p : payouts[id] = <<p>> /\ RightPayment(id, p)

SettleInv ==
    /\ PortfolioTyped
    /\ EscrowsTyped
    /\ DebtsPast
    /\ PaidOnce

LEMMA SettlesOnce == SettleInv => EscrowsSettleOnce
  <1> SUFFICES ASSUME SettleInv, NEW id \in EscrowIds
               PROVE  /\ Len(payouts[id]) = (IF Settled(id) THEN 1 ELSE 0)
                      /\ \A i \in DOMAIN payouts[id] : RightPayment(id, payouts[id][i])
    BY DEF EscrowsSettleOnce, Settled, RightPayment
  <1>1. CASE ~Settled(id)
    <2>1. payouts[id] = <<>>
      BY <1>1 DEF SettleInv, PaidOnce
    <2> QED BY <1>1, <2>1
  <1>2. CASE Settled(id)
    <2>1. PICK p : payouts[id] = <<p>> /\ RightPayment(id, p)
      BY <1>2 DEF SettleInv, PaidOnce
    <2> QED BY <1>2, <2>1
  <1> QED BY <1>1, <1>2

\* A portfolio is a sequence of strategies.
LEMMA PortfolioLength ==
    ASSUME PortfolioTyped
    PROVE  /\ Len(strategies) \in Nat /\ DOMAIN strategies = 1..Len(strategies)
           /\ \A i \in DOMAIN strategies : strategies[i] \in Strategy
  BY DEF PortfolioTyped

LEMMA RateIsNatural ==
    ASSUME PortfolioTyped
    PROVE  get_weighted_yield_rate \in Nat
  <1> DEFINE s == [i \in DOMAIN strategies |-> PoolRate[strategies[i].address]
                                                 * strategies[i].weight]
  <1>1. BPS \in Nat \ {0} /\ PoolRate \in [Pool -> Nat]
    BY YieldAssumption
  <1>2. ASSUME NEW i \in DOMAIN strategies PROVE s[i] \in Nat
    <2>1. strategies[i].address \in Pool /\ strategies[i].weight \in Nat
      BY PortfolioLength DEF Strategy
    <2> QED BY <1>1, <2>1, ProductsAreNatural
  <1>3. DOMAIN s = DOMAIN strategies
    OBVIOUS
  <1> HIDE DEF s
  <1>4. SumOf(s) \in Nat
    BY <1>2, <1>3, PortfolioLength, SumOfNumbers
  <1>5. (SumOf(s) \div BPS) \in Nat
    BY <1>1, <1>4, QuotientsAreNatural
  <1> QED BY <1>5 DEF get_weighted_yield_rate, s

\* Accruing moves the index forward, up to now.
LEMMA AccrualGoesForward ==
    ASSUME PortfolioTyped, EscrowsTyped, NEW c \in YieldCoins
    PROVE  /\ update_yield_state(c) \in IndexState
           /\ update_yield_state(c).index >= yieldState[c].index
           /\ update_yield_state(c).updated_at = clock
           /\ update_yield_state(c).total_principal = yieldState[c].total_principal
  <1> DEFINE s == yieldState[c]
             growth == (IndexScale * s.rate_bps * (clock - s.updated_at)) \div YearScale
  <1>1. s \in IndexState /\ s.updated_at <= clock /\ clock \in Nat
    BY DEF EscrowsTyped
  <1>2. s.index \in Nat /\ s.rate_bps \in Nat /\ clock - s.updated_at \in Nat
    BY <1>1 DEF IndexState
  <1>3. IndexScale \in Nat /\ YearScale \in Nat \ {0}
    BY YieldAssumption
  <1>4. IndexScale * s.rate_bps \in Nat
    BY <1>2, <1>3, ProductsAreNatural
  <1>5. IndexScale * s.rate_bps * (clock - s.updated_at) \in Nat
    BY <1>2, <1>4, ProductsAreNatural
  <1>6. growth \in Nat
    BY <1>3, <1>5, QuotientsAreNatural
  <1>7. update_yield_state(c) = [s EXCEPT !.index = @ + growth, !.updated_at = clock,
                                          !.rate_bps = get_weighted_yield_rate]
    BY DEF update_yield_state
  <1> DEFINE u == update_yield_state(c)
             rate == get_weighted_yield_rate
  <1>8. rate \in Nat
    BY RateIsNatural
  <1> HIDE DEF growth, s, u, rate
  <1>9. u = [[[s EXCEPT !.index = @ + growth] EXCEPT !.updated_at = clock]
               EXCEPT !.rate_bps = rate]
    BY <1>7 DEF u, rate
  <1>10. s.index + growth \in Nat /\ s.index + growth >= s.index
    BY <1>2, <1>6
  <1>11. u \in IndexState /\ u.index >= s.index /\ u.updated_at = clock
         /\ u.total_principal = s.total_principal
    BY <1>1, <1>8, <1>9, <1>10 DEF IndexState
  <1> QED BY <1>11 DEF s, u

\* What a position has earned is never negative.
LEMMA YieldIsNatural ==
    ASSUME NEW e \in OpenedEscrow, NEW s \in IndexState, e.reward_debt <= s.index
    PROVE  position_yield(e, s) \in Nat
  <1>1. e.principal \in Nat /\ s.index - e.reward_debt \in Nat
    BY DEF OpenedEscrow, IndexState
  <1>2. e.principal * (s.index - e.reward_debt) \in Nat
    BY <1>1, ProductsAreNatural
  <1> QED BY <1>2, QuotientsAreNatural, YieldAssumption DEF position_yield

-----------------------------------------------------------------------------
(* The portfolio of the yield-bearing escrow.                              *)

LEMMA PortfolioStepTyped ==
    ASSUME PortfolioTyped, NEW ss \in Seq(Strategy), NewPortfolio(ss)
    PROVE  PortfolioTyped'
  BY DEF PortfolioTyped, NewPortfolio

\* What is registered is a strategy, and so are those that were.
LEMMA RegisteredTyped ==
    ASSUME PortfolioTyped, NEW a \in Pool, NEW w \in Nat
    PROVE  /\ [i \in DOMAIN strategies |-> IF strategies[i].address = a
                    THEN [address |-> a, weight |-> w] ELSE strategies[i]] \in Seq(Strategy)
           /\ Append(strategies, [address |-> a, weight |-> w]) \in Seq(Strategy)
  <1>1. [address |-> a, weight |-> w] \in Strategy
    BY DEF Strategy
  <1>2. strategies \in Seq(Strategy)
    BY DEF PortfolioTyped
  <1>3. \A i \in 1..Len(strategies) : strategies[i] \in Strategy
    BY <1>2
  <1> HIDE DEF Strategy
  <1> QED BY <1>1, <1>2, <1>3

\* Of the settlements nothing moves.
Unmoved == <<escrows, payouts>>

\* Calls that settle nothing and at most accrue the index of one token.
LEMMA SettlesRest ==
    ASSUME SettleInv, PortfolioTyped', UNCHANGED Unmoved, emergency => emergency',
           clock' \in Nat, clock <= clock',
           yieldState' \in [YieldCoins -> IndexState],
           \A c \in YieldCoins : /\ yieldState'[c].updated_at <= clock'
                                 /\ yieldState[c].index <= yieldState'[c].index
    PROVE  SettleInv'
  <1>1. EscrowsTyped'
    BY DEF SettleInv, EscrowsTyped, Unmoved
  <1>2. ASSUME NEW id \in EscrowIds, is_active(id)'
        PROVE  escrows'[id].reward_debt <= yieldState'[escrows'[id].token].index
    <2>1. escrows' = escrows /\ is_active(id)
      BY <1>2 DEF Unmoved, is_active
    <2>2. escrows[id] \in OpenedEscrow
      BY <2>1 DEF SettleInv, EscrowsTyped, is_active, NoEscrow
    <2> DEFINE c == escrows[id].token
    <2>3. c \in YieldCoins /\ escrows[id].reward_debt \in Nat
      BY <2>2 DEF OpenedEscrow
    <2>4. escrows[id].reward_debt <= yieldState[c].index
      BY <2>1 DEF SettleInv, DebtsPast
    <2>5. yieldState[c].index \in Nat /\ yieldState'[c].index \in Nat
          /\ yieldState[c].index <= yieldState'[c].index
      BY <2>3 DEF SettleInv, EscrowsTyped, IndexState
    <2> HIDE DEF c
    <2>6. escrows[id].reward_debt <= yieldState'[c].index
      BY <2>3, <2>4, <2>5
    <2> QED BY <2>1, <2>6 DEF c
  <1>3. PaidOnce'
    BY DEF SettleInv, PaidOnce, Unmoved, Settled, RightPayment
  <1> QED BY <1>1, <1>2, <1>3 DEF SettleInv, DebtsPast

\* An escrow is opened with the index of now, and has paid nothing.
LEMMA OpeningKeeps ==
    ASSUME SettleInv, NEW id \in EscrowIds, NEW e \in OpenedEscrow, e.status = "active",
           escrows[id] = NoEscrow, escrows' = [escrows EXCEPT ![id] = e],
           NEW s \in IndexState, s.index >= yieldState[e.token].index,
           s.updated_at = clock, e.reward_debt = s.index,
           yieldState' = [yieldState EXCEPT ![e.token] = s],
           UNCHANGED <<yieldAdmin, strategies, emergency, payouts, clock>>
    PROVE  SettleInv'
  <1>0. e.token \in YieldCoins /\ s.index \in Nat /\ clock \in Nat
    BY DEF OpenedEscrow, IndexState, SettleInv, EscrowsTyped
  <1>1. PortfolioTyped'
    BY DEF SettleInv, PortfolioTyped
  <1>2. EscrowsTyped'
    BY <1>0 DEF SettleInv, EscrowsTyped
  <1>3. ASSUME NEW k \in EscrowIds, is_active(k)'
        PROVE  escrows'[k].reward_debt <= yieldState'[escrows'[k].token].index
    <2>1. CASE k = id
      BY <1>0, <2>1 DEF SettleInv, EscrowsTyped
    <2>2. CASE k # id
      <3>1. escrows'[k] = escrows[k] /\ is_active(k)
        BY <1>3, <2>2 DEF SettleInv, EscrowsTyped, is_active
      <3>2. escrows[k] \in OpenedEscrow
        BY <3>1 DEF SettleInv, EscrowsTyped, is_active, NoEscrow
      <3> DEFINE c == escrows[k].token
      <3>3. c \in YieldCoins /\ escrows[k].reward_debt \in Nat
        BY <3>2 DEF OpenedEscrow
      <3>4. escrows[k].reward_debt <= yieldState[c].index
        BY <3>1 DEF SettleInv, DebtsPast
      <3>5. yieldState[c].index \in Nat /\ yieldState[c].index <= yieldState'[c].index
            /\ yieldState'[c].index \in Nat
        BY <1>0, <3>3 DEF SettleInv, EscrowsTyped, IndexState
      <3> HIDE DEF c
      <3>6. escrows[k].reward_debt <= yieldState'[c].index
        BY <3>3, <3>4, <3>5
      <3> QED BY <3>1, <3>6 DEF c
    <2> QED BY <2>1, <2>2
  <1>4. ASSUME NEW k \in EscrowIds
        PROVE  /\ ~Settled(k)' => payouts'[k] = <<>>
               /\ Settled(k)' => \E p : payouts'[k] = <<p>> /\ RightPayment(k, p)'
    <2>1. CASE k = id
      <3>1. ~Settled(k) /\ ~Settled(k)'
        BY <2>1 DEF Settled, NoEscrow, SettleInv, EscrowsTyped
      <3> QED BY <3>1 DEF SettleInv, PaidOnce
    <2>2. CASE k # id
      <3>1. escrows'[k] = escrows[k]
        BY <2>2 DEF SettleInv, EscrowsTyped
      <3>2. (Settled(k)' <=> Settled(k)) /\ \A p : RightPayment(k, p)' <=> RightPayment(k, p)
        BY <3>1 DEF Settled, RightPayment
      <3> QED BY <3>2 DEF SettleInv, PaidOnce
    <2> QED BY <2>1, <2>2
  <1>5. PaidOnce'
    BY <1>4 DEF SettleInv, PaidOnce
  <1> QED BY <1>1, <1>2, <1>3, <1>5 DEF SettleInv, DebtsPast

\* A settlement: one payment, a right one, and the escrow is closed.
LEMMA SettlingKeeps ==
    ASSUME SettleInv, NEW id \in EscrowIds, is_active(id),
           NEW status \in {"released", "cancelled"}, NEW pay, NEW paid,
           NEW s \in IndexState, s.index >= yieldState[escrows[id].token].index,
           s.updated_at <= clock,
           close_books(id, s, status, escrows[id].principal, paid),
           payouts' = [payouts EXCEPT ![id] = Append(@, pay)],
           UNCHANGED <<yieldAdmin, strategies, emergency, clock>>,
           ~emergency => pay.beneficiary + pay.payer >= escrows[id].principal,
           status = "released" /\ ~emergency => pay.beneficiary >= escrows[id].principal,
           status = "cancelled" => pay.beneficiary = 0
    PROVE  SettleInv'
  <1> DEFINE e == escrows[id]
             r == [s EXCEPT !.total_principal = @ - e.principal]
  <1>1. e \in OpenedEscrow
    BY DEF SettleInv, EscrowsTyped, is_active, NoEscrow
  <1>2. e.token \in YieldCoins /\ e.principal \in Nat
    BY <1>1 DEF OpenedEscrow
  <1>3. r \in IndexState /\ r.index = s.index /\ r.updated_at = s.updated_at
    BY <1>2 DEF IndexState
  <1>4. /\ escrows' = [escrows EXCEPT ![id].status = status]
        /\ yieldState' = [yieldState EXCEPT ![e.token] = r]
    BY DEF close_books
  <1>5. PortfolioTyped'
    BY DEF SettleInv, PortfolioTyped
  <1>6. /\ escrows'[id] \in OpenedEscrow /\ escrows'[id].status = status
        /\ escrows'[id].principal = e.principal
    BY <1>1, <1>4 DEF SettleInv, EscrowsTyped, OpenedEscrow
  <1>7. /\ escrows' \in [EscrowIds -> {NoEscrow} \cup OpenedEscrow]
        /\ \A k \in EscrowIds : k # id => escrows'[k] = escrows[k]
    BY <1>4, <1>6 DEF SettleInv, EscrowsTyped
  <1> HIDE DEF e, r
  <1>8. EscrowsTyped'
    BY <1>2, <1>3, <1>4, <1>7 DEF SettleInv, EscrowsTyped
  <1>9. ASSUME NEW k \in EscrowIds, is_active(k)'
        PROVE  escrows'[k].reward_debt <= yieldState'[escrows'[k].token].index
    <2>1. k # id
      BY <1>6, <1>9 DEF is_active
    <2>2. escrows'[k] = escrows[k] /\ is_active(k)
      BY <1>7, <1>9, <2>1 DEF is_active
    <2>3. escrows[k] \in OpenedEscrow
      BY <2>2 DEF SettleInv, EscrowsTyped, is_active, NoEscrow
    <2> DEFINE c == escrows[k].token
    <2>4. c \in YieldCoins /\ escrows[k].reward_debt \in Nat
      BY <2>3 DEF OpenedEscrow
    <2>5. escrows[k].reward_debt <= yieldState[c].index
      BY <2>2 DEF SettleInv, DebtsPast
    <2>6. yieldState[c].index \in Nat /\ yieldState[c].index <= yieldState'[c].index
          /\ yieldState'[c].index \in Nat
      BY <1>2, <1>3, <1>4, <2>4, SMTT(30) DEF SettleInv, EscrowsTyped, IndexState, e
    <2> HIDE DEF c
    <2>7. escrows[k].reward_debt <= yieldState'[c].index
      BY <2>4, <2>5, <2>6
    <2> QED BY <2>2, <2>7 DEF c
  <1>10. ASSUME NEW k \in EscrowIds
         PROVE  /\ ~Settled(k)' => payouts'[k] = <<>>
                /\ Settled(k)' => \E p : payouts'[k] = <<p>> /\ RightPayment(k, p)'
    <2>1. CASE k = id
      <3>1. payouts[id] = <<>>
        BY DEF SettleInv, PaidOnce, Settled, is_active
      <3>2. payouts'[id] = <<pay>>
        BY <3>1 DEF SettleInv, PaidOnce
      <3>3. Settled(id)' /\ RightPayment(id, pay)'
        BY <1>6 DEF Settled, RightPayment, e
      <3> QED BY <2>1, <3>2, <3>3
    <2>2. CASE k # id
      <3>1. escrows'[k] = escrows[k] /\ payouts'[k] = payouts[k]
        BY <1>7, <2>2 DEF SettleInv, PaidOnce
      <3>2. (Settled(k)' <=> Settled(k)) /\ \A p : RightPayment(k, p)' <=> RightPayment(k, p)
        BY <3>1 DEF Settled, RightPayment
      <3> QED BY <3>1, <3>2 DEF SettleInv, PaidOnce
    <2> QED BY <2>1, <2>2
  <1>11. PaidOnce'
    BY <1>10 DEF SettleInv, PaidOnce
  <1> QED BY <1>5, <1>8, <1>9, <1>11 DEF SettleInv, DebtsPast

LEMMA PortfolioKeepsSettle == SettleInv /\ PortfolioStep => SettleInv'
  <1> SUFFICES ASSUME SettleInv, PortfolioStep PROVE SettleInv'
    OBVIOUS
  <1>0. /\ yieldState \in [YieldCoins -> IndexState]
        /\ \A c \in YieldCoins : yieldState[c].updated_at <= clock /\ yieldState[c].index \in Nat
        /\ clock \in Nat
    BY DEF SettleInv, EscrowsTyped, IndexState
  <1>1. ASSUME PortfolioTyped', UNCHANGED <<yieldState, escrows, payouts, clock>>,
               emergency => emergency'
        PROVE  SettleInv'
    BY <1>0, <1>1, SettlesRest DEF Unmoved
  <1>2. ASSUME NEW ss \in Seq(Strategy), NewPortfolio(ss)
        PROVE  SettleInv'
    <2>1. PortfolioTyped'
      BY <1>2, PortfolioStepTyped DEF SettleInv
    <2> QED BY <1>1, <1>2, <2>1 DEF NewPortfolio, yieldBooks
  <1>3. ASSUME NEW a \in Party, NEW p \in Pool, yield_initialize(a, p)
        PROVE  SettleInv'
    <2>1. Single(p) \in Seq(Strategy)
      BY YieldAssumption DEF Single, Strategy
    <2>2. PortfolioTyped' /\ ~emergency
      BY <1>3, <2>1 DEF yield_initialize, SettleInv, PortfolioTyped
    <2> QED BY <1>1, <1>3, <2>2 DEF yield_initialize
  <1>4. ASSUME NEW p \in Pool, set_adapter(p)
        PROVE  SettleInv'
    <2>1. Single(p) \in Seq(Strategy)
      BY YieldAssumption DEF Single, Strategy
    <2> QED BY <1>2, <1>4, <2>1 DEF set_adapter
  <1>5. ASSUME NEW ss \in Portfolios, set_strategies(ss)
        PROVE  SettleInv'
    <2>1. ss \in Seq(Strategy)
      BY YieldAssumption DEF Strategy
    <2> QED BY <1>2, <1>5, <2>1 DEF set_strategies
  <1>6. ASSUME NEW p \in Pool, NEW w \in Weights, register_strategy(p, w)
        PROVE  SettleInv'
    <2>1. w \in Nat /\ PortfolioTyped
      BY YieldAssumption DEF SettleInv
    <2>2. \E ss \in Seq(Strategy) : NewPortfolio(ss)
      BY <1>6, <2>1, RegisteredTyped DEF register_strategy
    <2> QED BY <1>2, <2>2
  <1>7. ASSUME NEW c \in YieldCoins, rebalance(c)
        PROVE  SettleInv'
    <2>1. UNCHANGED <<yieldAdmin, strategies, emergency, yieldState, escrows, payouts, clock>>
      BY <1>7 DEF rebalance, yieldBooks
    <2>2. PortfolioTyped'
      BY <2>1 DEF SettleInv, PortfolioTyped
    <2> QED BY <1>1, <2>1, <2>2
  <1>8. ASSUME NEW c \in YieldCoins, get_yield_state(c)
        PROVE  SettleInv'
    <2>1. /\ yieldState' = [yieldState EXCEPT ![c] = update_yield_state(c)]
          /\ UNCHANGED <<yieldAdmin, strategies, emergency, escrows, payouts, clock>>
      BY <1>8 DEF get_yield_state
    <2>2. /\ update_yield_state(c) \in IndexState
          /\ update_yield_state(c).index >= yieldState[c].index
          /\ update_yield_state(c).updated_at = clock
      BY AccrualGoesForward DEF SettleInv
    <2>3. PortfolioTyped'
      BY <2>1 DEF SettleInv, PortfolioTyped
    <2>4. update_yield_state(c).index \in Nat
      BY <2>2 DEF IndexState
    <2>5. yieldState' \in [YieldCoins -> IndexState]
      BY <1>0, <2>1, <2>2
    <2>6. ASSUME NEW k \in YieldCoins
          PROVE  /\ yieldState'[k].updated_at <= clock'
                 /\ yieldState[k].index <= yieldState'[k].index
      BY <1>0, <2>1, <2>2, <2>4
    <2> QED BY <1>0, <2>1, <2>3, <2>5, <2>6, SettlesRest DEF Unmoved
  <1> QED BY <1>3, <1>4, <1>5, <1>6, <1>7, <1>8 DEF PortfolioStep

LEMMA CreateKeepsSettle ==
    ASSUME SettleInv, NEW id \in EscrowIds, NEW a \in Payers, NEW b \in Beneficiaries,
           NEW c \in YieldCoins, NEW n \in Principals, NEW t \in 1..MaxClock,
           NEW sh \in InterestShares, create_escrow(id, a, b, c, n, t, sh)
    PROVE  SettleInv'
  <1> DEFINE u == update_yield_state(c)
             s == [u EXCEPT !.total_principal = @ + n]
             e == [status |-> "active", payer |-> a, beneficiary |-> b, token |-> c,
                   principal |-> n, release_ledger |-> t, share |-> sh,
                   reward_debt |-> u.index]
  <1>1. n \in Nat /\ sh \in Nat
    BY YieldAssumption
  <1>2. u \in IndexState /\ u.index >= yieldState[c].index /\ u.updated_at = clock
    BY AccrualGoesForward DEF SettleInv
  <1>3. /\ escrows[id] = NoEscrow
        /\ escrows' = [escrows EXCEPT ![id] = e]
        /\ yieldState' = [yieldState EXCEPT ![c] = s]
        /\ UNCHANGED <<yieldAdmin, strategies, emergency, payouts, clock>>
    BY DEF create_escrow
  <1> HIDE DEF u
  <1>4. s \in IndexState /\ s.index = u.index /\ s.updated_at = u.updated_at
    BY <1>1, <1>2 DEF IndexState
  <1>5. u.index \in Nat
    BY <1>2 DEF IndexState
  <1>6. e \in OpenedEscrow /\ e.token = c /\ e.status = "active" /\ e.reward_debt = u.index
    BY <1>1, <1>5 DEF OpenedEscrow
  <1> HIDE DEF s, e
  <1> QED BY <1>2, <1>3, <1>4, <1>6, OpeningKeeps

LEMMA RedeemKeepsSettle ==
    ASSUME SettleInv, NEW id \in EscrowIds, is_active(id), ~emergency,
           NEW status \in {"released", "cancelled"}, Redeem(id, status)
    PROVE  SettleInv'
  <1> DEFINE e == escrows[id]
             s == update_yield_state(e.token)
             interest == position_yield(e, s)
             first == IF status = "released" THEN e.principal + (interest * e.share) \div BPS
                      ELSE 0
             pay == [beneficiary |-> first, payer |-> e.principal + interest - first]
  <1>1. e \in OpenedEscrow
    BY DEF SettleInv, EscrowsTyped, is_active, NoEscrow
  <1>2. e.token \in YieldCoins /\ e.principal \in Nat /\ e.share \in Nat /\ e.reward_debt \in Nat
    BY <1>1 DEF OpenedEscrow
  <1>3. s \in IndexState /\ s.index >= yieldState[e.token].index /\ s.updated_at = clock
    BY <1>2, AccrualGoesForward DEF SettleInv
  <1>4. e.reward_debt <= yieldState[e.token].index
    BY DEF SettleInv, DebtsPast
  <1>5. yieldState[e.token].index \in Nat /\ s.index \in Nat /\ clock \in Nat
    BY <1>2, <1>3 DEF SettleInv, EscrowsTyped, IndexState
  <1>6. close_books(id, s, status, e.principal, e.principal)
        /\ payouts' = [payouts EXCEPT ![id] = Append(@, pay)]
        /\ UNCHANGED <<yieldAdmin, strategies, emergency, clock>>
    BY DEF Redeem
  <1> HIDE DEF s
  <1>7. interest \in Nat
    <2>1. e.reward_debt <= s.index
      BY <1>2, <1>3, <1>4, <1>5
    <2> QED BY <1>1, <1>3, <2>1, YieldIsNatural
  <1> HIDE DEF interest
  <1>8. ((interest * e.share) \div BPS) \in Nat
    BY <1>2, <1>7, ProductsAreNatural, QuotientsAreNatural, YieldAssumption
  <1>9. /\ pay.beneficiary + pay.payer >= e.principal
        /\ status = "released" => pay.beneficiary >= e.principal
        /\ status = "cancelled" => pay.beneficiary = 0
    BY <1>2, <1>7, <1>8
  <1>10. s.updated_at <= clock
    BY <1>3, <1>5
  <1> HIDE DEF pay
  <1> QED BY <1>3, <1>6, <1>9, <1>10, SettlingKeeps

LEMMA VaultKeepsSettle ==
    ASSUME SettleInv, NEW id \in EscrowIds, is_active(id), emergency,
           NEW status \in {"released", "cancelled"}, PayFromVault(id, status)
    PROVE  SettleInv'
  <1> DEFINE e == escrows[id]
             s == [yieldState[e.token] EXCEPT !.rate_bps = 0]
             paid == Min({vault[e.token], e.principal})
             pay == [beneficiary |-> IF status = "released" THEN paid ELSE 0,
                     payer |-> IF status = "released" THEN 0 ELSE paid]
  <1>1. e \in OpenedEscrow
    BY DEF SettleInv, EscrowsTyped, is_active, NoEscrow
  <1>2. yieldState[e.token] \in IndexState /\ yieldState[e.token].updated_at <= clock
    BY <1>1 DEF SettleInv, EscrowsTyped, OpenedEscrow
  <1>3. /\ close_books(id, s, status, e.principal, paid)
        /\ payouts' = [payouts EXCEPT ![id] = Append(@, pay)]
        /\ UNCHANGED <<yieldAdmin, strategies, emergency, clock>>
    BY DEF PayFromVault
  <1>4. /\ s \in IndexState /\ s.index >= yieldState[e.token].index
        /\ s.updated_at <= clock
    BY <1>2 DEF IndexState
  <1>5. status = "cancelled" => pay.beneficiary = 0
    OBVIOUS
  <1> HIDE DEF s, paid, pay
  <1> QED BY <1>3, <1>4, <1>5, SettlingKeeps

LEMMA UnwindKeepsSettle ==
    ASSUME SettleInv, NEW tokens, NEW n, Unwind(tokens, n)
    PROVE  SettleInv'
  <1> DEFINE to(c) == IF c \in tokens
                      THEN [yieldState[c] EXCEPT !.rate_bps = 0, !.updated_at = clock]
                      ELSE yieldState[c]
  <1>1. yieldState' = [c \in YieldCoins |-> to(c)]
    BY DEF Unwind
  <1>2. yieldAdmin # NoParty /\ emergency' = TRUE
        /\ UNCHANGED <<yieldAdmin, strategies, escrows, payouts, clock>>
    BY DEF Unwind
  <1>3. clock \in Nat
    BY DEF SettleInv, EscrowsTyped
  <1>4. clock' \in Nat /\ clock <= clock' /\ UNCHANGED Unmoved
    BY <1>2, <1>3 DEF Unmoved
  <1>5. PortfolioTyped'
    BY <1>2 DEF SettleInv, PortfolioTyped
  <1>6. ASSUME NEW c \in YieldCoins
        PROVE  /\ to(c) \in IndexState
               /\ to(c).updated_at <= clock
               /\ yieldState[c].index <= to(c).index
    <2> DEFINE s == yieldState[c]
               r == [[s EXCEPT !.rate_bps = 0] EXCEPT !.updated_at = clock]
    <2>1. s \in IndexState /\ s.updated_at <= clock
      BY DEF SettleInv, EscrowsTyped
    <2>2. to(c) = IF c \in tokens THEN r ELSE s
      OBVIOUS
    <2> HIDE DEF s, to
    <2>3. r \in IndexState /\ r.updated_at = clock /\ r.index = s.index /\ s.index \in Nat
      BY <1>3, <2>1 DEF IndexState
    <2>4. /\ to(c) \in IndexState /\ to(c).updated_at <= clock
          /\ s.index <= to(c).index
      <3> HIDE DEF r
      <3> QED BY <1>3, <2>1, <2>2, <2>3
    <2> QED BY <2>4 DEF s
  <1> HIDE DEF to
  <1>7. yieldState' \in [YieldCoins -> IndexState]
    BY <1>1, <1>6
  <1>8. \A c \in YieldCoins : yieldState'[c].updated_at <= clock'
                              /\ yieldState[c].index <= yieldState'[c].index
    BY <1>1, <1>2, <1>6
  <1>9. emergency => emergency'
    BY <1>2
  <1> QED BY <1>4, <1>5, <1>7, <1>8, <1>9, SettlesRest

LEMMA EscrowKeepsSettle == SettleInv /\ EscrowStep => SettleInv'
  <1> SUFFICES ASSUME SettleInv, EscrowStep PROVE SettleInv'
    OBVIOUS
  <1>1. ASSUME NEW id \in EscrowIds, release(id)
        PROVE  SettleInv'
    BY <1>1, RedeemKeepsSettle, VaultKeepsSettle DEF release
  <1>2. ASSUME NEW id \in EscrowIds, cancel(id) \/ emergency_withdraw_principal(id)
        PROVE  SettleInv'
    BY <1>2, RedeemKeepsSettle, VaultKeepsSettle DEF cancel, emergency_withdraw_principal
  <1>3. ASSUME \/ \E n \in UnwindBounds : emergency_unwind_strategy(n)
               \/ \E c \in YieldCoins, n \in UnwindBounds : emergency_unwind_token(c, n)
        PROVE  SettleInv'
    BY <1>3, UnwindKeepsSettle DEF emergency_unwind_strategy, emergency_unwind_token
  <1> QED BY <1>1, <1>2, <1>3, CreateKeepsSettle DEF EscrowStep

LEMMA SettleStep == SettleInv /\ [YieldNext]_<<yieldVars, clock>> => SettleInv'
  <1> SUFFICES ASSUME SettleInv, [YieldNext]_<<yieldVars, clock>> PROVE SettleInv'
    OBVIOUS
  <1>1. ASSUME UNCHANGED <<yieldAdmin, strategies, emergency, yieldState, escrows, payouts>>,
               clock' \in {clock, clock + 1}
        PROVE  SettleInv'
    <2>1. PortfolioTyped'
      BY <1>1 DEF SettleInv, PortfolioTyped
    <2>2. /\ clock \in Nat /\ yieldState \in [YieldCoins -> IndexState]
          /\ \A c \in YieldCoins : /\ yieldState[c].updated_at <= clock
                                   /\ yieldState[c].updated_at \in Nat
                                   /\ yieldState[c].index \in Nat
      BY DEF SettleInv, EscrowsTyped, IndexState
    <2>3. clock' \in Nat /\ clock <= clock'
      BY <1>1, <2>2
    <2>4. \A c \in YieldCoins : yieldState[c].updated_at <= clock'
      BY <1>1, <2>2, <2>3
    <2> QED BY <1>1, <2>1, <2>2, <2>3, <2>4, SettlesRest DEF Unmoved
  <1>2. CASE PoolStep
    BY <1>1, <1>2 DEF PoolStep, pool_accrues, pool_loses, yieldBooks
  <1>3. CASE TimePasses /\ UNCHANGED yieldVars
    BY <1>1, <1>3 DEF TimePasses, yieldVars, yieldBooks
  <1>4. CASE UNCHANGED <<yieldVars, clock>>
    BY <1>1, <1>4 DEF yieldVars, yieldBooks
  <1> QED BY <1>2, <1>3, <1>4, PortfolioKeepsSettle, EscrowKeepsSettle DEF YieldNext

LEMMA SettleInitially == YieldInit /\ clock \in Nat => SettleInv
  <1> SUFFICES ASSUME YieldInit, clock \in Nat PROVE SettleInv
    OBVIOUS
  <1>1. PortfolioTyped
    <2>1. yieldAdmin = NoParty /\ strategies = <<>> /\ emergency = FALSE
      BY DEF YieldInit
    <2>2. strategies \in Seq(Strategy)
      BY <2>1
    <2> QED BY <2>1, <2>2 DEF PortfolioTyped
  <1>2. EscrowsTyped
    BY DEF YieldInit, EscrowsTyped, IndexState
  <1>3. \A id \in EscrowIds : escrows[id].status = "none" /\ payouts[id] = <<>>
    BY DEF YieldInit, NoEscrow
  <1>4. payouts = [id \in EscrowIds |-> payouts[id]]
    BY DEF YieldInit
  <1> QED BY <1>1, <1>2, <1>3, <1>4 DEF SettleInv, DebtsPast, PaidOnce, Settled, is_active

\* An escrow is settled once, outside an emergency never for less than its
\* principal, and a payer that cancels leaves the beneficiary nothing
\* (yield_escrow lib.rs:739-914).
THEOREM EscrowsAreSettledOnce == YieldSpec => []EscrowsSettleOnce
  BY SettleInitially, SettlesOnce, SettleStep, PTL DEF YieldSpec

-----------------------------------------------------------------------------
(* The counters of the yield-bearing escrow.  The open escrows are         *)
(* finitely many, for they are opened one by one.                          *)

Registry == [EscrowIds -> {NoEscrow} \cup OpenedEscrow]
OpenOf(es, c) == {id \in EscrowIds : es[id].status = "active" /\ es[id].token = c}
AllOpen(es) == {id \in EscrowIds : es[id].status = "active"}
PrincipalsOf(es) == [id \in EscrowIds |-> es[id].principal]
PrincipalIn(es, c) == SumFunctionOnSet(PrincipalsOf(es), OpenOf(es, c))

LEMMA OpenPrincipals ==
    ASSUME NEW es \in Registry, IsFiniteSet(AllOpen(es)), NEW c
    PROVE  /\ IsFiniteSet(OpenOf(es, c))
           /\ \A id \in OpenOf(es, c) : PrincipalsOf(es)[id] = es[id].principal
                                        /\ es[id].principal \in Nat
           /\ PrincipalIn(es, c) \in Nat
  <1>1. IsFiniteSet(OpenOf(es, c))
    <2>1. OpenOf(es, c) \subseteq AllOpen(es)
      BY DEF OpenOf, AllOpen
    <2> QED BY <2>1, FS_Subset
  <1>2. ASSUME NEW id \in OpenOf(es, c)
        PROVE  PrincipalsOf(es)[id] = es[id].principal /\ es[id].principal \in Nat
    <2>1. id \in EscrowIds /\ es[id] \in OpenedEscrow
      BY DEF OpenOf, Registry, NoEscrow
    <2> QED BY <2>1 DEF PrincipalsOf, OpenedEscrow
  <1> QED BY <1>1, <1>2, SumIsNatural DEF PrincipalIn

LEMMA OwedIsSum ==
    ASSUME escrows \in Registry, IsFiniteSet(AllOpen(escrows)), NEW c
    PROVE  OwedPrincipal(c) = PrincipalIn(escrows, c)
  <1> DEFINE f == [id \in ActiveIn(c) |-> escrows[id].principal]
             g == PrincipalsOf(escrows)
             S == OpenOf(escrows, c)
  <1>1. ActiveIn(c) = S
    BY DEF ActiveIn, OpenOf
  <1>2. IsFiniteSet(S) /\ \A id \in S : g[id] \in Int /\ g[id] = escrows[id].principal
    BY OpenPrincipals
  <1>3. \A id \in S : f[id] = g[id]
    BY <1>1, <1>2
  <1> HIDE DEF f, g, S
  <1>4. SumFunctionOnSet(f, S) = SumFunctionOnSet(g, S)
    BY <1>2, <1>3, SumCongruence
  <1> QED BY <1>1, <1>4 DEF OwedPrincipal, PrincipalIn, f, g, S

WithEscrow(es, id, e) == [es EXCEPT ![id] = e]
WithStatus(es, id, status) == [es EXCEPT ![id].status = status]

LEMMA OpeningAddsPrincipal ==
    ASSUME NEW es \in Registry, IsFiniteSet(AllOpen(es)), NEW id \in EscrowIds,
           es[id] = NoEscrow, NEW e \in OpenedEscrow, e.status = "active",
           NEW ms, ms = WithEscrow(es, id, e), NEW c
    PROVE  /\ ms \in Registry
           /\ IsFiniteSet(AllOpen(ms))
           /\ Cardinality(AllOpen(ms)) = Cardinality(AllOpen(es)) + 1
           /\ PrincipalIn(ms, c)
                = PrincipalIn(es, c) + (IF e.token = c THEN e.principal ELSE 0)
  <1>1. ms \in Registry /\ ms[id] = e /\ \A k \in EscrowIds : k # id => ms[k] = es[k]
    BY DEF Registry, WithEscrow
  <1>2. es[id].status # "active"
    BY DEF NoEscrow
  <1>3. AllOpen(ms) = AllOpen(es) \cup {id} /\ id \notin AllOpen(es)
    BY <1>1, <1>2 DEF AllOpen
  <1>4. /\ IsFiniteSet(AllOpen(ms))
        /\ Cardinality(AllOpen(ms)) = Cardinality(AllOpen(es)) + 1
    BY <1>3, FS_AddElement
  <1>5. PrincipalIn(ms, c)
          = PrincipalIn(es, c) + (IF e.token = c THEN e.principal ELSE 0)
    <2> DEFINE S == OpenOf(es, c)
               f == PrincipalsOf(es)
               g == PrincipalsOf(ms)
    <2>1. IsFiniteSet(S) /\ \A k \in S : f[k] \in Int /\ f[k] = es[k].principal
      BY OpenPrincipals
    <2>2. PrincipalIn(es, c) \in Nat
      BY OpenPrincipals
    <2>3. S \subseteq EscrowIds /\ id \notin S
      BY <1>2 DEF OpenOf
    <2>4. OpenOf(ms, c) = IF e.token = c THEN S \cup {id} ELSE S
      BY <1>1, <1>2 DEF OpenOf
    <2>5. g[id] = e.principal /\ e.principal \in Nat
      BY <1>1 DEF PrincipalsOf, OpenedEscrow
    <2>6. \A k \in S : g[k] = f[k]
      BY <1>1, <2>3 DEF PrincipalsOf
    <2> HIDE DEF S, f, g
    <2>7. SumFunctionOnSet(g, S) = SumFunctionOnSet(f, S)
      BY <2>1, <2>6, SumCongruence
    <2>8. \A k \in S \cup {id} : g[k] \in Int
      BY <2>1, <2>5, <2>6
    <2>9. SumFunctionOnSet(g, S \cup {id}) = g[id] + SumFunctionOnSet(g, S)
      BY <2>1, <2>3, <2>8, SumAdd
    <2>10. PrincipalIn(es, c) = SumFunctionOnSet(f, S)
           /\ PrincipalIn(ms, c) = SumFunctionOnSet(g, OpenOf(ms, c))
      BY DEF PrincipalIn, S, f, g
    <2> QED BY <2>2, <2>4, <2>5, <2>7, <2>9, <2>10
  <1> QED BY <1>1, <1>4, <1>5

LEMMA SettlingTakesPrincipal ==
    ASSUME NEW es \in Registry, IsFiniteSet(AllOpen(es)), NEW id \in EscrowIds,
           es[id].status = "active", NEW status \in {"released", "cancelled"},
           NEW ms, ms = WithStatus(es, id, status), NEW c
    PROVE  /\ ms \in Registry
           /\ IsFiniteSet(AllOpen(ms))
           /\ Cardinality(AllOpen(ms)) = Cardinality(AllOpen(es)) - 1
           /\ PrincipalIn(ms, c) = PrincipalIn(es, c)
                - (IF es[id].token = c THEN es[id].principal ELSE 0)
  <1>0. es[id] \in OpenedEscrow
    BY DEF Registry, NoEscrow
  <1>1. /\ ms \in Registry
        /\ ms[id].status = status
        /\ \A k \in EscrowIds : k # id => ms[k] = es[k]
    BY <1>0 DEF Registry, OpenedEscrow, WithStatus
  <1>2. AllOpen(ms) = AllOpen(es) \ {id} /\ id \in AllOpen(es)
    BY <1>1 DEF AllOpen
  <1>3. /\ IsFiniteSet(AllOpen(ms))
        /\ Cardinality(AllOpen(ms)) = Cardinality(AllOpen(es)) - 1
    BY <1>2, FS_RemoveElement
  <1>4. PrincipalIn(ms, c) = PrincipalIn(es, c)
          - (IF es[id].token = c THEN es[id].principal ELSE 0)
    <2> DEFINE S == OpenOf(es, c)
               T == S \ {id}
               f == PrincipalsOf(es)
               g == PrincipalsOf(ms)
    <2>1. IsFiniteSet(S) /\ \A k \in S : f[k] \in Int /\ f[k] = es[k].principal
      BY OpenPrincipals
    <2>2. PrincipalIn(es, c) \in Nat
      BY OpenPrincipals
    <2>3. S \subseteq EscrowIds /\ (id \in S <=> es[id].token = c)
      BY DEF OpenOf
    <2>4. OpenOf(ms, c) = T
      BY <1>1 DEF OpenOf
    <2>5. \A k \in T : g[k] = f[k]
      BY <1>1, <2>3 DEF PrincipalsOf
    <2>6. f[id] = es[id].principal /\ es[id].principal \in Nat
      BY <1>0 DEF PrincipalsOf, OpenedEscrow
    <2>7. IsFiniteSet(T)
      BY <2>1, FS_Subset
    <2> HIDE DEF S, f, g
    <2>8. SumFunctionOnSet(g, T) = SumFunctionOnSet(f, T)
      BY <2>1, <2>5, <2>7, SumCongruence
    <2>9. id \in S => SumFunctionOnSet(f, S) = f[id] + SumFunctionOnSet(f, T)
      BY <2>1, SumRemove
    <2>10. id \notin S => T = S
      OBVIOUS
    <2>11. SumFunctionOnSet(f, T) \in Int
      BY <2>1, <2>7, SumIsInteger
    <2>12. PrincipalIn(es, c) = SumFunctionOnSet(f, S)
           /\ PrincipalIn(ms, c) = SumFunctionOnSet(g, T)
      BY <2>4 DEF PrincipalIn, S, f, g
    <2> HIDE DEF T
    <2> QED BY <2>2, <2>3, <2>6, <2>8, <2>9, <2>10, <2>11, <2>12
  <1> QED BY <1>1, <1>3, <1>4

CountersInv ==
    /\ escrows \in Registry
    /\ IsFiniteSet(AllOpen(escrows))
    /\ yieldAdmin = NoParty => AllOpen(escrows) = {}
    /\ activeEscrows = Cardinality(AllOpen(escrows))
    /\ \A c \in YieldCoins : yieldState[c].total_principal = PrincipalIn(escrows, c)

LEMMA CountersBalance == CountersInv => YieldBooksBalance
  <1> SUFFICES ASSUME CountersInv PROVE YieldBooksBalance
    OBVIOUS
  <1>1. {id \in EscrowIds : is_active(id)} = AllOpen(escrows)
    BY DEF is_active, AllOpen
  <1> QED BY <1>1, OwedIsSum DEF CountersInv, YieldBooksBalance

\* Calls that open and settle nothing.
LEMMA CountersRest ==
    ASSUME CountersInv, escrows' = escrows, activeEscrows' = activeEscrows,
           yieldAdmin' = NoParty => yieldAdmin = NoParty,
           \A c \in YieldCoins :
               yieldState'[c].total_principal = yieldState[c].total_principal
    PROVE  CountersInv'
  BY DEF CountersInv, AllOpen, OpenOf, PrincipalIn, PrincipalsOf

\* A new escrow is one more open escrow, and owes its principal.
LEMMA CreatingOpens ==
    ASSUME SettleInv, CountersInv, NEW id \in EscrowIds, NEW a \in Payers,
           NEW b \in Beneficiaries, NEW c \in YieldCoins, NEW n \in Principals,
           NEW t \in 1..MaxClock, NEW sh \in InterestShares,
           create_escrow(id, a, b, c, n, t, sh)
    PROVE  /\ n \in Nat
           /\ yieldState[c].total_principal \in Int
           /\ yieldState' = [yieldState EXCEPT ![c] = yieldState'[c]]
           /\ yieldState'[c].total_principal = yieldState[c].total_principal + n
           /\ activeEscrows' = activeEscrows + 1
           /\ yieldAdmin # NoParty /\ yieldAdmin' = yieldAdmin
           /\ escrows' \in Registry /\ IsFiniteSet(AllOpen(escrows'))
           /\ Cardinality(AllOpen(escrows')) = Cardinality(AllOpen(escrows)) + 1
           /\ \A k : PrincipalIn(escrows', k)
                       = PrincipalIn(escrows, k) + (IF c = k THEN n ELSE 0)
  <1> DEFINE u == update_yield_state(c)
             s == [u EXCEPT !.total_principal = @ + n]
             e == [status |-> "active", payer |-> a, beneficiary |-> b, token |-> c,
                   principal |-> n, release_ledger |-> t, share |-> sh,
                   reward_debt |-> u.index]
  <1>1. n \in Nat /\ sh \in Nat
    BY YieldAssumption
  <1>2. u \in IndexState /\ u.total_principal = yieldState[c].total_principal
    BY AccrualGoesForward DEF SettleInv
  <1>3. /\ escrows[id] = NoEscrow
        /\ escrows' = [escrows EXCEPT ![id] = e]
        /\ yieldState' = [yieldState EXCEPT ![c] = s]
        /\ activeEscrows' = activeEscrows + 1
        /\ yieldAdmin # NoParty /\ yieldAdmin' = yieldAdmin
    BY DEF create_escrow
  <1> HIDE DEF u
  <1>4. s.total_principal = yieldState[c].total_principal + n
    BY <1>1, <1>2 DEF IndexState
  <1>5. u.index \in Nat
    BY <1>2 DEF IndexState
  <1>6. e \in OpenedEscrow /\ e.token = c /\ e.status = "active" /\ e.principal = n
    BY <1>1, <1>5 DEF OpenedEscrow
  <1> HIDE DEF s, e
  <1>7. /\ escrows \in Registry /\ IsFiniteSet(AllOpen(escrows)) /\ id \in EscrowIds
        /\ activeEscrows = Cardinality(AllOpen(escrows))
    BY DEF CountersInv
  <1>8. /\ escrows' \in Registry /\ IsFiniteSet(AllOpen(escrows'))
        /\ Cardinality(AllOpen(escrows')) = Cardinality(AllOpen(escrows)) + 1
        /\ \A k : PrincipalIn(escrows', k)
                    = PrincipalIn(escrows, k) + (IF e.token = k THEN e.principal ELSE 0)
    <2> DEFINE es == escrows
               ms == escrows'
    <2>1. /\ es \in Registry /\ IsFiniteSet(AllOpen(es)) /\ id \in EscrowIds
          /\ es[id] = NoEscrow /\ ms = WithEscrow(es, id, e)
      BY <1>3, <1>7 DEF WithEscrow
    <2> HIDE DEF es, ms
    <2>2. ms \in Registry /\ IsFiniteSet(AllOpen(ms))
          /\ Cardinality(AllOpen(ms)) = Cardinality(AllOpen(es)) + 1
      BY ONLY <1>6, <2>1, OpeningAddsPrincipal
    <2>3. ASSUME NEW k
          PROVE  PrincipalIn(ms, k)
                   = PrincipalIn(es, k) + (IF e.token = k THEN e.principal ELSE 0)
      BY ONLY <1>6, <2>1, OpeningAddsPrincipal
    <2> QED BY <2>2, <2>3 DEF es, ms
  <1>9. /\ yieldState' = [yieldState EXCEPT ![c] = yieldState'[c]]
        /\ yieldState'[c] = s
        /\ yieldState[c].total_principal \in Int
    BY <1>2, <1>3 DEF SettleInv, EscrowsTyped, IndexState
  <1> QED BY <1>1, <1>3, <1>4, <1>6, <1>8, <1>9

LEMMA CreateKeepsCounters ==
    ASSUME SettleInv, CountersInv, NEW id \in EscrowIds, NEW a \in Payers,
           NEW b \in Beneficiaries, NEW c \in YieldCoins, NEW n \in Principals,
           NEW t \in 1..MaxClock, NEW sh \in InterestShares,
           create_escrow(id, a, b, c, n, t, sh)
    PROVE  CountersInv'
  <1>1. /\ n \in Nat
        /\ yieldState' = [yieldState EXCEPT ![c] = yieldState'[c]]
        /\ yieldState'[c].total_principal = yieldState[c].total_principal + n
        /\ activeEscrows' = activeEscrows + 1
        /\ yieldAdmin # NoParty /\ yieldAdmin' = yieldAdmin
        /\ escrows' \in Registry /\ IsFiniteSet(AllOpen(escrows'))
        /\ Cardinality(AllOpen(escrows')) = Cardinality(AllOpen(escrows)) + 1
        /\ \A k : PrincipalIn(escrows', k)
                    = PrincipalIn(escrows, k) + (IF c = k THEN n ELSE 0)
    BY CreatingOpens
  <1>2. \A k \in YieldCoins : k # c => yieldState'[k] = yieldState[k]
    BY <1>1 DEF SettleInv, EscrowsTyped
  <1>3. activeEscrows = Cardinality(AllOpen(escrows))
        /\ escrows \in Registry /\ IsFiniteSet(AllOpen(escrows))
    BY DEF CountersInv
  <1>4. ASSUME NEW k \in YieldCoins
        PROVE  yieldState'[k].total_principal = PrincipalIn(escrows', k)
    <2>1. /\ yieldState[k].total_principal = PrincipalIn(escrows, k)
          /\ PrincipalIn(escrows, k) \in Nat
      BY <1>3, OpenPrincipals DEF CountersInv
    <2>2. CASE k = c
      BY <1>1, <2>1, <2>2
    <2>3. CASE k # c
      BY <1>1, <1>2, <2>1, <2>3
    <2> QED BY <2>2, <2>3
  <1>5. AllOpen(escrows)' = AllOpen(escrows')
    BY DEF AllOpen
  <1>6. \A k : PrincipalIn(escrows, k)' = PrincipalIn(escrows', k)
    BY DEF PrincipalIn, PrincipalsOf, OpenOf
  <1> QED BY <1>1, <1>3, <1>4, <1>5, <1>6 DEF CountersInv

\* A settled escrow is one open escrow less, and owes nothing any more.
LEMMA SettlingCloses ==
    ASSUME SettleInv, CountersInv, NEW id \in EscrowIds, is_active(id),
           NEW status \in {"released", "cancelled"},
           escrows' = [escrows EXCEPT ![id].status = status]
    PROVE  /\ escrows[id].token \in YieldCoins /\ escrows[id].principal \in Nat
           /\ escrows' \in Registry /\ IsFiniteSet(AllOpen(escrows'))
           /\ Cardinality(AllOpen(escrows')) = Cardinality(AllOpen(escrows)) - 1
           /\ \A k : PrincipalIn(escrows', k) = PrincipalIn(escrows, k)
                        - (IF escrows[id].token = k THEN escrows[id].principal ELSE 0)
  <1> DEFINE e == escrows[id]
  <1>1. e \in OpenedEscrow /\ e.status = "active"
    BY DEF SettleInv, EscrowsTyped, is_active, NoEscrow
  <1>2. e.token \in YieldCoins /\ e.principal \in Nat
    BY <1>1 DEF OpenedEscrow
  <1>3. /\ escrows \in Registry /\ IsFiniteSet(AllOpen(escrows))
        /\ id \in EscrowIds /\ status \in {"released", "cancelled"}
    BY DEF CountersInv
  <1>4. /\ escrows' \in Registry /\ IsFiniteSet(AllOpen(escrows'))
        /\ Cardinality(AllOpen(escrows')) = Cardinality(AllOpen(escrows)) - 1
        /\ \A k : PrincipalIn(escrows', k)
                    = PrincipalIn(escrows, k) - (IF e.token = k THEN e.principal ELSE 0)
    <2> DEFINE es == escrows
               ms == escrows'
    <2>1. /\ es \in Registry /\ IsFiniteSet(AllOpen(es)) /\ id \in EscrowIds
          /\ es[id].status = "active" /\ status \in {"released", "cancelled"}
          /\ ms = WithStatus(es, id, status) /\ es[id] = e
      BY <1>1, <1>3 DEF WithStatus
    <2> HIDE DEF es, ms, e
    <2>2. ms \in Registry /\ IsFiniteSet(AllOpen(ms))
          /\ Cardinality(AllOpen(ms)) = Cardinality(AllOpen(es)) - 1
      BY ONLY <2>1, SettlingTakesPrincipal
    <2>3. ASSUME NEW k
          PROVE  PrincipalIn(ms, k)
                   = PrincipalIn(es, k) - (IF e.token = k THEN e.principal ELSE 0)
      BY ONLY <2>1, SettlingTakesPrincipal
    <2> QED BY <2>2, <2>3 DEF es, ms
  <1> QED BY <1>2, <1>4

LEMMA SettlingKeepsCounters ==
    ASSUME SettleInv, CountersInv, NEW id \in EscrowIds, is_active(id),
           NEW status \in {"released", "cancelled"}, NEW paid, NEW s \in IndexState,
           s.total_principal = yieldState[escrows[id].token].total_principal,
           close_books(id, s, status, escrows[id].principal, paid),
           yieldAdmin' = yieldAdmin
    PROVE  CountersInv'
  <1> DEFINE e == escrows[id]
             r == [s EXCEPT !.total_principal = @ - e.principal]
  <1>1. e \in OpenedEscrow /\ e.status = "active"
    BY DEF SettleInv, EscrowsTyped, is_active, NoEscrow
  <1>2. e.token \in YieldCoins /\ e.principal \in Nat
    BY <1>1 DEF OpenedEscrow
  <1>3. r.total_principal = yieldState[e.token].total_principal - e.principal
    BY DEF IndexState
  <1>4. /\ escrows' = [escrows EXCEPT ![id].status = status]
        /\ yieldState' = [yieldState EXCEPT ![e.token] = r]
        /\ activeEscrows' = activeEscrows - 1
    BY DEF close_books
  <1>5. /\ escrows \in Registry /\ IsFiniteSet(AllOpen(escrows))
        /\ activeEscrows = Cardinality(AllOpen(escrows))
        /\ id \in EscrowIds /\ status \in {"released", "cancelled"}
    BY DEF CountersInv
  <1> HIDE DEF r
  <1>6. /\ escrows' \in Registry /\ IsFiniteSet(AllOpen(escrows'))
        /\ Cardinality(AllOpen(escrows')) = Cardinality(AllOpen(escrows)) - 1
        /\ \A k : PrincipalIn(escrows', k)
                    = PrincipalIn(escrows, k) - (IF e.token = k THEN e.principal ELSE 0)
    BY <1>4, SettlingCloses
  <1>7. ASSUME NEW k \in YieldCoins
        PROVE  yieldState'[k].total_principal = PrincipalIn(escrows', k)
    <2>1. /\ yieldState[k].total_principal = PrincipalIn(escrows, k)
          /\ PrincipalIn(escrows, k) \in Nat
      BY <1>5, OpenPrincipals DEF CountersInv
    <2>2. yieldState'[k] = IF k = e.token THEN r ELSE yieldState[k]
      BY <1>2, <1>4 DEF SettleInv, EscrowsTyped
    <2> HIDE DEF e
    <2> QED BY <1>2, <1>3, <1>6, <2>1, <2>2
  <1>8. AllOpen(escrows)' = AllOpen(escrows')
    BY DEF AllOpen
  <1>9. \A k : PrincipalIn(escrows, k)' = PrincipalIn(escrows', k)
    BY DEF PrincipalIn, PrincipalsOf, OpenOf
  <1>10. yieldAdmin # NoParty
    <2>1. id \in AllOpen(escrows)
      BY <1>1 DEF AllOpen
    <2> QED BY <2>1 DEF CountersInv
  <1> QED BY <1>4, <1>5, <1>6, <1>7, <1>8, <1>9, <1>10 DEF CountersInv

LEMMA EscrowKeepsCounters == SettleInv /\ CountersInv /\ EscrowStep => CountersInv'
  <1> SUFFICES ASSUME SettleInv, CountersInv, EscrowStep PROVE CountersInv'
    OBVIOUS
  <1>1. ASSUME NEW id \in EscrowIds, is_active(id)
        PROVE  /\ escrows[id].token \in YieldCoins
               /\ yieldState[escrows[id].token] \in IndexState
    <2>1. escrows[id] \in OpenedEscrow
      BY <1>1 DEF SettleInv, EscrowsTyped, is_active, NoEscrow
    <2> QED BY <2>1 DEF OpenedEscrow, SettleInv, EscrowsTyped
  <1>2. ASSUME NEW id \in EscrowIds, is_active(id), NEW status \in {"released", "cancelled"},
               Redeem(id, status)
        PROVE  CountersInv'
    <2> DEFINE s == update_yield_state(escrows[id].token)
    <2>1. s \in IndexState
          /\ s.total_principal = yieldState[escrows[id].token].total_principal
      BY <1>1, <1>2, AccrualGoesForward DEF SettleInv
    <2>2. close_books(id, s, status, escrows[id].principal, escrows[id].principal)
          /\ yieldAdmin' = yieldAdmin
      BY <1>2 DEF Redeem
    <2> HIDE DEF s
    <2> QED BY <1>2, <2>1, <2>2, SettlingKeepsCounters
  <1>3. ASSUME NEW id \in EscrowIds, is_active(id), NEW status \in {"released", "cancelled"},
               PayFromVault(id, status)
        PROVE  CountersInv'
    <2> DEFINE t == yieldState[escrows[id].token]
               s == [t EXCEPT !.rate_bps = 0]
               paid == Min({vault[escrows[id].token], escrows[id].principal})
    <2>1. t \in IndexState
      BY <1>1, <1>3
    <2>2. close_books(id, s, status, escrows[id].principal, paid)
          /\ yieldAdmin' = yieldAdmin
      BY <1>3 DEF PayFromVault
    <2> HIDE DEF t, paid
    <2>3. s \in IndexState /\ s.total_principal = t.total_principal
      BY <2>1 DEF IndexState
    <2> HIDE DEF s
    <2> QED BY <1>3, <2>2, <2>3, SettlingKeepsCounters DEF t
  <1>4. ASSUME NEW tokens, NEW n, Unwind(tokens, n)
        PROVE  CountersInv'
    <2>1. /\ UNCHANGED <<yieldAdmin, activeEscrows, escrows>>
          /\ yieldState' = [c \in YieldCoins |->
                              IF c \in tokens
                              THEN [yieldState[c] EXCEPT !.rate_bps = 0, !.updated_at = clock]
                              ELSE yieldState[c]]
      BY <1>4 DEF Unwind
    <2>2. ASSUME NEW c \in YieldCoins
          PROVE  yieldState'[c].total_principal = yieldState[c].total_principal
      <3>1. yieldState[c] \in IndexState
        BY DEF SettleInv, EscrowsTyped
      <3>2. CASE c \in tokens
        BY <2>1, <3>1, <3>2 DEF IndexState
      <3>3. CASE c \notin tokens
        BY <2>1, <3>3
      <3> QED BY <3>2, <3>3
    <2> QED BY <2>1, <2>2, CountersRest
  <1>5. ASSUME \/ \E id \in EscrowIds : release(id)
               \/ \E id \in EscrowIds : cancel(id)
               \/ \E id \in EscrowIds : emergency_withdraw_principal(id)
        PROVE  CountersInv'
    BY <1>2, <1>3, <1>5 DEF release, cancel, emergency_withdraw_principal
  <1>6. ASSUME \/ \E n \in UnwindBounds : emergency_unwind_strategy(n)
               \/ \E c \in YieldCoins, n \in UnwindBounds : emergency_unwind_token(c, n)
        PROVE  CountersInv'
    BY <1>4, <1>6 DEF emergency_unwind_strategy, emergency_unwind_token
  <1> QED BY <1>5, <1>6, CreateKeepsCounters DEF EscrowStep

LEMMA PortfolioKeepsCounters == SettleInv /\ CountersInv /\ PortfolioStep => CountersInv'
  <1> SUFFICES ASSUME SettleInv, CountersInv, PortfolioStep PROVE CountersInv'
    OBVIOUS
  <1>1. ASSUME UNCHANGED <<yieldAdmin, activeEscrows, escrows, yieldState>>
        PROVE  CountersInv'
    BY <1>1, CountersRest
  <1>2. ASSUME NEW a \in Party, NEW p \in Pool, yield_initialize(a, p)
        PROVE  CountersInv'
    <2>1. AllOpen(escrows) = {} /\ activeEscrows = 0
      BY <1>2, FS_EmptySet DEF yield_initialize, CountersInv
    <2>2. escrows' = escrows /\ yieldState' = yieldState /\ activeEscrows' = 0 /\ yieldAdmin' = a
      BY <1>2 DEF yield_initialize
    <2>3. a # NoParty
      BY LedgerAssumption
    <2> QED BY <2>1, <2>2, <2>3, CountersRest
  <1>3. ASSUME NEW ss, NewPortfolio(ss)
        PROVE  CountersInv'
    BY <1>1, <1>3 DEF NewPortfolio, yieldBooks
  <1>4. ASSUME \/ \E p \in Pool : set_adapter(p)
               \/ \E ss \in Portfolios : set_strategies(ss)
               \/ \E p \in Pool, w \in Weights : register_strategy(p, w)
        PROVE  CountersInv'
    BY <1>3, <1>4 DEF set_adapter, set_strategies, register_strategy
  <1>5. ASSUME NEW c \in YieldCoins, rebalance(c)
        PROVE  CountersInv'
    BY <1>1, <1>5 DEF rebalance, yieldBooks
  <1>6. ASSUME NEW c \in YieldCoins, get_yield_state(c)
        PROVE  CountersInv'
    <2>1. /\ yieldState' = [yieldState EXCEPT ![c] = update_yield_state(c)]
          /\ UNCHANGED <<yieldAdmin, activeEscrows, escrows>>
      BY <1>6 DEF get_yield_state
    <2>2. update_yield_state(c).total_principal = yieldState[c].total_principal
      BY AccrualGoesForward DEF SettleInv
    <2>3. \A k \in YieldCoins : yieldState'[k].total_principal = yieldState[k].total_principal
      BY <2>1, <2>2 DEF SettleInv, EscrowsTyped
    <2> QED BY <2>1, <2>3, CountersRest
  <1> QED BY <1>2, <1>4, <1>5, <1>6 DEF PortfolioStep

LEMMA CountersStep == SettleInv /\ CountersInv /\ [YieldNext]_<<yieldVars, clock>> => CountersInv'
  <1> SUFFICES ASSUME SettleInv, CountersInv, [YieldNext]_<<yieldVars, clock>>
               PROVE  CountersInv'
    OBVIOUS
  <1>1. ASSUME UNCHANGED <<yieldAdmin, activeEscrows, escrows, yieldState>>
        PROVE  CountersInv'
    BY <1>1, CountersRest
  <1>2. CASE PoolStep
    BY <1>1, <1>2 DEF PoolStep, pool_accrues, pool_loses, yieldBooks
  <1>3. CASE UNCHANGED yieldVars
    BY <1>1, <1>3 DEF yieldVars, yieldBooks
  <1> QED BY <1>2, <1>3, EscrowKeepsCounters, PortfolioKeepsCounters DEF YieldNext

LEMMA CountersInitially == YieldInit => CountersInv
  <1> SUFFICES ASSUME YieldInit PROVE CountersInv
    OBVIOUS
  <1>1. \A id \in EscrowIds : escrows[id] = NoEscrow
    BY DEF YieldInit
  <1>2. AllOpen(escrows) = {} /\ \A c : OpenOf(escrows, c) = {}
    BY <1>1 DEF AllOpen, OpenOf, NoEscrow
  <1>3. \A c : PrincipalIn(escrows, c) = 0
    BY <1>2, SumEmpty DEF PrincipalIn
  <1>4. \A c \in YieldCoins : yieldState[c].total_principal = 0
    BY DEF YieldInit
  <1>5. escrows \in Registry /\ activeEscrows = 0
    BY DEF YieldInit, Registry
  <1> QED BY <1>2, <1>3, <1>4, <1>5, FS_EmptySet DEF CountersInv

\* The counters that guard the portfolio are those of the open escrows, and
\* the principal on the books of a token is theirs, however they are settled
\* (yield_escrow lib.rs:1384-1414, 1455-1483).
THEOREM YieldBooksStayBalanced == YieldSpec => []YieldBooksBalance
  <1>1. YieldInit /\ clock \in Nat => SettleInv /\ CountersInv
    BY SettleInitially, CountersInitially
  <1> QED BY <1>1, CountersBalance, SettleStep, CountersStep, PTL DEF YieldSpec
-----------------------------------------------------------------------------
(* The reach of a settlement: the vault, and the principal in the pools of *)
(* the portfolio.  Moving capital between them loses nothing, and what is  *)
(* harvested comes on top.                                                 *)

PoolState == [principal : Nat, accrued : Nat]
Books == [ok : BOOLEAN, harvested : Nat, vault : Int, pools : [Pool -> PoolState]]
MoveIn(A) == [address : A, amount : Nat]

PrincipalAt(b) == [a \in Pool |-> b.pools[a].principal]
Wealth(b, A) == b.vault + SumFunctionOnSet(PrincipalAt(b), A)

LEMMA WealthIsInteger ==
    ASSUME NEW A, A \subseteq Pool, IsFiniteSet(A), NEW b \in Books
    PROVE  Wealth(b, A) \in Int
  <1>1. \A a \in A : PrincipalAt(b)[a] \in Int
    BY DEF Books, PoolState, PrincipalAt
  <1>2. SumFunctionOnSet(PrincipalAt(b), A) \in Int
    BY <1>1, SumIsInteger
  <1> QED BY <1>2 DEF Wealth, Books

WithPool(ps, a, p) == [ps EXCEPT ![a] = p]

\* The books after one pool and the vault have changed.
LEMMA OnePoolMoves ==
    ASSUME NEW A, A \subseteq Pool, IsFiniteSet(A), NEW b \in Books, NEW a \in A,
           NEW p \in PoolState, NEW v \in Int, NEW h \in Nat, NEW ok \in BOOLEAN,
           NEW r, r.ok = ok, r.harvested = h, r.vault = v,
           r.pools = WithPool(b.pools, a, p)
    PROVE  /\ r.pools \in [Pool -> PoolState]
           /\ Wealth(b, A) \in Int
           /\ Wealth(r, A) = Wealth(b, A) + (v - b.vault)
                                          + (p.principal - b.pools[a].principal)
  <1>1. b.pools \in [Pool -> PoolState] /\ b.vault \in Int /\ a \in Pool
    BY DEF Books
  <1>2. /\ r.pools \in [Pool -> PoolState]
        /\ r.pools[a] = p /\ \A k \in Pool : k # a => r.pools[k] = b.pools[k]
    BY <1>1 DEF WithPool
  <1> DEFINE f == PrincipalAt(b)
             g == PrincipalAt(r)
  <1>3. /\ \A k \in A : f[k] \in Int
        /\ f[a] = b.pools[a].principal /\ g[a] = p.principal /\ g[a] \in Int
        /\ \A k \in A : k # a => g[k] = f[k]
    BY <1>1, <1>2 DEF PrincipalAt, PoolState
  <1> HIDE DEF f, g
  <1>4. /\ SumFunctionOnSet(g, A) = SumFunctionOnSet(f, A) - f[a] + g[a]
        /\ SumFunctionOnSet(f, A) \in Int
    BY <1>3, SumUpdate
  <1>5. f[a] \in Int
    BY <1>3
  <1>6. /\ Wealth(b, A) = b.vault + SumFunctionOnSet(f, A)
        /\ Wealth(r, A) = v + SumFunctionOnSet(g, A)
    BY DEF Wealth, f, g
  <1> QED BY <1>1, <1>2, <1>3, <1>4, <1>5, <1>6

LEMMA TakingLosesNothing ==
    ASSUME NEW A, A \subseteq Pool, IsFiniteSet(A), NEW b \in Books, NEW m \in MoveIn(A)
    PROVE  /\ take(b, m) \in Books
           /\ take(b, m).harvested = b.harvested
           /\ Wealth(take(b, m), A) >= Wealth(b, A)
           /\ \A k \in Pool : b.pools[k].principal = 0
                                => take(b, m).pools[k].principal = 0
           /\ m.amount = get_balance(b.pools, m.address)
                => take(b, m).pools[m.address].principal = 0
  <1> DEFINE a == m.address
             n == m.amount
             q == b.pools[a]
             p == pool_withdraw(q, n)
             r == take(b, m)
  <1>1. a \in A /\ a \in Pool /\ n \in Nat
    BY DEF MoveIn
  <1>2. /\ b.pools \in [Pool -> PoolState] /\ b.vault \in Int
        /\ b.harvested \in Nat /\ b.ok \in BOOLEAN
    BY DEF Books
  <1>3. q \in PoolState /\ q.principal \in Nat /\ q.accrued \in Nat
    BY <1>1, <1>2 DEF PoolState
  <1>4. get_balance(b.pools, a) = q.principal + q.accrued
    BY DEF get_balance
  <1>5. CASE n > q.principal + q.accrued
    <2>1. r = [b EXCEPT !.ok = FALSE]
      BY <1>4, <1>5 DEF take
    <2>2. r \in Books /\ r.harvested = b.harvested /\ r.pools = b.pools /\ r.vault = b.vault
      BY <2>1 DEF Books
    <2>3. Wealth(r, A) = Wealth(b, A) /\ Wealth(b, A) \in Int
      BY <2>2, WealthIsInteger DEF Wealth, PrincipalAt
    <2> HIDE DEF r, q
    <2>4. Wealth(r, A) >= Wealth(b, A)
      BY <2>3
    <2> QED BY <1>1, <1>3, <1>4, <1>5, <2>2, <2>4 DEF r
  <1>6. CASE ~(n > q.principal + q.accrued)
    <2>1. /\ p \in PoolState
          /\ p.principal <= q.principal
          /\ n + p.principal >= q.principal
          /\ n = q.principal + q.accrued => p.principal = 0
      BY <1>1, <1>3, <1>6 DEF pool_withdraw, PoolState
    <2>2. r = [b EXCEPT !.pools[a] = p, !.vault = @ + n]
      BY <1>4, <1>6 DEF take
    <2> HIDE DEF p, r
    <2>3. /\ r.ok = b.ok /\ r.harvested = b.harvested
          /\ r.vault = b.vault + n
          /\ r.pools = WithPool(b.pools, a, p)
      BY <2>2 DEF Books, WithPool
    <2>4. r = [ok |-> r.ok, harvested |-> r.harvested, vault |-> r.vault, pools |-> r.pools]
      BY <2>2 DEF Books
    <2>5. b.vault + n \in Int
      BY <1>1, <1>2
    <2>6. /\ r.pools \in [Pool -> PoolState] /\ Wealth(b, A) \in Int
          /\ Wealth(r, A) = Wealth(b, A) + (b.vault + n - b.vault)
                                         + (p.principal - q.principal)
      BY <1>1, <1>2, <2>1, <2>3, <2>5, OnePoolMoves, SMTT(30)
    <2>7. r \in Books
      BY <1>2, <2>3, <2>4, <2>5, <2>6 DEF Books
    <2>8. p.principal \in Nat
      BY <2>1 DEF PoolState
    <2>9. Wealth(r, A) >= Wealth(b, A)
      <3> HIDE DEF q
      <3> QED BY <1>1, <1>2, <1>3, <2>1, <2>6, <2>8
    <2>10. r.pools[a] = p /\ \A k \in Pool : k # a => r.pools[k] = b.pools[k]
      BY <1>1, <1>2, <2>3 DEF WithPool
    <2>11. \A k \in Pool : b.pools[k].principal = 0 => r.pools[k].principal = 0
      BY <1>3, <2>1, <2>8, <2>10
    <2> QED BY <1>4, <2>1, <2>3, <2>7, <2>9, <2>10, <2>11 DEF r
  <1> QED BY <1>5, <1>6

LEMMA SupplyingLosesNothing ==
    ASSUME NEW A, A \subseteq Pool, IsFiniteSet(A), NEW b \in Books, NEW m \in MoveIn(A)
    PROVE  /\ supply(b, m) \in Books
           /\ supply(b, m).harvested = b.harvested
           /\ Wealth(supply(b, m), A) = Wealth(b, A)
  <1> DEFINE a == m.address
             n == m.amount
             q == b.pools[a]
             p == [q EXCEPT !.principal = @ + n]
             r == supply(b, m)
  <1>1. a \in A /\ a \in Pool /\ n \in Nat
    BY DEF MoveIn
  <1>2. /\ b.pools \in [Pool -> PoolState] /\ b.vault \in Int
        /\ b.harvested \in Nat /\ b.ok \in BOOLEAN
    BY DEF Books
  <1>3. q \in PoolState /\ q.principal \in Nat
    BY <1>1, <1>2 DEF PoolState
  <1>4. p \in PoolState /\ p.principal = q.principal + n
    BY <1>1, <1>3 DEF PoolState
  <1>5. r = [b EXCEPT !.pools[a].principal = @ + n, !.vault = @ - n]
    BY DEF supply
  <1> HIDE DEF r
  <1>6. /\ r.ok = b.ok /\ r.harvested = b.harvested
        /\ r.vault = b.vault - n
        /\ r.pools = WithPool(b.pools, a, p)
    BY <1>5 DEF Books, WithPool
  <1>7. r = [ok |-> r.ok, harvested |-> r.harvested, vault |-> r.vault, pools |-> r.pools]
    BY <1>5 DEF Books
  <1> HIDE DEF p
  <1>8. b.vault - n \in Int
    BY <1>1, <1>2
  <1>9. /\ r.pools \in [Pool -> PoolState] /\ Wealth(b, A) \in Int
        /\ Wealth(r, A) = Wealth(b, A) + (b.vault - n - b.vault)
                                       + (p.principal - q.principal)
    BY <1>1, <1>2, <1>4, <1>6, <1>8, OnePoolMoves
  <1>10. r \in Books
    BY <1>2, <1>6, <1>7, <1>8, <1>9 DEF Books
  <1>11. Wealth(r, A) = Wealth(b, A)
    <2> HIDE DEF q
    <2> QED BY <1>1, <1>2, <1>3, <1>4, <1>9
  <1> QED BY <1>6, <1>10, <1>11 DEF r

LEMMA HarvestingAdds ==
    ASSUME NEW A, A \subseteq Pool, IsFiniteSet(A), NEW b \in Books, NEW a \in A
    PROVE  /\ harvest(b, a) \in Books
           /\ Wealth(harvest(b, a), A) - harvest(b, a).harvested
                = Wealth(b, A) - b.harvested
           /\ Wealth(harvest(b, a), A) >= Wealth(b, A)
           /\ \A k \in Pool : harvest(b, a).pools[k].principal = b.pools[k].principal
  <1> DEFINE q == b.pools[a]
             n == q.accrued
             p == [q EXCEPT !.accrued = 0]
             r == harvest(b, a)
  <1>1. a \in Pool
    OBVIOUS
  <1>2. /\ b.pools \in [Pool -> PoolState] /\ b.vault \in Int
        /\ b.harvested \in Nat /\ b.ok \in BOOLEAN
    BY DEF Books
  <1>3. q \in PoolState /\ n \in Nat /\ q.principal \in Nat
    BY <1>1, <1>2 DEF PoolState
  <1>4. p \in PoolState /\ p.principal = q.principal
    BY <1>3 DEF PoolState
  <1>5. r = [b EXCEPT !.vault = @ + n, !.harvested = @ + n, !.pools[a].accrued = 0]
    BY DEF harvest
  <1> HIDE DEF r, n
  <1>6. /\ r.ok = b.ok /\ r.harvested = b.harvested + n
        /\ r.vault = b.vault + n
        /\ r.pools = WithPool(b.pools, a, p)
    BY <1>5 DEF Books, WithPool
  <1>7. r = [ok |-> r.ok, harvested |-> r.harvested, vault |-> r.vault, pools |-> r.pools]
    BY <1>5 DEF Books
  <1> HIDE DEF p
  <1>8. b.vault + n \in Int /\ b.harvested + n \in Nat
    BY <1>2, <1>3
  <1>9. /\ r.pools \in [Pool -> PoolState] /\ Wealth(b, A) \in Int
        /\ Wealth(r, A) = Wealth(b, A) + (b.vault + n - b.vault)
                                       + (p.principal - q.principal)
    <2> DEFINE v == b.vault + n
               h == b.harvested + n
    <2>1. /\ r.ok = b.ok /\ r.harvested = h /\ r.vault = v
          /\ r.pools = WithPool(b.pools, a, p) /\ v \in Int /\ h \in Nat
          /\ b.ok \in BOOLEAN
      BY <1>2, <1>6, <1>8
    <2> HIDE DEF v, h, q
    <2>2. /\ r.pools \in [Pool -> PoolState] /\ Wealth(b, A) \in Int
          /\ Wealth(r, A) = Wealth(b, A) + (v - b.vault)
                                         + (p.principal - b.pools[a].principal)
      BY <1>4, <2>1, OnePoolMoves
    <2>3. v = b.vault + n /\ q = b.pools[a]
      BY DEF v, q
    <2> QED BY <1>2, <1>3, <1>4, <2>2, <2>3
  <1>10. r \in Books
    BY <1>2, <1>6, <1>7, <1>8, <1>9 DEF Books
  <1>11. Wealth(r, A) = Wealth(b, A) + n
    <2> HIDE DEF q
    <2> QED BY <1>2, <1>3, <1>4, <1>9
  <1>12. \A k \in Pool : r.pools[k].principal = b.pools[k].principal
    BY <1>1, <1>2, <1>4, <1>6 DEF WithPool
  <1> HIDE DEF q
  <1>13. /\ Wealth(r, A) - r.harvested = Wealth(b, A) - b.harvested
         /\ Wealth(r, A) >= Wealth(b, A)
    BY <1>2, <1>3, <1>6, <1>9, <1>11
  <1> QED BY <1>10, <1>12, <1>13 DEF r

\* Both: what a settlement does with each pool, and an unwinding.
LEMMA RedeemingLosesNothing ==
    ASSUME NEW A, A \subseteq Pool, IsFiniteSet(A), NEW b \in Books, NEW m \in MoveIn(A)
    PROVE  /\ redeem(b, m) \in Books
           /\ Wealth(redeem(b, m), A) - redeem(b, m).harvested
                >= Wealth(b, A) - b.harvested
           /\ Wealth(redeem(b, m), A) >= Wealth(b, A)
           /\ \A k \in Pool : b.pools[k].principal = 0
                                => redeem(b, m).pools[k].principal = 0
           /\ m.amount = get_balance(b.pools, m.address)
                => redeem(b, m).pools[m.address].principal = 0
  <1> DEFINE t == take(b, m)
             r == harvest(t, m.address)
  <1>1. m.address \in A /\ m.address \in Pool
    BY DEF MoveIn
  <1>2. /\ t \in Books /\ t.harvested = b.harvested
        /\ Wealth(t, A) >= Wealth(b, A)
        /\ \A k \in Pool : b.pools[k].principal = 0 => t.pools[k].principal = 0
        /\ m.amount = get_balance(b.pools, m.address) => t.pools[m.address].principal = 0
    BY TakingLosesNothing
  <1> HIDE DEF t
  <1>3. /\ r \in Books
        /\ Wealth(r, A) - r.harvested = Wealth(t, A) - t.harvested
        /\ Wealth(r, A) >= Wealth(t, A)
        /\ \A k \in Pool : r.pools[k].principal = t.pools[k].principal
    BY <1>1, <1>2, HarvestingAdds
  <1>4. redeem(b, m) = r
    BY DEF redeem, t
  <1> HIDE DEF r
  <1>5. /\ Wealth(b, A) \in Int /\ Wealth(t, A) \in Int /\ Wealth(r, A) \in Int
        /\ b.harvested \in Nat /\ t.harvested \in Nat /\ r.harvested \in Nat
    BY <1>2, <1>3, WealthIsInteger DEF Books
  <1>6. /\ Wealth(r, A) - r.harvested >= Wealth(b, A) - b.harvested
        /\ Wealth(r, A) >= Wealth(b, A)
    BY <1>2, <1>3, <1>5
  <1> QED BY <1>1, <1>2, <1>3, <1>4, <1>6

\* The loops over the portfolio.
TakeLoop   == INSTANCE FoldTheorems WITH Op <- take
SupplyLoop == INSTANCE FoldTheorems WITH Op <- supply
RedeemLoop == INSTANCE FoldTheorems WITH Op <- redeem
UnwindLoop == INSTANCE FoldTheorems WITH Op <- unwind

LEMMA LoopsAreFolds ==
    \A b, s : /\ FoldLeft(take, b, s) = TakeLoop!Looped(b, s)
              /\ FoldLeft(supply, b, s) = SupplyLoop!Looped(b, s)
              /\ FoldLeft(redeem, b, s) = RedeemLoop!Looped(b, s)
              /\ FoldLeft(unwind, b, s) = UnwindLoop!Looped(b, s)
  <1>1. \A b, s : FoldLeft(take, b, s) = TakeLoop!Looped(b, s)
    BY DEF FoldLeft, MapThenFoldSet, TakeLoop!Looped, TakeLoop!IsLoopTable,
           TakeLoop!LoopEntry, Max, TakeLoop!Highest
  <1>2. \A b, s : FoldLeft(supply, b, s) = SupplyLoop!Looped(b, s)
    BY DEF FoldLeft, MapThenFoldSet, SupplyLoop!Looped, SupplyLoop!IsLoopTable,
           SupplyLoop!LoopEntry, Max, SupplyLoop!Highest
  <1>3. \A b, s : FoldLeft(redeem, b, s) = RedeemLoop!Looped(b, s)
    BY DEF FoldLeft, MapThenFoldSet, RedeemLoop!Looped, RedeemLoop!IsLoopTable,
           RedeemLoop!LoopEntry, Max, RedeemLoop!Highest
  <1>4. \A b, s : FoldLeft(unwind, b, s) = UnwindLoop!Looped(b, s)
    BY DEF FoldLeft, MapThenFoldSet, UnwindLoop!Looped, UnwindLoop!IsLoopTable,
           UnwindLoop!LoopEntry, Max, UnwindLoop!Highest
  <1> QED BY <1>1, <1>2, <1>3, <1>4

LEMMA LoopsLoseNothing ==
    ASSUME NEW A, A \subseteq Pool, IsFiniteSet(A), NEW b \in Books, NEW n \in Nat,
           NEW ms, DOMAIN ms = 1..n, \A i \in 1..n : ms[i] \in MoveIn(A)
    PROVE  /\ FoldLeft(take, b, ms) \in Books
           /\ Wealth(FoldLeft(take, b, ms), A) >= Wealth(b, A)
           /\ FoldLeft(supply, b, ms) \in Books
           /\ Wealth(FoldLeft(supply, b, ms), A) >= Wealth(b, A)
           /\ FoldLeft(redeem, b, ms) \in Books
           /\ Wealth(FoldLeft(redeem, b, ms), A) - FoldLeft(redeem, b, ms).harvested
                >= Wealth(b, A) - b.harvested
  <1>0. Wealth(b, A) \in Int /\ b.harvested \in Nat
    BY WealthIsInteger DEF Books
  <1>1. FoldLeft(take, b, ms) \in Books /\ Wealth(FoldLeft(take, b, ms), A) >= Wealth(b, A)
    <2> DEFINE W == {x \in Books : Wealth(x, A) >= Wealth(b, A)}
    <2>1. b \in W
      BY <1>0
    <2>2. ASSUME NEW i \in 1..n, NEW x \in W PROVE take(x, ms[i]) \in W
      <3> DEFINE y == take(x, ms[i])
      <3>1. y \in Books /\ Wealth(y, A) >= Wealth(x, A)
        BY TakingLosesNothing
      <3> HIDE DEF y
      <3>2. Wealth(x, A) \in Int /\ Wealth(y, A) \in Int
        BY <3>1, WealthIsInteger
      <3>3. Wealth(y, A) >= Wealth(b, A)
        BY <1>0, <3>1, <3>2
      <3> QED BY <3>1, <3>3 DEF y
    <2> HIDE DEF W
    <2>3. TakeLoop!Looped(b, ms) \in W
      BY <2>1, <2>2, TakeLoop!LoopKeeps
    <2> QED BY <2>3, LoopsAreFolds DEF W
  <1>2. FoldLeft(supply, b, ms) \in Books
        /\ Wealth(FoldLeft(supply, b, ms), A) >= Wealth(b, A)
    <2> DEFINE W == {x \in Books : Wealth(x, A) >= Wealth(b, A)}
    <2>1. b \in W
      BY <1>0
    <2>2. ASSUME NEW i \in 1..n, NEW x \in W PROVE supply(x, ms[i]) \in W
      BY SupplyingLosesNothing
    <2> HIDE DEF W
    <2>3. SupplyLoop!Looped(b, ms) \in W
      BY <2>1, <2>2, SupplyLoop!LoopKeeps
    <2> QED BY <2>3, LoopsAreFolds DEF W
  <1>3. FoldLeft(redeem, b, ms) \in Books
        /\ Wealth(FoldLeft(redeem, b, ms), A) - FoldLeft(redeem, b, ms).harvested
             >= Wealth(b, A) - b.harvested
    <2> DEFINE W == {x \in Books : Wealth(x, A) - x.harvested
                                      >= Wealth(b, A) - b.harvested}
    <2>1. b \in W
      BY <1>0
    <2>2. ASSUME NEW i \in 1..n, NEW x \in W PROVE redeem(x, ms[i]) \in W
      <3> DEFINE y == redeem(x, ms[i])
      <3>1. y \in Books /\ Wealth(y, A) - y.harvested >= Wealth(x, A) - x.harvested
        BY RedeemingLosesNothing
      <3> HIDE DEF y
      <3>2. Wealth(x, A) \in Int /\ Wealth(y, A) \in Int
            /\ x.harvested \in Nat /\ y.harvested \in Nat
        BY <3>1, WealthIsInteger DEF Books
      <3>3. Wealth(y, A) - y.harvested >= Wealth(b, A) - b.harvested
        BY <1>0, <3>1, <3>2
      <3> QED BY <3>1, <3>3 DEF y
    <2> HIDE DEF W
    <2>3. RedeemLoop!Looped(b, ms) \in W
      BY <2>1, <2>2, RedeemLoop!LoopKeeps
    <2> QED BY <2>3, LoopsAreFolds DEF W
  <1> QED BY <1>1, <1>2, <1>3

\* An unwinding leaves no principal behind, so all of it is in the vault.
LEMMA UnwindingEmptiesPools ==
    ASSUME NEW b \in Books, NEW ss \in Seq(Strategy), NEW A, A = addresses_of(ss),
           A \subseteq Pool, IsFiniteSet(A)
    PROVE  /\ FoldLeft(unwind, b, ss) \in Books
           /\ FoldLeft(unwind, b, ss).vault >= Wealth(b, A)
  <1> DEFINE n == Len(ss)
             Past(i) == {ss[j].address : j \in 1..i}
             W == [i \in 0..n |->
                     {x \in Books : /\ Wealth(x, A) >= Wealth(b, A)
                                    /\ \A k \in Past(i) : x.pools[k].principal = 0}]
  <1>0. n \in Nat /\ DOMAIN ss = 1..n /\ Wealth(b, A) \in Int
        /\ \A i \in 1..n : ss[i].address \in A
    BY WealthIsInteger DEF addresses_of
  <1>1. b \in W[0]
    <2>1. Past(0) = {} /\ 0 \in 0..n
      BY <1>0
    <2> HIDE DEF Past
    <2> QED BY <1>0, <2>1
  <1>2. ASSUME NEW i \in 1..n, NEW x \in W[i - 1]
        PROVE  unwind(x, ss[i]) \in W[i]
    <2> DEFINE a == ss[i].address
               m == [address |-> a, amount |-> get_balance(x.pools, a)]
               y == redeem(x, m)
    <2>0. i - 1 \in 0..n /\ i \in 0..n /\ a \in A /\ a \in Pool
      BY <1>0
    <2>1. x \in Books /\ Wealth(x, A) >= Wealth(b, A)
          /\ \A k \in Past(i - 1) : x.pools[k].principal = 0
      BY <2>0
    <2>2. get_balance(x.pools, a) \in Nat
      BY <2>0, <2>1 DEF get_balance, Books, PoolState
    <2>3. m \in MoveIn(A) /\ m.address = a /\ m.amount = get_balance(x.pools, m.address)
      BY <2>0, <2>2 DEF MoveIn
    <2> HIDE DEF m
    <2>4. /\ y \in Books /\ Wealth(y, A) >= Wealth(x, A)
          /\ \A k \in Pool : x.pools[k].principal = 0 => y.pools[k].principal = 0
          /\ y.pools[a].principal = 0
      BY <2>1, <2>3, RedeemingLosesNothing
    <2>5. unwind(x, ss[i]) = y
      BY DEF unwind, m
    <2> HIDE DEF y
    <2>6. Wealth(y, A) >= Wealth(b, A)
      <3>1. Wealth(x, A) \in Int /\ Wealth(y, A) \in Int
        BY <2>1, <2>4, WealthIsInteger
      <3> QED BY <1>0, <2>1, <2>4, <3>1
    <2>7. ASSUME NEW k \in Past(i) PROVE y.pools[k].principal = 0
      <3>1. PICK j \in 1..i : k = ss[j].address
        OBVIOUS
      <3>2. k \in Pool
        BY <1>0, <3>1
      <3>3. j = i \/ j \in 1..(i - 1)
        OBVIOUS
      <3> QED BY <2>1, <2>4, <3>1, <3>2, <3>3
    <2> QED BY <2>0, <2>4, <2>5, <2>6, <2>7
  <1>3. W[n] = {x \in Books : /\ Wealth(x, A) >= Wealth(b, A)
                              /\ \A k \in Past(n) : x.pools[k].principal = 0}
    BY <1>0
  <1>4. Past(n) = A
    BY <1>0 DEF addresses_of
  <1> HIDE DEF W, n, Past
  <1>5. UnwindLoop!Looped(b, ss) \in W[n]
    BY <1>0, <1>1, <1>2, UnwindLoop!LoopInvariant
  <1> DEFINE r == FoldLeft(unwind, b, ss)
  <1>6. r \in Books /\ Wealth(r, A) >= Wealth(b, A) /\ \A k \in A : r.pools[k].principal = 0
    BY <1>3, <1>4, <1>5, LoopsAreFolds
  <1> HIDE DEF r
  <1>7. \A k \in A : PrincipalAt(r)[k] = 0
    BY <1>6 DEF PrincipalAt
  <1>8. Wealth(r, A) = r.vault
    <2>1. SumFunctionOnSet(PrincipalAt(r), A) = 0
      BY <1>7, SumOfZeros
    <2> QED BY <1>6, <2>1 DEF Wealth, Books
  <1> QED BY <1>6, <1>8 DEF r

\* The same in the state: the capital of token c in the vault and the pools A.
PrincipalOf(ps, c) == [a \in Pool |-> ps[a][c].principal]
Capital(v, ps, c, A) == v[c] + SumFunctionOnSet(PrincipalOf(ps, c), A)

PoolsTyped ==
    /\ vault \in [YieldCoins -> Nat]
    /\ pools \in [Pool -> [YieldCoins -> PoolState]]
    /\ poolLoss \in [YieldCoins -> Nat]

InReach(c) ==
    /\ c \notin unwound
         => Capital(vault, pools, c, addresses_of(strategies)) + poolLoss[c]
               >= PrincipalIn(escrows, c)
    /\ c \in unwound => vault[c] + poolLoss[c] >= PrincipalIn(escrows, c)

ReachInv ==
    /\ PoolsTyped
    /\ ~emergency => unwound = {}
    /\ \A c \in YieldCoins : InReach(c)

LEMMA AddressesAreFinite ==
    ASSUME NEW ss \in Seq(Strategy)
    PROVE  addresses_of(ss) \subseteq Pool /\ IsFiniteSet(addresses_of(ss))
  <1> DEFINE n == Len(ss)
             T == addresses_of(ss)
             f == [i \in 1..n |-> ss[i].address]
  <1>1. n \in Nat /\ DOMAIN ss = 1..n /\ \A i \in 1..n : ss[i].address \in Pool
    <2>1. n \in Nat /\ DOMAIN ss = 1..n /\ \A i \in 1..n : ss[i] \in Strategy
      OBVIOUS
    <2> QED BY <2>1 DEF Strategy
  <1>2. T = {ss[i].address : i \in 1..n}
    BY <1>1 DEF addresses_of
  <1>3. f \in Surjection(1..n, T)
    BY <1>2 DEF Surjection
  <1>4. IsFiniteSet(1..n)
    BY <1>1, FS_Interval
  <1> QED BY <1>1, <1>2, <1>3, <1>4, FS_Surjection

LEMMA PortfolioAddresses ==
    ASSUME PortfolioTyped
    PROVE  /\ addresses_of(strategies) \subseteq Pool
           /\ IsFiniteSet(addresses_of(strategies))
  BY AddressesAreFinite DEF PortfolioTyped, Strategy

LEMMA CapitalIsNatural ==
    ASSUME NEW v \in [YieldCoins -> Nat], NEW ps \in [Pool -> [YieldCoins -> PoolState]],
           NEW c \in YieldCoins, NEW A, A \subseteq Pool, IsFiniteSet(A)
    PROVE  /\ Capital(v, ps, c, A) \in Nat
           /\ \A a \in A : PrincipalOf(ps, c)[a] \in Nat
           /\ SumFunctionOnSet(PrincipalOf(ps, c), A) \in Nat
  <1>1. ASSUME NEW a \in A PROVE PrincipalOf(ps, c)[a] \in Nat
    <2>1. ps[a][c] \in PoolState
      OBVIOUS
    <2> QED BY <2>1 DEF PrincipalOf, PoolState
  <1>2. SumFunctionOnSet(PrincipalOf(ps, c), A) \in Nat
    BY <1>1, SumIsNatural
  <1>3. v[c] \in Nat
    OBVIOUS
  <1> QED BY <1>1, <1>2, <1>3 DEF Capital

LEMMA BooksOfState ==
    ASSUME PoolsTyped, NEW c \in YieldCoins
    PROVE  /\ PoolBooks(c) \in Books
           /\ PoolBooks(c).harvested = 0
           /\ PoolBooks(c).vault = vault[c]
           /\ \A A \in SUBSET Pool : Wealth(PoolBooks(c), A) = Capital(vault, pools, c, A)
  <1>1. PoolBooks(c) \in Books
    BY DEF PoolsTyped, PoolBooks, Books
  <1>2. PrincipalAt(PoolBooks(c)) = PrincipalOf(pools, c)
    BY DEF PrincipalAt, PrincipalOf, PoolBooks
  <1>3. PoolBooks(c).harvested = 0 /\ PoolBooks(c).vault = vault[c]
    BY DEF PoolBooks
  <1> QED BY <1>1, <1>2, <1>3 DEF Wealth, Capital

\* What is committed is the state of the token; the other tokens stay.
LEMMA CommittedBooks ==
    ASSUME PoolsTyped, NEW c \in YieldCoins, NEW b \in Books, CommitPools(b, c)
    PROVE  /\ vault' \in [YieldCoins -> Nat]
           /\ pools' \in [Pool -> [YieldCoins -> PoolState]]
           /\ \A A \in SUBSET Pool : Capital(vault', pools', c, A) = Wealth(b, A)
           /\ \A k \in YieldCoins \ {c} : \A A \in SUBSET Pool :
                  Capital(vault', pools', k, A) = Capital(vault, pools, k, A)
  <1>1. b.vault \in Nat /\ b.pools \in [Pool -> PoolState]
    BY DEF Books, CommitPools
  <1>2. vault' = [vault EXCEPT ![c] = b.vault]
        /\ pools' = [a \in Pool |-> [pools[a] EXCEPT ![c] = b.pools[a]]]
    BY DEF CommitPools
  <1>3. vault' \in [YieldCoins -> Nat]
        /\ pools' \in [Pool -> [YieldCoins -> PoolState]]
    BY <1>1, <1>2 DEF PoolsTyped
  <1>4. vault'[c] = b.vault /\ \A a \in Pool : pools'[a][c] = b.pools[a]
    BY <1>1, <1>2 DEF PoolsTyped
  <1>5. PrincipalOf(pools', c) = PrincipalAt(b)
    BY <1>4 DEF PrincipalOf, PrincipalAt
  <1>6. ASSUME NEW k \in YieldCoins \ {c}
        PROVE  vault'[k] = vault[k] /\ PrincipalOf(pools', k) = PrincipalOf(pools, k)
    <2>1. vault'[k] = vault[k] /\ \A a \in Pool : pools'[a][k] = pools[a][k]
      BY <1>1, <1>2 DEF PoolsTyped
    <2> QED BY <2>1 DEF PrincipalOf
  <1>7. \A A \in SUBSET Pool : Capital(vault', pools', c, A) = Wealth(b, A)
    BY <1>4, <1>5 DEF Capital, Wealth
  <1>8. \A k \in YieldCoins \ {c} : \A A \in SUBSET Pool :
           Capital(vault', pools', k, A) = Capital(vault, pools, k, A)
    BY <1>6 DEF Capital
  <1> QED BY <1>3, <1>7, <1>8

\* The principal owed, and what is left to show of it.
LEMMA OwedIsNatural ==
    ASSUME CountersInv, NEW c
    PROVE  PrincipalIn(escrows, c) \in Nat
  BY OpenPrincipals DEF CountersInv

LEMMA ReachSuffices == PortfolioTyped /\ CountersInv /\ ReachInv => PrincipalStaysPut
  <1> SUFFICES ASSUME PortfolioTyped, CountersInv, ReachInv, NEW c \in YieldCoins
               PROVE  Reachable(c) + Stranded(c) + poolLoss[c] >= OwedPrincipal(c)
    BY DEF PrincipalStaysPut
  <1> DEFINE A == addresses_of(strategies)
             f == PrincipalOf(pools, c)
             g == [a \in Pool |-> pools[a][c].principal + pools[a][c].accrued]
  <1>1. OwedPrincipal(c) = PrincipalIn(escrows, c) /\ PrincipalIn(escrows, c) \in Nat
    BY OwedIsSum, OwedIsNatural DEF CountersInv
  <1>2. A \subseteq Pool /\ IsFiniteSet(A)
    BY PortfolioAddresses
  <1>3. vault[c] \in Nat /\ poolLoss[c] \in Nat /\ \A a \in A : pools[a][c] \in PoolState
    BY <1>2 DEF ReachInv, PoolsTyped
  <1>4. \A a \in A : f[a] \in Int /\ g[a] \in Int /\ f[a] <= g[a]
    <2>1. ASSUME NEW a \in A
          PROVE  f[a] \in Int /\ g[a] \in Int /\ f[a] <= g[a]
      <3>1. pools[a][c].principal \in Nat /\ pools[a][c].accrued \in Nat
        BY <1>3 DEF PoolState
      <3>2. f[a] = pools[a][c].principal
            /\ g[a] = pools[a][c].principal + pools[a][c].accrued
        BY <1>2 DEF PrincipalOf
      <3> QED BY <3>1, <3>2
    <2> QED BY <2>1
  <1>5. InReach(c)
    BY DEF ReachInv
  <1>6. InPools(c) = SumFunctionOnSet(g, A)
    BY DEF InPools
  <1>7. Capital(vault, pools, c, A) = vault[c] + SumFunctionOnSet(f, A)
    BY DEF Capital
  <1> HIDE DEF A, f, g
  <1>8. SumFunctionOnSet(f, A) <= SumFunctionOnSet(g, A)
        /\ SumFunctionOnSet(f, A) \in Int /\ SumFunctionOnSet(g, A) \in Int
    BY <1>2, <1>4, SumMonotone, SumIsInteger
  <1>9. InPools(c) \in Int /\ InPools(c) >= 0
    <2>1. ASSUME NEW a \in A PROVE g[a] \in Nat
      <3>1. pools[a][c] \in PoolState /\ a \in Pool
        BY <1>2, <1>3
      <3> QED BY <3>1 DEF PoolState, g
    <2> HIDE DEF g
    <2>2. SumFunctionOnSet(g, A) \in Nat
      BY <1>2, <2>1, SumIsNatural
    <2> QED BY <1>6, <2>2
  <1>10. CASE c \in unwound
    <2>1. vault[c] + poolLoss[c] >= PrincipalIn(escrows, c)
      BY <1>5, <1>10 DEF InReach
    <2>2. emergency
      BY <1>10 DEF ReachInv
    <2>3. Reachable(c) = vault[c] /\ Stranded(c) = 0
      BY <1>3, <1>10, <2>2 DEF Reachable, Stranded
    <2> QED BY <1>1, <1>3, <2>1, <2>3
  <1>11. CASE c \notin unwound
    <2>1. Capital(vault, pools, c, A) + poolLoss[c] >= PrincipalIn(escrows, c)
      BY <1>5, <1>11 DEF InReach, A
    <2>2. Reachable(c) + Stranded(c) = vault[c] + InPools(c)
      BY <1>3, <1>9, <1>11 DEF Reachable, Stranded
    <2> QED BY <1>1, <1>3, <1>6, <1>7, <1>8, <1>9, <2>1, <2>2
  <1> QED BY <1>10, <1>11

\* Shares of a natural number are natural numbers.
LEMMA PortionsAreNatural ==
    ASSUME NEW n \in Nat, NEW shares, NEW l \in Nat, DOMAIN shares = 1..l,
           \A i \in 1..l : shares[i] \in Nat, NEW whole \in Nat \ {0}
    PROVE  /\ DOMAIN portions(n, shares, whole) = 1..l
           /\ \A i \in 1..l : portions(n, shares, whole)[i] \in Nat
  <1> DEFINE rest == n - SumOf([i \in DOMAIN shares |-> (n * shares[i]) \div whole])
  <1>1. portions(n, shares, whole) =
          [i \in 1..l |-> ((n * shares[i]) \div whole) + (IF i <= rest THEN 1 ELSE 0)]
    BY DEF portions
  <1> HIDE DEF rest
  <1>2. ASSUME NEW i \in 1..l PROVE ((n * shares[i]) \div whole) \in Nat
    BY ProductsAreNatural, QuotientsAreNatural
  <1>3. ASSUME NEW i \in 1..l
        PROVE  ((n * shares[i]) \div whole) + (IF i <= rest THEN 1 ELSE 0) \in Nat
    <2> DEFINE floor == (n * shares[i]) \div whole
    <2>1. floor \in Nat
      BY <1>2
    <2> HIDE DEF floor
    <2>2. floor + (IF i <= rest THEN 1 ELSE 0) \in Nat
      BY <2>1
    <2> QED BY <2>2 DEF floor
  <1> QED BY <1>1, <1>3

LEMMA AllottedMoves ==
    ASSUME PortfolioTyped, NEW amounts,
           \A i \in DOMAIN strategies : amounts[i] \in Nat
    PROVE  /\ Len(strategies) \in Nat /\ DOMAIN allot(amounts) = 1..Len(strategies)
           /\ \A i \in 1..Len(strategies) :
                 allot(amounts)[i] \in MoveIn(addresses_of(strategies))
  <1>1. Len(strategies) \in Nat /\ DOMAIN strategies = 1..Len(strategies)
    BY PortfolioLength
  <1>2. DOMAIN allot(amounts) = 1..Len(strategies)
    BY <1>1 DEF allot
  <1>3. ASSUME NEW i \in 1..Len(strategies)
        PROVE  allot(amounts)[i] \in MoveIn(addresses_of(strategies))
    <2>1. strategies[i].address \in addresses_of(strategies)
      BY <1>1 DEF addresses_of
    <2>2. allot(amounts)[i] = [address |-> strategies[i].address, amount |-> amounts[i]]
      BY <1>1 DEF allot
    <2> QED BY <1>1, <2>1, <2>2 DEF MoveIn
  <1> QED BY <1>1, <1>2, <1>3

\* Weights and balances are natural numbers.
LEMMA SharesAreNatural ==
    ASSUME PortfolioTyped, NEW b \in Books
    PROVE  /\ DOMAIN weights_of(strategies) = DOMAIN strategies
           /\ DOMAIN balances_of(b) = DOMAIN strategies
           /\ \A i \in DOMAIN strategies : /\ weights_of(strategies)[i] \in Nat
                                           /\ balances_of(b)[i] \in Nat
           /\ SumOf(balances_of(b)) \in Nat
  <1>1. DOMAIN strategies = 1..Len(strategies) /\ Len(strategies) \in Nat
        /\ \A i \in DOMAIN strategies : strategies[i] \in Strategy
    BY PortfolioLength
  <1>2. DOMAIN weights_of(strategies) = DOMAIN strategies
        /\ DOMAIN balances_of(b) = DOMAIN strategies
    BY DEF weights_of, balances_of
  <1>3. \A i \in DOMAIN strategies : weights_of(strategies)[i] \in Nat
    BY <1>1 DEF weights_of, Strategy
  <1>4. ASSUME NEW i \in DOMAIN strategies PROVE balances_of(b)[i] \in Nat
    <2>1. strategies[i].address \in Pool
      BY <1>1 DEF Strategy
    <2>2. b.pools[strategies[i].address] \in PoolState
      BY <2>1 DEF Books
    <2> QED BY <2>2 DEF balances_of, get_balance, PoolState
  <1>5. SumOf(balances_of(b)) \in Nat
    BY <1>1, <1>2, <1>4, SumOfNumbers
  <1> QED BY <1>2, <1>3, <1>4, <1>5

LEMMA WholeIsPositive == BPS \in Nat \ {0}
  BY YieldAssumption

\* What the parts of a principal come to is a move for each pool.
LEMMA PartsAreNatural ==
    ASSUME PortfolioTyped, NEW n \in Nat
    PROVE  \A i \in DOMAIN strategies :
              portions(n, weights_of(strategies), BPS)[i] \in Nat
  <1>1. DOMAIN strategies = 1..Len(strategies) /\ Len(strategies) \in Nat
    BY PortfolioLength
  <1>2. DOMAIN weights_of(strategies) = DOMAIN strategies
    BY DEF weights_of
  <1>3. \A i \in DOMAIN strategies : weights_of(strategies)[i] \in Nat
    BY PortfolioLength DEF weights_of, Strategy
  <1> QED BY <1>1, <1>2, <1>3, WholeIsPositive, PortionsAreNatural

\* A move within the portfolio, in which no more leaves its reach than what is
\* no longer owed.
LEMMA MovesKeepReach ==
    ASSUME PortfolioTyped, CountersInv, ReachInv, ~emergency,
           NEW c \in YieldCoins, NEW b \in Books, CommitPools(b, c),
           UNCHANGED <<strategies, emergency, poolLoss, unwound>>,
           \A k : PrincipalIn(escrows', k) \in Int,
           \A k : k # c => PrincipalIn(escrows', k) = PrincipalIn(escrows, k),
           Wealth(b, addresses_of(strategies)) - PrincipalIn(escrows', c)
             >= Wealth(PoolBooks(c), addresses_of(strategies)) - PrincipalIn(escrows, c)
    PROVE  ReachInv'
  <1> DEFINE A == addresses_of(strategies)
  <1>1. A \subseteq Pool /\ IsFiniteSet(A)
    BY PortfolioAddresses
  <1>2. PoolsTyped
    BY DEF ReachInv
  <1>3. /\ vault' \in [YieldCoins -> Nat]
        /\ pools' \in [Pool -> [YieldCoins -> PoolState]]
        /\ Capital(vault', pools', c, A) = Wealth(b, A)
        /\ \A k \in YieldCoins \ {c} :
              Capital(vault', pools', k, A) = Capital(vault, pools, k, A)
    BY <1>1, <1>2, CommittedBooks
  <1>4. Wealth(PoolBooks(c), A) = Capital(vault, pools, c, A)
    BY <1>1, <1>2, BooksOfState
  <1>5. addresses_of(strategies)' = A
    BY DEF addresses_of
  <1>6. \A k \in YieldCoins :
          /\ Capital(vault, pools, k, A) + poolLoss[k] >= PrincipalIn(escrows, k)
          /\ Capital(vault, pools, k, A) \in Int /\ poolLoss[k] \in Int
          /\ PrincipalIn(escrows, k) \in Int
    BY <1>1, <1>2, CapitalIsNatural, OwedIsNatural DEF ReachInv, InReach, PoolsTyped
  <1>7. Wealth(b, A) \in Int
    BY <1>1, WealthIsInteger
  <1>8. Wealth(b, A) - PrincipalIn(escrows', c)
          >= Capital(vault, pools, c, A) - PrincipalIn(escrows, c)
    BY <1>4
  <1>9. PoolsTyped'
    BY <1>2, <1>3 DEF PoolsTyped
  <1> HIDE DEF A
  <1>10. ASSUME NEW k \in YieldCoins
         PROVE  Capital(vault', pools', k, A) + poolLoss[k] >= PrincipalIn(escrows', k)
    <2>1. CASE k = c
      <3>1. Capital(vault', pools', c, A) = Wealth(b, A)
        BY <1>3
      <3>2. PrincipalIn(escrows', c) \in Int
        OBVIOUS
      <3> QED BY <1>6, <1>7, <1>8, <2>1, <3>1, <3>2
    <2>2. CASE k # c
      BY <1>3, <1>6, <2>2
    <2> QED BY <2>1, <2>2
  <1>11. ASSUME NEW k \in YieldCoins PROVE InReach(k)'
    <2>1. PrincipalIn(escrows, k)' = PrincipalIn(escrows', k)
      BY DEF PrincipalIn, PrincipalsOf, OpenOf
    <2>2. Capital(vault, pools, k, addresses_of(strategies))'
            = Capital(vault', pools', k, A)
      BY <1>5 DEF Capital, PrincipalOf
    <2>3. unwound' = {}
      BY DEF ReachInv
    <2> QED BY <1>10, <2>1, <2>2, <2>3 DEF InReach
  <1> QED BY <1>9, <1>11 DEF ReachInv

LEMMA RebalanceKeepsReach ==
    ASSUME SettleInv, CountersInv, ReachInv, NEW c \in YieldCoins, rebalance(c)
    PROVE  ReachInv'
  <1> DEFINE A == addresses_of(strategies)
             b == PoolBooks(c)
             balances == balances_of(b)
             targets == portions(SumOf(balances), weights_of(strategies), BPS)
             over == [i \in DOMAIN strategies |-> Max({balances[i] - targets[i], 0})]
             under == [i \in DOMAIN strategies |-> Max({targets[i] - balances[i], 0})]
             t == FoldLeft(take, b, allot(over))
             r == FoldLeft(supply, t, allot(under))
  <1>1. /\ ~emergency /\ CommitPools(r, c)
        /\ UNCHANGED <<strategies, emergency, poolLoss, unwound, escrows>>
    BY DEF rebalance, yieldBooks, chanceVars
  <1>2. PortfolioTyped /\ PoolsTyped
    BY DEF SettleInv, ReachInv
  <1>3. A \subseteq Pool /\ IsFiniteSet(A) /\ b \in Books
    BY <1>2, PortfolioAddresses, BooksOfState
  <1> HIDE DEF b
  <1>4. SumOf(balances) \in Nat /\ \A i \in DOMAIN strategies : balances[i] \in Nat
    BY <1>2, <1>3, SharesAreNatural
  <1> HIDE DEF balances
  <1>5. \A i \in DOMAIN strategies : targets[i] \in Nat
    BY <1>2, <1>4, PartsAreNatural
  <1> HIDE DEF targets
  <1>6. \A i \in DOMAIN strategies : over[i] \in Nat /\ under[i] \in Nat
    <2>1. \A x, y \in Nat : Max({x - y, 0}) \in Nat
      BY DEF Max
    <2> QED BY <1>4, <1>5, <2>1
  <1> HIDE DEF over, under
  <1> DEFINE n == Len(strategies)
  <1> DEFINE out == allot(over)
             into == allot(under)
  <1>7. /\ n \in Nat
        /\ DOMAIN out = 1..n /\ \A i \in 1..n : out[i] \in MoveIn(A)
        /\ DOMAIN into = 1..n /\ \A i \in 1..n : into[i] \in MoveIn(A)
    <2>1. n \in Nat /\ DOMAIN out = 1..n /\ \A i \in 1..n : out[i] \in MoveIn(A)
      BY <1>2, <1>6, AllottedMoves
    <2>2. DOMAIN into = 1..n /\ \A i \in 1..n : into[i] \in MoveIn(A)
      BY <1>2, <1>6, AllottedMoves
    <2> QED BY <2>1, <2>2
  <1> HIDE DEF A, n, out, into
  <1>8. t \in Books /\ Wealth(t, A) >= Wealth(b, A)
    BY <1>3, <1>7, LoopsLoseNothing DEF t, out
  <1> HIDE DEF t
  <1>9. r \in Books /\ Wealth(r, A) >= Wealth(t, A)
    BY <1>3, <1>7, <1>8, LoopsLoseNothing DEF r, into
  <1> HIDE DEF r
  <1>10. \A k : PrincipalIn(escrows', k) = PrincipalIn(escrows, k)
                /\ PrincipalIn(escrows, k) \in Int
    BY <1>1, OwedIsNatural
  <1>11. Wealth(r, A) - PrincipalIn(escrows', c) >= Wealth(b, A) - PrincipalIn(escrows, c)
    <2>1. Wealth(r, A) \in Int /\ Wealth(t, A) \in Int /\ Wealth(b, A) \in Int
      BY <1>3, <1>8, <1>9, WealthIsInteger
    <2> QED BY <1>8, <1>9, <1>10, <2>1
  <1> QED BY <1>1, <1>2, <1>9, <1>10, <1>11, MovesKeepReach DEF A, b

LEMMA CreateKeepsReach ==
    ASSUME SettleInv, CountersInv, ReachInv, NEW id \in EscrowIds, NEW a \in Payers,
           NEW e \in Beneficiaries, NEW c \in YieldCoins, NEW n \in Principals,
           NEW t \in 1..MaxClock, NEW sh \in InterestShares,
           create_escrow(id, a, e, c, n, t, sh)
    PROVE  ReachInv'
  <1> DEFINE A == addresses_of(strategies)
             b == PoolBooks(c)
             parts == portions(n, weights_of(strategies), BPS)
             f == [b EXCEPT !.vault = @ + n]
             r == FoldLeft(supply, f, allot(parts))
  <1>1. /\ ~emergency /\ CommitPools(r, c)
        /\ UNCHANGED <<strategies, emergency, poolLoss, unwound>>
    BY DEF create_escrow, chanceVars
  <1>2. /\ n \in Nat
        /\ \A k : PrincipalIn(escrows', k)
                    = PrincipalIn(escrows, k) + (IF c = k THEN n ELSE 0)
    BY CreatingOpens
  <1>3. PortfolioTyped /\ PoolsTyped
    BY DEF SettleInv, ReachInv
  <1>4. A \subseteq Pool /\ IsFiniteSet(A) /\ b \in Books
    BY <1>3, PortfolioAddresses, BooksOfState
  <1> HIDE DEF b
  <1>5. f \in Books /\ Wealth(f, A) = Wealth(b, A) + n
    <2>1. f \in Books /\ f.vault = b.vault + n /\ f.pools = b.pools
      BY <1>2, <1>4 DEF Books
    <2>2. SumFunctionOnSet(PrincipalAt(b), A) \in Int /\ b.vault \in Int
      <3>1. \A k \in A : PrincipalAt(b)[k] \in Int
        BY <1>4 DEF Books, PoolState, PrincipalAt
      <3> QED BY <1>4, <3>1, SumIsInteger DEF Books
    <2>3. PrincipalAt(f) = PrincipalAt(b)
      BY <2>1 DEF PrincipalAt
    <2> HIDE DEF f, A
    <2> QED BY <1>2, <2>1, <2>2, <2>3 DEF Wealth
  <1> HIDE DEF f
  <1>6. \A i \in DOMAIN strategies : parts[i] \in Nat
    BY <1>2, <1>3, PartsAreNatural
  <1> HIDE DEF parts
  <1> DEFINE l == Len(strategies)
  <1>7. l \in Nat
        /\ DOMAIN allot(parts) = 1..l /\ \A i \in 1..l : allot(parts)[i] \in MoveIn(A)
    BY <1>3, <1>6, AllottedMoves
  <1> HIDE DEF A, l
  <1>8. r \in Books /\ Wealth(r, A) >= Wealth(f, A)
    BY <1>4, <1>5, <1>7, LoopsLoseNothing
  <1> HIDE DEF r
  <1>9. /\ \A k : PrincipalIn(escrows, k) \in Int
        /\ \A k : PrincipalIn(escrows', k) \in Int
        /\ \A k : k # c => PrincipalIn(escrows', k) = PrincipalIn(escrows, k)
        /\ PrincipalIn(escrows', c) = PrincipalIn(escrows, c) + n
    BY <1>2, OwedIsNatural
  <1>10. Wealth(r, A) - PrincipalIn(escrows', c) >= Wealth(b, A) - PrincipalIn(escrows, c)
    <2>1. Wealth(r, A) \in Int /\ Wealth(f, A) \in Int /\ Wealth(b, A) \in Int
      BY <1>4, <1>5, <1>8, WealthIsInteger
    <2> QED BY <1>2, <1>5, <1>8, <1>9, <2>1
  <1> QED BY <1>1, <1>3, <1>8, <1>9, <1>10, MovesKeepReach DEF A, b

LEMMA RedeemKeepsReach ==
    ASSUME SettleInv, CountersInv, ReachInv, NEW id \in EscrowIds, is_active(id),
           NEW status \in {"released", "cancelled"}, ~emergency, Redeem(id, status)
    PROVE  ReachInv'
  <1> DEFINE e == escrows[id]
             c == e.token
             A == addresses_of(strategies)
             b == PoolBooks(c)
             s == update_yield_state(c)
             interest == position_yield(e, s)
             balances == balances_of(b)
             amounts == IF SumOf(balances) > 0
                        THEN portions(e.principal, balances, SumOf(balances))
                        ELSE portions(e.principal, weights_of(strategies), BPS)
             r == redeem_position(e)
             v == r.vault - e.principal - interest
             q == [r EXCEPT !.vault = v]
  <1>1. /\ r.harvested >= interest /\ CommitPools(q, c)
        /\ escrows' = [escrows EXCEPT ![id].status = status]
        /\ UNCHANGED <<strategies, emergency, poolLoss, unwound>>
    BY DEF Redeem, close_books, chanceVars
  <1>2. /\ e.token \in YieldCoins /\ e.principal \in Nat
        /\ \A k : PrincipalIn(escrows', k)
                    = PrincipalIn(escrows, k) - (IF e.token = k THEN e.principal ELSE 0)
    BY <1>1, SettlingCloses
  <1>3. PortfolioTyped /\ EscrowsTyped /\ PoolsTyped
    BY DEF SettleInv, ReachInv
  <1>4. A \subseteq Pool /\ IsFiniteSet(A) /\ b \in Books /\ b.harvested = 0
    BY <1>2, <1>3, PortfolioAddresses, BooksOfState
  <1>5. interest \in Nat
    <2>1. e \in OpenedEscrow
      BY <1>3 DEF EscrowsTyped, is_active, NoEscrow
    <2>2. s \in IndexState /\ s.index >= yieldState[c].index
      BY <1>2, <1>3, AccrualGoesForward
    <2>3. e.reward_debt <= yieldState[c].index
      BY DEF SettleInv, DebtsPast
    <2>4. e.reward_debt \in Nat /\ yieldState[c].index \in Nat /\ s.index \in Nat
      BY <1>2, <1>3, <2>1, <2>2 DEF OpenedEscrow, EscrowsTyped, IndexState
    <2> HIDE DEF s, c, e
    <2>5. e.reward_debt <= s.index
      BY <2>2, <2>3, <2>4
    <2> QED BY <2>1, <2>2, <2>5, YieldIsNatural
  <1>6. r = FoldLeft(redeem, b, allot(amounts))
    BY DEF redeem_position
  <1> HIDE DEF b, r, interest
  <1>7. DOMAIN balances = DOMAIN strategies
        /\ SumOf(balances) \in Nat /\ \A i \in DOMAIN strategies : balances[i] \in Nat
    BY <1>3, <1>4, SharesAreNatural
  <1> HIDE DEF balances
  <1> DEFINE l == Len(strategies)
  <1>8. l \in Nat /\ DOMAIN strategies = 1..l
    BY <1>3, PortfolioLength
  <1>9. \A i \in DOMAIN strategies : amounts[i] \in Nat
    <2> HIDE DEF e
    <2>1. CASE SumOf(balances) > 0
      <3> HIDE DEF l
      <3>1. SumOf(balances) \in Nat \ {0}
        BY <1>7, <2>1
      <3>2. \A i \in 1..l : portions(e.principal, balances, SumOf(balances))[i] \in Nat
        BY <1>2, <1>7, <1>8, <3>1, PortionsAreNatural
      <3> QED BY <1>8, <2>1, <3>2
    <2>2. CASE ~(SumOf(balances) > 0)
      BY <1>2, <1>3, <2>2, PartsAreNatural
    <2> QED BY <2>1, <2>2
  <1> HIDE DEF amounts
  <1>10. DOMAIN allot(amounts) = 1..l /\ \A i \in 1..l : allot(amounts)[i] \in MoveIn(A)
    BY <1>3, <1>9, AllottedMoves
  <1> HIDE DEF A, l
  <1>11. r \in Books /\ Wealth(r, A) - r.harvested >= Wealth(b, A) - b.harvested
    BY <1>4, <1>6, <1>8, <1>10, LoopsLoseNothing
  <1>12. Wealth(r, A) \in Int /\ Wealth(b, A) \in Int /\ r.vault \in Int /\ r.harvested \in Nat
    BY <1>4, <1>11, WealthIsInteger DEF Books
  <1> HIDE DEF e, c
  <1>13. q \in Books /\ Wealth(q, A) = Wealth(r, A) - e.principal - interest
    <2>1. v \in Int
      BY <1>2, <1>5, <1>12
    <2>2. SumFunctionOnSet(PrincipalAt(r), A) \in Int
      <3>1. \A k \in A : PrincipalAt(r)[k] \in Int
        BY <1>4, <1>11 DEF Books, PoolState, PrincipalAt
      <3> QED BY <1>4, <3>1, SumIsInteger
    <2> HIDE DEF v
    <2>3. q \in Books /\ q.vault = v /\ q.pools = r.pools
      BY <1>11, <2>1 DEF Books
    <2>4. PrincipalAt(q) = PrincipalAt(r)
      BY <2>3 DEF PrincipalAt
    <2> HIDE DEF q
    <2>5. Wealth(q, A) = v + SumFunctionOnSet(PrincipalAt(r), A)
          /\ Wealth(r, A) = r.vault + SumFunctionOnSet(PrincipalAt(r), A)
      BY <2>3, <2>4 DEF Wealth
    <2>6. v = r.vault - e.principal - interest
      BY DEF v
    <2> QED BY <1>2, <1>5, <1>12, <2>2, <2>3, <2>5, <2>6
  <1> HIDE DEF q
  <1>14. /\ c \in YieldCoins
         /\ \A k : PrincipalIn(escrows, k) \in Int
         /\ \A k : PrincipalIn(escrows', k) \in Int
         /\ \A k : k # c => PrincipalIn(escrows', k) = PrincipalIn(escrows, k)
         /\ PrincipalIn(escrows', c) = PrincipalIn(escrows, c) - e.principal
    BY <1>2, OwedIsNatural DEF c
  <1>15. Wealth(q, A) - PrincipalIn(escrows', c) >= Wealth(b, A) - PrincipalIn(escrows, c)
    BY <1>1, <1>2, <1>4, <1>5, <1>11, <1>12, <1>13, <1>14
  <1> QED BY <1>1, <1>3, <1>13, <1>14, <1>15, MovesKeepReach DEF A, b

\* Nothing of the capital and the debts moves, or somebody loses some.
LEMMA ReachRests ==
    ASSUME PortfolioTyped, CountersInv, ReachInv, PoolsTyped', escrows' = escrows,
           emergency' = emergency, unwound' = unwound,
           addresses_of(strategies)' = addresses_of(strategies),
           \A c \in YieldCoins :
               /\ vault'[c] + poolLoss'[c] >= vault[c] + poolLoss[c]
               /\ \A A \in SUBSET Pool : IsFiniteSet(A) =>
                     Capital(vault', pools', c, A) + poolLoss'[c]
                       >= Capital(vault, pools, c, A) + poolLoss[c]
    PROVE  ReachInv'
  <1> DEFINE A == addresses_of(strategies)
  <1>1. A \in SUBSET Pool /\ IsFiniteSet(A)
    BY PortfolioAddresses
  <1>2. addresses_of(strategies)' = A
    OBVIOUS
  <1> HIDE DEF A
  <1>3. ASSUME NEW c \in YieldCoins PROVE InReach(c)'
    <2> DEFINE k == Capital(vault, pools, c, A) + poolLoss[c]
               l == Capital(vault', pools', c, A) + poolLoss'[c]
               m == vault[c] + poolLoss[c]
               o == vault'[c] + poolLoss'[c]
               d == PrincipalIn(escrows, c)
    <2>1. /\ c \notin unwound => k >= d
          /\ c \in unwound => m >= d
      BY DEF ReachInv, InReach, A
    <2>2. l >= k /\ o >= m
      BY <1>1
    <2>3. /\ k \in Int /\ l \in Int /\ m \in Int /\ o \in Int
          /\ d \in Int
      <3>1. /\ vault \in [YieldCoins -> Nat] /\ vault' \in [YieldCoins -> Nat]
            /\ pools \in [Pool -> [YieldCoins -> PoolState]]
            /\ pools' \in [Pool -> [YieldCoins -> PoolState]]
            /\ poolLoss \in [YieldCoins -> Nat] /\ poolLoss' \in [YieldCoins -> Nat]
        BY DEF ReachInv, PoolsTyped
      <3>2. Capital(vault, pools, c, A) \in Nat /\ Capital(vault', pools', c, A) \in Nat
        BY <1>1, <3>1, CapitalIsNatural
      <3>3. d \in Nat
        BY OwedIsNatural
      <3> QED BY <3>1, <3>2, <3>3
    <2>4. PrincipalIn(escrows, c)' = d
      BY DEF PrincipalIn, PrincipalsOf, OpenOf
    <2>5. Capital(vault, pools, c, addresses_of(strategies))' = Capital(vault', pools', c, A)
      BY <1>2 DEF Capital, PrincipalOf
    <2> HIDE DEF k, l, m, o, d
    <2>6. /\ c \notin unwound => l >= d
          /\ c \in unwound => o >= d
      BY <2>1, <2>2, <2>3
    <2> QED BY <2>4, <2>5, <2>6 DEF InReach, l, o
  <1> QED BY <1>3 DEF ReachInv

LEMMA ReachUnmoved ==
    ASSUME ReachInv,
           UNCHANGED <<strategies, emergency, vault, pools, poolLoss, escrows, unwound>>
    PROVE  ReachInv'
  BY DEF ReachInv, PoolsTyped, InReach, Capital, PrincipalOf, addresses_of,
         PrincipalIn, PrincipalsOf, OpenOf

\* While nothing is open, any portfolio reaches all that is owed.
LEMMA NothingOwed ==
    ASSUME CountersInv, activeEscrows = 0
    PROVE  \A c : PrincipalIn(escrows, c) = 0
  <1>1. AllOpen(escrows) = {}
    BY FS_EmptySet DEF CountersInv
  <1>2. \A c : OpenOf(escrows, c) = {}
    BY <1>1 DEF OpenOf, AllOpen
  <1> QED BY <1>2, SumEmpty DEF PrincipalIn

\* A new portfolio: nothing is owed, or no pool is left out.
LEMMA PortfolioKeepsReach ==
    ASSUME PortfolioTyped, CountersInv, ReachInv, PortfolioTyped',
           UNCHANGED <<vault, pools, poolLoss, escrows, unwound>>, ~emergency, ~emergency',
           \/ activeEscrows = 0
           \/ addresses_of(strategies) \subseteq addresses_of(strategies')
    PROVE  ReachInv'
  <1> DEFINE A == addresses_of(strategies)
             B == addresses_of(strategies')
  <1>1. A \subseteq Pool /\ IsFiniteSet(A)
    BY PortfolioAddresses
  <1>2. B \subseteq Pool /\ IsFiniteSet(B)
    BY AddressesAreFinite DEF PortfolioTyped, Strategy
  <1>3. PoolsTyped /\ PoolsTyped'
    BY DEF ReachInv, PoolsTyped
  <1>4. addresses_of(strategies)' = B
    BY DEF addresses_of
  <1> HIDE DEF A, B
  <1>5. ASSUME NEW c \in YieldCoins PROVE InReach(c)'
    <2> DEFINE f == PrincipalOf(pools, c)
    <2>1. /\ vault[c] \in Nat /\ poolLoss[c] \in Nat
          /\ PrincipalIn(escrows, c) \in Nat
      BY <1>3, OwedIsNatural DEF PoolsTyped
    <2>2. /\ SumFunctionOnSet(f, B) \in Nat
          /\ \A a \in B : f[a] \in Nat
      BY <1>2, <1>3, CapitalIsNatural DEF PoolsTyped
    <2>3. Capital(vault, pools, c, B) + poolLoss[c] >= PrincipalIn(escrows, c)
      <3>1. CASE activeEscrows = 0
        <4>1. PrincipalIn(escrows, c) = 0
          BY <3>1, NothingOwed
        <4> QED BY <2>1, <2>2, <4>1 DEF Capital
      <3>2. CASE A \subseteq B
        <4> HIDE DEF f
        <4>1. IsFiniteSet(A) /\ IsFiniteSet(B \ A)
          BY <1>1, <1>2, FS_Subset
        <4>2. SumFunctionOnSet(f, A) \in Nat /\ SumFunctionOnSet(f, B \ A) \in Nat
          BY <2>2, <3>2, <4>1, SumIsNatural
        <4>3. SumFunctionOnSet(f, B) = SumFunctionOnSet(f, A) + SumFunctionOnSet(f, B \ A)
          <5>1. \A a \in B : f[a] \in Int
            BY <2>2
          <5> QED BY <1>2, <3>2, <5>1, SumSplit
        <4>4. Capital(vault, pools, c, A) + poolLoss[c] >= PrincipalIn(escrows, c)
          BY DEF ReachInv, InReach, A
        <4>5. /\ Capital(vault, pools, c, A) = vault[c] + SumFunctionOnSet(f, A)
              /\ Capital(vault, pools, c, B) = vault[c] + SumFunctionOnSet(f, B)
          BY DEF Capital, f
        <4> QED BY <2>1, <4>2, <4>3, <4>4, <4>5
      <3> QED BY <3>1, <3>2 DEF A, B
    <2>4. Capital(vault, pools, c, addresses_of(strategies))' = Capital(vault, pools, c, B)
      BY <1>4 DEF Capital, PrincipalOf
    <2>5. PrincipalIn(escrows, c)' = PrincipalIn(escrows, c)
      BY DEF PrincipalIn, PrincipalsOf, OpenOf
    <2>6. unwound' = {}
      BY DEF ReachInv
    <2> QED BY <2>3, <2>4, <2>5, <2>6 DEF InReach
  <1> QED BY <1>3, <1>5 DEF ReachInv

LEMMA PortfolioStepKeepsReach ==
    ASSUME SettleInv, SettleInv', CountersInv, ReachInv, PortfolioStep
    PROVE  ReachInv'
  <1>0. PortfolioTyped /\ PortfolioTyped' /\ PoolsTyped
    BY DEF SettleInv, ReachInv
  <1>1. ASSUME NEW a \in Party, NEW p \in Pool, yield_initialize(a, p)
        PROVE  ReachInv'
    <2>1. /\ yieldAdmin = NoParty /\ emergency' = FALSE
          /\ UNCHANGED <<vault, pools, poolLoss, escrows, unwound>>
      BY <1>1 DEF yield_initialize, poolVars, chanceVars
    <2>2. ~emergency
      BY <1>0, <2>1 DEF PortfolioTyped
    <2>3. activeEscrows = 0
      BY <2>1, FS_EmptySet DEF CountersInv
    <2> QED BY <1>0, <2>1, <2>2, <2>3, PortfolioKeepsReach
  <1>2. ASSUME NEW ss, NewPortfolio(ss),
               activeEscrows = 0 \/ addresses_of(strategies) \subseteq addresses_of(ss)
        PROVE  ReachInv'
    <2>1. /\ ~emergency /\ strategies' = ss
          /\ UNCHANGED <<emergency, vault, pools, poolLoss, escrows, unwound>>
      BY <1>2 DEF NewPortfolio, poolVars, chanceVars, yieldBooks
    <2>2. ~emergency'
      BY <2>1
    <2> QED BY <1>0, <1>2, <2>1, <2>2, PortfolioKeepsReach
  <1>3. ASSUME NEW p \in Pool, set_adapter(p)
        PROVE  ReachInv'
    BY <1>2, <1>3 DEF set_adapter
  <1>4. ASSUME NEW ss \in Portfolios, set_strategies(ss)
        PROVE  ReachInv'
    BY <1>2, <1>4 DEF set_strategies, same_strategy_addresses
  <1>5. ASSUME NEW p \in Pool, NEW w \in Weights, register_strategy(p, w)
        PROVE  ReachInv'
    <2> DEFINE new == [i \in DOMAIN strategies |->
                         IF strategies[i].address = p
                         THEN [address |-> p, weight |-> w] ELSE strategies[i]]
    <2>1. CASE p \in addresses_of(strategies)
      <3>1. NewPortfolio(new)
        BY <1>5, <2>1 DEF register_strategy
      <3>2. DOMAIN new = DOMAIN strategies
            /\ \A i \in DOMAIN strategies : new[i].address = strategies[i].address
        OBVIOUS
      <3> HIDE DEF new
      <3>3. addresses_of(strategies) \subseteq addresses_of(new)
        BY <3>2 DEF addresses_of
      <3> QED BY <1>2, <3>1, <3>3
    <2>2. CASE p \notin addresses_of(strategies)
      BY <1>2, <1>5, <2>2 DEF register_strategy
    <2> QED BY <2>1, <2>2
  <1>6. ASSUME NEW c \in YieldCoins, rebalance(c)
        PROVE  ReachInv'
    BY <1>6, RebalanceKeepsReach
  <1>7. ASSUME NEW c \in YieldCoins, get_yield_state(c)
        PROVE  ReachInv'
    <2>1. UNCHANGED <<strategies, emergency, vault, pools, poolLoss, escrows, unwound>>
      BY <1>7 DEF get_yield_state, poolVars, chanceVars
    <2> QED BY <1>0, <2>1, ReachUnmoved
  <1> QED BY <1>1, <1>3, <1>4, <1>5, <1>6, <1>7 DEF PortfolioStep

\* Out of the vault goes at most what is no longer owed.
LEMMA VaultKeepsReach ==
    ASSUME SettleInv, CountersInv, ReachInv, emergency, NEW id \in EscrowIds,
           is_active(id), NEW status \in {"released", "cancelled"}, PayFromVault(id, status)
    PROVE  ReachInv'
  <1> DEFINE e == escrows[id]
             c == e.token
             paid == Min({vault[c], e.principal})
  <1>1. /\ vault' = [vault EXCEPT ![c] = @ - paid]
        /\ escrows' = [escrows EXCEPT ![id].status = status]
        /\ UNCHANGED <<emergency, pools, poolLoss, unwound>>
    BY DEF PayFromVault, close_books, chanceVars
  <1>2. /\ e.token \in YieldCoins /\ e.principal \in Nat
        /\ \A k : PrincipalIn(escrows', k)
                    = PrincipalIn(escrows, k) - (IF e.token = k THEN e.principal ELSE 0)
    BY <1>1, SettlingCloses
  <1>3. PoolsTyped /\ c \in YieldCoins /\ vault[c] \in Nat
    BY <1>2 DEF ReachInv, PoolsTyped
  <1> HIDE DEF e
  <1>4. paid \in Nat /\ paid <= vault[c] /\ paid <= e.principal
    <2>1. \A x, y \in Nat : Min({x, y}) \in Nat /\ Min({x, y}) <= x /\ Min({x, y}) <= y
      BY DEF Min
    <2> QED BY <1>2, <1>3, <2>1
  <1> HIDE DEF paid, c
  <1>5. vault[c] - paid \in Nat
    BY <1>3, <1>4
  <1>6. PoolsTyped'
    BY <1>1, <1>3, <1>5 DEF PoolsTyped
  <1>7. ASSUME NEW k \in YieldCoins, NEW w \in Nat,
               w + vault[k] + poolLoss[k] >= PrincipalIn(escrows, k)
        PROVE  w + vault'[k] + poolLoss[k] >= PrincipalIn(escrows', k)
    <2>1. vault[k] \in Nat /\ poolLoss[k] \in Nat /\ PrincipalIn(escrows, k) \in Nat
      BY OwedIsNatural DEF ReachInv, PoolsTyped
    <2>2. CASE k = c
      <3>1. vault'[c] = vault[c] - paid
        BY <1>1, <1>3 DEF PoolsTyped
      <3>2. PrincipalIn(escrows', c) = PrincipalIn(escrows, c) - e.principal
        BY <1>2 DEF c
      <3> QED BY <1>2, <1>4, <1>7, <2>1, <2>2, <3>1, <3>2
    <2>3. CASE k # c
      <3>1. vault'[k] = vault[k]
        BY <1>1, <1>3, <2>3 DEF PoolsTyped
      <3>2. PrincipalIn(escrows', k) = PrincipalIn(escrows, k)
        BY <1>2, <2>1, <2>3 DEF c
      <3> QED BY <1>7, <2>1, <3>1, <3>2
    <2> QED BY <2>2, <2>3
  <1>8. PortfolioTyped /\ UNCHANGED strategies
    BY DEF SettleInv, PayFromVault
  <1> DEFINE A == addresses_of(strategies)
             held(k) == SumFunctionOnSet(PrincipalOf(pools, k), A)
  <1>9. \A k \in YieldCoins : held(k) \in Nat
    BY <1>3, <1>8, PortfolioAddresses, CapitalIsNatural DEF PoolsTyped
  <1>10. ASSUME NEW k \in YieldCoins PROVE InReach(k)'
    <2>1. PrincipalIn(escrows, k)' = PrincipalIn(escrows', k)
      BY DEF PrincipalIn, PrincipalsOf, OpenOf
    <2>2. Capital(vault, pools, k, addresses_of(strategies))' = vault'[k] + held(k)
      BY <1>1, <1>8 DEF Capital, PrincipalOf, addresses_of
    <2>3. Capital(vault, pools, k, addresses_of(strategies)) = vault[k] + held(k)
      BY DEF Capital
    <2>4. /\ vault[k] \in Nat /\ vault'[k] \in Nat
          /\ poolLoss[k] \in Nat /\ held(k) \in Nat
      BY <1>1, <1>3, <1>6, <1>9 DEF PoolsTyped
    <2>5. InReach(k)
      BY DEF ReachInv
    <2>6. CASE k \in unwound
      <3>1. 0 + vault[k] + poolLoss[k] >= PrincipalIn(escrows, k)
        BY <2>4, <2>5, <2>6 DEF InReach
      <3>2. 0 + vault'[k] + poolLoss[k] >= PrincipalIn(escrows', k)
        BY <1>7, <3>1
      <3> HIDE DEF held
      <3> QED BY <1>1, <2>1, <2>4, <2>6, <3>2 DEF InReach
    <2>7. CASE k \notin unwound
      <3> HIDE DEF held
      <3>1. held(k) + vault[k] + poolLoss[k] >= PrincipalIn(escrows, k)
        BY <2>3, <2>4, <2>5, <2>7 DEF InReach
      <3>2. held(k) + vault'[k] + poolLoss[k] >= PrincipalIn(escrows', k)
        BY <1>7, <2>4, <3>1
      <3> QED BY <1>1, <2>1, <2>2, <2>4, <2>7, <3>2 DEF InReach
    <2> QED BY <2>6, <2>7
  <1> QED BY <1>1, <1>6, <1>10 DEF ReachInv

\* What is unwound is in the vault, and from then on only that counts; the rest
\* stays where it is.
LEMMA UnwindKeepsReach ==
    ASSUME SettleInv, CountersInv, ReachInv, NEW tokens, NEW n, Unwind(tokens, n)
    PROVE  ReachInv'
  <1> DEFINE A == addresses_of(strategies)
             books == [c \in tokens |-> unwind_token_from_strategies(c)]
  <1>1. /\ ~emergency /\ emergency' = TRUE /\ unwound' = unwound \cup tokens
        /\ vault' = [c \in YieldCoins |-> IF c \in tokens THEN books[c].vault ELSE vault[c]]
        /\ pools' = [a \in Pool |-> [c \in YieldCoins |->
                       IF c \in tokens THEN books[c].pools[a] ELSE pools[a][c]]]
        /\ UNCHANGED <<strategies, escrows, poolLoss>>
    BY DEF Unwind, chanceVars
  <1>2. PortfolioTyped /\ PoolsTyped /\ unwound = {}
    BY <1>1 DEF SettleInv, ReachInv
  <1>3. A \subseteq Pool /\ IsFiniteSet(A) /\ strategies \in Seq(Strategy)
    BY <1>2, PortfolioAddresses DEF PortfolioTyped
  <1>4. ASSUME NEW c \in YieldCoins, c \in tokens
        PROVE  /\ books[c] \in Books
               /\ books[c].vault >= Capital(vault, pools, c, A)
    <2> DEFINE b == PoolBooks(c)
    <2>1. b \in Books /\ Wealth(b, A) = Capital(vault, pools, c, A)
      BY <1>2, <1>3, BooksOfState
    <2> HIDE DEF b
    <2>2. /\ FoldLeft(unwind, b, strategies) \in Books
          /\ FoldLeft(unwind, b, strategies).vault >= Wealth(b, A)
      BY <1>3, <2>1, UnwindingEmptiesPools
    <2>3. books[c] = FoldLeft(unwind, b, strategies)
      BY <1>4 DEF unwind_token_from_strategies, b
    <2> QED BY <2>1, <2>2, <2>3
  <1> HIDE DEF books
  <1>5. \A c \in YieldCoins : /\ Capital(vault, pools, c, A) \in Nat
                              /\ vault[c] \in Nat /\ poolLoss[c] \in Nat
                              /\ PrincipalIn(escrows, c) \in Nat
    BY <1>2, <1>3, CapitalIsNatural, OwedIsNatural DEF PoolsTyped
  <1> HIDE DEF A
  <1>6. ASSUME NEW c \in YieldCoins, c \in tokens
        PROVE  books[c].vault \in Nat /\ books[c].pools \in [Pool -> PoolState]
    <2>1. books[c].vault \in Int /\ books[c].pools \in [Pool -> PoolState]
      BY <1>4, <1>6 DEF Books
    <2> QED BY <1>4, <1>5, <1>6, <2>1
  <1>7. PoolsTyped'
    <2>1. vault' \in [YieldCoins -> Nat]
      BY <1>1, <1>5, <1>6
    <2>2. pools' \in [Pool -> [YieldCoins -> PoolState]]
      BY <1>1, <1>2, <1>6 DEF PoolsTyped
    <2> QED BY <1>1, <1>2, <2>1, <2>2 DEF PoolsTyped
  <1>8. ASSUME NEW c \in YieldCoins, c \in unwound'
        PROVE  vault'[c] + poolLoss[c] >= PrincipalIn(escrows, c)
    <2>1. c \in tokens /\ vault'[c] = books[c].vault
      BY <1>1, <1>2, <1>8
    <2>2. Capital(vault, pools, c, A) + poolLoss[c] >= PrincipalIn(escrows, c)
      BY <1>1 DEF ReachInv, InReach, A
    <2>3. books[c].vault \in Nat /\ books[c].vault >= Capital(vault, pools, c, A)
      BY <1>4, <1>6, <2>1
    <2> QED BY <1>5, <2>1, <2>2, <2>3
  <1>9. ASSUME NEW c \in YieldCoins PROVE InReach(c)'
    <2>1. PrincipalIn(escrows, c)' = PrincipalIn(escrows, c)
      BY <1>1 DEF PrincipalIn, PrincipalsOf, OpenOf
    <2>2. CASE c \in unwound'
      BY <1>1, <1>8, <2>1, <2>2 DEF InReach
    <2>3. CASE c \notin unwound'
      <3>1. c \notin tokens /\ c \notin unwound
        BY <1>1, <2>3
      <3>2. vault'[c] = vault[c] /\ \A a \in Pool : pools'[a][c] = pools[a][c]
        BY <1>1, <3>1
      <3>3. Capital(vault, pools, c, addresses_of(strategies))'
              = Capital(vault, pools, c, addresses_of(strategies))
        BY <1>1, <3>2 DEF Capital, PrincipalOf, addresses_of
      <3> QED BY <1>1, <2>1, <2>3, <3>1, <3>3 DEF ReachInv, InReach
    <2> QED BY <2>2, <2>3
  <1> QED BY <1>1, <1>7, <1>9 DEF ReachInv

LEMMA EscrowStepKeepsReach == SettleInv /\ CountersInv /\ ReachInv /\ EscrowStep => ReachInv'
  <1> SUFFICES ASSUME SettleInv, CountersInv, ReachInv, EscrowStep PROVE ReachInv'
    OBVIOUS
  <1>1. ASSUME \/ \E id \in EscrowIds : release(id)
               \/ \E id \in EscrowIds : cancel(id)
               \/ \E id \in EscrowIds : emergency_withdraw_principal(id)
        PROVE  ReachInv'
    BY <1>1, RedeemKeepsReach, VaultKeepsReach
       DEF release, cancel, emergency_withdraw_principal
  <1>2. ASSUME \/ \E n \in UnwindBounds : emergency_unwind_strategy(n)
               \/ \E c \in YieldCoins, n \in UnwindBounds : emergency_unwind_token(c, n)
        PROVE  ReachInv'
    BY <1>2, UnwindKeepsReach DEF emergency_unwind_strategy, emergency_unwind_token
  <1> QED BY <1>1, <1>2, CreateKeepsReach DEF EscrowStep

LEMMA PoolStepKeepsReach == PortfolioTyped /\ CountersInv /\ ReachInv /\ PoolStep => ReachInv'
  <1> SUFFICES ASSUME PortfolioTyped, CountersInv, ReachInv, PoolStep PROVE ReachInv'
    OBVIOUS
  <1>0. PoolsTyped
    BY DEF ReachInv
  <1>1. ASSUME NEW a \in Pool, NEW c \in YieldCoins, pool_accrues(a, c)
        PROVE  ReachInv'
    <2>1. /\ pools' = [pools EXCEPT ![a][c].accrued = @ + 1]
          /\ UNCHANGED <<strategies, emergency, vault, poolLoss, escrows, unwound>>
      BY <1>1 DEF pool_accrues, yieldBooks
    <2>2. pools[a][c] \in PoolState
      BY <1>0 DEF PoolsTyped
    <2> DEFINE p == [pools[a][c] EXCEPT !.accrued = @ + 1]
    <2>3. p \in PoolState /\ p.principal = pools[a][c].principal
      BY <2>2 DEF PoolState
    <2>4. pools' = [pools EXCEPT ![a] = [@ EXCEPT ![c] = p]]
      BY <2>1
    <2> HIDE DEF p
    <2>5. pools' \in [Pool -> [YieldCoins -> PoolState]]
      BY <1>0, <2>3, <2>4 DEF PoolsTyped
    <2>6. PoolsTyped'
      BY <1>0, <2>1, <2>5 DEF PoolsTyped
    <2>7. ASSUME NEW k \in YieldCoins
          PROVE  PrincipalOf(pools', k) = PrincipalOf(pools, k)
      <3>1. \A b \in Pool : pools'[b][k].principal = pools[b][k].principal
        BY <1>0, <2>3, <2>4 DEF PoolsTyped
      <3> QED BY <3>1 DEF PrincipalOf
    <2>8. ASSUME NEW k \in YieldCoins PROVE InReach(k)'
      <3>1. InReach(k)
        BY DEF ReachInv
      <3> QED BY <2>1, <2>7, <3>1 DEF InReach, Capital, addresses_of, PrincipalIn,
                                      PrincipalsOf, OpenOf
    <2> QED BY <2>1, <2>6, <2>8 DEF ReachInv
  <1>2. ASSUME NEW a \in Pool, NEW c \in YieldCoins, pool_loses(a, c)
        PROVE  ReachInv'
    <2>1. /\ pools[a][c].principal > 0
          /\ pools' = [pools EXCEPT ![a][c].principal = @ - 1]
          /\ poolLoss' = [poolLoss EXCEPT ![c] = @ + 1]
          /\ UNCHANGED <<strategies, emergency, vault, escrows, unwound>>
      BY <1>2 DEF pool_loses, yieldBooks
    <2>2. pools[a][c] \in PoolState /\ poolLoss[c] \in Nat
      BY <1>0 DEF PoolsTyped
    <2> DEFINE p == [pools[a][c] EXCEPT !.principal = @ - 1]
    <2>3. p \in PoolState /\ p.principal = pools[a][c].principal - 1
      BY <2>1, <2>2 DEF PoolState
    <2>4. pools' = [pools EXCEPT ![a] = [@ EXCEPT ![c] = p]]
      BY <2>1
    <2> HIDE DEF p
    <2>5. pools' \in [Pool -> [YieldCoins -> PoolState]]
      BY <1>0, <2>3, <2>4 DEF PoolsTyped
    <2>6. PoolsTyped'
      BY <1>0, <2>1, <2>5 DEF PoolsTyped
    <2>7. /\ pools'[a][c] = p
          /\ \A b \in Pool, k \in YieldCoins :
                b # a \/ k # c => pools'[b][k] = pools[b][k]
      BY <1>0, <2>4 DEF PoolsTyped
    <2>8. poolLoss'[c] = poolLoss[c] + 1
          /\ \A k \in YieldCoins : k # c => poolLoss'[k] = poolLoss[k]
      BY <1>0, <2>1 DEF PoolsTyped
    <2>9. ASSUME NEW k \in YieldCoins, NEW A \in SUBSET Pool, IsFiniteSet(A)
          PROVE  Capital(vault', pools', k, A) + poolLoss'[k]
                   >= Capital(vault, pools, k, A) + poolLoss[k]
      <3> DEFINE f == PrincipalOf(pools, k)
                 g == PrincipalOf(pools', k)
      <3>0. /\ vault[k] \in Nat /\ poolLoss[k] \in Nat
            /\ \A b \in A : f[b] \in Nat
            /\ SumFunctionOnSet(f, A) \in Nat
        BY <1>0, <2>9, CapitalIsNatural DEF PoolsTyped
      <3>1. CASE k # c \/ a \notin A
        <4>1. \A b \in A : f[b] \in Int /\ g[b] = f[b]
          <5>1. ASSUME NEW b \in A PROVE g[b] = f[b]
            <6>1. pools'[b][k] = pools[b][k] /\ b \in Pool
              BY <2>7, <3>1
            <6> QED BY <6>1 DEF PrincipalOf
          <5> HIDE DEF f, g
          <5> QED BY <3>0, <5>1
        <4> HIDE DEF f, g
        <4>2. SumFunctionOnSet(g, A) = SumFunctionOnSet(f, A)
          BY <2>9, <4>1, SumCongruence
        <4>3. poolLoss'[k] \in Nat /\ poolLoss'[k] >= poolLoss[k]
          BY <2>2, <2>8, <3>0
        <4>4. Capital(vault', pools', k, A) = vault[k] + SumFunctionOnSet(f, A)
              /\ Capital(vault, pools, k, A) = vault[k] + SumFunctionOnSet(f, A)
          BY <2>1, <4>2 DEF Capital, f, g
        <4> QED BY <3>0, <4>3, <4>4
      <3>2. CASE k = c /\ a \in A
        <4>1. /\ f[a] \in Nat /\ g[a] = f[a] - 1
              /\ \A b \in A : f[b] \in Int
              /\ \A b \in A : b # a => g[b] = f[b]
          <5>1. g[a] = f[a] - 1
            BY <2>3, <2>7, <3>2 DEF PrincipalOf
          <5>2. ASSUME NEW b \in A, b # a PROVE g[b] = f[b]
            <6>1. pools'[b][k] = pools[b][k] /\ b \in Pool
              BY <2>7, <5>2
            <6> QED BY <6>1 DEF PrincipalOf
          <5> HIDE DEF f, g
          <5> QED BY <3>0, <3>2, <5>1, <5>2
        <4> HIDE DEF f, g
        <4>2. g[a] \in Int
          BY <4>1
        <4>3. SumFunctionOnSet(g, A) = SumFunctionOnSet(f, A) - f[a] + g[a]
          BY <2>9, <3>2, <4>1, <4>2, SumUpdate
        <4>4. Capital(vault', pools', k, A) = vault[k] + SumFunctionOnSet(g, A)
              /\ Capital(vault, pools, k, A) = vault[k] + SumFunctionOnSet(f, A)
          BY <2>1 DEF Capital, f, g
        <4> QED BY <2>8, <3>0, <3>2, <4>1, <4>3, <4>4
      <3> QED BY <3>1, <3>2
    <2>10. ASSUME NEW k \in YieldCoins
           PROVE  vault'[k] + poolLoss'[k] >= vault[k] + poolLoss[k]
      <3>1. vault[k] \in Nat /\ poolLoss[k] \in Nat
        BY <1>0 DEF PoolsTyped
      <3> QED BY <2>1, <2>8, <3>1
    <2>11. addresses_of(strategies)' = addresses_of(strategies)
      BY <2>1 DEF addresses_of
    <2> QED BY <2>1, <2>6, <2>9, <2>10, <2>11, ReachRests
  <1> QED BY <1>1, <1>2 DEF PoolStep

LEMMA ReachStep ==
    SettleInv /\ SettleInv' /\ CountersInv /\ ReachInv /\ [YieldNext]_<<yieldVars, clock>>
      => ReachInv'
  <1> SUFFICES ASSUME SettleInv, SettleInv', CountersInv, ReachInv,
                      [YieldNext]_<<yieldVars, clock>>
               PROVE  ReachInv'
    OBVIOUS
  <1>1. CASE UNCHANGED yieldVars
    BY <1>1, ReachUnmoved DEF yieldVars, yieldBooks, poolVars, chanceVars
  <1>2. PortfolioTyped
    BY DEF SettleInv
  <1> QED BY <1>1, <1>2, PortfolioStepKeepsReach, EscrowStepKeepsReach, PoolStepKeepsReach
          DEF YieldNext

LEMMA ReachInitially == YieldInit => ReachInv
  <1> SUFFICES ASSUME YieldInit PROVE ReachInv
    OBVIOUS
  <1>1. PoolsTyped
    BY DEF YieldInit, PoolsTyped, PoolState
  <1>2. ~emergency /\ unwound = {} /\ strategies = <<>>
    BY DEF YieldInit
  <1>3. CountersInv
    BY CountersInitially
  <1>4. activeEscrows = 0
    BY DEF YieldInit
  <1>5. addresses_of(strategies) = {}
    BY <1>2 DEF addresses_of
  <1>6. ASSUME NEW c \in YieldCoins PROVE InReach(c)
    <2>1. vault[c] \in Nat /\ poolLoss[c] \in Nat
      BY <1>1 DEF PoolsTyped
    <2>2. Capital(vault, pools, c, {}) = vault[c]
      BY <2>1, SumEmpty DEF Capital
    <2>3. PrincipalIn(escrows, c) = 0
      BY <1>3, <1>4, NothingOwed
    <2>4. Capital(vault, pools, c, addresses_of(strategies)) + poolLoss[c] >= 0
      BY <1>5, <2>1, <2>2
    <2> QED BY <1>2, <2>3, <2>4 DEF InReach
  <1> QED BY <1>1, <1>2, <1>6 DEF ReachInv

\* But for what the pools lost, and for what an emergency declared for other
\* tokens leaves in the pools for good, the principal of the open escrows is
\* where a settlement looks for it, through changes of the portfolio,
\* rebalances, the settlements of others and an unwinding of its own token
\* (yield_escrow lib.rs:266-396, 491-573, 928-1029).
THEOREM PrincipalStaysInPlace == YieldSpec => []PrincipalStaysPut
  <1> DEFINE Inv == SettleInv /\ CountersInv /\ ReachInv
  <1>1. YieldInit /\ clock \in Nat => Inv
    BY SettleInitially, CountersInitially, ReachInitially
  <1>2. Inv /\ [YieldNext]_<<yieldVars, clock>> => Inv'
    BY SettleStep, CountersStep, ReachStep
  <1>3. Inv => PrincipalStaysPut
    BY ReachSuffices DEF SettleInv
  <1> QED BY <1>1, <1>2, <1>3, PTL DEF YieldSpec
=============================================================================
