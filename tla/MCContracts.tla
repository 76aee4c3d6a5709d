---------------------------- MODULE MCContracts ----------------------------
(***************************************************************************)
(* The single-purpose contracts on small instances.  They share nothing    *)
(* but the ledger's clock and the parties, so one run holds them all: the  *)
(* initial state picks the contract that is called, the others rest.       *)
(* Time has two ticks, three for the oracle, whose window spans three.     *)
(***************************************************************************)
EXTENDS TimelockEscrow, FlashLoan, SignedMessages, YieldEscrow, TwapOracle,
        WideNumerals, TLC

CONSTANTS p1, p2, c1, c2, l1, l2

VARIABLES subject,
          operands,   \* of the oracle's 256-bit arithmetic: the numbers picked so far
          numeral     \* a text that is read as a number

-----------------------------------------------------------------------------
(* The token: two approvals and a revocation, a permit sequence.           *)

Approve(v) == [owner |-> p1, spender |-> p2, value |-> v, expires |-> 4]
MCApprovals == {Approve(0), Approve(2)}

Permit(to, v, n, t) ==
    [owner |-> p1, spender |-> to, value |-> v, nonce |-> n, deadline |-> t]
MCPermits == {Permit(p2, 1, 0, 4), Permit(p2, 2, 0, 5), Permit(p1, 1, 1, 5)}

MCMintBatches == {<<<<p1, 1>>, <<p1, 1>>>>}
MCHookAllows == ("strict" :> {<<p2, p1>>})

-----------------------------------------------------------------------------
(* The proxy: counted and uncounted calls, intents that share a nonce.     *)

Forward(f, payments) == [func |-> f, payments |-> payments]
MCForwards ==
    {Forward("route_payment", <<<<p1, 1>>>>),
     Forward("route_payments", <<<<p1, 1>>, <<p2, 1>>, <<p1, 2>>>>),
     Forward("route_multihop_swap", <<<<p1, 2>>>>)}

Intent(n, t, signed) == [from |-> p1, nonce |-> n, deadline |-> t, signed |-> signed]
MCIntents == {Intent(0, 4, TRUE), Intent(0, 5, TRUE), Intent(1, 5, TRUE),
              Intent(1, 5, FALSE)}
MCIntentBatches ==
    {<<Intent(0, 4, TRUE), Intent(0, 5, TRUE), Intent(1, 5, TRUE)>>,
     <<Intent(0, 5, TRUE), Intent(1, 5, FALSE)>>}

Meta(n, amount, fee, t) ==
    [sender |-> p1, recipient |-> p2, feeTo |-> p2,
     amount |-> amount, fee |-> fee, nonce |-> n, deadline |-> t]
MCMetaPayments == {Meta(0, 1, 0, 3), Meta(0, 1, 1, 4), Meta(1, 1, 1, 5)}
MCAllowances == {<<p1, 2>>}

-----------------------------------------------------------------------------
(* The yield escrow: one pool pays interest, one does not.                 *)

Share(a, n) == [address |-> a, weight |-> n]
MCPortfolios == {<<Share(l1, 1), Share(l2, 1)>>, <<Share(l2, 2)>>,
                 <<Share(l1, 2)>>, <<Share(l1, 1), Share(l1, 1)>>}
MCPoolRate == (l1 :> 2 @@ l2 :> 0)

-----------------------------------------------------------------------------
(* The oracle and the proofs.                                              *)

MCOracleArgs == {<<"A", price, t>> : price \in {1, 2, 4}, t \in 1..5} \cup {<<"B", 1, 3>>}
MCProvable == {<<"k1", "n1">>, <<"k2", "n1">>, <<"k2", "n2">>}

-----------------------------------------------------------------------------
(* The numbers: pairs of eight-bit words around the boundaries of a word   *)
(* and of half a word; texts of such numbers in the four bases.            *)

MCHighs == {0, 1, 15, 16, 127, 128, 240, 255}
MCLows == {0, 1, 3, 5, 15, 16, 127, 128, 200, 255}
MCOperands == MCHighs \X MCLows

DigitsOf(v, radix) ==
    LET longest == IF radix = 2 THEN 17 ELSE 6
        n == Cardinality({k \in 1..longest : k = 1 \/ v >= radix ^ (k - 1)})
    IN [k \in 1..n |-> (v \div radix ^ (n - k)) % radix]
MCBoundaries == {0, 7, 255, 256, 520, 4095, 4096, 32767, 32768, 32769, 65535, 65536, 70000}
MCTexts ==
    LET signs == {<<>>, <<Plus>>, <<Minus>>}
        prefixes == {<<>>, Binary, Octal, Hex}
        odd == {<<>>, <<1, Underscore, 0>>, <<Other>>, <<2, 8, 15>>}
        plain == {DigitsOf(v, r) : v \in MCBoundaries, r \in {2, 8, 10, 16}}
    IN {s \o p \o d : s \in signs, p \in prefixes, d \in odd \cup plain}

-----------------------------------------------------------------------------

MCInit ==
    /\ subject \in {"lock", "loan", "token", "proxy", "yield", "yields", "oracle", "zk",
                    "numbers"}
    /\ operands = <<>> /\ numeral = <<>>
    /\ clock = IF subject = "oracle" THEN 4 ELSE 3
    /\ TimelockInit /\ FlashLoanInit /\ TokenInit /\ ProxyInit /\ YieldInit
    /\ OracleInit /\ ZkInit

\* The yield escrow with one token; and with one escrow in each of two and
\* pools that neither gain nor lose, so that an emergency in one of them meets
\* what is owed in the other.
OneTokenEscrowed == c2 \notin yieldTokens' /\ yieldState'[c2].updated_at = 0
TwoTokensEscrowed ==
    /\ \A id \in EscrowIds : escrows'[id] # NoEscrow =>
          /\ escrows'[id].token = (IF id = 1 THEN c1 ELSE c2)
          /\ escrows'[id].principal = (IF id = 1 THEN 2 ELSE 1)
    /\ \A c \in YieldCoins : poolGain'[c] = 0 /\ poolLoss'[c] = 0
    /\ clock' <= 4

LockMoves   == subject = "lock"   /\ TimelockNext
LoanMoves   == subject = "loan"   /\ FlashLoanNext /\ UNCHANGED clock
TokenMoves  == subject = "token"  /\ TokenNext
ProxyMoves  == subject = "proxy"  /\ ProxyNext
YieldMoves  ==
    \/ subject = "yield"  /\ YieldNext /\ OneTokenEscrowed
    \/ subject = "yields" /\ YieldNext /\ TwoTokensEscrowed
OracleMoves == subject = "oracle" /\ OracleNext
ZkMoves     == subject = "zk"     /\ ZkNext /\ UNCHANGED clock
PickOperand ==
    /\ subject = "numbers" /\ Len(operands) < 2 /\ numeral = <<>>
    /\ \E a \in MCOperands : operands' = Append(operands, a)
    /\ UNCHANGED <<numeral, clock>>
PickNumeral ==
    /\ subject = "numbers" /\ operands = <<>> /\ numeral = <<>>
    /\ numeral' \in MCTexts
    /\ UNCHANGED <<operands, clock>>

numberVars == <<operands, numeral>>
contractVars == <<lockVars, loanVars, tokenVars, proxyVars, yieldVars, oracleVars, zkVars>>

MCNext ==
    /\ UNCHANGED subject
    /\ \/ (PickOperand \/ PickNumeral) /\ UNCHANGED contractVars
       \/ LockMoves /\ UNCHANGED numberVars
          /\ UNCHANGED <<loanVars, tokenVars, proxyVars, yieldVars, oracleVars, zkVars>>
       \/ LoanMoves /\ UNCHANGED numberVars
          /\ UNCHANGED <<lockVars, tokenVars, proxyVars, yieldVars, oracleVars, zkVars>>
       \/ TokenMoves /\ UNCHANGED numberVars
          /\ UNCHANGED <<lockVars, loanVars, proxyVars, yieldVars, oracleVars, zkVars>>
       \/ ProxyMoves /\ UNCHANGED numberVars
          /\ UNCHANGED <<lockVars, loanVars, tokenVars, yieldVars, oracleVars, zkVars>>
       \/ YieldMoves /\ UNCHANGED numberVars
          /\ UNCHANGED <<lockVars, loanVars, tokenVars, proxyVars, oracleVars, zkVars>>
       \/ OracleMoves /\ UNCHANGED numberVars
          /\ UNCHANGED <<lockVars, loanVars, tokenVars, proxyVars, yieldVars, zkVars>>
       \/ ZkMoves /\ UNCHANGED numberVars
          /\ UNCHANGED <<lockVars, loanVars, tokenVars, proxyVars, yieldVars, oracleVars>>

mcVars == <<subject, clock, contractVars, numberVars>>

\* One number, two numbers, and a text of a number.
OneExact(a) == BitsExact(a) /\ ISignsExact(a)
TwoExact(a, b) ==
    /\ USumsExact(a, b) /\ UQuotientsExact(a, b)
    /\ ISumsExact(a, b) /\ IQuotientsExact(a, b)
    /\ StepsStayInTheWord(a, b)
    /\ high(b) = 0 /\ low(b) <= BITS => UPowersExact(a, low(b)) /\ IPowersExact(a, low(b))

\* The 256-bit arithmetic of the oracle's accumulator (ethnum-patch
\* intrinsics/native/*.rs, uint/api.rs, int/api.rs): every operation, for all
\* its flavours, is the operation on the numbers, its overflow flag says
\* whether the result was cut, the loops of the division turn at most twice as
\* their comments say (divmod.rs:72, 353), and no sum that must not wrap does;
\* a text is read as the number it stands for, or refused (parse.rs).
ArithmeticIsExact ==
    [][ subject = "numbers" =>
          /\ Len(operands') = 1 => OneExact(operands'[1])
          /\ Len(operands') = 2 => TwoExact(operands'[1], operands'[2])
          /\ NumeralsAreRead(numeral') ]_mcVars

\* The yield escrow alone.
YieldOnlyInit == MCInit /\ subject = "yield"

MCSpec == MCInit /\ [][MCNext]_mcVars
=============================================================================
