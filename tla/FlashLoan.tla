----------------------------- MODULE FlashLoan -----------------------------
(***************************************************************************)
(* The flash-loan provider (flash_loan/src/lib.rs).  A loan is one call:   *)
(* the reserve goes out, the borrower's on_flash_loan runs, and the call   *)
(* fails, undoing all of it, unless the reserve has grown by the fee.      *)
(*                                                                         *)
(* What the borrower does in between is anything it can do, so the call is *)
(* taken apart: flash_loan opens a frame, the borrower moves tokens and    *)
(* may call flash_loan again, and the frame is closed by the check of the  *)
(* repayment or by the error that restores what it found.  Between calls   *)
(* there is no frame.                                                      *)
(***************************************************************************)
EXTENDS Ledger, Sequences

CONSTANTS
    Provider,       \* env.current_contract_address()
    LoanCoins,      \* the coins it lends
    LoanReserve,    \* what the provider owns of each coin at first
    LoanFunds,      \* what the borrower owns of each coin at first
    LoanAmounts,    \* amounts of flash_loan
    LoanPayments,   \* amounts the borrower sends to the provider
    MaxFrames,      \* bound on nested calls
    MaxLoans        \* bound on the loans of a behaviour

BASE_FEE_BPS == 5
KINK_FEE_BPS == 10
MAX_FEE_BPS == 50
KINK_UTILIZATION_BPS == 8000
BPS_DIVISOR == 10000

ASSUME LoanAssumption ==
    /\ {LoanReserve, LoanFunds, MaxFrames, MaxLoans} \subseteq Nat
    /\ LoanCoins \subseteq Coin
    /\ LoanAmounts \subseteq Nat
    /\ LoanPayments \subseteq Nat

VARIABLES
    reserve,        \* external: the provider's balance of each coin
    purse,          \* external: the borrower's balance of each coin
    loanLock,       \* DataKey::ReentrancyLock
    frames,         \* the open calls of flash_loan, the innermost last
    loanFees,       \* history: the fees of the loans that succeeded, per coin
    loansMade       \* history: how many did

loanVars == <<reserve, purse, loanLock, frames, loanFees, loansMade>>

-----------------------------------------------------------------------------
(* The price of a loan.                                                    *)

ceil_div(n, d) == (n + d - 1) \div d

\* Mutant: the slope above the kink starts from zero.
utilization_bps_fee_dips(used) ==
    IF used <= KINK_UTILIZATION_BPS
    THEN BASE_FEE_BPS + ceil_div(BASE_FEE_BPS * used, KINK_UTILIZATION_BPS)
    ELSE ceil_div((MAX_FEE_BPS - KINK_FEE_BPS) * (used - KINK_UTILIZATION_BPS),
                  BPS_DIVISOR - KINK_UTILIZATION_BPS)

\* The rate at `used` basis points of utilization, kinked at 80%.
utilization_bps_fee(used) ==
    LET rate == IF used <= KINK_UTILIZATION_BPS
                THEN BASE_FEE_BPS + ceil_div(BASE_FEE_BPS * used, KINK_UTILIZATION_BPS)
                ELSE KINK_FEE_BPS
                       + ceil_div((MAX_FEE_BPS - KINK_FEE_BPS)
                                     * (used - KINK_UTILIZATION_BPS),
                                  BPS_DIVISOR - KINK_UTILIZATION_BPS)
    IN IF rate <= MAX_FEE_BPS THEN rate ELSE MAX_FEE_BPS

calculate_amount_fee(amount, bps) == ceil_div(amount * bps, BPS_DIVISOR)

\* Defined for 0 < amount <= reserves; the code answers an error otherwise.
calculate_fee_of_loan(amount, reserves) ==
    calculate_amount_fee(amount,
        utilization_bps_fee(ceil_div(amount * BPS_DIVISOR, reserves)))

flash_fee(amount) == calculate_amount_fee(amount, BASE_FEE_BPS)

-----------------------------------------------------------------------------

FlashLoanInit ==
    /\ reserve = [c \in LoanCoins |-> LoanReserve]
    /\ purse = [c \in LoanCoins |-> LoanFunds]
    /\ loanLock = FALSE
    /\ frames = <<>>
    /\ loanFees = [c \in LoanCoins |-> 0]
    /\ loansMade = 0

\* Mutant: a loan inside a loan is allowed.
lock_is_free_always == TRUE

lock_is_free == ~loanLock

\* The call up to the borrower's on_flash_loan.  The frame keeps what an
\* error restores.
flash_loan(coin, amount) ==
    /\ Len(frames) < MaxFrames /\ loansMade < MaxLoans
    /\ lock_is_free
    /\ amount > 0 /\ amount <= reserve[coin]
    /\ LET fee == calculate_fee_of_loan(amount, reserve[coin])
       IN frames' = Append(frames,
                      [coin |-> coin, fee |-> fee,
                       required_balance |-> reserve[coin] + fee,
                       before |-> [reserve |-> reserve, purse |-> purse,
                                   loanLock |-> loanLock, loanFees |-> loanFees,
                                   loansMade |-> loansMade]])
    /\ loanLock' = TRUE
    /\ reserve' = [reserve EXCEPT ![coin] = @ - amount]
    /\ purse' = [purse EXCEPT ![coin] = @ + amount]
    /\ UNCHANGED <<loanFees, loansMade>>

\* The borrower, in or between loans, pays the provider.
pay_provider(coin, n) ==
    /\ purse[coin] >= n
    /\ reserve' = [reserve EXCEPT ![coin] = @ + n]
    /\ purse' = [purse EXCEPT ![coin] = @ - n]
    /\ UNCHANGED <<loanLock, frames, loanFees, loansMade>>

\* Mutant: the loan is checked against what was lent, without the fee.
repaid_without_fee(f) == reserve[f.coin] >= f.required_balance - f.fee

repaid(f) == reserve[f.coin] >= f.required_balance

\* The call after on_flash_loan returned, when the reserve has grown enough.
flash_loan_returns ==
    /\ frames # <<>>
    /\ LET f == frames[Len(frames)]
       IN /\ repaid(f)
          /\ loanFees' = [loanFees EXCEPT ![f.coin] = @ + f.fee]
    /\ frames' = SubSeq(frames, 1, Len(frames) - 1)
    /\ loanLock' = FALSE
    /\ loansMade' = loansMade + 1
    /\ UNCHANGED <<reserve, purse>>

\* The call fails: the repayment is too low or the borrower panicked.
flash_loan_fails ==
    /\ frames # <<>>
    /\ LET old == frames[Len(frames)].before
       IN /\ reserve' = old.reserve
          /\ purse' = old.purse
          /\ loanLock' = old.loanLock
          /\ loanFees' = old.loanFees
          /\ loansMade' = old.loansMade
    /\ frames' = SubSeq(frames, 1, Len(frames) - 1)

FlashLoanNext ==
    \/ \E c \in LoanCoins, n \in LoanAmounts : flash_loan(c, n)
    \/ \E c \in LoanCoins, n \in LoanPayments : pay_provider(c, n)
    \/ flash_loan_returns
    \/ flash_loan_fails

FlashLoanSpec == FlashLoanInit /\ [][FlashLoanNext]_loanVars

-----------------------------------------------------------------------------
(* Properties.                                                             *)

\* Whatever the borrower does in on_flash_loan, a nested loan included, the
\* provider ends every call with its reserve and the fee of every loan that
\* succeeded (lib.rs:103-106): no repayment counts for two loans.  And a loan
\* never costs less than a smaller one of the same reserve would, on either
\* side of the kink (lib.rs:118-156).
LoansEarnTheirFees ==
    /\ frames = <<>> =>
          /\ ~loanLock
          /\ \A c \in LoanCoins : reserve[c] >= LoanReserve + loanFees[c]
    /\ \A c \in LoanCoins : \A m, n \in LoanAmounts :
          (0 < m /\ m <= n /\ n <= reserve[c]) =>
              calculate_fee_of_loan(m, reserve[c]) <= calculate_fee_of_loan(n, reserve[c])

\* The inductive invariant behind it: between calls the reserve has earned the
\* fees; within one there is a single frame, which an error can restore, and
\* what the borrower has done so far took nothing but the loan.
Sheet == [LoanCoins -> Int]
Earned(r, fees) == \A c \in LoanCoins : r[c] >= LoanReserve + fees[c]
FrameInv(f) ==
    /\ f.coin \in LoanCoins /\ f.fee \in Nat
    /\ f.before.reserve \in Sheet /\ f.before.loanFees \in Sheet
    /\ f.before.loanLock = FALSE
    /\ Earned(f.before.reserve, f.before.loanFees)
    /\ f.required_balance = f.before.reserve[f.coin] + f.fee
    /\ loanFees = f.before.loanFees
    /\ \A c \in LoanCoins \ {f.coin} : reserve[c] >= f.before.reserve[c]
LoanInv ==
    /\ reserve \in Sheet /\ loanFees \in Sheet
    /\ frames = <<>> => ~loanLock /\ Earned(reserve, loanFees)
    /\ frames # <<>> => loanLock /\ frames = <<frames[1]>> /\ FrameInv(frames[1])
=============================================================================
