------------------------------- MODULE Ledger -------------------------------
(***************************************************************************)
(* What the single-purpose contracts of the repository share: the accounts *)
(* that call them, the token contracts they move, the ledger's clock, and  *)
(* the transfer of a SEP-41 token.  Token contracts and the clock are      *)
(* external to every contract; a contract call is atomic, so each entry    *)
(* point is one action, enabled exactly when the call succeeds.            *)
(***************************************************************************)
EXTENDS Integers, FiniteSets

CONSTANTS
    Party,          \* the accounts and contracts that sign calls
    NoParty,        \* an absent Option<Address>
    Coin,           \* token contracts
    MaxClock        \* bound on the ledger clock

ASSUME LedgerAssumption ==
    /\ IsFiniteSet(Party)
    /\ NoParty \notin Party
    /\ MaxClock \in Nat

VARIABLE clock      \* env.ledger().timestamp()

TimePasses == clock < MaxClock /\ clock' = clock + 1

\* The sheet of one token after `n` units went from `from` to `to`.
transfer(sheet, from, to, n) ==
    LET debited == [sheet EXCEPT ![from] = @ - n]
    IN [debited EXCEPT ![to] = @ + n]

\* What is drawn from it: the transfer fails when `from` owns less.
can_transfer(sheet, from, n) == n >= 0 /\ sheet[from] >= n
=============================================================================
