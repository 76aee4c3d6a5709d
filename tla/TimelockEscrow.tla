--------------------------- MODULE TimelockEscrow ---------------------------
(***************************************************************************)
(* The time-locked escrow (timelock_escrow/src/lib.rs): a depositor locks  *)
(* tokens for a recipient until a release time; from then on anybody may   *)
(* make the contract pay the recipient, once.                              *)
(*                                                                         *)
(* All escrows of a token share the contract's one balance of it, so what  *)
(* protects an escrow is only that every other one pays at most itself.    *)
(***************************************************************************)
EXTENDS Ledger, Sequences, Functions

CONSTANTS
    LockVault,      \* env.current_contract_address()
    LockFunds,      \* what each party owns of each coin at first
    LockAmounts,    \* amounts of deposit
    LockTimes,      \* release times of deposit
    MaxLocks        \* bound on the number of escrows

ASSUME LockAssumption ==
    /\ LockVault \notin Party
    /\ LockFunds \in Nat
    /\ LockAmounts \subseteq Nat \ {0}
    /\ LockTimes \subseteq Nat
    /\ MaxLocks \in Nat

VARIABLES
    locks,          \* DataKey::Escrow(id), with DataKey::Counter as its length
    lockSheet,      \* external: who owns what of each coin
    lockPaid        \* history: what each escrow has paid, and when it first did

lockVars == <<locks, lockSheet, lockPaid>>

-----------------------------------------------------------------------------

TimelockInit ==
    /\ locks = <<>>
    /\ lockSheet = [c \in Coin |-> [a \in Party \cup {LockVault} |->
                        IF a = LockVault THEN 0 ELSE LockFunds]]
    /\ lockPaid = <<>>

deposit(depositor, recipient, token, amount, release_time) ==
    /\ Len(locks) < MaxLocks
    /\ amount > 0
    /\ can_transfer(lockSheet[token], depositor, amount)
    /\ lockSheet' = [lockSheet EXCEPT
                       ![token] = transfer(@, depositor, LockVault, amount)]
    /\ locks' = Append(locks,
                  [depositor |-> depositor, recipient |-> recipient,
                   token |-> token, amount |-> amount,
                   release_time |-> release_time, claimed |-> FALSE])
    /\ lockPaid' = Append(lockPaid, [total |-> 0, at |-> MaxClock])
    /\ UNCHANGED clock

\* Mutant: the escrow is paid but not marked.
mark_claimed_not(id) == locks

mark_claimed(id) == [locks EXCEPT ![id].claimed = TRUE]

\* Mutant: the lock opens one second early.
released_early(e) == clock + 1 >= e.release_time

released(e) == clock >= e.release_time

\* Needs no signature.
claim(id) ==
    LET e == locks[id]
        paid == lockPaid[id]
    IN /\ ~e.claimed
       /\ released(e)
       /\ can_transfer(lockSheet[e.token], LockVault, e.amount)
       /\ lockSheet' = [lockSheet EXCEPT
                          ![e.token] = transfer(@, LockVault, e.recipient, e.amount)]
       /\ locks' = mark_claimed(id)
       /\ lockPaid' = [lockPaid EXCEPT ![id] =
                         [total |-> paid.total + e.amount,
                          at |-> IF paid.total = 0 THEN clock ELSE paid.at]]
       /\ UNCHANGED clock

TimelockNext ==
    \/ \E d, r \in Party, c \in Coin, n \in LockAmounts, t \in LockTimes :
          deposit(d, r, c, n, t)
    \/ \E id \in DOMAIN locks : claim(id)
    \/ TimePasses /\ UNCHANGED lockVars

TimelockSpec == TimelockInit /\ clock \in Nat /\ [][TimelockNext]_<<lockVars, clock>>

-----------------------------------------------------------------------------
(* Properties.                                                             *)

LockedIn(c) ==
    SumFunctionOnSet([id \in DOMAIN locks |-> locks[id].amount],
                     {id \in DOMAIN locks : locks[id].token = c /\ ~locks[id].claimed})

LocksFunded == \A c \in Coin : lockSheet[c][LockVault] = LockedIn(c)

LocksPayInTime ==
    \A id \in DOMAIN locks :
        /\ lockPaid[id].total <= locks[id].amount
        /\ lockPaid[id].total > 0 => lockPaid[id].at >= locks[id].release_time

\* An escrow pays its recipient at most its amount, and not before its time;
\* and escrows do not live off one another: the contract owns exactly the open
\* escrows of each token, so claim (lib.rs:86-111) never fails for want of
\* tokens, in whatever order escrows mature and are claimed.
LocksPayOnceInTime == LocksFunded /\ LocksPayInTime
=============================================================================
