--------------------------- MODULE RouterServices ---------------------------
(***************************************************************************)
(* What the TreasuryManager does with the payment router beside its        *)
(* routes: treasury funds placed with a lending protocol (lib.rs:1986-     *)
(* 2130), and the archival of old ledger entries (lib.rs:4296-4463,        *)
(* archival.rs), which deletes refunds and legacy entries of the senders.  *)
(*                                                                         *)
(* A lending protocol is external: an address that takes deposits from     *)
(* the treasury, owes it the principal, and may pay yield.  An archive     *)
(* root is computed off-chain and never compared with anything; what is    *)
(* left of it is that the epoch exists, with the number of its records.    *)
(***************************************************************************)
EXTENDS RouterSwaps

CONSTANTS
    Protocols,      \* the addresses of lending protocols
    YieldAmounts,   \* amounts of deposits, withdrawals and harvests
    LeafLists,      \* the leaves of commit_archive_root and prune_archived_entries
    MaxEpoch        \* bound on the archive epochs

\* archival::ArchiveLeaf.
ArchiveLeaf == [record_type : {"UserVolume", "UserSpending", "RefundBalance"},
                primary_key : Addr, secondary_key : Token]

ASSUME ServicesAssumption ==
    /\ Protocols \subseteq Addr \ {Treasury}
    /\ YieldAmounts \subseteq Nat
    /\ LeafLists \subseteq Seq(ArchiveLeaf)
    /\ MaxEpoch \in Nat

VARIABLES
    yieldProtocol,  \* DataKey::YieldProtocol
    yieldPrincipal, \* DataKey::YieldPrincipal(token), absent reads as 0
    held,           \* external: treasury principal each protocol owes
    archives,       \* DataKey::ArchiveMeta(epoch).record_count, per epoch
    archived        \* history: the entries the last call deleted as archived

serviceVars == <<yieldProtocol, yieldPrincipal, held, archives, archived>>
allVars == <<paymentVars, swapVars, serviceVars>>

-----------------------------------------------------------------------------
(* Treasury yield.                                                         *)

\* A call of the TreasuryManager that also needs the signatures of `others`;
\* the router has no key to sign with.
ByManager(others) ==
    LET manager == require_role("TreasuryManager")
    IN /\ manager # NoAddr
       /\ others \subseteq Addr
       /\ other_call(manager)
       /\ consent' = {manager} \cup others

Unserved == /\ UNCHANGED <<allowance, refund, taken, messageVars, senderVars,
                           blacklist, archives>>
            /\ Swapless /\ archived' = {}

set_yield_protocol(p) ==
    /\ ByManager({})
    /\ yieldProtocol' = p
    /\ Unserved /\ UNCHANGED <<balance, yieldPrincipal, held>>

\* The protocol takes `n` from the treasury.
deposit_to_yield(t, n) ==
    LET p == yieldProtocol
    IN /\ require_circuit_closed
       /\ n > 0
       /\ ByManager({Treasury})
       /\ p # NoAddr
       /\ n <= balance[t][Treasury]
       /\ balance' = transfer(balance, t, Treasury, p, n)
       /\ held' = [held EXCEPT ![t][p] = @ + n]
       /\ yieldPrincipal' = [yieldPrincipal EXCEPT ![t] = @ + n]
       /\ Unserved /\ UNCHANGED yieldProtocol

\* Mutant: the entry stays when nothing is left.
remaining_if_some(principal, n) == IF principal = n THEN principal ELSE principal - n

remaining(principal, n) == principal - n

\* The protocol of today pays back what it owes, whoever took the deposit.
withdraw_from_yield(t, n) ==
    LET p == yieldProtocol
    IN /\ require_circuit_closed
       /\ n > 0 /\ n <= yieldPrincipal[t]
       /\ p # NoAddr
       /\ ByManager({p})
       /\ n <= held[t][p] /\ n <= balance[t][p]
       /\ balance' = transfer(balance, t, p, Treasury, n)
       /\ held' = [held EXCEPT ![t][p] = @ - n]
       /\ yieldPrincipal' = [yieldPrincipal EXCEPT ![t] = remaining(@, n)]
       /\ Unserved /\ UNCHANGED yieldProtocol

\* Yield is paid out of what the protocol owns beyond the principal.
harvest_yield(t, n) ==
    LET p == yieldProtocol
    IN /\ require_circuit_closed
       /\ p # NoAddr
       /\ ByManager({p})
       /\ n + held[t][p] <= balance[t][p]
       /\ balance' = transfer(balance, t, p, Treasury, n)
       /\ Unserved /\ UNCHANGED <<yieldProtocol, yieldPrincipal, held>>

-----------------------------------------------------------------------------
(* Archival.                                                               *)

\* A new epoch for a root that is taken on trust.
commit_archive_root(leaves) ==
    /\ ~frozen
    /\ ByManager({})
    /\ Len(archives) < MaxEpoch
    /\ archives' = Append(archives, Len(leaves))
    /\ archived' = {}
    /\ Swapless
    /\ UNCHANGED <<moneyVars, messageVars, senderVars, blacklist,
                   yieldProtocol, yieldPrincipal, held>>

\* Mutant: the epoch need not have been committed.
is_committed_next(epoch) == epoch \in 1..(Len(archives) + 1)

is_committed(epoch) == epoch \in 1..Len(archives)

Leaves(leaves, type) == {l \in ToSet(leaves) : l.record_type = type}
Users(leaves, type) == {l.primary_key : l \in Leaves(leaves, type)}

\* Mutant: the token of a refund leaf is ignored like that of the others.
refund_after_prune_any_token(leaves) ==
    [t \in Token |-> [a \in Addr |->
        IF \E l \in Leaves(leaves, "RefundBalance") : l.primary_key = a
        THEN 0 ELSE refund[t][a]]]

refund_after_prune(leaves) ==
    [t \in Token |-> [a \in Addr |->
        IF \E l \in Leaves(leaves, "RefundBalance") :
              l.primary_key = a /\ l.secondary_key = t
        THEN 0 ELSE refund[t][a]]]

\* Deletes the entries the leaves name: whether they are in the archive is not
\* looked at.  Entries that are absent are skipped.
prune_archived_entries(epoch, leaves) ==
    /\ ~frozen
    /\ ByManager({})
    /\ is_committed(epoch)
    /\ refund' = refund_after_prune(leaves)
    /\ Limits!prune_legacy(Users(leaves, "UserSpending"), Users(leaves, "UserVolume"))
    /\ archived' = ToSet(leaves)
    /\ Swapless
    /\ UNCHANGED <<balance, allowance, taken, messageVars, blacklist,
                   yieldProtocol, yieldPrincipal, held, archives>>

-----------------------------------------------------------------------------

ServicesInit ==
    /\ SwapsInit
    /\ yieldProtocol = NoAddr
    /\ yieldPrincipal = [t \in Token |-> 0]
    /\ held = [t \in Token |-> [p \in Protocols |-> 0]]
    /\ archives = <<>>
    /\ archived = {}

YieldStep(tokens) ==
    \/ \E p \in Protocols : set_yield_protocol(p)
    \/ \E t \in tokens, n \in YieldAmounts : deposit_to_yield(t, n)
    \/ \E t \in tokens, n \in YieldAmounts : withdraw_from_yield(t, n)
    \/ \E t \in tokens, n \in YieldAmounts : harvest_yield(t, n)

ArchiveStep ==
    \/ \E leaves \in LeafLists : commit_archive_root(leaves)
    \/ \E epoch \in 1..(MaxEpoch + 1), leaves \in LeafLists :
          prune_archived_entries(epoch, leaves)

\* No service: the steps of RouterSwaps.
Unattended ==
    /\ archived' = {}
    /\ UNCHANGED <<yieldProtocol, yieldPrincipal, held, archives>>

ServicesNext == YieldStep(Token) \/ ArchiveStep \/ (SwapsNext /\ Unattended)

ServicesSpec == ServicesInit /\ [][ServicesNext]_allVars

-----------------------------------------------------------------------------
(* Properties.                                                             *)

\* What the books say is somewhere: the refunds lie in the router's account,
\* except for what the TreasuryManager has taken out of it and what raw swaps
\* paid back beyond what they received (lib.rs:2922-2924), and the recorded
\* principal of the treasury is what the protocols owe together, the present
\* one and those it replaced (lib.rs:2049 and 2085).
BooksAreCovered ==
    /\ RefundsCovered
    /\ \A t \in Token :
          yieldPrincipal[t] = SumFunctionOnSet(held[t], Protocols)

\* A refund leaves the books in two ways: it is paid to the user, who signed,
\* by exactly as much; or the TreasuryManager deletes the whole entry as
\* archived, by its user and token, in a call that moves no tokens, after some
\* archive was committed and while the contract is not frozen.
RefundsLeaveByRule ==
    [][ \A t \in Token, a \in Addr :
          refund'[t][a] < refund[t][a] =>
             \/ /\ a \in consent'
                /\ balance'[t][a] - balance[t][a] = refund[t][a] - refund'[t][a]
                /\ balance[t][Router] - balance'[t][Router] = refund[t][a] - refund'[t][a]
             \/ /\ refund'[t][a] = 0 /\ balance' = balance
                /\ ~frozen /\ archives # <<>>
                /\ signer' = require_role("TreasuryManager")
                /\ \E l \in archived' : l.record_type = "RefundBalance"
                                        /\ l.primary_key = a /\ l.secondary_key = t
      ]_allVars

\* Under a full halt nobody's tokens move but the router's own: refunds and the
\* TreasuryManager's withdrawals go on.  While the contract is frozen the
\* TreasuryManager can still place and call back the treasury's funds; no
\* route, quote, relay or swap debits anybody.
HaltStopsMoney ==
    [][ \A t \in Token, a \in Addr :
          balance'[t][a] < balance[t][a] =>
             /\ ~is_paused
             /\ frozen => signer' = require_role("TreasuryManager")
                          /\ a \in {Treasury, yieldProtocol} ]_allVars
=============================================================================
