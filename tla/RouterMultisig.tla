--------------------------- MODULE RouterMultisig ---------------------------
(***************************************************************************)
(* The M-of-N group that gates contract upgrades (access.rs:239-436 and    *)
(* lib.rs:4015-4279), on top of the access layer it shares the admin key   *)
(* with.                                                                   *)
(*                                                                         *)
(* A signer Vec is a set here: validate_multisig_config rejects duplicates *)
(* and the stored group and the approval key use the sorted order, so a    *)
(* list carries no more than its members.  The SHA-256 of a configuration  *)
(* is the configuration itself.  The empty group stands for "not           *)
(* initialized", which no valid configuration can produce.                 *)
(***************************************************************************)
EXTENDS RouterAccess, FiniteSets

CONSTANTS
    Hash,           \* WASM hashes
    NoHash,         \* the artifact the contract was deployed with
    Groups,         \* the signer lists passed to set_ and approve_multisig_config
    Thresholds,     \* the thresholds passed with them
    MaxSignatures   \* bound on approve_upgrade calls per hash

ASSUME MultisigAssumption ==
    /\ IsFiniteSet(Addr)
    /\ NoHash \notin Hash
    /\ Groups \subseteq SUBSET Addr
    /\ Thresholds \subseteq Nat
    /\ MaxSignatures \in Nat

VARIABLES
    msSigners,      \* DataKey::MultisigSigners
    msThreshold,    \* ExtraKey::MultisigThreshold
    cfgApprovals,   \* DataKey::MultisigConfigApproval, as <<config, signer>>
    upApprovals,    \* ExtraKey::UpgradeApproval(hash), the addresses stored
    wasm,           \* the hash the contract runs
    signatures,     \* history: approve_upgrade calls that succeeded, per hash
    spent           \* history: signatures the installations of a hash needed

groupVars == <<msSigners, msThreshold, cfgApprovals>>
upgradeVars == <<upApprovals, wasm, signatures, spent>>
multisigVars == <<groupVars, upgradeVars>>
msVars == <<accessVars, multisigVars>>

-----------------------------------------------------------------------------
(* Helpers of access.rs                                                    *)

Config(signers, threshold) == [signers |-> signers, threshold |-> threshold]

validate_multisig_config(c) ==
    LET n == Cardinality(c.signers)
    IN /\ c.signers # {}
       /\ c.threshold >= (IF n >= 2 THEN 2 ELSE 1)
       /\ c.threshold <= n

\* Mutant: approvals of members that have left still count.
config_approvers_ever(group, approvals, c) == {a \in Addr : <<c, a>> \in approvals}

\* The members of `group` that have approved moving to configuration `c`.
config_approvers(group, approvals, c) == {a \in group : <<c, a>> \in approvals}

\* What store_multisig_config demands: anything valid for the first group,
\* the current group's threshold for every later one.
store_authorized(group, threshold, approvals, c) ==
    /\ validate_multisig_config(c)
    /\ group # {} =>
         Cardinality(config_approvers(group, approvals, c)) >= threshold

\* The approvals that survive a move to `c`; the first group has none to clear.
store_approvals(group, approvals, c) ==
    IF group = {} THEN approvals ELSE {p \in approvals : p[1] # c}

\* Mutant: the stored approvals are counted as they are.
load_all_approvals(group, approved) == approved

\* Approvals count while their signer is a member of the current group.
load_effective_approvals(group, approved) == approved \cap group

require_upgrade_authorized(group, threshold, approved) ==
    /\ group # {}
    /\ Cardinality(load_effective_approvals(group, approved)) >= threshold

-----------------------------------------------------------------------------

MultisigInit ==
    /\ msSigners = {}
    /\ msThreshold = 0
    /\ cfgApprovals = {}
    /\ upApprovals = [h \in Hash |-> {}]
    /\ wasm = NoHash
    /\ signatures = [h \in Hash |-> 0]
    /\ spent = [h \in Hash |-> 0]

approve_multisig_config(c, member) ==
    /\ validate_multisig_config(c)
    /\ member \in msSigners
    /\ SignedBy(member)
    /\ <<c, member>> \notin cfgApprovals
    /\ cfgApprovals' = cfgApprovals \cup {<<c, member>>}
    /\ UNCHANGED <<roleVars, switchVars, dmsVars, now, msSigners, msThreshold,
                   upgradeVars>>

set_multisig_config(c) ==
    /\ SignedBy(admin)
    /\ store_authorized(msSigners, msThreshold, cfgApprovals, c)
    /\ cfgApprovals' = store_approvals(msSigners, cfgApprovals, c)
    /\ msSigners' = c.signers
    /\ msThreshold' = c.threshold
    /\ UNCHANGED <<roleVars, switchVars, dmsVars, now, upgradeVars>>

approve_upgrade(member, h) ==
    /\ member \in msSigners
    /\ SignedBy(member)
    /\ member \notin upApprovals[h]
    /\ signatures[h] < MaxSignatures
    /\ upApprovals' = [upApprovals EXCEPT ![h] = @ \cup {member}]
    /\ signatures' = [signatures EXCEPT ![h] = @ + 1]
    /\ UNCHANGED <<roleVars, switchVars, dmsVars, now, groupVars, wasm, spent>>

\* Idempotent: withdrawing an approval that is not there is a no-op.
revoke_upgrade_approval(member, h) ==
    /\ member \in msSigners
    /\ SignedBy(member)
    /\ upApprovals' = [upApprovals EXCEPT ![h] = @ \ {member}]
    /\ UNCHANGED <<roleVars, switchVars, dmsVars, now, groupVars, wasm,
                   signatures, spent>>

cancel_upgrade(h) ==
    /\ SignedBy(admin)
    /\ upApprovals' = [upApprovals EXCEPT ![h] = {}]
    /\ UNCHANGED <<roleVars, switchVars, dmsVars, now, groupVars, wasm,
                   signatures, spent>>

\* Mutant: the approvals outlive the installation.
apply_upgrade_keeps(approvals, h) == approvals

\* Installing a hash drops every approval recorded for it.
apply_upgrade(approvals, h) == [approvals EXCEPT ![h] = {}]

\* Anyone may submit it: the collected approvals are the authorization.
upgrade(h) ==
    /\ require_upgrade_authorized(msSigners, msThreshold, upApprovals[h])
    /\ wasm' = h
    /\ upApprovals' = apply_upgrade(upApprovals, h)
    /\ spent' = [spent EXCEPT ![h] = @ + msThreshold]
    /\ signer' = NoAddr
    /\ UNCHANGED <<roleVars, switchVars, dmsVars, now, groupVars, signatures>>

-----------------------------------------------------------------------------

Configs == {Config(s, t) : s \in Groups, t \in Thresholds}

GroupStep ==
    \/ \E c \in Configs, a \in Addr : approve_multisig_config(c, a)
    \/ \E c \in Configs : set_multisig_config(c)

UpgradeStep ==
    \/ \E a \in Addr, h \in Hash : approve_upgrade(a, h)
    \/ \E a \in Addr, h \in Hash : revoke_upgrade_approval(a, h)
    \/ \E h \in Hash : cancel_upgrade(h)
    \/ \E h \in Hash : upgrade(h)

MultisigNext ==
    \/ AccessNext /\ UNCHANGED multisigVars
    \/ GroupStep
    \/ UpgradeStep

MultisigSpec == AccessInit /\ MultisigInit /\ [][MultisigNext]_msVars

-----------------------------------------------------------------------------
(* Properties.                                                             *)

\* The stored group, approvals and installed hash have their Rust types.
MultisigTypeOK ==
    /\ msSigners \subseteq Addr
    /\ msThreshold \in Nat
    /\ cfgApprovals \subseteq [signers : SUBSET Addr, threshold : Nat] \X Addr
    /\ upApprovals \in [Hash -> SUBSET Addr]
    /\ wasm \in Hash \cup {NoHash}
    /\ signatures \in [Hash -> Nat]
    /\ spent \in [Hash -> Nat]

\* A configured group can always act and, when it has two or more members,
\* never lets one of them act alone, however it was rotated.
GroupWellFormed ==
    msSigners # {} =>
        /\ msThreshold \in 1..Cardinality(msSigners)
        /\ Cardinality(msSigners) >= 2 => msThreshold >= 2

\* "the approvals are consumed so they cannot be replayed" (README, Multisig
\* Contract Upgrades; lib.rs:4245): every installation of a hash was paid for
\* with as many approve_upgrade calls as the threshold asked for, and no call
\* paid for two of them or for one that is still pending.
InstallsArePaidFor ==
    \A h \in Hash : spent[h] + Cardinality(upApprovals[h]) <= signatures[h]

\* A step that installs a hash finds the threshold met by members of the
\* group of that moment, at least two of them when the group has two or more.
QuorumStep ==
    \A h \in Hash : spent'[h] # spent[h] =>
        LET approvers == upApprovals[h] \cap msSigners
        IN /\ Cardinality(approvers) >= msThreshold
           /\ Cardinality(msSigners) >= 2 => Cardinality(approvers) >= 2

\* A step that replaces an existing group was approved by that group's
\* threshold, for exactly the group and the threshold that are stored.
RotationStep ==
    (msSigners # {} /\ <<msSigners, msThreshold>>' # <<msSigners, msThreshold>>)
    => Cardinality({a \in msSigners :
                       <<Config(msSigners', msThreshold'), a>> \in cfgApprovals})
         >= msThreshold

\* "no single key, not even the admin, can upgrade it on its own" (README), nor
\* replace the group that can: approvals of members that were rotated out count
\* for neither (approve_upgrade, set_multisig_config, the two queued actions).
QuorumDecides == [][QuorumStep /\ RotationStep]_msVars
=============================================================================
