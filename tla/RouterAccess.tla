---------------------------- MODULE RouterAccess ----------------------------
(***************************************************************************)
(* Who may do what in the payment router (payment_router/src): the root    *)
(* admin, the role registry, the freeze and the tiered pause switch, and   *)
(* the dead man's switch with its heartbeat operator.                      *)
(*                                                                         *)
(* A contract invocation is atomic: a call that returns an error or panics *)
(* leaves the ledger as it was, so each entry point is one action that is  *)
(* enabled exactly when the call succeeds.  addr.require_auth() is         *)
(* modelled by the history variable signer: the address whose signature    *)
(* the step needed, NoAddr when it needed none.                            *)
(***************************************************************************)
EXTENDS Naturals

CONSTANTS
    Addr,           \* the addresses that may sign or be appointed
    NoAddr,         \* an absent Option<Address>
    NoTime,         \* an absent u64 timestamp or timeout
    Role,           \* the roles of the instance, out of RoleNames
    Timeouts,       \* the timeout arguments of set_backup_admin_internal
    PauseArgs,      \* the level arguments of set_pause_level
    MinDmsTimeout,  \* MIN_DMS_TIMEOUT, in units of the model's clock
    MaxTime         \* bound on the ledger clock

RoleNames == {"SuperAdmin", "TreasuryManager", "ComplianceOfficer",
              "FeeManager", "Pauser", "SecurityOfficer", "UpgradeManager"}

PauseLevels == {"None", "SwapsOnly", "FullHalt"}

ASSUME AccessAssumption ==
    /\ NoAddr \notin Addr
    /\ NoTime \notin Nat
    /\ Role \subseteq RoleNames
    /\ {"SuperAdmin", "Pauser"} \subseteq Role
    /\ Timeouts \subseteq Nat
    /\ PauseArgs \subseteq PauseLevels
    /\ MinDmsTimeout \in Nat \ {0}
    /\ MaxTime \in Nat

VARIABLES
    admin,          \* DataKey::Admin
    role,           \* DataKey::Role(r), the designated holder
    userRole,       \* the pairs whose DataKey::UserRole flag is true
    pauseLevel,     \* DataKey::PauseLevel (absent reads as "None")
    frozen,         \* DataKey::Frozen
    backup,         \* DataKey::BackupAdmin
    dmsTimeout,     \* DataKey::DmsTimeout
    lastHeartbeat,  \* DataKey::LastHeartbeat
    hbOperator,     \* DataKey::HeartbeatOperator
    now,            \* env.ledger().timestamp()
    signer,         \* history: the signature the last step required
    lastAlive       \* history: when the switch last saw a sign of life

roleVars == <<admin, role, userRole>>
switchVars == <<pauseLevel, frozen>>
dmsVars == <<backup, dmsTimeout, lastHeartbeat, hbOperator, lastAlive>>
accessVars == <<admin, role, userRole, pauseLevel, frozen, backup,
                dmsTimeout, lastHeartbeat, hbOperator, now, signer, lastAlive>>

-----------------------------------------------------------------------------
(* Helpers of access.rs                                                    *)

\* The registry and the flags after `account` is made the holder of `r`.
set_role_internal(reg, r, account) == [reg EXCEPT ![r] = account]

\* Mutant: the flag of the holder that is replaced stays set.
set_role_flags_keeps_old(flags, reg, r, account) == flags \cup {<<account, r>>}

set_role_flags(flags, reg, r, account) ==
    (flags \ {<<reg[r], r>>}) \cup {<<account, r>>}

\* The registry and the flags after `r` is taken from `account`.
remove_role_internal(reg, r, account) ==
    IF reg[r] = account THEN [reg EXCEPT ![r] = NoAddr] ELSE reg

remove_role_flags(flags, r, account) == flags \ {<<account, r>>}

\* The address whose signature require_role(r) demands.
require_role(r) == IF role[r] # NoAddr THEN role[r] ELSE admin

has_role_internal(account, r) ==
    \/ <<account, r>> \in userRole
    \/ role[r] = account
    \/ role[r] = NoAddr /\ admin = account

\* The call needs the signature of `a`, and there is such an address.
SignedBy(a) == a # NoAddr /\ signer' = a

is_paused == pauseLevel = "FullHalt"

require_circuit_closed == ~is_paused

-----------------------------------------------------------------------------
(* Initial state: deployed, not initialized.                               *)

AccessInit ==
    /\ admin = NoAddr
    /\ role = [r \in Role |-> NoAddr]
    /\ userRole = {}
    /\ pauseLevel = "None"
    /\ frozen = FALSE
    /\ backup = NoAddr
    /\ dmsTimeout = NoTime
    /\ lastHeartbeat = NoTime
    /\ hbOperator = NoAddr
    /\ now = 0
    /\ signer = NoAddr
    /\ lastAlive = 0

-----------------------------------------------------------------------------
(* Setup, the role registry and the admin key.                             *)

\* The roles initialize() hands to the first admin: all but the security
\* officer and the upgrade manager.
InitialRoles == Role \ {"SecurityOfficer", "UpgradeManager"}

initialize(a) ==
    /\ admin = NoAddr
    /\ SignedBy(a)
    /\ admin' = a
    /\ role' = [r \in Role |-> IF r \in InitialRoles THEN a ELSE role[r]]
    /\ userRole' = {p \in userRole : p[2] \notin InitialRoles}
                       \cup {<<a, r>> : r \in InitialRoles}
    /\ pauseLevel' = pauseLevel
    /\ frozen' = FALSE
    /\ UNCHANGED <<dmsVars, now>>

grant_role(caller, grantee, r) ==
    /\ has_role_internal(caller, "SuperAdmin")
    /\ SignedBy(caller)
    /\ role' = set_role_internal(role, r, grantee)
    /\ userRole' = set_role_flags(userRole, role, r, grantee)
    /\ UNCHANGED <<admin, switchVars, dmsVars, now>>

\* Mutant: a SuperAdmin may revoke its own role.
revoke_role_of_self(caller, grantee, r) ==
    /\ has_role_internal(caller, "SuperAdmin")
    /\ SignedBy(caller)
    /\ role' = remove_role_internal(role, r, grantee)
    /\ userRole' = remove_role_flags(userRole, r, grantee)
    /\ UNCHANGED <<admin, switchVars, dmsVars, now>>

revoke_role(caller, grantee, r) ==
    /\ has_role_internal(caller, "SuperAdmin")
    /\ SignedBy(caller)
    /\ ~(r = "SuperAdmin" /\ caller = grantee)
    /\ role' = remove_role_internal(role, r, grantee)
    /\ userRole' = remove_role_flags(userRole, r, grantee)
    /\ UNCHANGED <<admin, switchVars, dmsVars, now>>

assign_role(account, r) ==
    /\ SignedBy(require_role("SuperAdmin"))
    /\ role' = set_role_internal(role, r, account)
    /\ userRole' = set_role_flags(userRole, role, r, account)
    /\ UNCHANGED <<admin, switchVars, dmsVars, now>>

\* Needs no signature while the contract has no admin.
set_admin(newAdmin) ==
    /\ \/ admin = NoAddr /\ signer' = NoAddr
       \/ admin # NoAddr /\ SignedBy(require_role("SuperAdmin"))
    /\ admin' = newAdmin
    /\ role' = set_role_internal(role, "SuperAdmin", newAdmin)
    /\ userRole' = set_role_flags(userRole, role, "SuperAdmin", newAdmin)
    /\ UNCHANGED <<switchVars, dmsVars, now>>

transfer_admin(newAdmin) ==
    LET current == require_role("SuperAdmin")
        reg == remove_role_internal(role, "SuperAdmin", current)
        flags == remove_role_flags(userRole, "SuperAdmin", current)
    IN /\ SignedBy(current)
       /\ admin' = newAdmin
       /\ role' = set_role_internal(reg, "SuperAdmin", newAdmin)
       /\ userRole' = set_role_flags(flags, reg, "SuperAdmin", newAdmin)
       /\ UNCHANGED <<switchVars, dmsVars, now>>

\* A queued TransferAdmin that the admin executes (RouterTimelock).
execute_transfer_admin(newAdmin) ==
    /\ SignedBy(admin)
    /\ admin' = newAdmin
    /\ role' = set_role_internal(role, "SuperAdmin", newAdmin)
    /\ userRole' = set_role_flags(userRole, role, "SuperAdmin", newAdmin)
    /\ UNCHANGED <<switchVars, dmsVars, now>>

-----------------------------------------------------------------------------
(* Freeze and pause.                                                       *)

emergency_freeze ==
    /\ SignedBy(require_role("SuperAdmin"))
    /\ frozen' = TRUE
    /\ UNCHANGED <<roleVars, pauseLevel, dmsVars, now>>

unfreeze ==
    /\ SignedBy(require_role("SuperAdmin"))
    /\ frozen' = FALSE
    /\ UNCHANGED <<roleVars, pauseLevel, dmsVars, now>>

set_pause_level(level) ==
    /\ SignedBy(require_role("Pauser"))
    /\ pauseLevel' = level
    /\ UNCHANGED <<roleVars, frozen, dmsVars, now>>

\* The boolean switch is the two outer levels.
set_pause(paused) == set_pause_level(IF paused THEN "FullHalt" ELSE "None")

-----------------------------------------------------------------------------
(* The dead man's switch.                                                  *)

\* Mutant: the timeout has no minimum.
backup_args_any_timeout(currentAdmin, b, timeout) == b # currentAdmin

\* What apply_set_backup_admin accepts and writes; shared by the direct entry
\* point and the timelocked action.
backup_args_valid(currentAdmin, b, timeout) ==
    timeout >= MinDmsTimeout /\ b # currentAdmin

apply_set_backup_admin(b, timeout) ==
    /\ backup_args_valid(admin, b, timeout)
    /\ backup' = b
    /\ dmsTimeout' = timeout
    /\ lastHeartbeat' = now
    /\ lastAlive' = now

set_backup_admin_internal(b, timeout) ==
    /\ SignedBy(admin)
    /\ apply_set_backup_admin(b, timeout)
    /\ UNCHANGED <<roleVars, switchVars, hbOperator, now>>

\* Leaves the timeout behind.
remove_backup_admin ==
    /\ SignedBy(admin)
    /\ backup' = NoAddr
    /\ lastHeartbeat' = NoTime
    /\ UNCHANGED <<roleVars, switchVars, dmsTimeout, hbOperator, lastAlive, now>>

bump_heartbeat ==
    /\ lastHeartbeat' = IF backup # NoAddr THEN now ELSE lastHeartbeat
    /\ lastAlive' = now

ping ==
    /\ SignedBy(admin)
    /\ bump_heartbeat
    /\ UNCHANGED <<roleVars, switchVars, backup, dmsTimeout, hbOperator, now>>

\* A routing call (route_payment, route_payments, route_payment_with_quote,
\* route_multihop_swap) on behalf of any sender.  An empty batch of payments
\* needs no signature and counts as well.
payment_heartbeat(sender) ==
    /\ admin # NoAddr
    /\ ~frozen
    /\ ~is_paused
    /\ signer' = sender
    /\ bump_heartbeat
    /\ UNCHANGED <<roleVars, switchVars, backup, dmsTimeout, hbOperator, now>>

\* What claim_admin checks of the switch, absent keys being errors.
claim_ready(claimant) ==
    /\ backup # NoAddr
    /\ claimant = backup
    /\ dmsTimeout # NoTime
    /\ lastHeartbeat # NoTime
    /\ now >= lastHeartbeat + dmsTimeout

\* Mutant: the claimed switch keeps its backup.
claim_admin_keeps_backup(claimant) ==
    /\ claim_ready(claimant)
    /\ SignedBy(claimant)
    /\ admin' = claimant
    /\ lastHeartbeat' = NoTime
    /\ dmsTimeout' = NoTime
    /\ UNCHANGED <<role, userRole, switchVars, backup, hbOperator, lastAlive, now>>

\* Moves the admin key and disarms the switch; the role registry stays.
claim_admin(claimant) ==
    /\ claim_ready(claimant)
    /\ SignedBy(claimant)
    /\ admin' = claimant
    /\ backup' = NoAddr
    /\ lastHeartbeat' = NoTime
    /\ dmsTimeout' = NoTime
    /\ UNCHANGED <<role, userRole, switchVars, hbOperator, lastAlive, now>>

\* The view clients poll, absent keys reading as 0.
is_dead_mans_switch_expired ==
    LET OrZero(t) == IF t = NoTime THEN 0 ELSE t
        last == OrZero(lastHeartbeat)
        elapsed == IF now >= last THEN now - last ELSE 0
    IN backup # NoAddr /\ elapsed >= OrZero(dmsTimeout)

set_heartbeat_operator(operator) ==
    /\ SignedBy(admin)
    /\ hbOperator' = operator
    /\ UNCHANGED <<roleVars, switchVars, backup, dmsTimeout, lastHeartbeat,
                   lastAlive, now>>

remove_heartbeat_operator ==
    /\ SignedBy(admin)
    /\ hbOperator' = NoAddr
    /\ UNCHANGED <<roleVars, switchVars, backup, dmsTimeout, lastHeartbeat,
                   lastAlive, now>>

renew_heartbeat(operator) ==
    /\ hbOperator # NoAddr
    /\ operator = hbOperator
    /\ SignedBy(operator)
    /\ lastHeartbeat # NoTime
    /\ lastHeartbeat' = now
    /\ lastAlive' = now
    /\ UNCHANGED <<roleVars, switchVars, backup, dmsTimeout, hbOperator, now>>

\* Every entry point that writes none of the keys above, with the signature
\* it demands if it demands one.
other_call(a) ==
    /\ signer' = a
    /\ UNCHANGED <<roleVars, switchVars, dmsVars, now>>

\* The ledger closes and its clock moves on.
Tick ==
    /\ now < MaxTime
    /\ now' = now + 1
    /\ signer' = NoAddr
    /\ UNCHANGED <<roleVars, switchVars, dmsVars>>

-----------------------------------------------------------------------------

InitStep == \E a \in Addr : initialize(a)

RoleStep ==
    \/ \E caller, grantee \in Addr, r \in Role : grant_role(caller, grantee, r)
    \/ \E caller, grantee \in Addr, r \in Role : revoke_role(caller, grantee, r)
    \/ \E account \in Addr, r \in Role : assign_role(account, r)
    \/ \E a \in Addr : set_admin(a)
    \/ \E a \in Addr : transfer_admin(a)

QueuedStep == \E a \in Addr : execute_transfer_admin(a)

SwitchStep ==
    \/ emergency_freeze
    \/ unfreeze
    \/ \E level \in PauseArgs : set_pause_level(level)
    \/ \E paused \in BOOLEAN : set_pause(paused)

DmsStep ==
    \/ \E b \in Addr, t \in Timeouts : set_backup_admin_internal(b, t)
    \/ remove_backup_admin
    \/ ping
    \/ \E sender \in Addr \cup {NoAddr} : payment_heartbeat(sender)
    \/ \E a \in Addr : claim_admin(a)
    \/ \E a \in Addr : set_heartbeat_operator(a)
    \/ remove_heartbeat_operator
    \/ \E a \in Addr : renew_heartbeat(a)

OtherStep == \E a \in Addr \cup {NoAddr} : other_call(a)

AccessNext ==
    \/ InitStep
    \/ RoleStep
    \/ QueuedStep
    \/ SwitchStep
    \/ DmsStep
    \/ OtherStep
    \/ Tick

AccessSpec == AccessInit /\ [][AccessNext]_accessVars

-----------------------------------------------------------------------------
(* Properties.                                                             *)

\* Every stored key of access.rs and dead_mans_switch.rs holds a value of its
\* Rust type, and no timestamp lies in the future of the ledger clock.
AccessTypeOK ==
    /\ admin \in Addr \cup {NoAddr}
    /\ role \in [Role -> Addr \cup {NoAddr}]
    /\ userRole \subseteq Addr \X Role
    /\ pauseLevel \in PauseLevels
    /\ frozen \in BOOLEAN
    /\ backup \in Addr \cup {NoAddr}
    /\ dmsTimeout \in Nat \cup {NoTime}
    /\ lastHeartbeat \in (0..now) \cup {NoTime}
    /\ hbOperator \in Addr \cup {NoAddr}
    /\ now \in 0..MaxTime
    /\ signer \in Addr \cup {NoAddr}
    /\ lastAlive \in 0..now

\* The UserRole flags and the designated holders agree: a flag that is set
\* belongs to the address in the registry (set_role_internal clears the flag
\* of the holder it replaces, access.rs:18).
FlagsMatchRegistry ==
    \A r \in Role, a \in Addr : <<a, r>> \in userRole <=> role[r] = a

\* No role ever has two addresses that can exercise it: whatever the order of
\* grants, revocations, transfers and claims, has_role_internal answers TRUE
\* for at most one address per role.
RoleHasOneHolder ==
    \A r \in Role, a, b \in Addr :
        has_role_internal(a, r) /\ has_role_internal(b, r) => a = b

\* Once the contract has an admin, somebody is the designated SuperAdmin: no
\* sequence of revocations leaves freeze, unfreeze and role administration
\* to the fallback.
SuperAdminSeated == admin # NoAddr => role["SuperAdmin"] # NoAddr

\* A backup is only ever appointed by an admin.
AdminIfArmed == backup # NoAddr => admin # NoAddr

\* The keys of the dead man's switch are set and cleared together: an armed
\* switch has a clock and an admissible timeout, a disarmed one has no clock.
SwitchArmedWhole ==
    /\ backup # NoAddr <=> lastHeartbeat # NoTime
    /\ backup # NoAddr => dmsTimeout # NoTime
    /\ dmsTimeout # NoTime => dmsTimeout >= MinDmsTimeout

\* is_dead_mans_switch_expired, with its unwrap_or(0) defaults, says TRUE
\* exactly when claim_admin would succeed for the backup (lib.rs:2514-2516).
ExpiryViewAgrees == is_dead_mans_switch_expired <=> claim_ready(backup)

\* The armed clock never runs ahead of the last sign of life: every ping,
\* renewal, routed payment or re-arming pushes the claim back.
ClockCountsFromLife == backup # NoAddr => lastHeartbeat = lastAlive

\* The inductive invariant behind the theorems of RouterTimelockProofs.
AccessInv ==
    /\ AccessTypeOK
    /\ FlagsMatchRegistry
    /\ SuperAdminSeated
    /\ AdminIfArmed
    /\ SwitchArmedWhole
    /\ ClockCountsFromLife

\* A step that moves the admin key without the signature of its owner or of
\* the SuperAdmin moves it to the appointed backup, MIN_DMS_TIMEOUT or more
\* after the last sign of life.
TakeoverStep ==
    (admin # NoAddr /\ admin' # admin
       /\ signer' \notin {admin, role["SuperAdmin"]})
    => /\ admin' = backup
       /\ now >= lastAlive + MinDmsTimeout

\* The admin key leaves its owner without the owner's or the SuperAdmin's
\* signature only after MIN_DMS_TIMEOUT without any sign of life, and only to
\* the backup that owner appointed (claim_admin, lib.rs:2425).
TakeoverNeedsSilence == [][TakeoverStep]_accessVars

\* "Dead man's switch claim: transfers admin rights to `claimant`"
\* (lib.rs:2409): a step that moves the admin key makes its new owner the
\* SuperAdmin, as set_admin and transfer_admin do.
ClaimTransfersAdminRights ==
    [][ admin' # admin => role'["SuperAdmin"] = admin' ]_accessVars
=============================================================================
