--------------------------- MODULE RouterTimelock ---------------------------
(***************************************************************************)
(* The 24-hour timelock (timelock.rs, lib.rs:869-1071) over the storage    *)
(* its queued actions write: the admin key and the dead man's switch of    *)
(* RouterAccess, the upgrade group of RouterMultisig and the router's      *)
(* parameters, which the direct setters write as well.                     *)
(*                                                                         *)
(* Storage gathers what a queued action may write into one record, so that *)
(* applying an action is a function from storage to storage; the batch of  *)
(* RouterBatch composes it.                                                *)
(***************************************************************************)
EXTENDS RouterMultisig, Integers

CONSTANTS
    Delay,          \* SECONDS_IN_24H, in units of the model's clock
    Queueable,      \* the actions the admin may queue
    Amounts,        \* integer arguments of the direct setters
    MaxSlippage,    \* MAX_SLIPPAGE_BPS_LIMIT
    MaxPairSlippage,\* MAX_PAIR_SLIPPAGE_BPS
    NoValue,        \* an absent i128
    MaxNonce        \* bound on the number of queued actions

\* types.rs, ActionType.
AddrActions == {"SetPlatformTreasury", "SetGovernance", "TransferAdmin",
                "RegisterDex", "DeregisterDex"}
ValueActions == {"SetFeeBps", "SetMinLimit", "SetMaxSlippageBps",
                 "SetPairMaxSlippageBps"}

ActionType ==
    [type : AddrActions, addr : Addr]
      \cup [type : ValueActions, value : Int]
      \cup [type : {"SetFeeConfig"}, value : Int, cap : Int]
      \cup [type : {"SetBackupAdmin"}, addr : Addr, timeout : Nat]
      \cup [type : {"Upgrade"}, hash : Hash]
      \cup [type : {"SetMultisigConfig"},
            config : [signers : SUBSET Addr, threshold : Nat]]

ASSUME TimelockAssumption ==
    /\ {"FeeManager", "TreasuryManager"} \subseteq Role
    /\ Delay \in Nat
    /\ Queueable \subseteq ActionType
    /\ \A a \in Queueable : a.type = "SetBackupAdmin" => a.timeout \in Timeouts
    /\ Amounts \subseteq Int
    /\ MaxSlippage \in Nat
    /\ MaxPairSlippage \in 0..MaxSlippage
    /\ NoValue \notin Int
    /\ MaxNonce \in Nat

VARIABLES
    nonce,          \* DataKey::TimelockNonce
    queue,          \* DataKey::TimelockEntry(n), for the n that have one
    params,         \* the router's parameters, see ParamsType
    settled         \* history: the nonces that were executed or cancelled

timelockVars == <<nonce, queue, settled>>
vars == <<msVars, timelockVars, params>>

\* PlatformTreasury, FeeBps, FeeCap, Governance, MinLimit, MaxSlippageBps,
\* PairSlippage of one pair, and the addresses with RegisteredDex.
ParamsType ==
    [treasury : Addr \cup {NoAddr}, feeBps : Int \cup {NoValue},
     feeCap : Int \cup {NoValue}, governance : Addr \cup {NoAddr},
     minLimit : Int, maxSlippage : Int \cup {NoValue},
     pairSlippage : Int \cup {NoValue}, dexes : SUBSET Addr]

-----------------------------------------------------------------------------
(* Applying an action.                                                     *)

Storage ==
    [admin |-> admin, role |-> role, userRole |-> userRole,
     backup |-> backup, dmsTimeout |-> dmsTimeout,
     lastHeartbeat |-> lastHeartbeat, lastAlive |-> lastAlive,
     msSigners |-> msSigners, msThreshold |-> msThreshold,
     cfgApprovals |-> cfgApprovals, upApprovals |-> upApprovals,
     wasm |-> wasm, spent |-> spent, params |-> params]

\* The ledger after the invocation holds storage `s`.
Commit(s) ==
    /\ admin' = s.admin
    /\ role' = s.role
    /\ userRole' = s.userRole
    /\ backup' = s.backup
    /\ dmsTimeout' = s.dmsTimeout
    /\ lastHeartbeat' = s.lastHeartbeat
    /\ lastAlive' = s.lastAlive
    /\ msSigners' = s.msSigners
    /\ msThreshold' = s.msThreshold
    /\ cfgApprovals' = s.cfgApprovals
    /\ upApprovals' = s.upApprovals
    /\ wasm' = s.wasm
    /\ spent' = s.spent
    /\ params' = s.params

\* Mutant: a queued upgrade is not held to the threshold.
validate_without_quorum(s, a) ==
    CASE a.type = "SetMultisigConfig" -> validate_multisig_config(a.config)
      [] a.type = "SetPairMaxSlippageBps" -> a.value \in 0..MaxPairSlippage
      [] OTHER -> TRUE

\* validate_queued_action: what is checked before the entry is removed.
validate_queued_action(s, a) ==
    CASE a.type = "Upgrade" ->
           require_upgrade_authorized(s.msSigners, s.msThreshold,
                                      s.upApprovals[a.hash])
      [] a.type = "SetMultisigConfig" -> validate_multisig_config(a.config)
      [] a.type = "SetPairMaxSlippageBps" -> a.value \in 0..MaxPairSlippage
      [] OTHER -> TRUE

\* Mutant: a queued rotation skips the approvals of the current group.
apply_rotates_freely(s, a) ==
    a.type = "SetBackupAdmin" => backup_args_valid(s.admin, a.addr, a.timeout)

\* Mutant: a queued backup is stored as it was queued.
apply_any_backup(s, a) ==
    a.type = "SetMultisigConfig" =>
        store_authorized(s.msSigners, s.msThreshold, s.cfgApprovals, a.config)

\* The errors apply_action itself can return.
apply_succeeds(s, a) ==
    CASE a.type = "SetBackupAdmin" -> backup_args_valid(s.admin, a.addr, a.timeout)
      [] a.type = "SetMultisigConfig" ->
           store_authorized(s.msSigners, s.msThreshold, s.cfgApprovals, a.config)
      [] OTHER -> TRUE

apply_param(p, a) ==
    CASE a.type = "SetPlatformTreasury" -> [p EXCEPT !.treasury = a.addr]
      [] a.type = "SetFeeConfig" -> [p EXCEPT !.feeBps = a.value, !.feeCap = a.cap]
      [] a.type = "SetFeeBps" -> [p EXCEPT !.feeBps = a.value]
      [] a.type = "SetGovernance" -> [p EXCEPT !.governance = a.addr]
      [] a.type = "SetMinLimit" -> [p EXCEPT !.minLimit = a.value]
      [] a.type = "SetMaxSlippageBps" -> [p EXCEPT !.maxSlippage = a.value]
      [] a.type = "SetPairMaxSlippageBps" -> [p EXCEPT !.pairSlippage = a.value]
      [] a.type = "RegisterDex" -> [p EXCEPT !.dexes = @ \cup {a.addr}]
      [] a.type = "DeregisterDex" -> [p EXCEPT !.dexes = @ \ {a.addr}]

apply_action(s, a) ==
    CASE a.type = "TransferAdmin" ->
           [s EXCEPT !.admin = a.addr,
                     !.role = set_role_internal(s.role, "SuperAdmin", a.addr),
                     !.userRole = set_role_flags(s.userRole, s.role,
                                                 "SuperAdmin", a.addr)]
      [] a.type = "SetBackupAdmin" ->
           [s EXCEPT !.backup = a.addr, !.dmsTimeout = a.timeout,
                     !.lastHeartbeat = now, !.lastAlive = now]
      [] a.type = "Upgrade" ->
           [s EXCEPT !.wasm = a.hash,
                     !.upApprovals = apply_upgrade(s.upApprovals, a.hash),
                     !.spent = [s.spent EXCEPT ![a.hash] = @ + s.msThreshold]]
      [] a.type = "SetMultisigConfig" ->
           [s EXCEPT !.msSigners = a.config.signers,
                     !.msThreshold = a.config.threshold,
                     !.cfgApprovals = store_approvals(s.msSigners,
                                                      s.cfgApprovals, a.config)]
      [] OTHER -> [s EXCEPT !.params = apply_param(s.params, a)]

-----------------------------------------------------------------------------
(* Queue, execute, cancel.                                                 *)

TimelockInit ==
    /\ nonce = 0
    /\ queue = [n \in {} |-> NoValue]
    /\ settled = {}
    /\ params = [treasury |-> NoAddr, feeBps |-> NoValue, feeCap |-> NoValue,
                 governance |-> NoAddr, minLimit |-> 0, maxSlippage |-> NoValue,
                 pairSlippage |-> NoValue, dexes |-> {}]

\* Mutant: the entries stay in the queue.
WithoutNothing(ns) == queue

\* The queue without the entries of the nonces in `ns`.
WithoutEntries(ns) == [n \in DOMAIN queue \ ns |-> queue[n]]

\* Checked by queue_action and execute_action alike.
TimelockOpen == ~frozen /\ require_circuit_closed

queue_action(a) ==
    /\ TimelockOpen
    /\ SignedBy(admin)
    /\ nonce < MaxNonce
    /\ nonce' = nonce + 1
    /\ queue' = [n \in DOMAIN queue \cup {nonce + 1} |->
                    IF n = nonce + 1 THEN [queuedAt |-> now, action |-> a]
                                     ELSE queue[n]]
    /\ UNCHANGED <<roleVars, switchVars, dmsVars, now, multisigVars, params,
                   settled>>

\* Mutant: only the delay is checked.
ReadyByTime(n) == now >= queue[n].queuedAt + Delay

\* An entry whose delay has passed and whose action passes validation.
Ready(n) ==
    /\ now >= queue[n].queuedAt + Delay
    /\ validate_queued_action(Storage, queue[n].action)

execute_action(n) ==
    /\ TimelockOpen
    /\ SignedBy(admin)
    /\ n \in DOMAIN queue
    /\ Ready(n)
    /\ apply_succeeds(Storage, queue[n].action)
    /\ queue' = WithoutEntries({n})
    /\ settled' = settled \cup {n}
    /\ Commit(apply_action(Storage, queue[n].action))
    /\ UNCHANGED <<switchVars, hbOperator, now, signatures, nonce>>

\* Allowed while frozen: it is the defence against a hostile entry.
cancel_action(n) ==
    /\ SignedBy(admin)
    /\ n \in DOMAIN queue
    /\ queue' = WithoutEntries({n})
    /\ settled' = settled \cup {n}
    /\ UNCHANGED <<roleVars, switchVars, dmsVars, now, multisigVars, params,
                   nonce>>

-----------------------------------------------------------------------------
(* The direct setters, kept for tooling, are not timelocked.               *)

\* The signature require_fee_authority demands: the governance contract once
\* one is set, the fee manager before that.
fee_authority ==
    IF params.governance # NoAddr THEN params.governance
                               ELSE require_role("FeeManager")

\* A direct setter with required signature `who` that writes as action `a`.
Setter(who, a) ==
    /\ SignedBy(who)
    /\ params' = apply_param(params, a)
    /\ UNCHANGED <<roleVars, switchVars, dmsVars, now, multisigVars,
                   timelockVars>>

set_platform_treasury(a) ==
    /\ require_circuit_closed
    /\ Setter(require_role("TreasuryManager"),
              [type |-> "SetPlatformTreasury", addr |-> a])

set_fee_config(bps, cap) ==
    /\ require_circuit_closed
    /\ Setter(fee_authority, [type |-> "SetFeeConfig", value |-> bps, cap |-> cap])

set_fee_bps(bps) ==
    /\ require_circuit_closed
    /\ Setter(fee_authority, [type |-> "SetFeeBps", value |-> bps])

set_governance(a) ==
    /\ require_circuit_closed
    /\ Setter(require_role("SuperAdmin"), [type |-> "SetGovernance", addr |-> a])

set_min_limit(v) ==
    /\ require_circuit_closed
    /\ Setter(require_role("FeeManager"), [type |-> "SetMinLimit", value |-> v])

register_dex(a) == Setter(admin, [type |-> "RegisterDex", addr |-> a])

deregister_dex(a) == Setter(admin, [type |-> "DeregisterDex", addr |-> a])

set_max_slippage_bps(v) ==
    /\ v \in 0..MaxSlippage
    /\ Setter(admin, [type |-> "SetMaxSlippageBps", value |-> v])

set_pair_max_slippage_bps(v) ==
    /\ v \in 0..MaxPairSlippage
    /\ Setter(admin, [type |-> "SetPairMaxSlippageBps", value |-> v])

\* initialize() also writes the first parameters and resets the nonce; its
\* fee arguments are not validated.
initialize_router(a, treasury, bps, cap, slippage) ==
    /\ initialize(a)
    /\ params' = [params EXCEPT !.treasury = treasury, !.feeBps = bps,
                                !.feeCap = cap, !.maxSlippage = slippage]
    /\ nonce' = 0
    /\ UNCHANGED <<multisigVars, queue, settled>>

-----------------------------------------------------------------------------

TimelockStep ==
    \/ \E a \in Queueable : queue_action(a)
    \/ \E n \in DOMAIN queue : execute_action(n)
    \/ \E n \in DOMAIN queue : cancel_action(n)

SetterStep ==
    \/ \E a \in Addr : set_platform_treasury(a)
    \/ \E bps, cap \in Amounts : set_fee_config(bps, cap)
    \/ \E bps \in Amounts : set_fee_bps(bps)
    \/ \E a \in Addr : set_governance(a)
    \/ \E v \in Amounts : set_min_limit(v)
    \/ \E a \in Addr : register_dex(a)
    \/ \E a \in Addr : deregister_dex(a)
    \/ \E v \in Amounts : set_max_slippage_bps(v)
    \/ \E v \in Amounts : set_pair_max_slippage_bps(v)

\* DEFAULT_MAX_SLIPPAGE_BPS is a tenth of the limit.
RouterInitStep ==
    \E a, treasury \in Addr, bps, cap \in Amounts :
        initialize_router(a, treasury, bps, cap, MaxSlippage \div 10)

\* The access layer without what this module spells out: the first parameters
\* and the queued transfers.
BaseStep ==
    /\ RoleStep \/ SwitchStep \/ DmsStep \/ Tick
    /\ UNCHANGED multisigVars

RouterNext ==
    \/ RouterInitStep
    \/ (BaseStep \/ GroupStep \/ UpgradeStep) /\ UNCHANGED <<timelockVars, params>>
    \/ TimelockStep
    \/ SetterStep

RouterInit == AccessInit /\ MultisigInit /\ TimelockInit

RouterSpec == RouterInit /\ [][RouterNext]_vars

-----------------------------------------------------------------------------
(* Properties.                                                             *)

\* The queue, the nonce and the parameters have their Rust types, and no
\* entry was queued in the future.
TimelockTypeOK ==
    /\ nonce \in 0..MaxNonce
    /\ DOMAIN queue \subseteq Nat
    /\ \A n \in DOMAIN queue :
         queue[n] \in [queuedAt : 0..now, action : Queueable]
    /\ settled \subseteq Nat
    /\ params \in ParamsType

\* Every nonce that was handed out is pending or settled and never both: no
\* entry is lost, executed twice, or executed after it was cancelled.
EntriesSettleOnce ==
    /\ DOMAIN queue \cap settled = {}
    /\ DOMAIN queue \cup settled = 1..nonce

\* The cap of a token pair stays within MAX_PAIR_SLIPPAGE_BPS on both of the
\* paths that write it, the direct setter and the queue (access.rs:446).
PairSlippageCapped ==
    params.pairSlippage \in (0..MaxPairSlippage) \cup {NoValue}
=============================================================================
