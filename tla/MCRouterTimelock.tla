-------------------------- MODULE MCRouterTimelock --------------------------
(***************************************************************************)
(* RouterTimelock for TLC.  The full product of admin key, upgrade group   *)
(* and parameters is too large: the run explores three slices of it, and   *)
(* in each of them everything that its queued actions look at moves.       *)
(***************************************************************************)
EXTENDS RouterTimelock, TLC

CONSTANTS a1, a2, h1

MCGroups == {{a1, a2}, {a2}}

QueueGroup ==
    {[type |-> "Upgrade", hash |-> h1]}
      \cup {[type |-> "SetMultisigConfig", config |-> Config(g, t)] :
               g \in {{a2}}, t \in {1, 2}}

QueueAdmin ==
    {[type |-> "TransferAdmin", addr |-> a2]}
      \cup {[type |-> "SetBackupAdmin", addr |-> a2, timeout |-> t] : t \in {1, 2}}

QueueParams ==
    {[type |-> t, addr |-> a2] :
        t \in {"SetPlatformTreasury", "SetGovernance", "RegisterDex", "DeregisterDex"}}
      \cup {[type |-> t, value |-> 2] : t \in ValueActions}
      \cup {[type |-> "SetFeeConfig", value |-> 2, cap |-> 2]}

QueueEvery == QueueGroup \cup QueueAdmin \cup QueueParams

QueuedFrom(actions) == \A n \in DOMAIN queue : queue[n].action \in actions

\* The switches and the roles that no queued action looks at stay put.
RolesSettled ==
    /\ \A r \in Role : r # "SuperAdmin" => role[r] \in {NoAddr, a1}
    /\ role["Pauser"] = role["FeeManager"]
    /\ role["Pauser"] = role["TreasuryManager"]
    /\ hbOperator = NoAddr

ParamsSettled ==
    /\ params.treasury \in {NoAddr, a1}
    /\ params.governance = NoAddr
    /\ params.feeBps \in {NoValue, 1}
    /\ params.feeCap \in {NoValue, 1}
    /\ params.dexes = {}
    /\ params.minLimit = 0
    /\ params.pairSlippage = NoValue
    /\ params.maxSlippage \in {NoValue, 0}

\* For the question about the upgrade group.
GroupFocus ==
    /\ QueuedFrom(QueueGroup)
    /\ now <= 1
    /\ nonce <= 1
    /\ \A h \in Hash : signatures[h] <= 2
    /\ RolesSettled
    /\ ParamsSettled
    /\ admin \in {NoAddr, a1}
    /\ role["SuperAdmin"] = admin
    /\ role["Pauser"] = admin
    /\ backup = NoAddr
    /\ ~frozen
    /\ pauseLevel = "None"
    /\ lastAlive = 0

\* For the question about the admin key.
AdminFocus ==
    /\ QueuedFrom(QueueAdmin)
    /\ RolesSettled
    /\ ParamsSettled
    /\ admin # NoAddr => role["Pauser"] = a1 /\ params.treasury = a1
    /\ msSigners = {}
    /\ ~frozen
    /\ pauseLevel = "None"

\* For the question about the parameters.
ParamsFocus ==
    /\ QueuedFrom(QueueParams)
    /\ now <= 1
    /\ nonce <= 1
    /\ RolesSettled
    /\ admin \in {NoAddr, a1}
    /\ role["SuperAdmin"] = admin
    /\ role["Pauser"] = admin
    /\ msSigners = {}
    /\ backup = NoAddr
    /\ ~frozen
    /\ pauseLevel = "None"
    /\ lastAlive = 0
    /\ params.treasury \in {NoAddr, a1}
    /\ params.feeCap \in {NoValue, 1}
    /\ params.minLimit \in {0, 2}
    /\ params.governance \in {NoAddr, a2}
    /\ params.dexes \subseteq {a2}

OneQuestion == GroupFocus \/ AdminFocus \/ ParamsFocus
=============================================================================
