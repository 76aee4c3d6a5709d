--------------------------- MODULE MCRouterBatch ---------------------------
(***************************************************************************)
(* RouterBatch for TLC: batches of two out of an upgrade, a rotation, an   *)
(* admin transfer, a backup and a pair cap on the wrong side of the limit. *)
(***************************************************************************)
EXTENDS RouterBatch, TLC

CONSTANTS a1, a2, h1

MCGroups == {{a1, a2}, {a2}}

QueueBatch ==
    {[type |-> "Upgrade", hash |-> h1],
     [type |-> "SetMultisigConfig", config |-> Config({a2}, 1)],
     [type |-> "TransferAdmin", addr |-> a2],
     [type |-> "SetBackupAdmin", addr |-> a2, timeout |-> 2],
     [type |-> "SetPairMaxSlippageBps", value |-> 2]}

\* What no queued action of this instance looks at stays put, and the direct
\* entry points that compete with the queue are left to MCRouterTimelock.
BatchFocus ==
    /\ admin # NoAddr => role["Pauser"] = a1 /\ params.treasury = a1
    /\ role["SuperAdmin"] = admin
    /\ \A r \in Role : r # "SuperAdmin" => role[r] = role["Pauser"]
    /\ hbOperator = NoAddr
    /\ ~frozen
    /\ pauseLevel = "None"
    /\ lastAlive = (IF backup = NoAddr THEN 0 ELSE lastHeartbeat)
    /\ \A p \in cfgApprovals : p[1] = Config({a2}, 1)
    /\ params.governance = NoAddr
    /\ params.pairSlippage = NoValue \/ settled # {}
    /\ backup = NoAddr \/ settled # {}
    /\ params.dexes = {}
    /\ params.minLimit = 0
=============================================================================
