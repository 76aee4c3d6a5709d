------------------------ MODULE RouterTimelockProofs ------------------------
(***************************************************************************)
(* Theorems about RouterAccess, RouterMultisig, RouterTimelock and         *)
(* RouterBatch, for every set of addresses, roles and groups, every        *)
(* timeout and every length of a batch.  The router with its timelock      *)
(* implements the access layer, so that whatever is queued, the theorems   *)
(* about RouterAccess hold of it; queued upgrades and rotations need the   *)
(* quorum that direct ones need; entries settle once; the pair cap holds   *)
(* on both of the paths that write it; and batches of queued actions keep  *)
(* all of this but the account of what an approval paid for.               *)
(***************************************************************************)
EXTENDS RouterBatch, SumTheorems, FiniteSetTheorems, TLAPS

-----------------------------------------------------------------------------
(* The access layer.                                                       *)

\* Making `account` the holder of `r`, the way set_role_internal does, keeps
\* the flags and the registry in agreement (access.rs:12-33).
LEMMA SetRoleKeepsMatch ==
    ASSUME AccessTypeOK, FlagsMatchRegistry,
           NEW r \in Role, NEW account \in Addr,
           role' = set_role_internal(role, r, account),
           userRole' = set_role_flags(userRole, role, r, account)
    PROVE  /\ role' \in [Role -> Addr \cup {NoAddr}]
           /\ userRole' \subseteq Addr \X Role
           /\ FlagsMatchRegistry'
           /\ role'[r] = account
  <1>1. /\ role' \in [Role -> Addr \cup {NoAddr}]
        /\ role'[r] = account
        /\ \A q \in Role : q # r => role'[q] = role[q]
    BY DEF AccessTypeOK, set_role_internal
  <1>2. userRole' \subseteq Addr \X Role
    BY DEF AccessTypeOK, set_role_flags
  <1>3. ASSUME NEW q \in Role, NEW a \in Addr
        PROVE  <<a, q>> \in userRole' <=> role'[q] = a
    BY <1>1 DEF FlagsMatchRegistry, set_role_flags
  <1> QED
    BY <1>1, <1>2, <1>3 DEF FlagsMatchRegistry

\* Taking `r` from `account`, the way remove_role_internal does, keeps the
\* flags and the registry in agreement (access.rs:35-48).
LEMMA RemoveRoleKeepsMatch ==
    ASSUME AccessAssumption, AccessTypeOK, FlagsMatchRegistry,
           NEW r \in Role, NEW account \in Addr,
           NEW reg, NEW flags,
           reg = remove_role_internal(role, r, account),
           flags = remove_role_flags(userRole, r, account)
    PROVE  /\ reg \in [Role -> Addr \cup {NoAddr}]
           /\ flags \subseteq Addr \X Role
           /\ \A q \in Role, a \in Addr : <<a, q>> \in flags <=> reg[q] = a
           /\ \A q \in Role : (q # r \/ role[q] # account) => reg[q] = role[q]
  <1>1. /\ reg \in [Role -> Addr \cup {NoAddr}]
        /\ \A q \in Role : (q # r \/ role[q] # account) => reg[q] = role[q]
        /\ reg[r] # account
    BY DEF AccessTypeOK, remove_role_internal, AccessAssumption
  <1>2. flags \subseteq Addr \X Role
    BY DEF AccessTypeOK, remove_role_flags
  <1>3. ASSUME NEW q \in Role, NEW a \in Addr
        PROVE  <<a, q>> \in flags <=> reg[q] = a
    <2>1. CASE q = r /\ a = account
      BY <1>1, <2>1 DEF FlagsMatchRegistry, remove_role_flags
    <2>2. CASE q # r
      BY <1>1, <2>2 DEF FlagsMatchRegistry, remove_role_flags
    <2>3. CASE q = r /\ a # account
      <3>1. <<a, q>> \in flags <=> role[q] = a
        BY <2>3 DEF FlagsMatchRegistry, remove_role_flags
      <3>2. CASE role[r] = account
        BY <3>1, <3>2, <2>3 DEF remove_role_internal, AccessAssumption, AccessTypeOK
      <3>3. CASE role[r] # account
        BY <3>1, <3>3, <2>3 DEF remove_role_internal
      <3> QED BY <3>2, <3>3
    <2> QED BY <2>1, <2>2, <2>3
  <1> QED
    BY <1>1, <1>2, <1>3

\* The initial state of a deployed, uninitialized contract satisfies the
\* inductive invariant.
LEMMA AccessInitInv == AccessInit => AccessInv
  <1> SUFFICES ASSUME AccessInit PROVE AccessInv
    OBVIOUS
  <1> USE AccessAssumption DEF AccessInit, AccessAssumption
  <1>1. AccessTypeOK
    <2>1. frozen \in BOOLEAN
      BY Zenon
    <2>2. role \in [Role -> Addr \cup {NoAddr}] /\ userRole \subseteq Addr \X Role
      OBVIOUS
    <2> QED BY <2>1, <2>2 DEF AccessTypeOK, PauseLevels
  <1>2. FlagsMatchRegistry
    BY DEF FlagsMatchRegistry
  <1>3. SuperAdminSeated
    BY DEF SuperAdminSeated
  <1>4. SwitchArmedWhole
    BY DEF SwitchArmedWhole
  <1>5. ClockCountsFromLife /\ AdminIfArmed
    BY DEF ClockCountsFromLife, AdminIfArmed
  <1> QED
    BY <1>1, <1>2, <1>3, <1>4, <1>5 DEF AccessInv

\* The signature a role-protected call needs is that of the one address the
\* registry names, because SuperAdmin always has a designated holder.
LEMMA SuperAdminSigns ==
    ASSUME AccessAssumption, AccessInv, admin # NoAddr
    PROVE  /\ require_role("SuperAdmin") = role["SuperAdmin"]
           /\ role["SuperAdmin"] \in Addr
           /\ \A a \in Addr : has_role_internal(a, "SuperAdmin")
                                  => a = role["SuperAdmin"]
  <1>1. "SuperAdmin" \in Role
    BY DEF AccessAssumption
  <1>2. role["SuperAdmin"] # NoAddr /\ role["SuperAdmin"] \in Addr
    BY <1>1 DEF AccessInv, SuperAdminSeated, AccessTypeOK
  <1> QED
    BY <1>1, <1>2 DEF AccessInv, FlagsMatchRegistry, require_role,
                      has_role_internal

\* initialize() on a contract without an admin establishes the first holders.
LEMMA InitializeInv ==
    ASSUME AccessAssumption, AccessInv, InitStep
    PROVE  AccessInv'
  <1> USE DEF AccessInv
  <1>0. "SuperAdmin" \in Role
    BY DEF AccessAssumption
  <1>1. ASSUME NEW a \in Addr, initialize(a) PROVE AccessInv'
    <2> USE <1>1 DEF initialize, SignedBy, dmsVars
    <2>1. AccessTypeOK'
      <3>1. frozen' \in BOOLEAN
        BY Zenon
      <3>2. role' \in [Role -> Addr \cup {NoAddr}]
        BY DEF AccessTypeOK
      <3>3. userRole' \subseteq Addr \X Role
        BY DEF AccessTypeOK, InitialRoles
      <3> QED BY <3>1, <3>2, <3>3 DEF AccessTypeOK
    <2>2. FlagsMatchRegistry'
      <3> SUFFICES ASSUME NEW r \in Role, NEW b \in Addr
                   PROVE  <<b, r>> \in userRole' <=> role'[r] = b
        BY DEF FlagsMatchRegistry
      <3>1. CASE r \in InitialRoles
        BY <3>1
      <3>2. CASE r \notin InitialRoles
        <4>1. <<b, r>> \in userRole' <=> <<b, r>> \in userRole
          BY <3>2
        <4> QED BY <4>1, <3>2 DEF FlagsMatchRegistry
      <3> QED BY <3>1, <3>2
    <2>3. SuperAdminSeated'
      BY <1>0 DEF SuperAdminSeated, InitialRoles, AccessAssumption
    <2>4. SwitchArmedWhole' /\ ClockCountsFromLife' /\ AdminIfArmed'
      BY DEF SwitchArmedWhole, ClockCountsFromLife, AdminIfArmed
    <2> QED BY <2>1, <2>2, <2>3, <2>4
  <1> QED
    BY <1>1 DEF InitStep

\* A step of the role registry or of the admin key preserves the invariant.
LEMMA RoleStepInv ==
    ASSUME AccessAssumption, AccessInv, RoleStep \/ QueuedStep
    PROVE  AccessInv'
  <1> USE DEF AccessInv
  <1>0. "SuperAdmin" \in Role
    BY DEF AccessAssumption
  <1>2. ASSUME NEW caller \in Addr, NEW grantee \in Addr, NEW r \in Role,
               grant_role(caller, grantee, r)
        PROVE  AccessInv'
    <2> USE <1>2 DEF grant_role, SignedBy, dmsVars, switchVars
    <2>1. /\ role' \in [Role -> Addr \cup {NoAddr}]
          /\ userRole' \subseteq Addr \X Role
          /\ FlagsMatchRegistry'
          /\ role'[r] = grantee
      BY SetRoleKeepsMatch
    <2>2. AccessTypeOK'
      BY <2>1 DEF AccessTypeOK
    <2>3. SuperAdminSeated'
      BY <1>0, <2>1 DEF SuperAdminSeated, set_role_internal, AccessTypeOK, AccessAssumption
    <2>4. SwitchArmedWhole' /\ ClockCountsFromLife' /\ AdminIfArmed'
      BY DEF SwitchArmedWhole, ClockCountsFromLife, AdminIfArmed
    <2> QED BY <2>1, <2>2, <2>3, <2>4
  <1>3. ASSUME NEW caller \in Addr, NEW grantee \in Addr, NEW r \in Role,
               revoke_role(caller, grantee, r)
        PROVE  AccessInv'
    <2> USE <1>3 DEF revoke_role, SignedBy, dmsVars, switchVars
    <2>1. /\ role' \in [Role -> Addr \cup {NoAddr}]
          /\ userRole' \subseteq Addr \X Role
          /\ \A q \in Role, a \in Addr : <<a, q>> \in userRole' <=> role'[q] = a
          /\ \A q \in Role : (q # r \/ role[q] # grantee) => role'[q] = role[q]
      BY RemoveRoleKeepsMatch
    <2>2. AccessTypeOK'
      BY <2>1 DEF AccessTypeOK
    <2>3. FlagsMatchRegistry'
      BY <2>1 DEF FlagsMatchRegistry
    <2>4. SuperAdminSeated'
      <3> SUFFICES ASSUME admin # NoAddr PROVE role'["SuperAdmin"] # NoAddr
        BY DEF SuperAdminSeated
      <3>1. role["SuperAdmin"] # NoAddr /\ caller = role["SuperAdmin"]
        BY SuperAdminSigns DEF SuperAdminSeated
      <3> QED BY <3>1, <2>1, <1>0
    <2>5. SwitchArmedWhole' /\ ClockCountsFromLife' /\ AdminIfArmed'
      BY DEF SwitchArmedWhole, ClockCountsFromLife, AdminIfArmed
    <2> QED BY <2>2, <2>3, <2>4, <2>5
  <1>4. ASSUME NEW account \in Addr, NEW r \in Role, assign_role(account, r)
        PROVE  AccessInv'
    <2> USE <1>4 DEF assign_role, dmsVars, switchVars
    <2>1. /\ role' \in [Role -> Addr \cup {NoAddr}]
          /\ userRole' \subseteq Addr \X Role
          /\ FlagsMatchRegistry'
          /\ role'[r] = account
      BY SetRoleKeepsMatch
    <2>0. signer' \in Addr
      BY <1>0 DEF SignedBy, require_role, AccessTypeOK
    <2>2. AccessTypeOK'
      BY <2>0, <2>1 DEF AccessTypeOK
    <2>3. SuperAdminSeated'
      BY <1>0, <2>1 DEF SuperAdminSeated, set_role_internal, AccessTypeOK, AccessAssumption
    <2>4. SwitchArmedWhole' /\ ClockCountsFromLife' /\ AdminIfArmed'
      BY DEF SwitchArmedWhole, ClockCountsFromLife, AdminIfArmed
    <2> QED BY <2>1, <2>2, <2>3, <2>4
  <1>5. ASSUME NEW a \in Addr, set_admin(a) PROVE AccessInv'
    <2> USE <1>5 DEF set_admin, dmsVars, switchVars
    <2>1. /\ role' \in [Role -> Addr \cup {NoAddr}]
          /\ userRole' \subseteq Addr \X Role
          /\ FlagsMatchRegistry'
          /\ role'["SuperAdmin"] = a
      BY <1>0, SetRoleKeepsMatch
    <2>0. signer' \in Addr \cup {NoAddr}
      BY <1>0 DEF SignedBy, require_role, AccessTypeOK
    <2>2. AccessTypeOK'
      BY <2>0, <2>1 DEF AccessTypeOK
    <2>3. SuperAdminSeated'
      BY <2>1 DEF SuperAdminSeated, AccessAssumption
    <2>4. SwitchArmedWhole' /\ ClockCountsFromLife' /\ AdminIfArmed'
      BY DEF SwitchArmedWhole, ClockCountsFromLife, AdminIfArmed
    <2> QED BY <2>1, <2>2, <2>3, <2>4
  <1>6. ASSUME NEW a \in Addr, transfer_admin(a) PROVE AccessInv'
    <2> DEFINE current == require_role("SuperAdmin")
               reg == remove_role_internal(role, "SuperAdmin", current)
               flags == remove_role_flags(userRole, "SuperAdmin", current)
    <2>0. /\ current \in Addr
          /\ signer' = current
          /\ admin' = a
          /\ role' = set_role_internal(reg, "SuperAdmin", a)
          /\ userRole' = set_role_flags(flags, reg, "SuperAdmin", a)
          /\ UNCHANGED <<switchVars, dmsVars, now>>
      BY <1>0, <1>6 DEF transfer_admin, SignedBy, require_role, AccessTypeOK
    <2>1. /\ reg \in [Role -> Addr \cup {NoAddr}]
          /\ flags \subseteq Addr \X Role
          /\ \A q \in Role, b \in Addr : <<b, q>> \in flags <=> reg[q] = b
      <3> HIDE DEF current
      <3> QED BY <1>0, <2>0, RemoveRoleKeepsMatch
    <2> HIDE DEF reg, flags, current
    <2>2. /\ role' \in [Role -> Addr \cup {NoAddr}]
          /\ role'["SuperAdmin"] = a
          /\ \A q \in Role : q # "SuperAdmin" => role'[q] = reg[q]
      BY <1>0, <2>0, <2>1 DEF set_role_internal
    <2>3. userRole' \subseteq Addr \X Role
      BY <1>0, <2>0, <2>1 DEF set_role_flags
    <2>4. FlagsMatchRegistry'
      <3> SUFFICES ASSUME NEW q \in Role, NEW b \in Addr
                   PROVE  <<b, q>> \in userRole' <=> role'[q] = b
        BY DEF FlagsMatchRegistry
      <3> QED BY <2>0, <2>1, <2>2 DEF set_role_flags
    <2>5. AccessTypeOK'
      BY <2>0, <2>2, <2>3 DEF AccessTypeOK, switchVars, dmsVars
    <2>6. SuperAdminSeated'
      BY <2>2 DEF SuperAdminSeated, AccessAssumption
    <2>7. SwitchArmedWhole' /\ ClockCountsFromLife' /\ AdminIfArmed'
      BY <2>0 DEF SwitchArmedWhole, ClockCountsFromLife, AdminIfArmed, switchVars, dmsVars
    <2> QED BY <2>4, <2>5, <2>6, <2>7
  <1>7. ASSUME NEW a \in Addr, execute_transfer_admin(a) PROVE AccessInv'
    <2> USE <1>7 DEF execute_transfer_admin, SignedBy, dmsVars, switchVars
    <2>1. /\ role' \in [Role -> Addr \cup {NoAddr}]
          /\ userRole' \subseteq Addr \X Role
          /\ FlagsMatchRegistry'
          /\ role'["SuperAdmin"] = a
      BY <1>0, SetRoleKeepsMatch
    <2>2. AccessTypeOK'
      BY <2>1 DEF AccessTypeOK
    <2>3. SuperAdminSeated'
      BY <2>1 DEF SuperAdminSeated, AccessAssumption
    <2>4. SwitchArmedWhole' /\ ClockCountsFromLife' /\ AdminIfArmed'
      BY DEF SwitchArmedWhole, ClockCountsFromLife, AdminIfArmed
    <2> QED BY <2>1, <2>2, <2>3, <2>4
  <1> QED
    BY <1>2, <1>3, <1>4, <1>5, <1>6, <1>7 DEF RoleStep, QueuedStep

\* Freezing, unfreezing and pausing leave the registry and the dead man's
\* switch alone, so they preserve the invariant.
LEMMA SwitchStepInv ==
    ASSUME AccessAssumption, AccessInv, SwitchStep
    PROVE  AccessInv'
  <1> USE DEF AccessInv
  <1>0. {"SuperAdmin", "Pauser"} \subseteq Role
    BY DEF AccessAssumption
  <1>1. /\ UNCHANGED <<roleVars, dmsVars, now>>
        /\ signer' \in Addr
        /\ pauseLevel' \in PauseLevels
    <2>1. CASE emergency_freeze
      BY <1>0, <2>1 DEF emergency_freeze, SignedBy, require_role, AccessTypeOK
    <2>2. CASE unfreeze
      BY <1>0, <2>2 DEF unfreeze, SignedBy, require_role, AccessTypeOK
    <2>3. ASSUME NEW level \in PauseLevels, set_pause_level(level)
          PROVE  /\ UNCHANGED <<roleVars, dmsVars, now>>
                 /\ signer' \in Addr
                 /\ pauseLevel' \in PauseLevels
      BY <1>0, <2>3 DEF set_pause_level, SignedBy, require_role, AccessTypeOK
    <2>4. CASE \E level \in PauseArgs : set_pause_level(level)
      BY <2>3, <2>4 DEF AccessAssumption
    <2>5. CASE \E paused \in BOOLEAN : set_pause(paused)
      BY <2>3, <2>5 DEF set_pause, PauseLevels
    <2> QED BY <2>1, <2>2, <2>4, <2>5 DEF SwitchStep
  <1>2. frozen' \in BOOLEAN
    BY Zenon DEF SwitchStep, emergency_freeze, unfreeze, set_pause,
                 set_pause_level, AccessTypeOK
  <1>3. AccessTypeOK'
    BY <1>1, <1>2 DEF AccessTypeOK, roleVars, dmsVars
  <1>4. FlagsMatchRegistry' /\ SuperAdminSeated'
    BY <1>1 DEF FlagsMatchRegistry, SuperAdminSeated, roleVars
  <1>5. SwitchArmedWhole' /\ ClockCountsFromLife' /\ AdminIfArmed'
    BY <1>1 DEF SwitchArmedWhole, ClockCountsFromLife, AdminIfArmed, roleVars,
                dmsVars
  <1> QED BY <1>3, <1>4, <1>5

\* What is left to show of a step that leaves the registry, the switches and
\* the clock alone: the keys of the dead man's switch.
LEMMA DmsFrame ==
    ASSUME AccessInv,
           UNCHANGED <<roleVars, switchVars, now>>,
           signer' \in Addr \cup {NoAddr},
           backup' \in Addr \cup {NoAddr},
           dmsTimeout' \in Nat \cup {NoTime},
           lastHeartbeat' \in (0..now) \cup {NoTime},
           hbOperator' \in Addr \cup {NoAddr},
           lastAlive' \in 0..now,
           AdminIfArmed', SwitchArmedWhole', ClockCountsFromLife'
    PROVE  AccessInv'
  <1>1. /\ admin' = admin /\ role' = role /\ userRole' = userRole
        /\ pauseLevel' = pauseLevel /\ frozen' = frozen /\ now' = now
    BY DEF roleVars, switchVars
  <1>2. AccessTypeOK'
    BY <1>1 DEF AccessInv, AccessTypeOK
  <1>3. FlagsMatchRegistry'
    BY <1>1 DEF AccessInv, FlagsMatchRegistry
  <1>4. SuperAdminSeated'
    BY <1>1 DEF AccessInv, SuperAdminSeated
  <1> QED
    BY <1>2, <1>3, <1>4 DEF AccessInv

\* Arming, renewing, disarming and claiming the dead man's switch preserve
\* the invariant; only claim_admin touches the admin key.
LEMMA DmsStepInv ==
    ASSUME AccessAssumption, AccessInv, DmsStep
    PROVE  AccessInv'
  <1>0. /\ admin \in Addr \cup {NoAddr}
        /\ backup \in Addr \cup {NoAddr}
        /\ dmsTimeout \in Nat \cup {NoTime}
        /\ lastHeartbeat \in (0..now) \cup {NoTime}
        /\ hbOperator \in Addr \cup {NoAddr}
        /\ lastAlive \in 0..now
        /\ now \in Nat
        /\ NoTime \notin Nat
        /\ NoAddr \notin Addr
        /\ SwitchArmedWhole /\ ClockCountsFromLife /\ AdminIfArmed
    BY DEF AccessAssumption, AccessInv, AccessTypeOK
  <1> DEFINE Armed == AdminIfArmed' /\ SwitchArmedWhole' /\ ClockCountsFromLife'
  <1>1. ASSUME NEW b \in Addr, NEW t \in Timeouts, set_backup_admin_internal(b, t)
        PROVE  AccessInv'
    <2>1. /\ UNCHANGED <<roleVars, switchVars, hbOperator, now>>
          /\ signer' = admin /\ admin # NoAddr /\ admin' = admin
          /\ t >= MinDmsTimeout /\ t \in Nat
          /\ backup' = b /\ dmsTimeout' = t
          /\ lastHeartbeat' = now /\ lastAlive' = now
      BY <1>1 DEF set_backup_admin_internal, apply_set_backup_admin,
                  backup_args_valid, SignedBy, roleVars, AccessAssumption
    <2>2. Armed
      BY <1>0, <2>1 DEF AdminIfArmed, SwitchArmedWhole, ClockCountsFromLife
    <2>3. now \in 0..now
      BY <1>0
    <2> QED BY <1>0, <2>1, <2>2, <2>3, DmsFrame
  <1>2. CASE remove_backup_admin
    <2>1. /\ UNCHANGED <<roleVars, switchVars, dmsTimeout, hbOperator, lastAlive, now>>
          /\ signer' = admin /\ admin # NoAddr
          /\ backup' = NoAddr /\ lastHeartbeat' = NoTime
      BY <1>2 DEF remove_backup_admin, SignedBy
    <2>2. Armed
      BY <1>0, <2>1 DEF AdminIfArmed, SwitchArmedWhole, ClockCountsFromLife
    <2> QED BY <1>0, <2>1, <2>2, DmsFrame
  <1>3. ASSUME bump_heartbeat, signer' \in Addr \cup {NoAddr},
               UNCHANGED <<roleVars, switchVars, backup, dmsTimeout, hbOperator, now>>
        PROVE  AccessInv'
    <2>1. /\ lastHeartbeat' = IF backup # NoAddr THEN now ELSE lastHeartbeat
          /\ lastAlive' = now
          /\ now \in 0..now
          /\ backup' = backup /\ dmsTimeout' = dmsTimeout /\ admin' = admin
      BY <1>0, <1>3 DEF bump_heartbeat, roleVars
    <2>2. Armed
      BY <1>0, <2>1 DEF AdminIfArmed, SwitchArmedWhole, ClockCountsFromLife
    <2> QED BY <1>0, <1>3, <2>1, <2>2, DmsFrame
  <1>4. CASE ping
    BY <1>0, <1>3, <1>4 DEF ping, SignedBy
  <1>5. ASSUME NEW sender \in Addr \cup {NoAddr}, payment_heartbeat(sender)
        PROVE  AccessInv'
    BY <1>3, <1>5 DEF payment_heartbeat
  <1>6. ASSUME NEW a \in Addr, claim_admin(a) PROVE AccessInv'
    <2> USE <1>6 DEF AccessInv, AccessAssumption, claim_admin, SignedBy, switchVars
    <2>1. AccessTypeOK'
      BY DEF AccessTypeOK
    <2>2. FlagsMatchRegistry'
      BY DEF FlagsMatchRegistry
    <2>3. SuperAdminSeated'
      <3>1. admin # NoAddr
        BY DEF claim_ready, AdminIfArmed
      <3> QED BY <3>1 DEF SuperAdminSeated
    <2>4. SwitchArmedWhole' /\ ClockCountsFromLife' /\ AdminIfArmed'
      BY DEF SwitchArmedWhole, ClockCountsFromLife, AdminIfArmed
    <2> QED BY <2>1, <2>2, <2>3, <2>4
  <1>7. ASSUME signer' \in Addr, hbOperator' \in Addr \cup {NoAddr},
               UNCHANGED <<roleVars, switchVars, backup, dmsTimeout,
                           lastHeartbeat, lastAlive, now>>
        PROVE  AccessInv'
    <2>1. Armed
      BY <1>0, <1>7 DEF AdminIfArmed, SwitchArmedWhole, ClockCountsFromLife, roleVars
    <2> QED BY <1>0, <1>7, <2>1, DmsFrame
  <1>8. CASE \E a \in Addr : set_heartbeat_operator(a)
    BY <1>0, <1>7, <1>8 DEF set_heartbeat_operator, SignedBy
  <1>9. CASE remove_heartbeat_operator
    BY <1>0, <1>7, <1>9 DEF remove_heartbeat_operator, SignedBy
  <1>10. ASSUME NEW a \in Addr, renew_heartbeat(a) PROVE AccessInv'
    <2>1. /\ UNCHANGED <<roleVars, switchVars, backup, dmsTimeout, hbOperator, now>>
          /\ signer' = a
          /\ lastHeartbeat # NoTime
          /\ lastHeartbeat' = now /\ lastAlive' = now /\ now \in 0..now
      BY <1>0, <1>10 DEF renew_heartbeat, SignedBy
    <2>2. Armed
      BY <1>0, <2>1 DEF AdminIfArmed, SwitchArmedWhole, ClockCountsFromLife, roleVars
    <2> QED BY <1>0, <2>1, <2>2, DmsFrame
  <1> QED
    BY <1>1, <1>2, <1>4, <1>5, <1>6, <1>8, <1>9, <1>10 DEF DmsStep

\* Every step of the contract's access layer preserves the invariant.
LEMMA AccessStepInv ==
    ASSUME AccessAssumption, AccessInv, [AccessNext]_accessVars
    PROVE  AccessInv'
  <1>1. CASE Tick
    BY <1>1 DEF AccessAssumption, AccessInv, Tick, roleVars, switchVars, dmsVars,
                AccessTypeOK, FlagsMatchRegistry, SuperAdminSeated,
                SwitchArmedWhole, ClockCountsFromLife, AdminIfArmed
  <1>2. CASE UNCHANGED accessVars
    BY <1>2 DEF AccessInv, accessVars,
                AccessTypeOK, FlagsMatchRegistry, SuperAdminSeated,
                SwitchArmedWhole, ClockCountsFromLife, AdminIfArmed
  <1>3. CASE OtherStep
    <2>1. /\ signer' \in Addr \cup {NoAddr}
          /\ UNCHANGED <<roleVars, switchVars, dmsVars, now>>
      BY <1>3 DEF OtherStep, other_call
    <2>2. AccessTypeOK'
      BY <2>1 DEF AccessInv, AccessTypeOK, roleVars, switchVars, dmsVars
    <2>3. FlagsMatchRegistry' /\ SuperAdminSeated' /\ AdminIfArmed'
      BY <2>1 DEF AccessInv, FlagsMatchRegistry, SuperAdminSeated, AdminIfArmed,
                  roleVars, dmsVars
    <2>4. SwitchArmedWhole' /\ ClockCountsFromLife'
      BY <2>1 DEF AccessInv, SwitchArmedWhole, ClockCountsFromLife, dmsVars
    <2> QED BY <2>2, <2>3, <2>4 DEF AccessInv
  <1> QED
    BY <1>1, <1>2, <1>3, InitializeInv, RoleStepInv, SwitchStepInv, DmsStepInv
    DEF AccessNext

\* The invariant holds in every reachable state.
THEOREM AccessInvariant == AccessSpec => []AccessInv
  <1>1. AccessInit => AccessInv
    BY AccessInitInv
  <1>2. AccessInv /\ [AccessNext]_accessVars => AccessInv'
    BY AccessAssumption, AccessStepInv
  <1> QED
    BY <1>1, <1>2, PTL DEF AccessSpec

\* Type correctness of the access layer's storage.
THEOREM AccessTyping == AccessSpec => []AccessTypeOK
  <1>1. AccessInv => AccessTypeOK
    BY DEF AccessInv
  <1> QED
    BY <1>1, AccessInvariant, PTL

\* Flags that match the registry leave a role one holder.
LEMMA InvHasOneHolder ==
    ASSUME AccessAssumption, AccessInv PROVE RoleHasOneHolder
  BY DEF AccessAssumption, AccessInv, RoleHasOneHolder, has_role_internal,
         FlagsMatchRegistry

\* At most one address can exercise a role, after any sequence of grants,
\* revocations, transfers and claims.
THEOREM OneHolderPerRole == AccessSpec => []RoleHasOneHolder
  BY AccessAssumption, InvHasOneHolder, AccessInvariant, PTL

\* SuperAdmin is never vacated once the contract has an admin.
THEOREM SuperAdminIsSeated == AccessSpec => []SuperAdminSeated
  <1>1. AccessInv => SuperAdminSeated
    BY DEF AccessInv
  <1> QED
    BY <1>1, AccessInvariant, PTL

\* The expiry view and claim_admin agree in every reachable state.
THEOREM ExpiryViewIsExact == AccessSpec => []ExpiryViewAgrees
  <1>1. AccessInv => ExpiryViewAgrees
    <2> SUFFICES ASSUME AccessInv, backup # NoAddr
                 PROVE  is_dead_mans_switch_expired <=> claim_ready(backup)
      BY DEF ExpiryViewAgrees, is_dead_mans_switch_expired, claim_ready
    <2>1. /\ lastHeartbeat \in Nat /\ dmsTimeout \in Nat /\ now \in Nat
          /\ lastHeartbeat # NoTime /\ dmsTimeout # NoTime
          /\ lastHeartbeat <= now
      BY AccessAssumption
      DEF AccessAssumption, AccessInv, SwitchArmedWhole, AccessTypeOK
    <2> QED
      BY <2>1 DEF is_dead_mans_switch_expired, claim_ready
  <1> QED
    BY <1>1, AccessInvariant, PTL

\* Of the calls of the access layer, only a claim moves the admin key unasked.
LEMMA StepTakesOverSafely ==
    ASSUME AccessAssumption, AccessInv, [AccessNext]_accessVars
    PROVE  [TakeoverStep]_accessVars
  <1> SUFFICES ASSUME AccessNext,
                      admin # NoAddr, admin' # admin,
                      signer' # admin, signer' # role["SuperAdmin"]
               PROVE  admin' = backup /\ now >= lastAlive + MinDmsTimeout
    BY DEF TakeoverStep
  <1>1. require_role("SuperAdmin") = role["SuperAdmin"]
    BY AccessAssumption, SuperAdminSigns
  <1>2. CASE InitStep \/ RoleStep \/ QueuedStep
    BY <1>1, <1>2
    DEF InitStep, RoleStep, QueuedStep, initialize, grant_role, revoke_role,
        assign_role, set_admin, transfer_admin, execute_transfer_admin, SignedBy
  <1>3. CASE SwitchStep
    BY <1>3 DEF SwitchStep, emergency_freeze, unfreeze, set_pause_level,
                set_pause, roleVars
  <1>4. CASE DmsStep
    <2>1. PICK a \in Addr : claim_admin(a)
      BY <1>4 DEF DmsStep, set_backup_admin_internal, remove_backup_admin, ping,
                  payment_heartbeat, set_heartbeat_operator, roleVars,
                  remove_heartbeat_operator, renew_heartbeat
    <2>2. /\ admin' = backup
          /\ backup # NoAddr /\ dmsTimeout # NoTime /\ lastHeartbeat # NoTime
          /\ now >= lastHeartbeat + dmsTimeout
      BY <2>1 DEF claim_admin, claim_ready
    <2>3. /\ lastHeartbeat = lastAlive
          /\ dmsTimeout >= MinDmsTimeout
          /\ now \in Nat /\ dmsTimeout \in Nat /\ lastAlive \in Nat
          /\ MinDmsTimeout \in Nat
      BY <2>2, AccessAssumption
      DEF AccessAssumption, AccessInv, ClockCountsFromLife, SwitchArmedWhole,
          AccessTypeOK
    <2> QED BY <2>2, <2>3
  <1>5. CASE OtherStep \/ Tick
    BY <1>5 DEF OtherStep, other_call, Tick, roleVars
  <1> QED BY <1>2, <1>3, <1>4, <1>5 DEF AccessNext

\* The admin key is never taken over while there are signs of life.
THEOREM TakeoverIsSafe == AccessSpec => TakeoverNeedsSilence
  <1>1. AccessInv /\ [AccessNext]_accessVars => [TakeoverStep]_accessVars
    BY AccessAssumption, StepTakesOverSafely
  <1> QED
    BY <1>1, AccessInvariant, PTL DEF AccessSpec, TakeoverNeedsSilence

-----------------------------------------------------------------------------
(***************************************************************************)
(* Theorems about the upgrade group of RouterMultisig: for any finite set  *)
(* of addresses and any groups, the group stays able to act and never lets *)
(* one member of several act alone, installations and rotations have their *)
(* quorum, and no approval pays for two installations.                     *)
(*                                                                         *)
(* The two lemmas about an installation and a rotation speak of storage    *)
(* only, not of who submits the call: they serve for queued upgrades and   *)
(* rotations, too.                                                         *)
(***************************************************************************)

\* The group by itself, and with the account of what its approvals paid for.
GroupInv == MultisigTypeOK /\ GroupWellFormed
MultisigInv == GroupInv /\ InstallsArePaidFor

\* What every step does for the group: it keeps the invariant, and the account
\* if it was kept until then, and has the quorum it needs.
GroupKept ==
    /\ GroupInv'
    /\ InstallsArePaidFor => InstallsArePaidFor'
    /\ QuorumStep
    /\ RotationStep

\* A set of signers is finite.
LEMMA SignersAreFinite ==
    ASSUME MultisigAssumption, NEW S \in SUBSET Addr
    PROVE  IsFiniteSet(S) /\ Cardinality(S) \in Nat
  BY FS_Subset, FS_CardinalityType DEF MultisigAssumption

\* Removing members never adds to the count.
LEMMA FewerSigners ==
    ASSUME MultisigAssumption, NEW S \in SUBSET Addr, NEW R \in SUBSET S
    PROVE  Cardinality(R) <= Cardinality(S)
  BY SignersAreFinite, FS_Subset

\* The initial state satisfies the invariant.
LEMMA MultisigInitInv ==
    ASSUME MultisigAssumption, MultisigInit
    PROVE  MultisigInv
  <1> USE DEF MultisigInit
  <1>1. MultisigTypeOK
    BY DEF MultisigTypeOK
  <1>2. GroupWellFormed
    BY DEF GroupWellFormed
  <1>3. InstallsArePaidFor
    BY FS_EmptySet DEF InstallsArePaidFor
  <1> QED BY <1>1, <1>2, <1>3 DEF GroupInv, MultisigInv

\* An installation on a quorum uses up the signatures it was paid with.
LEMMA InstallationInv ==
    ASSUME MultisigAssumption, GroupInv, NEW h \in Hash,
           require_upgrade_authorized(msSigners, msThreshold, upApprovals[h]),
           wasm' = h,
           upApprovals' = apply_upgrade(upApprovals, h),
           spent' = [spent EXCEPT ![h] = @ + msThreshold],
           UNCHANGED <<groupVars, signatures>>
    PROVE  GroupKept
  <1> USE DEF GroupInv, GroupKept, apply_upgrade, groupVars
  <1> DEFINE approvers == upApprovals[h] \cap msSigners
  <1>1. /\ msSigners # {} /\ msThreshold \in Nat
        /\ Cardinality(approvers) >= msThreshold
    BY DEF require_upgrade_authorized, load_effective_approvals, MultisigTypeOK
  <1>2. /\ upApprovals[h] \in SUBSET Addr /\ approvers \in SUBSET Addr
        /\ msSigners \in SUBSET Addr
    BY DEF MultisigTypeOK
  <1>3. /\ Cardinality(approvers) \in Nat
        /\ Cardinality(upApprovals[h]) \in Nat
        /\ Cardinality(approvers) <= Cardinality(upApprovals[h])
    BY <1>2, SignersAreFinite, FewerSigners
  <1>4. MultisigTypeOK'
    BY <1>1 DEF MultisigTypeOK
  <1>5. GroupWellFormed'
    BY DEF GroupWellFormed
  <1>6. ASSUME InstallsArePaidFor PROVE InstallsArePaidFor'
    <2> SUFFICES ASSUME NEW g \in Hash
                 PROVE  spent'[g] + Cardinality(upApprovals'[g]) <= signatures'[g]
      BY DEF InstallsArePaidFor
    <2>1. CASE g # h
      BY <1>6, <2>1 DEF InstallsArePaidFor, MultisigTypeOK
    <2>2. CASE g = h
      <3>1. Cardinality(upApprovals'[g]) = 0
        BY <2>2, FS_EmptySet DEF MultisigTypeOK
      <3>2. spent'[g] = spent[h] + msThreshold /\ signatures'[g] = signatures[h]
        BY <2>2 DEF MultisigTypeOK
      <3>3. spent[h] + Cardinality(upApprovals[h]) <= signatures[h]
        BY <1>6 DEF InstallsArePaidFor
      <3>4. spent[h] \in Nat /\ signatures[h] \in Nat
        BY DEF MultisigTypeOK
      <3> QED BY <1>1, <1>3, <3>1, <3>2, <3>3, <3>4
    <2> QED BY <2>1, <2>2
  <1>7. QuorumStep
    <2> SUFFICES ASSUME NEW g \in Hash, spent'[g] # spent[g]
                 PROVE  /\ Cardinality(upApprovals[g] \cap msSigners) >= msThreshold
                        /\ Cardinality(msSigners) >= 2
                             => Cardinality(upApprovals[g] \cap msSigners) >= 2
      BY DEF QuorumStep
    <2>1. g = h
      BY DEF MultisigTypeOK
    <2>2. Cardinality(msSigners) >= 2 => msThreshold >= 2
      BY <1>1 DEF GroupWellFormed
    <2> QED BY <1>1, <1>3, <2>1, <2>2
  <1>8. RotationStep
    BY DEF RotationStep
  <1> QED BY <1>4, <1>5, <1>6, <1>7, <1>8

\* A rotation stores a valid configuration that the group it replaces approved.
LEMMA RotationInv ==
    ASSUME MultisigAssumption, GroupInv,
           NEW c \in [signers : SUBSET Addr, threshold : Nat],
           store_authorized(msSigners, msThreshold, cfgApprovals, c),
           cfgApprovals' = store_approvals(msSigners, cfgApprovals, c),
           msSigners' = c.signers,
           msThreshold' = c.threshold,
           UNCHANGED upgradeVars
    PROVE  GroupKept
  <1> USE DEF GroupInv, GroupKept, upgradeVars
  <1>1. /\ Cardinality(c.signers) \in Nat
        /\ c.signers # {}
        /\ c.threshold >= (IF Cardinality(c.signers) >= 2 THEN 2 ELSE 1)
        /\ c.threshold <= Cardinality(c.signers)
    BY SignersAreFinite DEF store_authorized, validate_multisig_config
  <1>2. MultisigTypeOK'
    BY DEF MultisigTypeOK, store_approvals
  <1>3. GroupWellFormed'
    BY <1>1 DEF GroupWellFormed
  <1>4. (InstallsArePaidFor => InstallsArePaidFor') /\ QuorumStep
    BY DEF InstallsArePaidFor, QuorumStep
  <1>5. RotationStep
    <2>1. c = Config(msSigners', msThreshold')
      BY DEF Config
    <2>2. msSigners # {} =>
            Cardinality({a \in msSigners : <<c, a>> \in cfgApprovals}) >= msThreshold
      BY DEF store_authorized, config_approvers
    <2> QED BY <2>1, <2>2 DEF RotationStep
  <1> QED BY <1>2, <1>3, <1>4, <1>5

\* A step that leaves the group and its upgrades alone.
LEMMA MultisigFrame ==
    ASSUME GroupInv, UNCHANGED multisigVars
    PROVE  GroupKept
  BY DEF GroupInv, GroupKept, MultisigTypeOK, GroupWellFormed, InstallsArePaidFor,
         QuorumStep, RotationStep, multisigVars, groupVars, upgradeVars

\* An approval of a configuration is stored under it.
LEMMA ConfigApprovalInv ==
    ASSUME MultisigAssumption, GroupInv, NEW c \in Configs, NEW a \in Addr,
           approve_multisig_config(c, a)
    PROVE  GroupKept
  <1> USE DEF GroupInv, GroupKept, approve_multisig_config, upgradeVars
  <1>1. c \in [signers : SUBSET Addr, threshold : Nat]
    BY DEF Configs, Config, MultisigAssumption
  <1>2. MultisigTypeOK'
    BY <1>1 DEF MultisigTypeOK
  <1>3. /\ GroupWellFormed' /\ QuorumStep /\ RotationStep
        /\ InstallsArePaidFor => InstallsArePaidFor'
    BY DEF GroupWellFormed, InstallsArePaidFor, QuorumStep, RotationStep
  <1> QED BY <1>2, <1>3

\* Approving, withdrawing and cancelling move no more approvals than signatures.
LEMMA UpgradeApprovalInv ==
    ASSUME MultisigAssumption, GroupInv, NEW h \in Hash, NEW S \in SUBSET Addr,
           \/ /\ S \subseteq upApprovals[h]
              /\ signatures' = signatures
           \/ \E a \in Addr \ upApprovals[h] :
                /\ S = upApprovals[h] \cup {a}
                /\ signatures' = [signatures EXCEPT ![h] = @ + 1],
           upApprovals' = [upApprovals EXCEPT ![h] = S],
           UNCHANGED <<groupVars, wasm, spent>>
    PROVE  GroupKept
  <1> USE DEF GroupInv, GroupKept, groupVars
  <1>1. MultisigTypeOK'
    BY DEF MultisigTypeOK
  <1>2. ASSUME InstallsArePaidFor PROVE InstallsArePaidFor'
    <2> SUFFICES ASSUME NEW g \in Hash
                 PROVE  spent'[g] + Cardinality(upApprovals'[g]) <= signatures'[g]
      BY DEF InstallsArePaidFor
    <2>1. CASE g # h
      BY <1>2, <2>1 DEF InstallsArePaidFor, MultisigTypeOK
    <2>2. CASE g = h
      <3>1. upApprovals[h] \in SUBSET Addr /\ upApprovals'[h] = S
        BY DEF MultisigTypeOK
      <3>2. /\ Cardinality(upApprovals[h]) \in Nat /\ Cardinality(S) \in Nat
            /\ IsFiniteSet(upApprovals[h])
            /\ spent[h] \in Nat /\ signatures[h] \in Nat
            /\ spent[h] + Cardinality(upApprovals[h]) <= signatures[h]
        BY <1>2, <3>1, SignersAreFinite DEF InstallsArePaidFor, MultisigTypeOK
      <3>3. CASE S \subseteq upApprovals[h] /\ signatures' = signatures
        <4>1. Cardinality(S) <= Cardinality(upApprovals[h])
          BY <3>1, <3>3, FewerSigners
        <4> QED BY <2>2, <3>1, <3>2, <3>3, <4>1
      <3>4. ASSUME NEW a \in Addr \ upApprovals[h],
                   S = upApprovals[h] \cup {a},
                   signatures' = [signatures EXCEPT ![h] = @ + 1]
            PROVE  spent'[g] + Cardinality(upApprovals'[g]) <= signatures'[g]
        <4>1. Cardinality(S) = Cardinality(upApprovals[h]) + 1
          BY <3>2, <3>4, FS_AddElement
        <4>2. signatures'[h] = signatures[h] + 1
          BY <3>4 DEF MultisigTypeOK
        <4> QED BY <2>2, <3>1, <3>2, <4>1, <4>2
      <3> QED BY <3>3, <3>4
    <2> QED BY <2>1, <2>2
  <1>3. GroupWellFormed' /\ QuorumStep /\ RotationStep
    BY DEF GroupWellFormed, QuorumStep, RotationStep
  <1> QED BY <1>1, <1>2, <1>3

\* Every call of the group's own entry points keeps the invariant and has the
\* quorum it needs.
LEMMA GroupCallsInv ==
    ASSUME MultisigAssumption, GroupInv, GroupStep \/ UpgradeStep
    PROVE  GroupKept
  <1>1. ASSUME NEW c \in Configs, set_multisig_config(c)
        PROVE  GroupKept
    <2>1. c \in [signers : SUBSET Addr, threshold : Nat]
      BY DEF Configs, Config, MultisigAssumption
    <2> QED BY <1>1, <2>1, RotationInv DEF set_multisig_config
  <1>2. ASSUME NEW h \in Hash, upgrade(h)
        PROVE  GroupKept
    BY <1>2, InstallationInv DEF upgrade
  <1>3. ASSUME NEW h \in Hash, NEW a \in Addr, approve_upgrade(a, h)
        PROVE  GroupKept
    <2>1. /\ upApprovals[h] \cup {a} \in SUBSET Addr
          /\ upApprovals' = [upApprovals EXCEPT ![h] = upApprovals[h] \cup {a}]
      BY <1>3 DEF approve_upgrade, GroupInv, MultisigTypeOK
    <2> QED BY <1>3, <2>1, UpgradeApprovalInv DEF approve_upgrade
  <1>4. ASSUME NEW h \in Hash, NEW a \in Addr, revoke_upgrade_approval(a, h)
        PROVE  GroupKept
    <2>1. /\ upApprovals[h] \ {a} \in SUBSET Addr
          /\ upApprovals' = [upApprovals EXCEPT ![h] = upApprovals[h] \ {a}]
      BY <1>4 DEF revoke_upgrade_approval, GroupInv, MultisigTypeOK
    <2> QED BY <1>4, <2>1, UpgradeApprovalInv DEF revoke_upgrade_approval
  <1>5. ASSUME NEW h \in Hash, cancel_upgrade(h)
        PROVE  GroupKept
    <2>1. {} \in SUBSET Addr /\ {} \subseteq upApprovals[h]
      OBVIOUS
    <2> QED BY <1>5, <2>1, UpgradeApprovalInv DEF cancel_upgrade
  <1> QED
    BY <1>1, <1>2, <1>3, <1>4, <1>5, ConfigApprovalInv DEF GroupStep, UpgradeStep

\* Every step of the group keeps the invariant and has the quorum it needs.
LEMMA MultisigStepInv ==
    ASSUME MultisigAssumption, MultisigInv, [MultisigNext]_msVars
    PROVE  MultisigInv' /\ QuorumStep /\ RotationStep
  <1>1. CASE UNCHANGED multisigVars
    BY <1>1, MultisigFrame DEF MultisigInv, GroupKept
  <1>2. CASE GroupStep \/ UpgradeStep
    BY <1>2, GroupCallsInv DEF MultisigInv, GroupKept
  <1> QED
    BY <1>1, <1>2 DEF MultisigNext, msVars

-----------------------------------------------------------------------------
(* The theorems.                                                           *)

\* The invariant holds in every reachable state.
THEOREM MultisigInvariant == MultisigSpec => []MultisigInv
  <1>1. MultisigInit => MultisigInv
    BY MultisigAssumption, MultisigInitInv
  <1>2. MultisigInv /\ [MultisigNext]_msVars => MultisigInv'
    BY MultisigAssumption, MultisigStepInv
  <1> QED
    BY <1>1, <1>2, PTL DEF MultisigSpec

\* Type correctness of the group's storage.
THEOREM MultisigTyping == MultisigSpec => []MultisigTypeOK
  <1>1. MultisigInv => MultisigTypeOK
    BY DEF MultisigInv, GroupInv
  <1> QED
    BY <1>1, MultisigInvariant, PTL

\* A configured group can act, and several members never one alone.
THEOREM GroupStaysWellFormed == MultisigSpec => []GroupWellFormed
  <1>1. MultisigInv => GroupWellFormed
    BY DEF MultisigInv, GroupInv
  <1> QED
    BY <1>1, MultisigInvariant, PTL

\* No approve_upgrade call pays for two installations.
THEOREM InstallationsArePaidFor == MultisigSpec => []InstallsArePaidFor
  <1>1. MultisigInv => InstallsArePaidFor
    BY DEF MultisigInv
  <1> QED
    BY <1>1, MultisigInvariant, PTL

\* Every installation finds a quorum of the group of that moment, and every
\* rotation was approved by the group it replaces.
THEOREM QuorumAlwaysDecides == MultisigSpec => QuorumDecides
  <1>1. MultisigInv /\ [MultisigNext]_msVars => [QuorumStep /\ RotationStep]_msVars
    BY MultisigAssumption, MultisigStepInv
  <1> QED
    BY <1>1, MultisigInvariant, PTL DEF MultisigSpec, QuorumDecides

-----------------------------------------------------------------------------
(* The timelock.                                                           *)

\* The inductive invariant.  The last conjunct is about initialize(), which
\* resets the nonce: it does so only before anything can have been queued.
TimelockInv ==
    /\ AccessInv
    /\ TimelockTypeOK
    /\ EntriesSettleOnce
    /\ PairSlippageCapped
    /\ admin = NoAddr => nonce = 0

-----------------------------------------------------------------------------
(* The steps of the router, seen from the access layer.                    *)

\* The arguments of a queued action, by its type.
LEMMA QueuedArguments ==
    ASSUME TimelockAssumption, NEW a \in Queueable
    PROVE  /\ a.type \in AddrActions => a.addr \in Addr
           /\ a.type \in ValueActions => a.value \in Int
           /\ a.type = "SetFeeConfig" => a.value \in Int /\ a.cap \in Int
           /\ a.type = "SetBackupAdmin" => a.addr \in Addr /\ a.timeout \in Timeouts
           /\ a.type \in AddrActions \cup ValueActions
                \cup {"SetFeeConfig", "SetBackupAdmin", "Upgrade", "SetMultisigConfig"}
  BY DEF TimelockAssumption, ActionType, AddrActions, ValueActions

\* A signature that some call requires is that of an address of the model.
LEMMA OfficersAreAddresses ==
    ASSUME AccessAssumption, TimelockAssumption, TimelockInv
    PROVE  /\ admin \in Addr \cup {NoAddr}
           /\ \A r \in Role : require_role(r) \in Addr \cup {NoAddr}
           /\ fee_authority \in Addr \cup {NoAddr}
  <1>1. \A r \in Role : require_role(r) \in Addr \cup {NoAddr}
    BY DEF TimelockInv, AccessInv, AccessTypeOK, require_role
  <1>2. "FeeManager" \in Role
    BY DEF TimelockAssumption
  <1>3. params.governance \in Addr \cup {NoAddr}
    BY DEF TimelockInv, TimelockTypeOK, ParamsType
  <1> QED
    BY <1>1, <1>2, <1>3 DEF TimelockInv, AccessInv, AccessTypeOK, fee_authority

\* A step that writes no key of the access layer is another call to it.
LEMMA OtherCalls ==
    ASSUME NEW who \in Addr \cup {NoAddr}, signer' = who,
           UNCHANGED <<roleVars, switchVars, dmsVars, now>>
    PROVE  AccessNext
  BY DEF AccessNext, OtherStep, other_call

\* Group and upgrade calls leave the access layer alone.
LEMMA GroupStepsAreOther ==
    ASSUME AccessAssumption, TimelockAssumption, TimelockInv,
           GroupStep \/ UpgradeStep
    PROVE  AccessNext
  <1> DEFINE Others(who) == signer' = who /\ UNCHANGED <<roleVars, switchVars, dmsVars, now>>
  <1>1. \E who \in Addr \cup {NoAddr} : Others(who)
    <2>1. CASE GroupStep
      BY <2>1, OfficersAreAddresses
      DEF GroupStep, approve_multisig_config, set_multisig_config, SignedBy
    <2>2. CASE UpgradeStep
      BY <2>2, OfficersAreAddresses
      DEF UpgradeStep, approve_upgrade, revoke_upgrade_approval, cancel_upgrade,
          upgrade, SignedBy
    <2> QED BY <2>1, <2>2
  <1> QED
    BY <1>1, OtherCalls

\* So do the direct setters.
LEMMA SettersAreOther ==
    ASSUME AccessAssumption, TimelockAssumption, TimelockInv, SetterStep
    PROVE  AccessNext
  <1>1. \E who \in Addr \cup {NoAddr} : \E a : Setter(who, a)
    <2> {"SuperAdmin", "FeeManager", "TreasuryManager"} \subseteq Role
      BY DEF AccessAssumption, TimelockAssumption
    <2> QED
      BY OfficersAreAddresses
      DEF SetterStep, set_platform_treasury, set_fee_config, set_fee_bps,
          set_governance, set_min_limit, register_dex, deregister_dex,
          set_max_slippage_bps, set_pair_max_slippage_bps
  <1> QED
    BY <1>1, OtherCalls DEF Setter, SignedBy

\* An executed entry moves the admin key, appoints a backup, or leaves the
\* access layer alone.
LEMMA ExecuteIsAccess ==
    ASSUME AccessAssumption, TimelockAssumption, TimelockInv,
           NEW n \in DOMAIN queue, execute_action(n)
    PROVE  AccessNext
  <1> DEFINE a == queue[n].action
             s == apply_action(Storage, a)
  <1>1. a \in Queueable
    BY DEF TimelockInv, TimelockTypeOK
  <1>2. /\ SignedBy(admin)
        /\ apply_succeeds(Storage, a)
        /\ Commit(s)
        /\ UNCHANGED <<switchVars, hbOperator, now>>
    BY DEF execute_action
  <1> HIDE DEF a
  <1>3. CASE a.type = "TransferAdmin"
    <2>1. /\ a.addr \in Addr
          /\ s = [Storage EXCEPT
                    !.admin = a.addr,
                    !.role = set_role_internal(role, "SuperAdmin", a.addr),
                    !.userRole = set_role_flags(userRole, role, "SuperAdmin", a.addr)]
      BY <1>1, <1>3, QueuedArguments DEF AddrActions, apply_action, Storage
    <2>2. execute_transfer_admin(a.addr)
      BY <1>2, <2>1, ZenonT(30) DEF execute_transfer_admin, Commit, Storage, dmsVars
    <2> QED BY <2>1, <2>2 DEF AccessNext, QueuedStep
  <1>4. CASE a.type = "SetBackupAdmin"
    <2>1. /\ a.addr \in Addr /\ a.timeout \in Timeouts
          /\ backup_args_valid(admin, a.addr, a.timeout)
      BY <1>1, <1>2, <1>4, QueuedArguments DEF apply_succeeds, Storage
    <2>2. /\ s.backup = a.addr /\ s.dmsTimeout = a.timeout
          /\ s.lastHeartbeat = now /\ s.lastAlive = now
          /\ s.admin = admin /\ s.role = role /\ s.userRole = userRole
      BY <1>4 DEF apply_action, Storage
    <2>3. set_backup_admin_internal(a.addr, a.timeout)
      BY <1>2, <2>1, <2>2
      DEF set_backup_admin_internal, apply_set_backup_admin, Commit, roleVars
    <2> QED BY <2>1, <2>3 DEF AccessNext, DmsStep
  <1>5. CASE a.type \notin {"TransferAdmin", "SetBackupAdmin"}
    <2>1. /\ s.admin = admin /\ s.role = role /\ s.userRole = userRole
          /\ s.backup = backup /\ s.dmsTimeout = dmsTimeout
          /\ s.lastHeartbeat = lastHeartbeat /\ s.lastAlive = lastAlive
      <3>1. CASE a.type = "Upgrade"
        BY <3>1 DEF apply_action, Storage
      <3>2. CASE a.type = "SetMultisigConfig"
        BY <3>2 DEF apply_action, Storage
      <3>3. CASE a.type \notin {"Upgrade", "SetMultisigConfig"}
        BY <3>3, <1>5 DEF apply_action, Storage
      <3> QED BY <3>1, <3>2, <3>3
    <2>2. UNCHANGED <<roleVars, switchVars, dmsVars, now>>
      BY <1>2, <2>1 DEF Commit, roleVars, dmsVars
    <2> QED BY <1>2, <2>2, OfficersAreAddresses, OtherCalls DEF SignedBy
  <1> QED
    BY <1>3, <1>4, <1>5

\* Every step of the router is a step of its access layer or none.
LEMMA RouterStepIsAccessStep ==
    ASSUME AccessAssumption, TimelockAssumption, TimelockInv, [RouterNext]_vars
    PROVE  [AccessNext]_accessVars
  <1>1. CASE RouterInitStep
    BY <1>1 DEF RouterInitStep, initialize_router, AccessNext, InitStep
  <1>2. CASE BaseStep
    BY <1>2 DEF BaseStep, AccessNext
  <1>3. CASE GroupStep \/ UpgradeStep
    BY <1>3, GroupStepsAreOther
  <1>4. CASE TimelockStep
    <2>1. CASE \E n \in DOMAIN queue : execute_action(n)
      BY <2>1, ExecuteIsAccess
    <2>2. CASE \/ \E a \in Queueable : queue_action(a)
               \/ \E n \in DOMAIN queue : cancel_action(n)
      BY <2>2, OfficersAreAddresses, OtherCalls
      DEF queue_action, cancel_action, SignedBy
    <2> QED BY <1>4, <2>1, <2>2 DEF TimelockStep
  <1>5. CASE SetterStep
    BY <1>5, SettersAreOther
  <1>6. CASE UNCHANGED vars
    BY <1>6 DEF vars, msVars, accessVars
  <1> QED
    BY <1>1, <1>2, <1>3, <1>4, <1>5, <1>6 DEF RouterNext

-----------------------------------------------------------------------------
(* The invariant.                                                          *)

\* The initial state satisfies the invariant.
LEMMA RouterInitInv ==
    ASSUME AccessAssumption, TimelockAssumption, RouterInit
    PROVE  TimelockInv
  <1>1. AccessInv
    BY AccessInitInv DEF RouterInit
  <1> USE DEF RouterInit, TimelockInit, TimelockAssumption
  <1>2. TimelockTypeOK
    BY DEF TimelockTypeOK, ParamsType
  <1>3. EntriesSettleOnce /\ PairSlippageCapped /\ nonce = 0
    BY DEF EntriesSettleOnce, PairSlippageCapped
  <1> QED BY <1>1, <1>2, <1>3 DEF TimelockInv

\* No call takes the admin key away without handing it to somebody.
LEMMA AdminStays ==
    ASSUME AccessAssumption, [AccessNext]_accessVars, admin # NoAddr
    PROVE  admin' # NoAddr
  <1> USE DEF AccessAssumption, SignedBy, roleVars
  <1>1. CASE InitStep \/ RoleStep \/ QueuedStep
    BY <1>1 DEF InitStep, RoleStep, QueuedStep, initialize, grant_role, revoke_role,
                assign_role, set_admin, transfer_admin, execute_transfer_admin
  <1>2. CASE SwitchStep
    BY <1>2 DEF SwitchStep, emergency_freeze, unfreeze, set_pause_level, set_pause
  <1>3. CASE DmsStep
    BY <1>3 DEF DmsStep, set_backup_admin_internal, remove_backup_admin, ping,
                payment_heartbeat, claim_admin, claim_ready, set_heartbeat_operator,
                remove_heartbeat_operator, renew_heartbeat
  <1>4. CASE OtherStep \/ Tick \/ UNCHANGED accessVars
    BY <1>4 DEF OtherStep, other_call, Tick, accessVars
  <1> QED BY <1>1, <1>2, <1>3, <1>4 DEF AccessNext

\* The ledger clock does not run backwards.
LEMMA ClockAdvances ==
    ASSUME AccessAssumption, AccessInv, [AccessNext]_accessVars
    PROVE  now' >= now /\ now \in Nat /\ now' \in Nat
  <1>1. now \in Nat
    BY DEF AccessInv, AccessTypeOK
  <1>2. now' = now \/ now' = now + 1
    <2>1. CASE InitStep \/ RoleStep \/ QueuedStep
      BY <2>1 DEF InitStep, RoleStep, QueuedStep, initialize, grant_role,
                  revoke_role, assign_role, set_admin, transfer_admin,
                  execute_transfer_admin
    <2>2. CASE SwitchStep
      BY <2>2 DEF SwitchStep, emergency_freeze, unfreeze, set_pause_level, set_pause
    <2>3. CASE DmsStep
      BY <2>3 DEF DmsStep, set_backup_admin_internal, remove_backup_admin, ping,
                  payment_heartbeat, claim_admin, set_heartbeat_operator,
                  remove_heartbeat_operator, renew_heartbeat
    <2>4. CASE OtherStep \/ Tick \/ UNCHANGED accessVars
      BY <2>4 DEF OtherStep, other_call, Tick, accessVars
    <2> QED BY <2>1, <2>2, <2>3, <2>4 DEF AccessNext
  <1> QED BY <1>1, <1>2

\* Writing a parameter keeps the types, and the pair cap when the value of a
\* pair cap is within it.
LEMMA ApplyParamTyped ==
    ASSUME TimelockAssumption, NEW p \in ParamsType, NEW a \in ActionType,
           a.type \in (AddrActions \ {"TransferAdmin"}) \cup ValueActions
                        \cup {"SetFeeConfig"}
    PROVE  /\ apply_param(p, a) \in ParamsType
           /\ apply_param(p, a).pairSlippage
                = IF a.type = "SetPairMaxSlippageBps" THEN a.value
                                                      ELSE p.pairSlippage
  <1> USE DEF apply_param, ParamsType
  <1>1. CASE a.type \in AddrActions \ {"TransferAdmin"}
    <2>1. a.addr \in Addr
      BY <1>1 DEF ActionType, AddrActions, ValueActions
    <2> QED BY <1>1, <2>1 DEF AddrActions
  <1>2. CASE a.type \in ValueActions
    <2>1. a.value \in Int
      BY <1>2 DEF ActionType, AddrActions, ValueActions
    <2> QED BY <1>2, <2>1 DEF ValueActions
  <1>3. CASE a.type = "SetFeeConfig"
    <2>1. a.value \in Int /\ a.cap \in Int
      BY <1>3 DEF ActionType, AddrActions, ValueActions
    <2> QED BY <1>3, <2>1
  <1> QED BY <1>1, <1>2, <1>3

\* The part of the invariant about the queue and the parameters.
QueueInv == TimelockTypeOK /\ EntriesSettleOnce /\ PairSlippageCapped

\* A step that leaves the queue alone and writes typed parameters keeps it,
\* for time only moves on.
LEMMA QueueFrame ==
    ASSUME AccessAssumption, TimelockInv, UNCHANGED timelockVars,
           now \in Nat, now' \in Nat, now' >= now,
           params' \in ParamsType,
           params'.pairSlippage \in (0..MaxPairSlippage) \cup {NoValue}
    PROVE  QueueInv'
  <1>1. TimelockTypeOK'
    BY DEF TimelockInv, TimelockTypeOK, timelockVars
  <1>2. EntriesSettleOnce' /\ PairSlippageCapped'
    BY DEF TimelockInv, EntriesSettleOnce, PairSlippageCapped, timelockVars
  <1> QED BY <1>1, <1>2 DEF QueueInv

\* Removing entries and settling their nonces keeps the accounting.
LEMMA RemoveEntries ==
    ASSUME TimelockInv, NEW N \in SUBSET DOMAIN queue, now' = now,
           queue' = WithoutEntries(N), settled' = settled \cup N, nonce' = nonce
    PROVE  /\ DOMAIN queue' \subseteq Nat
           /\ \A m \in DOMAIN queue' :
                queue'[m] \in [queuedAt : 0..now', action : Queueable]
           /\ settled' \subseteq Nat
           /\ nonce' \in 0..MaxNonce
           /\ EntriesSettleOnce'
  <1>1. /\ DOMAIN queue' = DOMAIN queue \ N
        /\ \A m \in DOMAIN queue' : queue'[m] = queue[m]
    BY DEF WithoutEntries
  <1> QED
    BY <1>1 DEF TimelockInv, TimelockTypeOK, EntriesSettleOnce

\* The same of one entry.
LEMMA RemoveEntry ==
    ASSUME TimelockInv, NEW n \in DOMAIN queue, now' = now,
           queue' = WithoutEntries({n}), settled' = settled \cup {n}, nonce' = nonce
    PROVE  /\ DOMAIN queue' \subseteq Nat
           /\ \A m \in DOMAIN queue' :
                queue'[m] \in [queuedAt : 0..now', action : Queueable]
           /\ settled' \subseteq Nat
           /\ nonce' \in 0..MaxNonce
           /\ EntriesSettleOnce'
  <1>1. {n} \in SUBSET DOMAIN queue
    OBVIOUS
  <1> QED BY <1>1, RemoveEntries

\* queue_action hands out the next nonce.
LEMMA QueueActionInv ==
    ASSUME AccessAssumption, TimelockAssumption, TimelockInv,
           NEW a \in Queueable, queue_action(a)
    PROVE  QueueInv'
  <1>1. /\ DOMAIN queue' = DOMAIN queue \cup {nonce + 1}
        /\ queue'[nonce + 1] = [queuedAt |-> now, action |-> a]
        /\ \A m \in DOMAIN queue \ {nonce + 1} : queue'[m] = queue[m]
        /\ nonce' = nonce + 1 /\ nonce < MaxNonce
        /\ UNCHANGED <<now, params, settled>>
    BY DEF queue_action
  <1>2. now \in Nat /\ nonce \in Nat /\ MaxNonce \in Nat
    BY DEF TimelockAssumption, TimelockInv, TimelockTypeOK, AccessInv, AccessTypeOK
  <1>3. TimelockTypeOK'
    BY <1>1, <1>2 DEF TimelockInv, TimelockTypeOK
  <1>4. EntriesSettleOnce'
    BY <1>1, <1>2 DEF TimelockInv, EntriesSettleOnce
  <1>5. PairSlippageCapped'
    BY <1>1 DEF TimelockInv, PairSlippageCapped
  <1> QED BY <1>3, <1>4, <1>5 DEF QueueInv

\* execute_action settles its entry and writes a validated parameter.
LEMMA ExecuteActionInv ==
    ASSUME AccessAssumption, TimelockAssumption, TimelockInv,
           NEW n \in DOMAIN queue, execute_action(n)
    PROVE  QueueInv'
  <1> DEFINE a == queue[n].action
             s == apply_action(Storage, a)
  <1>1. a \in Queueable /\ a \in ActionType
    BY DEF TimelockInv, TimelockTypeOK, TimelockAssumption
  <1>2. /\ queue' = WithoutEntries({n}) /\ settled' = settled \cup {n}
        /\ UNCHANGED <<now, nonce>>
        /\ params' = s.params
        /\ validate_queued_action(Storage, a)
    BY DEF execute_action, Commit, Ready
  <1>3. params \in ParamsType
    BY DEF TimelockInv, TimelockTypeOK
  <1> HIDE DEF a
  <1>4. params' \in ParamsType /\ PairSlippageCapped'
    <2>1. CASE a.type \in {"TransferAdmin", "SetBackupAdmin", "Upgrade",
                           "SetMultisigConfig"}
      <3>1. s.params = params
        <4>1. CASE a.type = "TransferAdmin"
          BY <4>1 DEF apply_action, Storage
        <4>2. CASE a.type = "SetBackupAdmin"
          BY <4>2 DEF apply_action, Storage
        <4>3. CASE a.type = "Upgrade"
          BY <4>3 DEF apply_action, Storage
        <4>4. CASE a.type = "SetMultisigConfig"
          BY <4>4 DEF apply_action, Storage
        <4> QED BY <2>1, <4>1, <4>2, <4>3, <4>4
      <3> QED BY <1>2, <1>3, <3>1 DEF TimelockInv, PairSlippageCapped
    <2>2. CASE a.type \notin {"TransferAdmin", "SetBackupAdmin", "Upgrade",
                              "SetMultisigConfig"}
      <3>1. s.params = apply_param(params, a)
        BY <2>2 DEF apply_action, Storage
      <3>2. a.type \in (AddrActions \ {"TransferAdmin"}) \cup ValueActions
                         \cup {"SetFeeConfig"}
        BY <1>1, <2>2, QueuedArguments
      <3>3. a.type = "SetPairMaxSlippageBps" => a.value \in 0..MaxPairSlippage
        BY <1>2 DEF validate_queued_action
      <3> QED
        BY <1>1, <1>2, <1>3, <3>1, <3>2, <3>3, ApplyParamTyped
        DEF TimelockInv, PairSlippageCapped
    <2> QED BY <2>1, <2>2
  <1>5. TimelockTypeOK' /\ EntriesSettleOnce'
    BY <1>2, <1>4, RemoveEntry DEF TimelockTypeOK
  <1> QED BY <1>4, <1>5 DEF QueueInv

\* The direct setters write typed values, and pair caps within the limit.
LEMMA SetterInv ==
    ASSUME AccessAssumption, TimelockAssumption, TimelockInv, SetterStep
    PROVE  QueueInv'
  <1> DEFINE Direct == {x \in ActionType :
                 /\ x.type \in (AddrActions \ {"TransferAdmin"}) \cup ValueActions
                                 \cup {"SetFeeConfig"}
                 /\ x.type = "SetPairMaxSlippageBps" => x.value \in 0..MaxPairSlippage}
  <1>1. \E who, x : x \in Direct /\ Setter(who, x)
    <2>1. \A x \in Addr, t \in AddrActions \ {"TransferAdmin"} :
            [type |-> t, addr |-> x] \in Direct
      BY DEF ActionType, AddrActions, ValueActions
    <2>2. \A v \in Int, t \in ValueActions \ {"SetPairMaxSlippageBps"} :
            [type |-> t, value |-> v] \in Direct
      BY DEF ActionType, AddrActions, ValueActions
    <2>3. \A v \in 0..MaxPairSlippage :
            [type |-> "SetPairMaxSlippageBps", value |-> v] \in Direct
      BY DEF ActionType, AddrActions, ValueActions
    <2>4. \A v, w \in Int : [type |-> "SetFeeConfig", value |-> v, cap |-> w] \in Direct
      BY DEF ActionType, AddrActions, ValueActions
    <2>5. Amounts \subseteq Int
      BY DEF TimelockAssumption
    <2> HIDE DEF Direct
    <2>6. CASE \E x \in Addr : \/ set_platform_treasury(x) \/ set_governance(x)
                               \/ register_dex(x) \/ deregister_dex(x)
      BY <2>1, <2>6 DEF set_platform_treasury, set_governance, register_dex,
                        deregister_dex, AddrActions
    <2>7. CASE \E v \in Amounts : \/ set_fee_bps(v) \/ set_min_limit(v)
                                  \/ set_max_slippage_bps(v)
      BY <2>2, <2>5, <2>7 DEF set_fee_bps, set_min_limit, set_max_slippage_bps,
                              ValueActions
    <2>8. CASE \E v \in Amounts : set_pair_max_slippage_bps(v)
      BY <2>3, <2>8 DEF set_pair_max_slippage_bps
    <2>9. CASE \E v, w \in Amounts : set_fee_config(v, w)
      BY <2>4, <2>5, <2>9 DEF set_fee_config
    <2> QED BY <2>6, <2>7, <2>8, <2>9 DEF SetterStep
  <1>2. PICK who, x : x \in Direct /\ Setter(who, x)
    BY <1>1
  <1>3. params' \in ParamsType /\ PairSlippageCapped'
    BY <1>2, ApplyParamTyped
    DEF Setter, TimelockInv, TimelockTypeOK, PairSlippageCapped
  <1>4. UNCHANGED timelockVars /\ now' = now /\ now \in Nat
    BY <1>2 DEF Setter, TimelockInv, AccessInv, AccessTypeOK
  <1> QED
    BY <1>3, <1>4, QueueFrame DEF PairSlippageCapped

\* Every step of the router preserves the invariant.
LEMMA RouterStepInv ==
    ASSUME AccessAssumption, TimelockAssumption, TimelockInv, [RouterNext]_vars
    PROVE  TimelockInv'
  <1>1. [AccessNext]_accessVars
    BY RouterStepIsAccessStep
  <1>2. AccessInv'
    BY <1>1, AccessStepInv DEF TimelockInv
  <1>3. now' >= now /\ now \in Nat /\ now' \in Nat
    BY <1>1, ClockAdvances DEF TimelockInv
  <1>4. params \in ParamsType /\ PairSlippageCapped
    BY DEF TimelockInv, TimelockTypeOK
  <1>5. CASE RouterInitStep
    <2>1. PICK a, treasury \in Addr, bps, cap \in Amounts :
            initialize_router(a, treasury, bps, cap, MaxSlippage \div 10)
      BY <1>5 DEF RouterInitStep
    <2>2. UNCHANGED timelockVars
      BY <2>1 DEF initialize_router, initialize, TimelockInv, timelockVars
    <2>3. /\ bps \in Int /\ cap \in Int /\ MaxSlippage \div 10 \in Int
      BY DEF TimelockAssumption
    <2>4. params' \in ParamsType /\ params'.pairSlippage = params.pairSlippage
      BY <1>4, <2>1, <2>3 DEF initialize_router, ParamsType
    <2>5. QueueInv'
      BY <1>3, <1>4, <2>2, <2>4, QueueFrame DEF PairSlippageCapped
    <2>6. nonce' = 0
      BY <2>1 DEF initialize_router
    <2> QED BY <1>2, <2>5, <2>6 DEF QueueInv, TimelockInv
  <1>6. CASE ~RouterInitStep
    <2>1. QueueInv'
      <3>1. CASE UNCHANGED <<timelockVars, params>>
        BY <1>3, <1>4, <3>1, QueueFrame DEF PairSlippageCapped
      <3>2. CASE TimelockStep
        <4>1. ASSUME NEW n \in DOMAIN queue, cancel_action(n) PROVE QueueInv'
          BY <4>1, <1>4, RemoveEntry
          DEF cancel_action, QueueInv, TimelockTypeOK, PairSlippageCapped
        <4> QED BY <3>2, <4>1, QueueActionInv, ExecuteActionInv DEF TimelockStep
      <3>3. CASE SetterStep
        BY <3>3, SetterInv
      <3>4. CASE UNCHANGED vars
        BY <1>3, <1>4, <3>4, QueueFrame DEF PairSlippageCapped, vars
      <3> QED BY <1>6, <3>1, <3>2, <3>3, <3>4 DEF RouterNext
    <2>2. admin' = NoAddr => nonce' = 0
      <3> SUFFICES ASSUME admin' = NoAddr PROVE nonce' = 0
        OBVIOUS
      <3>1. admin = NoAddr /\ nonce = 0
        BY <1>1, AdminStays DEF TimelockInv
      <3>2. nonce' = nonce \/ admin # NoAddr
        BY <1>6 DEF RouterNext, TimelockStep, SetterStep, queue_action, execute_action,
                    cancel_action, SignedBy, Setter, set_platform_treasury,
                    set_fee_config, set_fee_bps, set_governance, set_min_limit,
                    register_dex, deregister_dex, set_max_slippage_bps,
                    set_pair_max_slippage_bps, timelockVars, vars
      <3> QED BY <3>1, <3>2
    <2> QED BY <1>2, <2>1, <2>2 DEF QueueInv, TimelockInv
  <1> QED BY <1>5, <1>6

-----------------------------------------------------------------------------
(* The steps of the router, seen from the upgrade group.                   *)

\* A queued upgrade or rotation meets the checks of the direct one when it is
\* executed; the other actions leave the group alone.
LEMMA ExecuteIsQuorate ==
    ASSUME MultisigAssumption, TimelockAssumption, TimelockInv, GroupInv,
           NEW n \in DOMAIN queue, execute_action(n)
    PROVE  GroupKept
  <1> DEFINE a == queue[n].action
             s == apply_action(Storage, a)
  <1>1. a \in Queueable /\ a \in ActionType
    BY DEF TimelockInv, TimelockTypeOK, TimelockAssumption
  <1>2. /\ validate_queued_action(Storage, a)
        /\ apply_succeeds(Storage, a)
        /\ Commit(s)
        /\ UNCHANGED signatures
    BY DEF execute_action, Ready
  <1> HIDE DEF a
  <1>3. CASE a.type = "Upgrade"
    <2>1. a.hash \in Hash
      BY <1>1, <1>3 DEF ActionType, AddrActions, ValueActions
    <2>2. require_upgrade_authorized(msSigners, msThreshold, upApprovals[a.hash])
      BY <1>2, <1>3 DEF validate_queued_action, Storage
    <2>3. /\ s.wasm = a.hash
          /\ s.upApprovals = apply_upgrade(upApprovals, a.hash)
          /\ s.spent = [spent EXCEPT ![a.hash] = @ + msThreshold]
          /\ s.msSigners = msSigners /\ s.msThreshold = msThreshold
          /\ s.cfgApprovals = cfgApprovals
      BY <1>3 DEF apply_action, Storage
    <2>4. UNCHANGED <<groupVars, signatures>>
      BY <1>2, <2>3 DEF Commit, groupVars
    <2> QED BY <1>2, <2>1, <2>2, <2>3, <2>4, InstallationInv DEF Commit
  <1>4. CASE a.type = "SetMultisigConfig"
    <2>1. a.config \in [signers : SUBSET Addr, threshold : Nat]
      BY <1>1, <1>4 DEF ActionType, AddrActions, ValueActions
    <2>2. store_authorized(msSigners, msThreshold, cfgApprovals, a.config)
      BY <1>2, <1>4 DEF apply_succeeds, Storage
    <2>3. /\ s.msSigners = a.config.signers /\ s.msThreshold = a.config.threshold
          /\ s.cfgApprovals = store_approvals(msSigners, cfgApprovals, a.config)
          /\ s.upApprovals = upApprovals /\ s.wasm = wasm /\ s.spent = spent
      BY <1>4 DEF apply_action, Storage
    <2>4. UNCHANGED upgradeVars
      BY <1>2, <2>3 DEF Commit, upgradeVars
    <2> QED BY <1>2, <2>1, <2>2, <2>3, <2>4, RotationInv DEF Commit
  <1>5. CASE a.type \notin {"Upgrade", "SetMultisigConfig"}
    <2>1. /\ s.msSigners = msSigners /\ s.msThreshold = msThreshold
          /\ s.cfgApprovals = cfgApprovals /\ s.upApprovals = upApprovals
          /\ s.wasm = wasm /\ s.spent = spent
      <3>1. CASE a.type = "TransferAdmin"
        BY <3>1 DEF apply_action, Storage
      <3>2. CASE a.type = "SetBackupAdmin"
        BY <3>2 DEF apply_action, Storage
      <3>3. CASE a.type \notin {"TransferAdmin", "SetBackupAdmin"}
        BY <3>3, <1>5 DEF apply_action, Storage
      <3> QED BY <3>1, <3>2, <3>3
    <2>2. UNCHANGED multisigVars
      BY <1>2, <2>1 DEF Commit, multisigVars, groupVars, upgradeVars
    <2> QED BY <2>2, MultisigFrame
  <1> QED
    BY <1>3, <1>4, <1>5

\* Every step of the router keeps the invariant of the group.
LEMMA RouterStepIsQuorate ==
    ASSUME MultisigAssumption, TimelockAssumption, TimelockInv, GroupInv,
           [RouterNext]_vars
    PROVE  GroupKept
  <1>1. CASE RouterInitStep \/ BaseStep \/ UNCHANGED vars
    BY <1>1, MultisigFrame DEF RouterInitStep, initialize_router, BaseStep, vars, msVars
  <1>2. CASE GroupStep \/ UpgradeStep
    BY <1>2, GroupCallsInv
  <1>3. CASE TimelockStep
    <2>1. CASE \/ \E a \in Queueable : queue_action(a)
               \/ \E n \in DOMAIN queue : cancel_action(n)
      BY <2>1, MultisigFrame DEF queue_action, cancel_action
    <2> QED BY <1>3, <2>1, ExecuteIsQuorate DEF TimelockStep
  <1>4. CASE SetterStep
    <2>1. UNCHANGED multisigVars
      BY <1>4 DEF SetterStep, Setter, set_platform_treasury, set_fee_config,
                  set_fee_bps, set_governance, set_min_limit, register_dex,
                  deregister_dex, set_max_slippage_bps, set_pair_max_slippage_bps
    <2> QED BY <2>1, MultisigFrame
  <1> QED
    BY <1>1, <1>2, <1>3, <1>4 DEF RouterNext

-----------------------------------------------------------------------------
(* The theorems.                                                           *)

\* The invariant holds in every reachable state.
THEOREM TimelockInvariant == RouterSpec => []TimelockInv
  <1>1. RouterInit => TimelockInv
    BY AccessAssumption, TimelockAssumption, RouterInitInv
  <1>2. TimelockInv /\ [RouterNext]_vars => TimelockInv'
    BY AccessAssumption, TimelockAssumption, RouterStepInv
  <1> QED
    BY <1>1, <1>2, PTL DEF RouterSpec

\* The router with its timelock implements the access layer: an action that is
\* queued under one admin and executed under another, after any transfers,
\* claims and appointments in between, is still a step the layer allows.
THEOREM RouterImplementsAccess == RouterSpec => AccessSpec
  <1>1. RouterInit => AccessInit
    BY DEF RouterInit
  <1>2. TimelockInv /\ [RouterNext]_vars => [AccessNext]_accessVars
    BY AccessAssumption, TimelockAssumption, RouterStepIsAccessStep
  <1> QED
    BY <1>1, <1>2, TimelockInvariant, PTL DEF RouterSpec, AccessSpec

\* What was proved of the access layer holds of the router with its timelock:
\* one holder per role, and no takeover while there are signs of life.
THEOREM RouterKeepsRoles ==
    RouterSpec => []RoleHasOneHolder /\ []SuperAdminSeated /\ TakeoverNeedsSilence
  BY RouterImplementsAccess, OneHolderPerRole, SuperAdminIsSeated, TakeoverIsSafe

\* No entry of the queue is lost, executed twice, or executed after it was
\* cancelled, and its nonce is never handed out again.
THEOREM EntriesAreSettledOnce == RouterSpec => []EntriesSettleOnce
  <1>1. TimelockInv => EntriesSettleOnce
    BY DEF TimelockInv
  <1> QED
    BY <1>1, TimelockInvariant, PTL

\* Neither the direct setter nor the queue writes a pair cap beyond the limit.
THEOREM PairCapHolds == RouterSpec => []PairSlippageCapped
  <1>1. TimelockInv => PairSlippageCapped
    BY DEF TimelockInv
  <1> QED
    BY <1>1, TimelockInvariant, PTL

\* Type correctness of the queue and of the parameters.
THEOREM TimelockTyping == RouterSpec => []TimelockTypeOK
  <1>1. TimelockInv => TimelockTypeOK
    BY DEF TimelockInv
  <1> QED
    BY <1>1, TimelockInvariant, PTL

\* The group's invariant holds whatever is queued and executed.
THEOREM RouterMultisigInvariant == RouterSpec => []MultisigInv
  <1>1. RouterInit => MultisigInv
    BY MultisigAssumption, MultisigInitInv DEF RouterInit
  <1>2. TimelockInv /\ MultisigInv /\ [RouterNext]_vars => MultisigInv'
    BY MultisigAssumption, TimelockAssumption, RouterStepIsQuorate DEF MultisigInv, GroupKept
  <1> QED
    BY <1>1, <1>2, TimelockInvariant, PTL DEF RouterSpec

\* Routing an upgrade or a rotation through the queue is no way around the
\* quorum.
THEOREM QueuedQuorumDecides == RouterSpec => QuorumDecides
  <1>1. TimelockInv /\ MultisigInv /\ [RouterNext]_vars => [QuorumStep /\ RotationStep]_msVars
    BY MultisigAssumption, TimelockAssumption, RouterStepIsQuorate DEF MultisigInv, GroupKept
  <1> QED
    BY <1>1, TimelockInvariant, RouterMultisigInvariant, PTL
    DEF RouterSpec, QuorumDecides

\* Queued installations are paid for like direct ones.
THEOREM QueuedInstallationsArePaidFor == RouterSpec => []InstallsArePaidFor
  <1>1. MultisigInv => InstallsArePaidFor
    BY DEF MultisigInv
  <1> QED
    BY <1>1, RouterMultisigInvariant, PTL

-----------------------------------------------------------------------------
(***************************************************************************)
(* Batches.  Phase 2 is a loop over storages; what one turn does to a      *)
(* storage is proved for any storage, and then for batches of any length.  *)
(***************************************************************************)

BatchLoop == INSTANCE FoldTheorems WITH Op <- ApplyNext
AloneLoop == INSTANCE FoldTheorems WITH Op <- ExecuteAlone

\* FoldLeft of the two bodies is the loop of FoldTheorems.
LEMMA BatchIsLoop ==
    ASSUME NEW b, NEW s PROVE FoldLeft(ApplyNext, b, s) = BatchLoop!Looped(b, s)
  BY DEF FoldLeft, MapThenFoldSet, BatchLoop!Looped, BatchLoop!IsLoopTable,
         BatchLoop!LoopEntry, ApplyNext, Max, BatchLoop!Highest

LEMMA AloneIsLoop ==
    ASSUME NEW b, NEW s PROVE FoldLeft(ExecuteAlone, b, s) = AloneLoop!Looped(b, s)
  BY DEF FoldLeft, MapThenFoldSet, AloneLoop!Looped, AloneLoop!IsLoopTable,
         AloneLoop!LoopEntry, ExecuteAlone, Max, AloneLoop!Highest

\* But for upgrades, validation looks at the action alone.
LEMMA PlainValidation ==
    ASSUME NEW a, NEW s, NEW r, a.type # "Upgrade", validate_queued_action(s, a)
    PROVE  validate_queued_action(r, a)
  BY DEF validate_queued_action

\* A batch of any length without upgrades, whose entries are valid when it
\* starts, does what executing them one by one would do.
LEMMA PlainBatches ==
    ASSUME NEW n \in Nat, NEW actions, DOMAIN actions = 1..n, NEW start,
           \A i \in 1..n : actions[i].type # "Upgrade"
                           /\ validate_queued_action(Storage, actions[i])
    PROVE  FoldLeft(ExecuteAlone, start, actions) = FoldLeft(ApplyNext, start, actions)
  <1>1. ASSUME NEW i \in 1..n, NEW run
        PROVE  ExecuteAlone(run, actions[i]) = ApplyNext(run, actions[i])
    <2>1. validate_queued_action(run.storage, actions[i])
      BY PlainValidation
    <2> QED BY <2>1 DEF ExecuteAlone, ApplyNext
  <1>2. PICK t : BatchLoop!IsTrace(t, start, actions, n)
                 /\ BatchLoop!Looped(start, actions) = t[n]
    BY BatchLoop!LoopHasTrace
  <1>3. PICK u : AloneLoop!IsTrace(u, start, actions, n)
                 /\ AloneLoop!Looped(start, actions) = u[n]
    BY AloneLoop!LoopHasTrace
  <1> DEFINE V == {i \in Nat : i <= n => u[i] = t[i]}
  <1>4. 0 \in V
    BY <1>2, <1>3 DEF BatchLoop!IsTrace, AloneLoop!IsTrace
  <1>5. ASSUME NEW i \in Nat, i \in V PROVE i + 1 \in V
    <2> SUFFICES ASSUME i + 1 <= n PROVE u[i + 1] = t[i + 1]
      OBVIOUS
    <2>1. i + 1 \in 1..n /\ (i + 1) - 1 = i /\ u[i] = t[i]
      BY <1>5
    <2>2. t[i + 1] = ApplyNext(t[i], actions[i + 1])
      BY <1>2, <2>1 DEF BatchLoop!IsTrace
    <2>3. u[i + 1] = ExecuteAlone(u[i], actions[i + 1])
      BY <1>3, <2>1 DEF AloneLoop!IsTrace
    <2> QED BY <1>1, <2>1, <2>2, <2>3
  <1> HIDE DEF V
  <1>6. n \in V
    BY <1>4, <1>5, NatSetInduction
  <1>7. u[n] = t[n]
    BY <1>6 DEF V
  <1> QED BY <1>2, <1>3, <1>7, BatchIsLoop, AloneIsLoop

\* The property, for every bound on the length of a batch.
LEMMA PlainBatchesAreSequences ==
    ASSUME BatchAssumption PROVE PlainBatchIsSequence
  <1> SUFFICES ASSUME NEW ns \in [1..MaxBatch -> DOMAIN queue],
                      \A i \in DOMAIN ns : Ready(ns[i]) /\ queue[ns[i]].action.type # "Upgrade"
               PROVE  FoldLeft(ExecuteAlone, Running(Storage),
                               [i \in DOMAIN ns |-> queue[ns[i]].action]) = ApplyBatch(ns)
    BY DEF PlainBatchIsSequence
  <1> DEFINE actions == [i \in DOMAIN ns |-> queue[ns[i]].action]
  <1>1. DOMAIN actions = 1..MaxBatch /\ MaxBatch \in Nat
    BY DEF BatchAssumption
  <1>2. \A i \in 1..MaxBatch : /\ actions[i].type # "Upgrade"
                               /\ validate_queued_action(Storage, actions[i])
    BY <1>1 DEF Ready
  <1> HIDE DEF actions
  <1>3. FoldLeft(ExecuteAlone, Running(Storage), actions)
          = FoldLeft(ApplyNext, Running(Storage), actions)
    BY <1>1, <1>2, PlainBatches
  <1> QED BY <1>3 DEF ApplyBatch, actions

-----------------------------------------------------------------------------
(* What every storage of a batch satisfies.                                *)

\* The roles and the dead man's switch of a storage.
SwitchIsWhole(s) ==
    /\ s.backup # NoAddr <=> s.lastHeartbeat # NoTime
    /\ s.backup # NoAddr => s.dmsTimeout # NoTime
    /\ s.dmsTimeout # NoTime => s.dmsTimeout >= MinDmsTimeout
    /\ s.backup # NoAddr => s.lastHeartbeat = s.lastAlive
    /\ s.backup # NoAddr => s.admin # NoAddr
RolesAgree(s) ==
    /\ \A r \in Role, a \in Addr : <<a, r>> \in s.userRole <=> s.role[r] = a
    /\ s.role["SuperAdmin"] # NoAddr
AccessPart(s) ==
    /\ s.admin \in Addr
    /\ s.role \in [Role -> Addr \cup {NoAddr}] /\ s.userRole \subseteq Addr \X Role
    /\ s.backup \in Addr \cup {NoAddr} /\ s.dmsTimeout \in Nat \cup {NoTime}
    /\ s.lastHeartbeat \in (0..now) \cup {NoTime} /\ s.lastAlive \in 0..now
    /\ RolesAgree(s) /\ SwitchIsWhole(s)

\* The upgrade group of a storage.
GroupPart(s) ==
    /\ s.msSigners \subseteq Addr /\ s.msThreshold \in Nat
    /\ s.cfgApprovals \subseteq [signers : SUBSET Addr, threshold : Nat] \X Addr
    /\ s.upApprovals \in [Hash -> SUBSET Addr]
    /\ s.wasm \in Hash \cup {NoHash} /\ s.spent \in [Hash -> Nat]
    /\ s.msSigners # {} =>
          /\ s.msThreshold \in 1..Cardinality(s.msSigners)
          /\ Cardinality(s.msSigners) >= 2 => s.msThreshold >= 2

\* The parameters of a storage.
ParamsPart(s) ==
    /\ s.params \in ParamsType
    /\ s.params.pairSlippage \in (0..MaxPairSlippage) \cup {NoValue}

\* Handing over the admin key.
LEMMA TransferKeepsAccess ==
    ASSUME AccessAssumption, NEW s, AccessPart(s), NEW x \in Addr, NEW t,
           t.admin = x, t.role = set_role_internal(s.role, "SuperAdmin", x),
           t.userRole = set_role_flags(s.userRole, s.role, "SuperAdmin", x),
           t.backup = s.backup, t.dmsTimeout = s.dmsTimeout,
           t.lastHeartbeat = s.lastHeartbeat, t.lastAlive = s.lastAlive
    PROVE  AccessPart(t)
  <1>1. "SuperAdmin" \in Role /\ x # NoAddr
    BY DEF AccessAssumption
  <1>2. s.role \in [Role -> Addr \cup {NoAddr}] /\ s.userRole \subseteq Addr \X Role
    BY DEF AccessPart
  <1>3. /\ t.role \in [Role -> Addr \cup {NoAddr}] /\ t.role["SuperAdmin"] = x
        /\ \A r \in Role : r # "SuperAdmin" => t.role[r] = s.role[r]
        /\ t.userRole \subseteq Addr \X Role
    BY <1>1, <1>2 DEF set_role_internal, set_role_flags
  <1>4. ASSUME NEW r \in Role, NEW a \in Addr
        PROVE  <<a, r>> \in t.userRole <=> t.role[r] = a
    <2>1. <<a, r>> \in s.userRole <=> s.role[r] = a
      BY DEF AccessPart, RolesAgree
    <2> QED BY <1>3, <2>1 DEF set_role_flags
  <1>5. RolesAgree(t)
    BY <1>1, <1>3, <1>4 DEF RolesAgree
  <1>6. SwitchIsWhole(t)
    BY <1>1 DEF AccessPart, SwitchIsWhole
  <1> QED BY <1>3, <1>5, <1>6 DEF AccessPart

\* Appointing a backup.
LEMMA BackupKeepsAccess ==
    ASSUME AccessAssumption, NEW s, AccessPart(s), NEW x \in Addr, NEW d \in Timeouts,
           backup_args_valid(s.admin, x, d), NEW t,
           t.admin = s.admin, t.role = s.role, t.userRole = s.userRole,
           t.backup = x, t.dmsTimeout = d, t.lastHeartbeat = now, t.lastAlive = now,
           now \in Nat
    PROVE  AccessPart(t)
  <1>1. x # NoAddr /\ d \in Nat /\ d >= MinDmsTimeout /\ NoTime \notin Nat /\ NoAddr \notin Addr
    BY DEF AccessAssumption, backup_args_valid
  <1>2. SwitchIsWhole(t)
    BY <1>1 DEF AccessPart, SwitchIsWhole
  <1>3. RolesAgree(t)
    BY DEF AccessPart, RolesAgree
  <1> QED BY <1>1, <1>2, <1>3 DEF AccessPart

\* What the other actions leave.
SameAccess(s, t) ==
    /\ t.admin = s.admin /\ t.role = s.role /\ t.userRole = s.userRole
    /\ t.backup = s.backup /\ t.dmsTimeout = s.dmsTimeout
    /\ t.lastHeartbeat = s.lastHeartbeat /\ t.lastAlive = s.lastAlive
SameGroup(s, t) ==
    /\ t.msSigners = s.msSigners /\ t.msThreshold = s.msThreshold
    /\ t.cfgApprovals = s.cfgApprovals /\ t.upApprovals = s.upApprovals
    /\ t.wasm = s.wasm /\ t.spent = s.spent

\* A part that is left as it was still satisfies its conditions.
LEMMA SamePartsStay ==
    ASSUME NEW s, NEW t
    PROVE  /\ SameAccess(s, t) /\ AccessPart(s) => AccessPart(t)
           /\ SameGroup(s, t) /\ GroupPart(s) => GroupPart(t)
           /\ t.params = s.params /\ ParamsPart(s) => ParamsPart(t)
  <1>1. SameAccess(s, t) /\ AccessPart(s) => AccessPart(t)
    BY DEF SameAccess, AccessPart, RolesAgree, SwitchIsWhole
  <1>2. SameGroup(s, t) /\ GroupPart(s) => GroupPart(t)
    BY DEF SameGroup, GroupPart
  <1> QED BY <1>1, <1>2 DEF ParamsPart

\* A storage has all its keys.
Keys == {"admin", "role", "userRole", "backup", "dmsTimeout", "lastHeartbeat", "lastAlive",
         "msSigners", "msThreshold", "cfgApprovals", "upApprovals", "wasm", "spent", "params"}
IsStorage(s) ==
    /\ s = [k \in Keys |-> s[k]]
    /\ AccessPart(s) /\ GroupPart(s) /\ ParamsPart(s)

\* One action of a batch, on any storage: its validation in phase 1 is needed
\* only for the cap of a pair, which depends on the action alone.
LEMMA ActionKeepsStorage ==
    ASSUME AccessAssumption, MultisigAssumption, TimelockAssumption, now \in Nat,
           NEW s, IsStorage(s), NEW a \in Queueable, apply_succeeds(s, a),
           a.type = "SetPairMaxSlippageBps" => a.value \in 0..MaxPairSlippage
    PROVE  IsStorage(apply_action(s, a))
  <1> DEFINE t == apply_action(s, a)
  <1>1. a \in ActionType
    BY DEF TimelockAssumption
  <1>2. s = [k \in Keys |-> s[k]] /\ AccessPart(s) /\ GroupPart(s) /\ ParamsPart(s)
    BY DEF IsStorage
  <1>3. CASE a.type = "TransferAdmin"
    <2>1. a.addr \in Addr
      BY <1>3, QueuedArguments DEF AddrActions
    <2>2. /\ t = [k \in Keys |-> t[k]] /\ SameGroup(s, t) /\ t.params = s.params
          /\ t.admin = a.addr /\ t.role = set_role_internal(s.role, "SuperAdmin", a.addr)
          /\ t.userRole = set_role_flags(s.userRole, s.role, "SuperAdmin", a.addr)
          /\ t.backup = s.backup /\ t.dmsTimeout = s.dmsTimeout
          /\ t.lastHeartbeat = s.lastHeartbeat /\ t.lastAlive = s.lastAlive
      BY <1>2, <1>3 DEF apply_action, SameGroup, Keys
    <2> HIDE DEF t
    <2>3. AccessPart(t)
      BY <1>2, <2>1, <2>2, TransferKeepsAccess
    <2> QED BY <1>2, <2>2, <2>3, SamePartsStay DEF IsStorage, t
  <1>4. CASE a.type = "SetBackupAdmin"
    <2>1. a.addr \in Addr /\ a.timeout \in Timeouts
      BY <1>4, QueuedArguments
    <2>2. backup_args_valid(s.admin, a.addr, a.timeout)
      BY <1>4 DEF apply_succeeds
    <2>3. /\ t = [k \in Keys |-> t[k]] /\ SameGroup(s, t) /\ t.params = s.params
          /\ t.admin = s.admin /\ t.role = s.role /\ t.userRole = s.userRole
          /\ t.backup = a.addr /\ t.dmsTimeout = a.timeout
          /\ t.lastHeartbeat = now /\ t.lastAlive = now
      BY <1>2, <1>4 DEF apply_action, SameGroup, Keys
    <2> HIDE DEF t
    <2>4. AccessPart(t)
      BY <1>2, <2>1, <2>2, <2>3, BackupKeepsAccess
    <2> QED BY <1>2, <2>3, <2>4, SamePartsStay DEF IsStorage, t
  <1>5. CASE a.type = "Upgrade"
    <2>1. a.hash \in Hash
      BY <1>1, <1>5 DEF ActionType, AddrActions, ValueActions
    <2>2. /\ t = [k \in Keys |-> t[k]] /\ SameAccess(s, t) /\ t.params = s.params
          /\ t.wasm = a.hash /\ t.upApprovals = apply_upgrade(s.upApprovals, a.hash)
          /\ t.spent = [s.spent EXCEPT ![a.hash] = @ + s.msThreshold]
          /\ t.msSigners = s.msSigners /\ t.msThreshold = s.msThreshold
          /\ t.cfgApprovals = s.cfgApprovals
      BY <1>2, <1>5 DEF apply_action, SameAccess, Keys
    <2> HIDE DEF t
    <2>3. s.upApprovals \in [Hash -> SUBSET Addr] /\ s.spent \in [Hash -> Nat] /\ s.msThreshold \in Nat
      BY <1>2 DEF GroupPart
    <2>4. t.upApprovals \in [Hash -> SUBSET Addr] /\ t.spent \in [Hash -> Nat]
      BY <2>1, <2>2, <2>3 DEF apply_upgrade
    <2>5. GroupPart(t)
      BY <1>2, <2>1, <2>2, <2>4 DEF GroupPart
    <2> QED BY <1>2, <2>2, <2>5, SamePartsStay DEF IsStorage, t
  <1>6. CASE a.type = "SetMultisigConfig"
    <2>1. a.config \in [signers : SUBSET Addr, threshold : Nat]
      BY <1>1, <1>6 DEF ActionType, AddrActions, ValueActions
    <2>2. validate_multisig_config(a.config)
      BY <1>6 DEF apply_succeeds, store_authorized
    <2>3. /\ t = [k \in Keys |-> t[k]] /\ SameAccess(s, t) /\ t.params = s.params
          /\ t.msSigners = a.config.signers /\ t.msThreshold = a.config.threshold
          /\ t.cfgApprovals = store_approvals(s.msSigners, s.cfgApprovals, a.config)
          /\ t.wasm = s.wasm /\ t.upApprovals = s.upApprovals /\ t.spent = s.spent
      BY <1>2, <1>6 DEF apply_action, SameAccess, Keys
    <2> HIDE DEF t
    <2>4. Cardinality(a.config.signers) \in Nat
      BY <2>1, SignersAreFinite
    <2>5. t.msThreshold \in 1..Cardinality(t.msSigners)
          /\ (Cardinality(t.msSigners) >= 2 => t.msThreshold >= 2)
      BY <2>1, <2>2, <2>3, <2>4 DEF validate_multisig_config
    <2>6. t.cfgApprovals \subseteq [signers : SUBSET Addr, threshold : Nat] \X Addr
      BY <1>2, <2>3 DEF GroupPart, store_approvals
    <2>7. GroupPart(t)
      BY <1>2, <2>1, <2>3, <2>5, <2>6 DEF GroupPart
    <2> QED BY <1>2, <2>3, <2>7, SamePartsStay DEF IsStorage, t
  <1>7. CASE a.type \notin {"TransferAdmin", "SetBackupAdmin", "Upgrade", "SetMultisigConfig"}
    <2>1. a.type \in (AddrActions \ {"TransferAdmin"}) \cup ValueActions \cup {"SetFeeConfig"}
      BY <1>7, QueuedArguments
    <2>2. /\ t = [k \in Keys |-> t[k]] /\ SameAccess(s, t) /\ SameGroup(s, t)
          /\ t.params = apply_param(s.params, a)
      BY <1>2, <1>7 DEF apply_action, SameAccess, SameGroup, Keys
    <2> HIDE DEF t
    <2>3. ParamsPart(t)
      BY <1>1, <1>2, <2>1, <2>2, ApplyParamTyped DEF ParamsPart
    <2> QED BY <1>2, <2>2, <2>3, SamePartsStay DEF IsStorage, t
  <1> QED BY <1>3, <1>4, <1>5, <1>6, <1>7

\* An action that raises the count of a hash's installations installs it.
LEMMA OnlyUpgradesInstall ==
    ASSUME NEW s, IsStorage(s), NEW a, NEW h \in Hash,
           apply_action(s, a).spent[h] # s.spent[h]
    PROVE  a.type = "Upgrade" /\ a.hash = h
  <1> DEFINE t == apply_action(s, a)
  <1>1. s = [k \in Keys |-> s[k]] /\ s.spent \in [Hash -> Nat]
    BY DEF IsStorage, GroupPart
  <1>2. CASE a.type = "TransferAdmin"
    BY <1>1, <1>2 DEF apply_action, Keys
  <1>3. CASE a.type = "SetBackupAdmin"
    BY <1>1, <1>3 DEF apply_action, Keys
  <1>4. CASE a.type = "Upgrade"
    <2>1. t.spent = [s.spent EXCEPT ![a.hash] = @ + s.msThreshold]
      BY <1>1, <1>4 DEF apply_action, Keys
    <2> HIDE DEF t
    <2>2. t.spent[h] # s.spent[h]
      BY DEF t
    <2> QED BY <1>1, <1>4, <2>1, <2>2
  <1>5. CASE a.type = "SetMultisigConfig"
    BY <1>1, <1>5 DEF apply_action, Keys
  <1>6. CASE a.type \notin {"TransferAdmin", "SetBackupAdmin", "Upgrade", "SetMultisigConfig"}
    BY <1>1, <1>6 DEF apply_action, Keys
  <1> QED BY <1>2, <1>3, <1>4, <1>5, <1>6

\* The storage a contract with an admin starts a batch from.
LEMMA StorageIsWhole ==
    ASSUME AccessAssumption, TimelockInv, GroupInv, admin # NoAddr
    PROVE  IsStorage(Storage)
  <1>1. Storage = [k \in Keys |-> Storage[k]]
    BY DEF Storage, Keys
  <1>2. RolesAgree(Storage) /\ SwitchIsWhole(Storage)
    BY DEF RolesAgree, SwitchIsWhole, Storage, TimelockInv, AccessInv, FlagsMatchRegistry,
           SuperAdminSeated, AdminIfArmed, SwitchArmedWhole, ClockCountsFromLife
  <1>3. AccessPart(Storage)
    BY <1>2 DEF AccessPart, Storage, TimelockInv, AccessInv, AccessTypeOK
  <1>4. GroupPart(Storage)
    BY DEF GroupPart, Storage, GroupInv, MultisigTypeOK, GroupWellFormed
  <1>5. ParamsPart(Storage)
    BY DEF ParamsPart, Storage, TimelockInv, TimelockTypeOK, PairSlippageCapped
  <1> QED BY <1>1, <1>3, <1>4, <1>5 DEF IsStorage

\* Phase 2 on validated actions, in any number and order.
LEMMA BatchKeepsStorage ==
    ASSUME AccessAssumption, MultisigAssumption, TimelockAssumption, now \in Nat,
           NEW s, IsStorage(s), NEW n \in Nat, NEW actions, DOMAIN actions = 1..n,
           \A i \in 1..n : /\ actions[i] \in Queueable
                           /\ actions[i].type = "SetPairMaxSlippageBps"
                                => actions[i].value \in 0..MaxPairSlippage,
           NEW end, end = FoldLeft(ApplyNext, Running(s), actions).storage
    PROVE  /\ IsStorage(end)
           /\ \A h \in Hash : end.spent[h] # s.spent[h] =>
                \E i \in 1..n : actions[i].type = "Upgrade" /\ actions[i].hash = h
  <1> DEFINE Installs(h) == \E i \in 1..n : actions[i].type = "Upgrade" /\ actions[i].hash = h
             Good(r) == /\ IsStorage(r)
                        /\ \A h \in Hash : r.spent[h] # s.spent[h] => Installs(h)
  <1>1. ASSUME NEW run, Good(run.storage), NEW i \in 1..n
        PROVE  Good(ApplyNext(run, actions[i]).storage)
    <2> DEFINE a == actions[i]
               r == run.storage
    <2>1. CASE run.ok /\ apply_succeeds(r, a)
      <3>1. ApplyNext(run, a).storage = apply_action(r, a)
        BY <2>1 DEF ApplyNext, Running
      <3>2. IsStorage(apply_action(r, a))
        BY <1>1, <2>1, ActionKeepsStorage
      <3>3. ASSUME NEW h \in Hash, apply_action(r, a).spent[h] # s.spent[h]
            PROVE  Installs(h)
        <4>1. CASE apply_action(r, a).spent[h] # r.spent[h]
          BY <1>1, <4>1, OnlyUpgradesInstall
        <4>2. CASE apply_action(r, a).spent[h] = r.spent[h]
          BY <1>1, <3>3, <4>2
        <4> QED BY <4>1, <4>2
      <3> QED BY <3>1, <3>2, <3>3
    <2>2. CASE ~(run.ok /\ apply_succeeds(r, a))
      BY <1>1, <2>2 DEF ApplyNext, Failed
    <2> QED BY <2>1, <2>2
  <1>2. Good(s)
    OBVIOUS
  <1> HIDE DEF Good
  <1>3. PICK t : BatchLoop!IsTrace(t, Running(s), actions, n)
                 /\ BatchLoop!Looped(Running(s), actions) = t[n]
    BY BatchLoop!LoopHasTrace
  <1> DEFINE V == {i \in Nat : i <= n => Good(t[i].storage)}
  <1>4. 0 \in V
    BY <1>2, <1>3 DEF BatchLoop!IsTrace, Running
  <1>5. ASSUME NEW i \in Nat, i \in V PROVE i + 1 \in V
    <2> SUFFICES ASSUME i + 1 <= n PROVE Good(t[i + 1].storage)
      OBVIOUS
    <2>1. i + 1 \in 1..n /\ (i + 1) - 1 = i /\ Good(t[i].storage)
      BY <1>5
    <2>2. t[i + 1] = ApplyNext(t[i], actions[i + 1])
      BY <1>3, <2>1 DEF BatchLoop!IsTrace
    <2> QED BY <1>1, <2>1, <2>2
  <1> HIDE DEF V
  <1>6. n \in V
    BY <1>4, <1>5, NatSetInduction
  <1>7. Good(t[n].storage)
    BY <1>6 DEF V
  <1>8. end = t[n].storage
    BY <1>3, BatchIsLoop
  <1> QED BY <1>7, <1>8 DEF Good

-----------------------------------------------------------------------------
(* The step.                                                               *)

\* What phase 1 has seen of a batch is enough for every turn of phase 2.
LEMMA BatchIsValidated ==
    ASSUME AccessAssumption, MultisigAssumption, TimelockAssumption,
           TimelockInv, GroupInv,
           NEW k \in Nat, NEW ns \in [1..k -> DOMAIN queue], execute_batch_actions(ns)
    PROVE  /\ IsStorage(ApplyBatch(ns).storage)
           /\ \A h \in Hash : ApplyBatch(ns).storage.spent[h] # spent[h] =>
                \E i \in 1..k : /\ queue[ns[i]].action.type = "Upgrade"
                                /\ queue[ns[i]].action.hash = h
                                /\ Ready(ns[i])
  <1> DEFINE actions == [i \in DOMAIN ns |-> queue[ns[i]].action]
             end == ApplyBatch(ns).storage
  <1>1. DOMAIN actions = 1..k /\ \A i \in 1..k : actions[i] = queue[ns[i]].action
    OBVIOUS
  <1>2. \A i \in 1..k : Ready(ns[i]) /\ actions[i] \in Queueable
    BY DEF execute_batch_actions, TimelockInv, TimelockTypeOK
  <1>3. \A i \in 1..k : actions[i].type = "SetPairMaxSlippageBps"
                          => actions[i].value \in 0..MaxPairSlippage
    BY <1>1, <1>2 DEF Ready, validate_queued_action
  <1>4. IsStorage(Storage) /\ Storage.spent = spent
    <2>1. admin # NoAddr
      BY DEF execute_batch_actions, SignedBy
    <2> QED BY <2>1, StorageIsWhole DEF Storage
  <1>5. now \in Nat
    BY DEF TimelockInv, AccessInv, AccessTypeOK
  <1>6. end = FoldLeft(ApplyNext, Running(Storage), actions).storage
    BY DEF ApplyBatch
  <1> HIDE DEF actions, end
  <1>7. /\ IsStorage(end)
        /\ \A h \in Hash : end.spent[h] # Storage.spent[h] =>
             \E i \in 1..k : actions[i].type = "Upgrade" /\ actions[i].hash = h
    BY <1>1, <1>2, <1>3, <1>4, <1>5, <1>6, BatchKeepsStorage
  <1> QED BY <1>1, <1>2, <1>4, <1>7 DEF end

\* The ledger is left with a whole storage.
LEMMA CommitKeepsParts ==
    ASSUME AccessAssumption, AccessInv, admin # NoAddr, NEW s, IsStorage(s), Commit(s),
           signer' = admin, UNCHANGED <<switchVars, hbOperator, now, signatures>>,
           signatures \in [Hash -> Nat]
    PROVE  /\ AccessInv' /\ admin' # NoAddr /\ GroupInv'
           /\ params' \in ParamsType /\ PairSlippageCapped'
  <1>1. AccessPart(s) /\ GroupPart(s) /\ ParamsPart(s)
    BY DEF IsStorage
  <1>2. /\ FlagsMatchRegistry' /\ SuperAdminSeated' /\ AdminIfArmed'
        /\ SwitchArmedWhole' /\ ClockCountsFromLife'
    BY <1>1 DEF Commit, AccessPart, RolesAgree, SwitchIsWhole, FlagsMatchRegistry,
                SuperAdminSeated, AdminIfArmed, SwitchArmedWhole, ClockCountsFromLife
  <1>3. AccessTypeOK'
    BY <1>1 DEF Commit, AccessPart, AccessInv, AccessTypeOK, switchVars
  <1>4. admin' # NoAddr
    BY <1>1 DEF Commit, AccessPart, AccessAssumption
  <1>5. GroupInv'
    BY <1>1 DEF Commit, GroupPart, GroupInv, MultisigTypeOK, GroupWellFormed
  <1>6. params' \in ParamsType /\ PairSlippageCapped'
    BY <1>1 DEF Commit, ParamsPart, PairSlippageCapped
  <1> QED BY <1>2, <1>3, <1>4, <1>5, <1>6 DEF AccessInv

\* A batch of any length keeps the invariants; a hash it installs, however often
\* and after whatever rotations of the batch, had the quorum of the group the
\* batch found; and the admin who signs it hands over no key but its own.
LEMMA BatchStepInv ==
    ASSUME AccessAssumption, MultisigAssumption, TimelockAssumption,
           TimelockInv, GroupInv,
           NEW k \in Nat, NEW ns \in [1..k -> DOMAIN queue], execute_batch_actions(ns)
    PROVE  TimelockInv' /\ GroupInv' /\ QuorumStep /\ TakeoverStep
  <1> DEFINE s == ApplyBatch(ns).storage
             N == Range(ns)
  <1>1. /\ IsStorage(s)
        /\ \A h \in Hash : s.spent[h] # spent[h] =>
             \E i \in 1..k : /\ queue[ns[i]].action.type = "Upgrade"
                             /\ queue[ns[i]].action.hash = h
                             /\ Ready(ns[i])
    BY BatchIsValidated
  <1>2. /\ Commit(s) /\ signer' = admin /\ admin # NoAddr
        /\ queue' = WithoutEntries(N) /\ settled' = settled \cup N
        /\ UNCHANGED <<switchVars, hbOperator, now, signatures, nonce>>
    BY DEF execute_batch_actions, SignedBy
  <1>3. N \in SUBSET DOMAIN queue
    BY DEF Range
  <1> HIDE DEF s, N
  <1>4. AccessInv /\ signatures \in [Hash -> Nat]
    BY DEF TimelockInv, GroupInv, MultisigTypeOK
  <1>5. /\ AccessInv' /\ admin' # NoAddr /\ GroupInv'
        /\ params' \in ParamsType /\ PairSlippageCapped'
    BY <1>1, <1>2, <1>4, CommitKeepsParts
  <1>6. TimelockTypeOK' /\ EntriesSettleOnce'
    BY <1>2, <1>3, <1>5, RemoveEntries DEF TimelockTypeOK
  <1>7. TimelockInv'
    BY <1>5, <1>6 DEF TimelockInv
  <1>8. QuorumStep
    <2> SUFFICES ASSUME NEW h \in Hash, spent'[h] # spent[h]
                 PROVE  /\ Cardinality(upApprovals[h] \cap msSigners) >= msThreshold
                        /\ Cardinality(msSigners) >= 2
                             => Cardinality(upApprovals[h] \cap msSigners) >= 2
      BY DEF QuorumStep
    <2>1. PICK i \in 1..k : /\ queue[ns[i]].action.type = "Upgrade"
                            /\ queue[ns[i]].action.hash = h
                            /\ Ready(ns[i])
      BY <1>1, <1>2 DEF Commit
    <2>2. require_upgrade_authorized(msSigners, msThreshold, upApprovals[h])
      BY <2>1 DEF Ready, validate_queued_action, Storage
    <2>3. /\ msSigners # {}
          /\ Cardinality(upApprovals[h] \cap msSigners) >= msThreshold
      BY <2>2 DEF require_upgrade_authorized, load_effective_approvals
    <2>4. /\ msThreshold \in Nat
          /\ Cardinality(msSigners) >= 2 => msThreshold >= 2
      BY <2>3 DEF GroupInv, GroupWellFormed, MultisigTypeOK
    <2>5. /\ upApprovals[h] \cap msSigners \in SUBSET Addr
          /\ Cardinality(upApprovals[h] \cap msSigners) \in Nat
      <3>1. upApprovals[h] \cap msSigners \in SUBSET Addr
        BY DEF GroupInv, MultisigTypeOK
      <3> QED BY <3>1, SignersAreFinite
    <2> QED BY <2>3, <2>4, <2>5
  <1>9. TakeoverStep
    BY <1>2 DEF TakeoverStep
  <1> QED BY <1>5, <1>7, <1>8, <1>9

\* The same of every step of a router that executes batches.
LEMMA BatchNextInv ==
    ASSUME AccessAssumption, MultisigAssumption, TimelockAssumption, BatchAssumption,
           TimelockInv, GroupInv, [BatchNext]_vars
    PROVE  TimelockInv' /\ GroupInv' /\ [QuorumStep]_msVars /\ [TakeoverStep]_accessVars
  <1>1. CASE [RouterNext]_vars
    <2>1. TimelockInv' /\ GroupKept
      BY <1>1, RouterStepInv, RouterStepIsQuorate
    <2>2. [TakeoverStep]_accessVars
      BY <1>1, RouterStepIsAccessStep, StepTakesOverSafely DEF TimelockInv
    <2> QED BY <2>1, <2>2 DEF GroupKept
  <1>2. CASE BatchStep
    <2>1. PICK k \in 0..MaxBatch : \E ns \in [1..k -> DOMAIN queue] : execute_batch_actions(ns)
      BY <1>2 DEF BatchStep
    <2>2. k \in Nat
      BY DEF BatchAssumption
    <2> QED BY <2>1, <2>2, BatchStepInv
  <1> QED BY <1>1, <1>2 DEF BatchNext

-----------------------------------------------------------------------------
(* The theorems about batches.                                             *)

\* The invariants of the access layer, the queue and the group survive batches
\* of any length.  InstallsArePaidFor does not: a batch with two upgrades to one
\* hash installs it twice on one set of approvals.
THEOREM BatchInvariant == BatchSpec => [](TimelockInv /\ GroupInv)
  <1>1. RouterInit => TimelockInv /\ GroupInv
    BY AccessAssumption, MultisigAssumption, TimelockAssumption, RouterInitInv,
       MultisigInitInv DEF RouterInit, MultisigInv
  <1>2. TimelockInv /\ GroupInv /\ [BatchNext]_vars => TimelockInv' /\ GroupInv'
    BY AccessAssumption, MultisigAssumption, TimelockAssumption, BatchAssumption, BatchNextInv
  <1> QED
    BY <1>1, <1>2, PTL DEF BatchSpec

\* Batches of transfers, appointments and anything else leave one holder per
\* role and a seated SuperAdmin, and are no way to take the admin key over.
THEOREM BatchesKeepRoles ==
    BatchSpec => []RoleHasOneHolder /\ []SuperAdminSeated /\ TakeoverNeedsSilence
  <1>1. TimelockInv => RoleHasOneHolder /\ SuperAdminSeated
    BY AccessAssumption, InvHasOneHolder DEF TimelockInv, AccessInv
  <1>2. TimelockInv /\ GroupInv /\ [BatchNext]_vars => [TakeoverStep]_accessVars
    BY AccessAssumption, MultisigAssumption, TimelockAssumption, BatchAssumption, BatchNextInv
  <1> QED
    BY <1>1, <1>2, BatchInvariant, PTL DEF BatchSpec, TakeoverNeedsSilence

\* A batch settles each of its entries once, keeps the pair cap, and leaves a
\* group that can act and lets no single member of several act alone.
THEOREM BatchesSettleOnce ==
    BatchSpec => []EntriesSettleOnce /\ []PairSlippageCapped /\ []GroupWellFormed
  <1>1. TimelockInv /\ GroupInv => EntriesSettleOnce /\ PairSlippageCapped /\ GroupWellFormed
    BY DEF TimelockInv, GroupInv
  <1> QED
    BY <1>1, BatchInvariant, PTL

\* Whatever a batch installs had a quorum of the group that the batch found.
THEOREM BatchesNeedQuorum == BatchSpec => [][QuorumStep]_msVars
  <1>1. TimelockInv /\ GroupInv /\ [BatchNext]_vars => [QuorumStep]_msVars
    BY AccessAssumption, MultisigAssumption, TimelockAssumption, BatchAssumption, BatchNextInv
  <1> QED
    BY <1>1, BatchInvariant, PTL DEF BatchSpec

\* "Each nonce is applied exactly as execute_action would apply it" holds of
\* every batch without upgrades.
THEOREM BatchesAreSequences == BatchSpec => []PlainBatchIsSequence
  BY BatchAssumption, PlainBatchesAreSequences, PTL
=============================================================================
