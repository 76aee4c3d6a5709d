--------------------------- MODULE MCRouterLimits ---------------------------
(***************************************************************************)
(* RouterLimits for TLC.  Senders only meet in a batch, so two are enough. *)
(* The initial state picks the question.  The windows: one sender may have *)
(* entries of an earlier version (a window opened before or at the         *)
(* upgrade, or a volume without a window), and what is routed does not     *)
(* pass the limiter.  The slots: nobody has such entries, payments of both *)
(* kinds are made, and the admin moves the cap and the exemptions at will. *)
(***************************************************************************)
EXTENDS RouterLimits, FiniteSets, TLC

VARIABLE subject

MCEntries == Addr \X {1, 2}

MCLegacy == {[reset |-> 0, spent |-> 1, volume |-> 2],
             [reset |-> NoTime, spent |-> 0, volume |-> 1]}

\* One sender of the earlier version is enough: what becomes of its entries
\* does not depend on those of another.
Upgraded == {a \in Addr : legacy[a] # NoRecord}

MCInit ==
    /\ LimitsInit
    /\ subject \in {"windows", "slots"}
    /\ Cardinality(Upgraded) <= (IF subject = "windows" THEN 1 ELSE 0)

MCNext ==
    /\ LimitsNext
    /\ subject = "windows" => UNCHANGED <<rateLimit, exempt, rateCounter>>
    /\ subject = "slots" => now' <= Start + 2
    /\ UNCHANGED subject

MCSpec == MCInit /\ [][MCNext]_<<subject, limitsVars>>

AddrSymmetry == Permutations(Addr)
=============================================================================
