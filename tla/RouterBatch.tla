---------------------------- MODULE RouterBatch ----------------------------
(***************************************************************************)
(* execute_batch_actions (timelock.rs:133-200): several queued actions in  *)
(* one atomic invocation.  Phase 1 checks every entry against the storage  *)
(* the invocation starts from, phase 2 applies them one after another, and *)
(* an error in phase 2 reverts the whole batch.                            *)
(***************************************************************************)
EXTENDS RouterTimelock, SequencesExt

CONSTANT MaxBatch   \* bound on the length of a batch

ASSUME BatchAssumption == MaxBatch \in Nat

\* A storage, or the error that ended phase 2.
Running(s) == [ok |-> TRUE, storage |-> s]
Failed(s) == [ok |-> FALSE, storage |-> s]

\* One turn of phase 2.
ApplyNext(run, a) ==
    IF run.ok /\ apply_succeeds(run.storage, a)
    THEN Running(apply_action(run.storage, a))
    ELSE Failed(run.storage)

\* The storage after the actions of `ns`, in that order.
ApplyBatch(ns) ==
    FoldLeft(ApplyNext, Running(Storage),
             [i \in DOMAIN ns |-> queue[ns[i]].action])

execute_batch_actions(ns) ==
    /\ TimelockOpen
    /\ SignedBy(admin)
    /\ IsInjective(ns)
    /\ \A i \in DOMAIN ns : ns[i] \in DOMAIN queue /\ Ready(ns[i])
    /\ LET end == ApplyBatch(ns)
       IN end.ok /\ Commit(end.storage)
    /\ queue' = WithoutEntries(Range(ns))
    /\ settled' = settled \cup Range(ns)
    /\ UNCHANGED <<switchVars, hbOperator, now, signatures, nonce>>

BatchStep ==
    \E k \in 0..MaxBatch : \E ns \in [1..k -> DOMAIN queue] :
        execute_batch_actions(ns)

BatchNext == RouterNext \/ BatchStep

BatchSpec == RouterInit /\ [][BatchNext]_vars

-----------------------------------------------------------------------------
(* Properties.                                                             *)

\* Executing one queued action by itself, where its turn comes.
ExecuteAlone(run, a) ==
    IF run.ok /\ validate_queued_action(run.storage, a)
    THEN ApplyNext(run, a)
    ELSE Failed(run.storage)

\* "Each nonce is applied exactly as execute_action would apply it"
\* (lib.rs:1040): every batch without an upgrade that would succeed now would
\* succeed entry by entry as well, with the same storage in the end, although
\* phase 1 has looked at the storage before the batch only.  InstallsArePaidFor
\* is the question for batches with upgrades.
PlainBatchIsSequence ==
    \A ns \in [1..MaxBatch -> DOMAIN queue] :
        LET actions == [i \in DOMAIN ns |-> queue[ns[i]].action]
        IN (/\ IsInjective(ns)
            /\ \A i \in DOMAIN ns : Ready(ns[i]) /\ actions[i].type # "Upgrade"
            /\ ApplyBatch(ns).ok)
           => FoldLeft(ExecuteAlone, Running(Storage), actions) = ApplyBatch(ns)
=============================================================================
