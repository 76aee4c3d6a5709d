----------------------------- MODULE MCBackend -----------------------------
(***************************************************************************)
(* The parts of the backend that survive failures of what they call: the   *)
(* outbox, the idempotency keys and the settlement engine.  They share     *)
(* nothing, so one run holds them all: the initial state picks the one     *)
(* that moves.  The engine moves in two ways: runs settle, without Redis,  *)
(* and keys are admitted, with it.                                         *)
(***************************************************************************)
EXTENDS SettlementOutbox, IdempotencyKeys, SettlementEngine, TLC

CONSTANTS w1, w2, i1, i2, i3, q1, q2, p1, p2,
          MaxTroubles   \* bound: what goes wrong with a key

VARIABLES subject, troubles

MCShardOf == (p1 :> 1) @@ (p2 :> 2)

MCInit ==
    /\ subject \in {"outbox", "keys", "settle", "admit"} /\ troubles = 0
    /\ Init /\ IdempotencyInit /\ EngineInit
    /\ hasRedis = (subject = "admit")
    /\ fingerprint[q1] = "a"
    /\ subject # "keys" => fingerprint[q2] = "a"

OutboxMoves == subject = "outbox" /\ Next
KeysMove    == subject = "keys" /\ \E r \in Request : RequestStep(r)
KeysSuffer  == subject = "keys" /\ troubles < MaxTroubles /\ Trouble
KeysRest    == /\ subject = "keys" /\ \A r \in Request : reply[r] # "none"
               /\ UNCHANGED idempotencyVars

\* Calls start in a fixed order, each with one of its keys and payloads.
Enqueued(args) ==
    \E r \in Enqueues : \E a \in args[r] :
        /\ \A q \in Enqueues : q < r => enqueues[q] # NewCall
        /\ enqueuePayment(r, a[1], a[2])

EngineSettles ==
    /\ subject = "settle"
    /\ \/ Enqueued(<<{<<"k1", p1>>}, {<<"k2", p1>>},
                     {<<"k1", p2>>, <<"k3", p1>>, <<"k3", p2>>}>>)
       \/ \E c \in Runs :
             \/ \E s \in Shard : processShard(c, s)
             \/ processor_succeeds(c)
             \/ \E fatal \in BOOLEAN : processor_fails(c, fatal)

EngineAdmits ==
    /\ subject = "admit"
    /\ \/ Enqueued([r \in Enqueues |-> {<<"k1", p1>>} \cup (IF r = 1 THEN {} ELSE {<<"k1", p2>>})])
       \/ \E r \in Enqueues : redis_get(r) \/ redis_answered(r) \/ redis_set(r)
       \/ \E k \in Key : redis_expires(k)
       \/ \E s \in Shard : processShard(1, s)
       \/ processor_succeeds(1)
       \/ engine_restarts

EngineRests ==
    /\ subject \in {"settle", "admit"}
    /\ \A r \in Enqueues : enqueues[r].at \in {"done", "lost"}
    /\ \A s \in Shard : shards[s] = <<>>
    /\ \A c \in Runs : runs[c] = Idle
    /\ UNCHANGED engineVars

MCNext ==
    /\ UNCHANGED subject
    /\ \/ OutboxMoves /\ UNCHANGED <<idempotencyVars, troubles, engineVars>>
       \/ (KeysMove \/ KeysRest) /\ UNCHANGED <<vars, troubles, engineVars>>
       \/ KeysSuffer /\ troubles' = troubles + 1 /\ UNCHANGED <<vars, engineVars>>
       \/ /\ EngineSettles \/ EngineAdmits \/ EngineRests
          /\ UNCHANGED <<vars, idempotencyVars, troubles>>

MCSpec ==
    /\ MCInit
    /\ [][MCNext]_<<subject, troubles, vars, idempotencyVars, engineVars>>
    /\ Fairness
=============================================================================
