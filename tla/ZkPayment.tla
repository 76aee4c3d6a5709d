----------------------------- MODULE ZkPayment -----------------------------
(***************************************************************************)
(* Payments proved in zero knowledge (zk_payment/src/lib.rs).  Anyone      *)
(* submits a proof over a commitment and a nullifier; the contract records *)
(* the payment and burns the nullifier.  The pairing check is a constant:  *)
(* the statements whose proofs it accepts.                                 *)
(***************************************************************************)
EXTENDS Naturals, Sequences

CONSTANTS
    Commitment,     \* field elements a proof is about
    Nullifier,
    Provable,       \* the <<commitment, nullifier>> some proof is valid for
    KeyLengths,     \* lengths of verification_key.ic that are deployed
    MaxSubmits      \* bound on the accepted submissions

ASSUME ZkAssumption ==
    /\ Provable \subseteq Commitment \X Nullifier
    /\ KeyLengths \subseteq Nat
    /\ MaxSubmits \in Nat

VARIABLES
    deployed,       \* DataKey::VerificationKey is there
    nullifiers,     \* DataKey::Nullifier(n) is there
    zkPayments,     \* DataKey::Payment(c) is there
    accepted        \* history: the statements accepted, in their order

zkVars == <<deployed, nullifiers, zkPayments, accepted>>

ZkInit ==
    /\ deployed = FALSE
    /\ nullifiers = {}
    /\ zkPayments = {}
    /\ accepted = <<>>

\* The constructor: alpha, beta, gamma, delta and an ic of three points.
constructor(length) ==
    /\ ~deployed
    /\ length = 3
    /\ deployed' = TRUE
    /\ UNCHANGED <<nullifiers, zkPayments, accepted>>

\* The pairing check of `proof` over the public inputs.  A proof of one
\* statement is no proof of another: the inputs are part of vk_x.
verify_proof(proof, c, n) == proof = <<c, n>> /\ proof \in Provable

\* Mutant: a commitment paid before burns no second nullifier.
burn_nullifier_if_new(c, n) ==
    IF c \in zkPayments THEN nullifiers ELSE nullifiers \cup {n}

burn_nullifier(c, n) == nullifiers \cup {n}

submit(proof, c, n) ==
    /\ Len(accepted) < MaxSubmits
    /\ n \notin nullifiers
    /\ deployed
    /\ verify_proof(proof, c, n)
    /\ nullifiers' = burn_nullifier(c, n)
    /\ zkPayments' = zkPayments \cup {c}
    /\ accepted' = Append(accepted, <<c, n>>)
    /\ UNCHANGED deployed

ZkNext ==
    \/ \E length \in KeyLengths : constructor(length)
    \/ \E proof \in Commitment \X Nullifier, c \in Commitment, n \in Nullifier :
          submit(proof, c, n)

ZkSpec == ZkInit /\ [][ZkNext]_zkVars

-----------------------------------------------------------------------------

\* A nullifier pays once, whatever commitment it comes back with and however
\* many nullifiers the commitment has, and every payment on record was proved
\* (lib.rs:84-118).
NullifiersPayOnce ==
    /\ \A i, j \in DOMAIN accepted : accepted[i][2] = accepted[j][2] => i = j
    /\ \A c \in zkPayments : \E i \in DOMAIN accepted :
          accepted[i][1] = c /\ accepted[i] \in Provable
=============================================================================
