--------------------------- MODULE IdempotencyKeys ---------------------------
(***************************************************************************)
(* Retries of a request under one Idempotency-Key                          *)
(* (middleware/idempotency.js): the record of the key is claimed on a      *)
(* majority of independent Redis instances before the handler runs,        *)
(* replaced by the response when it succeeds and deleted when it fails.    *)
(*                                                                         *)
(* Keys do not interact, so this is one key.  A call of an instance takes  *)
(* effect at a moment of its own; it may fail, before or after it took     *)
(* effect.  Records expire; how long five minutes and 24 hours are does    *)
(* not matter, only whether a claim outlived the attempt that made it.     *)
(***************************************************************************)
EXTENDS Integers, FiniteSets

CONSTANTS
    Client,       \* the Redis instances
    Request,      \* requests that carry the key, each with its random token
    Fingerprint,  \* digests of URL, body and credentials
    RetryCount,   \* retryCount of acquireRedlock
    NoRecord

ASSUME IdempotencyAssumption ==
    /\ IsFiniteSet(Client)
    /\ RetryCount \in Nat
    /\ NoRecord \notin [state : {"pending", "complete"}, by : Request]

VARIABLES
    fingerprint,  \* of each request
    stored,       \* the record at each instance
    step,         \* where each request is
    attempt,      \* attempts of acquireRedlock that failed
    asked,        \* the instances that have yet to answer the call of the step
    locked,       \* lockedClients of the last attempt
    overdue,      \* the last attempt took as long as the claim lasts
    saved,        \* instances that have confirmed the response
    closing,      \* instances that a release for a closed connection is on its way to
    gone,         \* the client has closed the connection
    reply,        \* what the client was answered
    lapsed        \* history: requests that lost a claim or a response to expiry

callVars == <<step, attempt, asked, locked, overdue, saved, closing, gone, reply>>
idempotencyVars == <<fingerprint, stored, callVars, lapsed>>

Steps == {"new", "setting", "undoing", "looking", "running", "saving", "releasing", "refused"}
Replies == {"none", "unavailable", "conflict", "failed", "success", "replay"}

Claim(r) == [state |-> "pending", by |-> r]
Response(r) == [state |-> "complete", by |-> r]
Record == [state : {"pending", "complete"}, by : Request]

\* Mutant: half of the instances will do.
half_quorum == Cardinality(Client) \div 2

quorum == (Cardinality(Client) \div 2) + 1

-----------------------------------------------------------------------------
(* acquireRedlock.                                                         *)

\* An attempt asks all instances at once.
Attempt(r) ==
    /\ step' = [step EXCEPT ![r] = "setting"]
    /\ asked' = [asked EXCEPT ![r] = Client]
    /\ locked' = [locked EXCEPT ![r] = {}]
    /\ overdue' = [overdue EXCEPT ![r] = FALSE]

\* The request arrives; the protection is refused if no instance is ready.
begin(r) ==
    /\ step[r] = "new"
    /\ \/ Attempt(r) /\ UNCHANGED reply
       \/ /\ step' = [step EXCEPT ![r] = "refused"]
          /\ reply' = [reply EXCEPT ![r] = "unavailable"]
          /\ UNCHANGED <<asked, locked, overdue>>
    /\ UNCHANGED <<fingerprint, stored, attempt, saved, closing, gone, lapsed>>

\* The instance c answers the call of the step.
Answers(r, c) == c \in asked[r] /\ asked' = [asked EXCEPT ![r] = @ \ {c}]

\* SET NX.
claimed(r, c) ==
    IF stored[c] = NoRecord THEN [stored EXCEPT ![c] = Claim(r)] ELSE stored

acquireInstanceLock(r, c) ==
    /\ step[r] = "setting"
    /\ Answers(r, c)
    /\ stored' = claimed(r, c)
    /\ locked' = [locked EXCEPT ![r] = IF stored[c] = NoRecord THEN @ \cup {c} ELSE @]
    /\ UNCHANGED <<fingerprint, step, attempt, overdue, saved, closing, gone, reply, lapsed>>

\* All have answered, and a majority said yes in time: or the claims that were
\* made are taken back.
attempt_ends(r) ==
    /\ step[r] = "setting"
    /\ asked[r] = {}
    /\ IF Cardinality(locked[r]) >= quorum /\ ~overdue[r]
       THEN step' = [step EXCEPT ![r] = "running"] /\ UNCHANGED asked
       ELSE /\ step' = [step EXCEPT ![r] = "undoing"]
            /\ asked' = [asked EXCEPT ![r] = locked[r]]
    /\ UNCHANGED <<fingerprint, stored, attempt, locked, overdue, saved, closing, gone, reply, lapsed>>

\* Mutant: whoever holds the claim loses it.
released_any(r, c) == [stored EXCEPT ![c] = NoRecord]

\* releaseScript: deletes the caller's claim only.
released(r, c) ==
    IF stored[c] = Claim(r) THEN [stored EXCEPT ![c] = NoRecord] ELSE stored

undo(r, c) ==
    /\ step[r] = "undoing"
    /\ Answers(r, c)
    /\ stored' = released(r, c)
    /\ UNCHANGED <<fingerprint, step, attempt, locked, overdue, saved, closing, gone, reply, lapsed>>

undone(r) ==
    /\ step[r] = "undoing"
    /\ asked[r] = {}
    /\ step' = [step EXCEPT ![r] = "looking"]
    /\ UNCHANGED <<fingerprint, stored, attempt, asked, locked, overdue, saved, closing, gone, reply, lapsed>>

\* What is answered for a record another request has left.
Existing(r, record) ==
    IF fingerprint[record.by] # fingerprint[r] \/ record.state = "pending"
    THEN "conflict" ELSE "replay"

Refuse(r, answer) ==
    /\ step' = [step EXCEPT ![r] = "refused"]
    /\ reply' = [reply EXCEPT ![r] = answer]
    /\ UNCHANGED <<attempt, asked, locked, overdue>>

\* All instances are asked for their record and the first that has one counts:
\* that is any of them, as those before it may fail to answer.
look(r) ==
    /\ step[r] = "looking"
    /\ \E found \in {stored[c] : c \in Client} \cup {NoRecord} :
          IF attempt[r] < RetryCount
          THEN \/ /\ found # NoRecord /\ found.state = "complete"
                  /\ Refuse(r, Existing(r, found))
               \/ /\ found # NoRecord => found.state # "complete"
                  /\ attempt' = [attempt EXCEPT ![r] = @ + 1]
                  /\ Attempt(r)
                  /\ UNCHANGED reply
          ELSE Refuse(r, IF found = NoRecord THEN "unavailable" ELSE Existing(r, found))
    /\ UNCHANGED <<fingerprint, stored, saved, closing, gone, lapsed>>

-----------------------------------------------------------------------------
(* The handler, and res.send.                                              *)

\* The handler sends a response: a success is saved first, a failure releases
\* the claim first.
handler_sends(r) ==
    /\ step[r] = "running"
    /\ \E next \in {"saving", "releasing"} : step' = [step EXCEPT ![r] = next]
    /\ asked' = [asked EXCEPT ![r] = Client]
    /\ UNCHANGED <<fingerprint, stored, attempt, locked, overdue, saved, closing, gone, reply, lapsed>>

\* The connection closes while the handler runs, which goes on.
close(r) ==
    /\ step[r] = "running"
    /\ ~gone[r]
    /\ gone' = [gone EXCEPT ![r] = TRUE]
    /\ closing' = [closing EXCEPT ![r] = Client]
    /\ UNCHANGED <<fingerprint, stored, step, attempt, asked, locked, overdue, saved, reply, lapsed>>

release_closed(r, c) ==
    /\ c \in closing[r]
    /\ closing' = [closing EXCEPT ![r] = @ \ {c}]
    /\ stored' = released(r, c)
    /\ UNCHANGED <<fingerprint, step, attempt, asked, locked, overdue, saved, gone, reply, lapsed>>

\* An instance serves the calls of a request in their order.
Sent(r, c) == c \notin closing[r] /\ Answers(r, c)

\* The client is answered at most once, and calls that are on their way go on.
Reply(r, answer) == reply' = [reply EXCEPT ![r] = IF @ = "none" THEN answer ELSE @]

\* Mutant: the response is saved whoever holds the claim.
saves_any(r, c) == stored[c] # NoRecord

\* completeScript: replaces the caller's claim only.
saves(r, c) == stored[c] = Claim(r)

completed(r, c) == IF saves(r, c) THEN [stored EXCEPT ![c] = Response(r)] ELSE stored

complete(r, c) ==
    /\ step[r] = "saving"
    /\ Sent(r, c)
    /\ stored' = completed(r, c)
    /\ saved' = [saved EXCEPT ![r] = IF saves(r, c) THEN @ \cup {c} ELSE @]
    /\ UNCHANGED <<fingerprint, step, attempt, locked, overdue, closing, gone, reply, lapsed>>

send_saved(r) ==
    /\ step[r] = "saving"
    /\ asked[r] = {} /\ reply[r] = "none"
    /\ Reply(r, IF Cardinality(saved[r]) >= quorum THEN "success" ELSE "unavailable")
    /\ UNCHANGED <<fingerprint, stored, step, attempt, asked, locked, overdue, saved, closing, gone, lapsed>>

release(r, c) ==
    /\ step[r] = "releasing"
    /\ Sent(r, c)
    /\ stored' = released(r, c)
    /\ UNCHANGED <<fingerprint, step, attempt, locked, overdue, saved, closing, gone, reply, lapsed>>

send_failed(r) ==
    /\ step[r] = "releasing"
    /\ asked[r] = {} /\ reply[r] = "none"
    /\ Reply(r, "failed")
    /\ UNCHANGED <<fingerprint, stored, step, attempt, asked, locked, overdue, saved, closing, gone, lapsed>>

-----------------------------------------------------------------------------
(* What goes wrong.                                                        *)

\* The attempt takes longer than what drift leaves of the claim's time.
attempt_is_slow(r) ==
    /\ step[r] = "setting"
    /\ ~overdue[r]
    /\ overdue' = [overdue EXCEPT ![r] = TRUE]
    /\ UNCHANGED <<fingerprint, stored, step, attempt, asked, locked, saved, closing, gone, reply, lapsed>>

\* What the call of the step does to the instance c.
Effect(r, c) ==
    CASE step[r] = "setting" -> claimed(r, c)
      [] step[r] = "saving" -> completed(r, c)
      [] OTHER -> released(r, c)

\* A call fails, before or after it took effect.  A claim that is not confirmed
\* is not counted, and stays; the response to the client does not wait for the
\* other instances.
call_fails(r, c) ==
    /\ step[r] \in {"setting", "undoing", "saving", "releasing"}
    /\ Sent(r, c)
    /\ stored' \in {stored, Effect(r, c)}
    /\ CASE step[r] = "saving" -> Reply(r, "unavailable")
         [] step[r] = "releasing" -> Reply(r, "failed")
         [] OTHER -> UNCHANGED reply
    /\ UNCHANGED <<fingerprint, step, attempt, locked, overdue, saved, closing, gone, lapsed>>

release_closed_fails(r, c) ==
    /\ c \in closing[r]
    /\ closing' = [closing EXCEPT ![r] = @ \ {c}]
    /\ UNCHANGED <<fingerprint, stored, step, attempt, asked, locked, overdue, saved, gone, reply, lapsed>>

\* A record expires.  A claim that was counted and expires before its attempt
\* ends makes the attempt overdue.
expire(c) ==
    /\ stored[c] # NoRecord
    /\ stored' = [stored EXCEPT ![c] = NoRecord]
    /\ LET r == stored[c].by
           counted == stored[c].state = "pending" /\ c \in locked[r]
       IN /\ overdue' = [overdue EXCEPT ![r] = @ \/ (counted /\ step[r] = "setting")]
          /\ lapsed' = IF stored[c].state = "complete" \/ (counted /\ step[r] # "setting")
                       THEN lapsed \cup {r} ELSE lapsed
    /\ UNCHANGED <<fingerprint, step, attempt, asked, locked, saved, closing, gone, reply>>

IdempotencyInit ==
    /\ fingerprint \in [Request -> Fingerprint]
    /\ stored = [c \in Client |-> NoRecord]
    /\ step = [r \in Request |-> "new"]
    /\ attempt = [r \in Request |-> 0]
    /\ asked = [r \in Request |-> {}]
    /\ locked = [r \in Request |-> {}]
    /\ overdue = [r \in Request |-> FALSE]
    /\ saved = [r \in Request |-> {}]
    /\ closing = [r \in Request |-> {}]
    /\ gone = [r \in Request |-> FALSE]
    /\ reply = [r \in Request |-> "none"]
    /\ lapsed = {}

RequestStep(r) ==
    \/ begin(r) \/ attempt_ends(r) \/ undone(r) \/ look(r)
    \/ handler_sends(r) \/ send_saved(r) \/ send_failed(r)
    \/ \E c \in Client : acquireInstanceLock(r, c) \/ undo(r, c) \/ complete(r, c)
                         \/ release(r, c) \/ release_closed(r, c) \/ release_closed_fails(r, c)

Trouble ==
    \/ \E r \in Request : close(r) \/ attempt_is_slow(r)
    \/ \E r \in Request, c \in Client : call_fails(r, c)
    \/ \E c \in Client : expire(c)

IdempotencyNext == Trouble \/ \E r \in Request : RequestStep(r)

IdempotencySpec == IdempotencyInit /\ [][IdempotencyNext]_idempotencyVars

-----------------------------------------------------------------------------
(* Properties.                                                             *)

IdempotencyTypeOK ==
    /\ fingerprint \in [Request -> Fingerprint]
    /\ stored \in [Client -> Record \cup {NoRecord}]
    /\ step \in [Request -> Steps]
    /\ attempt \in [Request -> 0..RetryCount]
    /\ asked \in [Request -> SUBSET Client]
    /\ locked \in [Request -> SUBSET Client]
    /\ overdue \in [Request -> BOOLEAN]
    /\ saved \in [Request -> SUBSET Client]
    /\ closing \in [Request -> SUBSET Client]
    /\ gone \in [Request -> BOOLEAN]
    /\ reply \in [Request -> Replies]
    /\ lapsed \subseteq Request

\* A request has the key to itself: its handler runs, or its response is being
\* saved or was sent, and neither has the client gone away before that nor has
\* an instance let the claim or the response expire.
Holding(r) ==
    /\ r \notin lapsed
    /\ \/ step[r] \in {"running", "saving"} /\ reply[r] = "none" /\ ~gone[r]
       \/ reply[r] = "success"

\* "one with protection versus 100 without it" (docs/idempotency.md:23): two
\* requests with one key never have it to themselves together, so neither two
\* handlers run nor does one run after another has been answered with a success,
\* whatever claims fail half-way, answers are lost or releases come late.
KeyHasOneHolder == \A r, q \in Request : Holding(r) /\ Holding(q) => r = q

-----------------------------------------------------------------------------
(* The inductive invariant behind KeyHasOneHolder.                         *)

\* What a request has counted is there: its claims while it counts them and
\* while its handler runs, its claims or the response while that is saved, and
\* the response from then on.
ClaimsAreThere(r) ==
    /\ step[r] = "setting" /\ ~overdue[r]
       => \A c \in locked[r] : stored[c] = Claim(r)
    /\ step[r] \in {"running", "saving"} /\ ~gone[r] /\ r \notin lapsed
       => \A c \in locked[r] : stored[c] \in {Claim(r), Response(r)}

ResponsesAreThere(r) ==
    r \notin lapsed => \A c \in saved[r] : stored[c] = Response(r)

RequestInv(r) ==
    /\ ClaimsAreThere(r)
    /\ ResponsesAreThere(r)
    /\ step[r] \in {"running", "saving"} => Cardinality(locked[r]) >= quorum
    /\ reply[r] = "success" => Cardinality(saved[r]) >= quorum
    /\ closing[r] # {} => gone[r]
    /\ gone[r] => step[r] \in {"running", "saving", "releasing"}

IdempotencyInv == IdempotencyTypeOK /\ \A r \in Request : RequestInv(r)
=============================================================================
