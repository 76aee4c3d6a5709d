---------------------------- MODULE AtLeastOnce ----------------------------
(***************************************************************************)
(* What the settlement outbox promises: "delivery is at-least-once"        *)
(* (settlementOutbox.js:8).  A notification is committed with its payment, *)
(* reaches the broker any number of times, and is settled, once and for    *)
(* good, after it has reached it.                                          *)
(***************************************************************************)
EXTENDS FiniteSets

CONSTANT Message

VARIABLES
    committed,   \* messages whose transaction has committed
    delivered,   \* messages that have reached the broker at least once
    settled      \* messages that are recorded as published

outboxVars == <<committed, delivered, settled>>

Nothing == committed = {} /\ delivered = {} /\ settled = {}

Commit(m) ==
    /\ committed' = committed \cup {m}
    /\ UNCHANGED <<delivered, settled>>

Deliver(m) ==
    /\ m \in committed
    /\ delivered' = delivered \cup {m}
    /\ UNCHANGED <<committed, settled>>

Settle(m) ==
    /\ m \in delivered
    /\ settled' = settled \cup {m}
    /\ UNCHANGED <<committed, delivered>>

OutboxStep == \E m \in Message : Commit(m) \/ Deliver(m) \/ Settle(m)

\* No settlement without a delivery, and neither is ever undone.
AtLeastOnceSafety == Nothing /\ [][OutboxStep]_outboxVars

\* Nothing that was committed is left behind.
EverythingSettles == \A m \in Message : m \in committed ~> m \in settled
=============================================================================
