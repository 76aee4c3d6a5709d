--------------------------- MODULE SignedMessages ---------------------------
(***************************************************************************)
(* The contracts that act on a message by itself, without its author being *)
(* there: the token takes permits, the proxy takes intents and meta        *)
(* payments, and the payment contract takes proofs with a nullifier.  They *)
(* share the clock their deadlines are read against, and nothing else.     *)
(***************************************************************************)
EXTENDS PausableToken, PaymentProxy, ZkPayment

\* What authorises a payment by itself runs once, in each of the contracts
\* that take such messages: a permit (pausable_token lib.rs:543-585), an
\* intent and a meta payment (payment_proxy lib.rs:540-570, 622-655), a
\* nullifier (zk_payment lib.rs:84-118).
MessagesAreUsedOnce ==
    PermitsRunOnce /\ IntentsRunOnce /\ MetaRunsOnce /\ NullifiersPayOnce
=============================================================================
