---------------------------- MODULE PaymentProxy ----------------------------
(***************************************************************************)
(* The payment proxy (payment_proxy/src/lib.rs): a stable address in front *)
(* of a replaceable router.  It forwards calls, counts what session keys   *)
(* spend through it, executes payment intents and meta payments that were  *)
(* signed off-chain, and runs batches of intents of which some may fail.   *)
(*                                                                         *)
(* Signatures: a message of the sets below is one somebody signed; one     *)
(* whose `signed` is FALSE carries a signature that does not verify, which *)
(* the host's ed25519_verify answers with a trap, in a tolerant batch too. *)
(* Nothing ties the key to the account named in the message.  The logic    *)
(* contract is external; a forwarded call that fails there leaves the      *)
(* proxy unchanged.                                                        *)
(***************************************************************************)
EXTENDS Ledger, SequencesExt

CONSTANTS
    Logics,         \* logic contracts
    SessionKeys,    \* the accounts that install a session allowance
    SessionLimits,  \* spending_limit of authorize_session_key
    SessionTimes,   \* valid_until of authorize_session_key
    Forwards,       \* forwarded calls: [func, payments], of <<sender, amount>>
    Intents,        \* payment intents: [from, nonce, deadline, signed]
    IntentBatches,  \* arguments of execute_batch_tolerant
    MetaPayments,   \* [sender, recipient, feeTo, amount, fee, nonce, deadline]
    ProxyFunds,     \* what each party owns at first
    ProxyAllowances \* what a party lets the proxy move: <<party, amount>>

\* The router's entry points whose amounts charge_session_allowance counts.
Counted == {"route_payment", "route_payments", "route_payment_meta",
            "route_payment_with_swap_raw", "route_payment_with_swap",
            "route_payments_with_swap", "withdraw_refund"}

ASSUME ProxyAssumption ==
    /\ NoParty \notin Logics
    /\ SessionKeys \subseteq Party
    /\ SessionLimits \cup SessionTimes \subseteq Nat
    /\ \A f \in Forwards : f.payments \in Seq(Party \X Int)
    /\ Intents \subseteq [from : Party, nonce : Nat, deadline : Nat, signed : BOOLEAN]
    /\ IntentBatches \subseteq Seq(Intents)
    /\ MetaPayments \subseteq [sender : Party, recipient : Party, feeTo : Party,
                               amount : Int, fee : Int, nonce : Nat, deadline : Nat]
    /\ ProxyFunds \in Nat
    /\ ProxyAllowances \subseteq Party \X Nat

VARIABLES
    proxyAdmin,     \* ProxyDataKey::Admin
    proxyLogic,     \* ProxyDataKey::LogicContract
    sessions,       \* ProxyDataKey::Session(key), NoSession when absent
    intentNonce,    \* ProxyDataKey::Nonce(from)
    proxyMetaNonce, \* ProxyDataKey::MetaNonce(sender)
    proxySheet,     \* external: the balances of the token
    proxyMayMove,   \* external: what the proxy may move of each account
    sessionGrant,   \* history: the limit of the last grant
    sessionSpent,   \* history: what was counted against it
    intentRuns,     \* history: how often an intent was executed
    metaRuns        \* history: how often a meta payment was executed

sessionVars == <<sessions, sessionGrant, sessionSpent>>
intentVars == <<intentNonce, intentRuns>>
metaVars == <<proxyMetaNonce, proxySheet, proxyMayMove, metaRuns>>
proxyVars == <<proxyAdmin, proxyLogic, sessionVars, intentVars, metaVars>>

NoSession == [remaining |-> 0, valid_until |-> 0]

-----------------------------------------------------------------------------
(* Administration.                                                         *)

proxy_initialize(a, logic) ==
    /\ proxyAdmin = NoParty
    /\ proxyAdmin' = a
    /\ proxyLogic' = logic
    /\ UNCHANGED <<sessionVars, intentVars, metaVars, clock>>

\* By the stored admin; the same address is refused.
upgrade_logic(logic) ==
    /\ proxyAdmin # NoParty
    /\ proxyLogic # logic
    /\ proxyLogic' = logic
    /\ UNCHANGED <<proxyAdmin, sessionVars, intentVars, metaVars, clock>>

proxy_transfer_admin(a) ==
    /\ proxyAdmin # NoParty
    /\ proxyAdmin' = a
    /\ UNCHANGED <<proxyLogic, sessionVars, intentVars, metaVars, clock>>

-----------------------------------------------------------------------------
(* Session keys and forwarded calls.                                       *)

\* Signed by the key itself; a new grant replaces the old one.
authorize_session_key(key, limit, valid_until) ==
    /\ limit > 0 /\ valid_until > clock
    /\ sessions' = [sessions EXCEPT
                      ![key] = [remaining |-> limit, valid_until |-> valid_until]]
    /\ sessionGrant' = [sessionGrant EXCEPT ![key] = limit]
    /\ sessionSpent' = [sessionSpent EXCEPT ![key] = 0]
    /\ UNCHANGED <<proxyAdmin, proxyLogic, intentVars, metaVars, clock>>

session_expired(s) == clock >= s.valid_until

\* Mutant: each payment of a batch is held against the allowance at the start.
charge_if_session_stale(b, p) ==
    LET s == sessions[p[1]]
    IN IF s = NoSession THEN b
       ELSE IF session_expired(s) \/ p[2] <= 0 \/ p[2] > s.remaining
       THEN [b EXCEPT !.ok = FALSE]
       ELSE [b EXCEPT !.sessions[p[1]].remaining = s.remaining - p[2],
                      !.spent[p[1]] = @ + p[2]]

\* One <<sender, amount>> of a forwarded call, on the allowances as they are by
\* then.  Senders without a session are not limited.
charge_if_session(b, p) ==
    LET s == b.sessions[p[1]]
    IN IF s = NoSession THEN b
       ELSE IF session_expired(s) \/ p[2] <= 0 \/ p[2] > s.remaining
       THEN [b EXCEPT !.ok = FALSE]
       ELSE [b EXCEPT !.sessions[p[1]].remaining = s.remaining - p[2],
                      !.spent[p[1]] = @ + p[2]]

charge_session_allowance(f) ==
    LET start == [ok |-> TRUE, sessions |-> sessions, spent |-> sessionSpent]
        end == IF f.func \in Counted
               THEN FoldLeft(charge_if_session, start, f.payments) ELSE start
    IN /\ end.ok
       /\ sessions' = end.sessions
       /\ sessionSpent' = end.spent
       /\ UNCHANGED sessionGrant

forward(f) ==
    /\ proxyLogic # NoParty
    /\ charge_session_allowance(f)
    /\ UNCHANGED <<proxyAdmin, proxyLogic, intentVars, metaVars, clock>>

-----------------------------------------------------------------------------
(* Payment intents.                                                        *)

\* The answer of verify_payment_intent on the nonces `nonces`.
verify_payment_intent(nonces, i) ==
    IF clock > i.deadline \/ i.nonce # nonces[i.from] THEN "Err"
    ELSE IF i.signed THEN "Ok" ELSE "Trap"

\* Mutant: the items of a batch are verified before any of them is executed.
run_intent_verified_first(b, i) ==
    LET answer == verify_payment_intent(intentNonce, i)
    IN IF answer = "Trap" THEN [b EXCEPT !.trapped = TRUE]
       ELSE IF answer = "Err" THEN b
       ELSE [b EXCEPT !.nonce[i.from] = i.nonce + 1, !.runs[i] = @ + 1]

\* One item: an error leaves no trace, a trap ends the call.
run_intent(b, i) ==
    LET answer == verify_payment_intent(b.nonce, i)
    IN IF answer = "Trap" THEN [b EXCEPT !.trapped = TRUE]
       ELSE IF answer = "Err" THEN b
       ELSE [b EXCEPT !.nonce[i.from] = i.nonce + 1, !.runs[i] = @ + 1]

IntentBooks == [nonce |-> intentNonce, runs |-> intentRuns, trapped |-> FALSE]

CommitIntents(b) ==
    /\ ~b.trapped
    /\ intentNonce' = b.nonce
    /\ intentRuns' = b.runs

execute_payment_intent(i) ==
    /\ verify_payment_intent(intentNonce, i) = "Ok"
    /\ CommitIntents(run_intent(IntentBooks, i))
    /\ UNCHANGED <<proxyAdmin, proxyLogic, sessionVars, metaVars, clock>>

execute_batch_tolerant(calls) ==
    /\ CommitIntents(FoldLeft(run_intent, IntentBooks, calls))
    /\ UNCHANGED <<proxyAdmin, proxyLogic, sessionVars, metaVars, clock>>

\* The intent and the forwarded call succeed or fail together.
forward_with_meta(i, f) ==
    /\ verify_payment_intent(intentNonce, i) = "Ok"
    /\ CommitIntents(run_intent(IntentBooks, i))
    /\ proxyLogic # NoParty
    /\ charge_session_allowance(f)
    /\ UNCHANGED <<proxyAdmin, proxyLogic, metaVars, clock>>

-----------------------------------------------------------------------------
(* Meta payments.                                                          *)

total_needed(m) == m.amount + m.fee

\* Mutant: the nonce is consumed only if a fee was paid.
consume_nonce_with_fee(m) ==
    IF m.fee > 0 THEN [proxyMetaNonce EXCEPT ![m.sender] = m.nonce + 1]
    ELSE proxyMetaNonce

consume_nonce(m) == [proxyMetaNonce EXCEPT ![m.sender] = m.nonce + 1]

\* Submitted by anybody.  The signature must verify under the key that comes
\* with it, and nothing ties that key to the sender, so whose it is plays no
\* part; what bounds the payment is the nonce and what the sender allowed the
\* proxy.  A deadline of 0 is none.
execute_meta_payment(m) ==
    /\ m.deadline = 0 \/ clock <= m.deadline
    /\ m.amount > 0 /\ m.fee >= 0
    /\ m.nonce = proxyMetaNonce[m.sender]
    /\ proxySheet[m.sender] >= total_needed(m)
    /\ proxyMayMove[m.sender] >= total_needed(m)
    /\ proxyMetaNonce' = consume_nonce(m)
    /\ proxySheet' = transfer(transfer(proxySheet, m.sender, m.feeTo, m.fee),
                              m.sender, m.recipient, m.amount)
    /\ proxyMayMove' = [proxyMayMove EXCEPT ![m.sender] = @ - m.amount - m.fee]
    /\ metaRuns' = [metaRuns EXCEPT ![m] = @ + 1]
    /\ UNCHANGED <<proxyAdmin, proxyLogic, sessionVars, intentVars, clock>>

\* External: a party lets the proxy move `n` of its tokens.
allow_proxy(a, n) ==
    /\ proxyMayMove' = [proxyMayMove EXCEPT ![a] = n]
    /\ UNCHANGED <<proxyAdmin, proxyLogic, sessionVars, intentVars,
                   proxyMetaNonce, proxySheet, metaRuns, clock>>

-----------------------------------------------------------------------------

ProxyInit ==
    /\ proxyAdmin = NoParty
    /\ proxyLogic = NoParty
    /\ sessions = [a \in Party |-> NoSession]
    /\ sessionGrant = [a \in Party |-> 0]
    /\ sessionSpent = [a \in Party |-> 0]
    /\ intentNonce = [a \in Party |-> 0]
    /\ intentRuns = [i \in Intents |-> 0]
    /\ proxyMetaNonce = [a \in Party |-> 0]
    /\ proxySheet = [a \in Party |-> ProxyFunds]
    /\ proxyMayMove = [a \in Party |-> 0]
    /\ metaRuns = [m \in MetaPayments |-> 0]

ProxyNext ==
    \/ \E a \in Party, l \in Logics : proxy_initialize(a, l)
    \/ \E l \in Logics : upgrade_logic(l)
    \/ \E a \in Party : proxy_transfer_admin(a)
    \/ \E k \in SessionKeys, n \in SessionLimits, t \in SessionTimes :
          authorize_session_key(k, n, t)
    \/ \E f \in Forwards : forward(f)
    \/ \E i \in Intents : execute_payment_intent(i)
    \/ \E is \in IntentBatches : execute_batch_tolerant(is)
    \/ \E i \in Intents, f \in Forwards : forward_with_meta(i, f)
    \/ \E m \in MetaPayments : execute_meta_payment(m)
    \/ \E g \in ProxyAllowances : allow_proxy(g[1], g[2])
    \/ TimePasses /\ UNCHANGED proxyVars

ProxySpec == ProxyInit /\ clock \in Nat /\ [][ProxyNext]_<<proxyVars, clock>>

-----------------------------------------------------------------------------
(* Properties.                                                             *)

\* An intent runs once, and of the intents that name one account and one nonce
\* exactly one has run when the account's counter has passed it: alone, with a
\* forwarded call, or twice in one tolerant batch (lib.rs:540-570, 736-759,
\* 782-827).
IntentsRunOnce ==
    /\ \A i, j \in Intents :
          /\ intentRuns[i] <= 1
          /\ (intentRuns[i] > 0 /\ intentRuns[j] > 0 /\ i.from = j.from
                /\ i.nonce = j.nonce) => i = j
    /\ \A a \in Party :
          {i.nonce : i \in {j \in Intents : j.from = a /\ intentRuns[j] > 0}}
            = 0..(intentNonce[a] - 1)

\* Meta payments run once per nonce (lib.rs:622-655).
MetaRunsOnce ==
    \A m, k \in MetaPayments :
        /\ metaRuns[m] <= 1
        /\ metaRuns[m] > 0 => m.nonce < proxyMetaNonce[m.sender]
        /\ (metaRuns[m] > 0 /\ metaRuns[k] > 0 /\ m.sender = k.sender
              /\ m.nonce = k.nonce) => m = k

\* Between two grants a session key spends at most its limit through the
\* calls the proxy counts, one payment or many (lib.rs:846-921).
SessionCapHolds ==
    \A a \in Party :
        /\ sessionSpent[a] <= sessionGrant[a]
        /\ sessions[a].remaining = sessionGrant[a] - sessionSpent[a]

=============================================================================
