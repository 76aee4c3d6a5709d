------------------------- MODULE MCRouterServices -------------------------
(***************************************************************************)
(* The money of the router for TLC: an operator `op` that is admin and     *)
(* treasury, two users and two contracts, which are DEXes or lending       *)
(* protocols.  The full product of refunds, routes, swaps and services is  *)
(* too large: the initial state picks the question, and with it the calls  *)
(* that are made; all of them share one state.                             *)
(***************************************************************************)
EXTENDS RouterServices, TLC

VARIABLE subject

CONSTANTS op, a1, a2, d1, d2, t1, t2, t3

MCTokens == {t1, t2, t3}

-----------------------------------------------------------------------------
(* Custody: refunds, recoveries, the blacklist and the switches.  One user *)
(* pays a recipient that accepts and one that does not; the other pays the *)
(* router itself, which strands the tokens.                                *)

Pay(from, to, t, n, ok) ==
    [sender |-> from, recipient |-> to, token |-> t, amount |-> n, delivered |-> ok]

CustodyPayments == {Pay(a1, a2, t1, 2, FALSE),
                    Pay(a1, a2, t1, 2, TRUE), Pay(a2, Router, t1, 2, TRUE)}
CustodyBatches == {<<Pay(a1, a2, t1, 2, FALSE), Pay(a2, a1, t1, 1, FALSE)>>}
CustodyRelays ==
    {[payment |-> Pay(a1, a2, t1, 1, FALSE), nonce |-> 0, deadline |-> 0]}

\* A sender of an earlier version whose volume has earned the discount.
MCLegacy == {[reset |-> 0, spent |-> 1, volume |-> 3]}

-----------------------------------------------------------------------------
(* Routes: payments, batches, quotes and relays compete for windows,       *)
(* slots, allowances and nonces; one payment is beyond the KYC threshold.  *)

RoutePayments == {Pay(a1, a2, t1, 1, TRUE), Pay(a1, a2, t1, 3, TRUE),
                  Pay(a2, a1, t1, 2, FALSE)}

RouteBatches == {<<>>,
                 <<Pay(a1, a2, t1, 1, TRUE), Pay(a1, a2, t1, 1, TRUE)>>,
                 <<Pay(a1, a2, t1, 1, TRUE), Pay(a2, a1, t1, 2, TRUE)>>}

\* Two quotes of one maker under one id, the second a cheaper re-quote.
MCQuotes ==
    {[maker |-> a2, quote_id |-> "q", sender |-> a1, recipient |-> op,
      token_in |-> t1, amount_in |-> n, token_out |-> t2, amount_out |-> 1,
      expires_at |-> 0] : n \in {1, 2}}

\* Two relays for the first nonce of a1, one of them undeliverable, and one
\* for the second.
RouteRelays ==
    {[payment |-> Pay(a1, op, t1, 1, ok), nonce |-> 0, deadline |-> 1] : ok \in BOOLEAN}
      \cup {[payment |-> Pay(a1, a2, t1, 1, TRUE), nonce |-> 1, deadline |-> 0]}

MCBatches == CustodyBatches \cup RouteBatches
MCRelays == CustodyRelays \cup RouteRelays
MCApprovals == {<<a1, t1, 2>>}

-----------------------------------------------------------------------------
(* Swaps: the DEXes' answers may be short, may return input, and may be    *)
(* lies.  Every route has a call whose recipient does not take the tokens. *)

Swap(n, min, expected, deadline, ok) ==
    [sender |-> a1, recipient |-> a2, dex |-> d1, sell |-> t1, buy |-> t2,
     amount |-> n, min_out |-> min, expected |-> expected,
     deadline |-> deadline, delivered |-> ok]

MCSwaps == {Swap(2, 1, 2, 0, TRUE), Swap(2, 1, 0, 0, FALSE), Swap(3, 2, 0, 0, TRUE)}

MCSwapBatches == {<<>>, <<Swap(1, 1, 0, 0, TRUE), Swap(2, 2, 0, 0, FALSE)>>}

Part(d, w, min) == [dex |-> d, weight |-> w, min_out |-> min]

MCSplits ==
    {[sender |-> a1, recipient |-> a2, sell |-> t1, buy |-> t2, amount |-> 3,
      delivered |-> ok, splits |-> <<Part(d1, 5, 1), Part(d1, 5, 2)>>] : ok \in BOOLEAN}

MCHops ==
    {[sender |-> a1, recipient |-> a2, dex |-> d1, amount |-> 2, delivered |-> ok,
      path |-> <<t1, t2, t3>>, floors |-> <<1, 1>>] : ok \in BOOLEAN}

\* The raw route also takes back what another swap brought, from a user that
\* may have a refund of it.
MCRaws ==
    {[sender |-> a1, recipient |-> a2, dex |-> d2, sell |-> t1, buy |-> t2,
      amount |-> 2, min_out |-> 1, delivered |-> TRUE],
     [sender |-> a1, recipient |-> a2, dex |-> d2, sell |-> t2, buy |-> t1,
      amount |-> 1, min_out |-> 1, delivered |-> TRUE]}

Answer(out, unused, told_out, told_unused) ==
    [out |-> out, unused |-> unused, told_out |-> told_out, told_unused |-> told_unused]

\* Short, full, with change, with more said than sent, with change it keeps.
MCAnswers == {Answer(1, 0, 1, 0), Answer(2, 0, 2, 0), Answer(2, 1, 2, 1),
              Answer(1, 0, 2, 0), Answer(1, 0, 1, 1)}

-----------------------------------------------------------------------------
(* Services: two users with refunds, one of them with entries of an        *)
(* earlier version; archives of what is there and of what is not.          *)

ServicePayments == {Pay(a1, a2, t1, 2, FALSE), Pay(a2, a1, t2, 1, FALSE)}
MCPayments == CustodyPayments \cup RoutePayments \cup ServicePayments

Leaf(type, a, t) == [record_type |-> type, primary_key |-> a, secondary_key |-> t]

MCLeafLists ==
    {<<Leaf("RefundBalance", a1, t1), Leaf("UserSpending", a1, t1)>>,
     <<Leaf("UserVolume", a1, t1), Leaf("RefundBalance", a2, t1), Leaf("RefundBalance", a2, t1)>>}

-----------------------------------------------------------------------------

\* What the senders' windows and slots may be asked for, and the windows alone.
\* Only a1 has relays and swaps.
MCEntries ==
    {<<a1, 1>>, <<a1, 2>>, <<a1, 3>>, <<a2, 1>>, <<a2, 2>>}
MCUncharged == {<<a1, 1>>, <<a1, 2>>, <<a1, 3>>}

MCInit ==
    /\ subject \in {"custody", "routes", "swaps", "archive", "treasury"}
    /\ ServicesInit
    /\ \A a \in Addr : legacy[a] # NoRecord =>
                        a = a1 /\ subject \in {"custody", "archive"}

CustodyMoves ==
    /\ subject = "custody"
    /\ \/ RouteStep(CustodyPayments, CustodyBatches, {}, CustodyRelays)
       \/ CustodyStep
       \/ OfficeStep
       \/ LimitsStep /\ UNCHANGED rateLimit

RouteMoves ==
    /\ subject = "routes"
    /\ \/ RouteStep(RoutePayments, RouteBatches, Quotes, RouteRelays)
       \/ \E a \in Addr, t \in Token : claim_all_refunds(a, t)
       \/ \E g \in Approvals : approve(g[1], g[2], g[3])
       \/ LimitsStep /\ UNCHANGED exempt
       \/ LedgerCloses

SwapMoves ==
    /\ subject = "swaps"
    /\ \/ \E a \in Addr, t \in Token : claim_all_refunds(a, t)
       \/ SwitchStep /\ consent' = {signer'}
            /\ UNCHANGED <<moneyVars, messageVars, senderVars, blacklist>>
       \/ LedgerCloses

Switches ==
    SwitchStep /\ consent' = {signer'}
        /\ UNCHANGED <<moneyVars, messageVars, senderVars, blacklist>>

ArchiveMoves ==
    /\ subject = "archive"
    /\ \/ RouteStep(ServicePayments, {}, {}, {})
       \/ \E a \in Addr, t \in Token : claim_all_refunds(a, t)
       \/ \E a \in Addr : LimitsCall(Limits!migrate_user_record(a), NoAddr)
       \/ Switches
       \/ LedgerCloses

TreasuryMoves ==
    /\ subject = "treasury"
    /\ RouteStep(ServicePayments, {}, {}, {}) \/ Switches

MCNext ==
    /\ UNCHANGED subject
    /\ \/ (CustodyMoves \/ RouteMoves \/ SwapMoves \/ ArchiveMoves \/ TreasuryMoves)
          /\ Swapless /\ Unattended
       \/ subject = "swaps" /\ (SwapStep \/ RegistryStep) /\ Unattended
       \/ subject = "archive" /\ ArchiveStep
       \/ subject = "treasury" /\ YieldStep({t1})

MCSpec == MCInit /\ [][MCNext]_<<subject, allVars>>
=============================================================================
