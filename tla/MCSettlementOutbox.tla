------------------------- MODULE MCSettlementOutbox -------------------------
(***************************************************************************)
(* SettlementOutbox for TLC.                                               *)
(***************************************************************************)
EXTENDS SettlementOutbox, TLC

CONSTANTS w1, w2
=============================================================================
