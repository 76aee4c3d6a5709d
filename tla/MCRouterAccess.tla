--------------------------- MODULE MCRouterAccess ---------------------------
(***************************************************************************)
(* RouterAccess for TLC.  Three addresses are enough for an old admin, a   *)
(* backup and a bystander; the roles are the root, one that initialize     *)
(* hands out and one that it leaves to the admin fallback.                 *)
(***************************************************************************)
EXTENDS RouterAccess, TLC

AddrSymmetry == Permutations(Addr)

=============================================================================
