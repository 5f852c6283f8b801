----------------------------- MODULE MCAccounts ------------------------------
(***************************************************************************)
(* Instances of Accounts for TLC.  Requests are interchangeable and only   *)
(* safety is checked, so symmetry is sound; user ids and tokens are        *)
(* numbered.                                                               *)
(***************************************************************************)
EXTENDS Accounts, TLC

Symmetry == Permutations(Requests)
=============================================================================
