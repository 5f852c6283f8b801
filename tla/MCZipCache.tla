----------------------------- MODULE MCZipCache ------------------------------
(***************************************************************************)
(* Instance of ZipCache for TLC.  Paths and requests are interchangeable,  *)
(* and the run checks invariants only, so symmetry is sound; entries are   *)
(* numbered in the order they were opened and are not.                     *)
(***************************************************************************)
EXTENDS ZipCache

Symmetry == Permutations(Paths) \cup Permutations(Requests)
=============================================================================
