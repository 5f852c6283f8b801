--------------------------- MODULE MCLibraryIndex ----------------------------
(***************************************************************************)
(* Instances of LibraryIndex for TLC.  Paths are numbered in the order the *)
(* walk visits them, and liveness is checked, so no symmetry is used.      *)
(***************************************************************************)
EXTENDS LibraryIndex
=============================================================================
