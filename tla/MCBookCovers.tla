---------------------------- MODULE MCBookCovers -----------------------------
(***************************************************************************)
(* BookCovers for TLC.  Goroutines are interchangeable and only safety is  *)
(* checked; ids are not, since a fresh one is the least that is unused.    *)
(***************************************************************************)
EXTENDS BookCovers, TLC

Symmetry == Permutations(Tasks)
=============================================================================
