--------------------------- MODULE MCVolumePipeline --------------------------
(***************************************************************************)
(* A book of two volumes with up to two pages each.  Volumes are not       *)
(* interchangeable with All, pages and volumes are with each other.        *)
(***************************************************************************)
EXTENDS VolumePipeline, TLC

Symmetry == Permutations(Vols) \cup Permutations(Pages)
=============================================================================
