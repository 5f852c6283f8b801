----------------------------- MODULE MCBookTags -----------------------------
(***************************************************************************)
(* BookTags for TLC: the lists are every sequence of distinct tags of a    *)
(* two-tag alphabet, both orders included, so that requests can lock the   *)
(* tags the opposite way round.                                            *)
(***************************************************************************)
EXTENDS BookTags

CONSTANTS drama, horror

MCTags == {drama, horror}
MCTagLists == {<<>>, <<drama>>, <<horror>>, <<drama, horror>>, <<horror, drama>>}
=============================================================================
