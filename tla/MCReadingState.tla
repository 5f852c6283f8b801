--------------------------- MODULE MCReadingState ---------------------------
(***************************************************************************)
(* ReadingState for TLC: a manga and a text volume of at most two spine    *)
(* items, one tab that can be opened again and again while its earlier     *)
(* saves are still under way, one replacement of the file.  Two saves of a *)
(* manga can overtake each other.                                          *)
(***************************************************************************)
EXTENDS ReadingState

MCMaxPuts == [fixed |-> 2, text |-> 1]

\* A client that sets a bookmark and sends a position past the end.
MCClientRows == {[spine |-> MaxLen, prog |-> 0, read |-> TRUE, mark |-> m] : m \in Marks}
=============================================================================
