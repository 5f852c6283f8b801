------------------------- MODULE MCConversionSystem -------------------------
(***************************************************************************)
(* Instances of ConversionSystem for TLC: each .cfg names its workers,     *)
(* books, volumes and clients as model values, says which requests are     *)
(* sent (Ops) and bounds the rows, crashes and failed statements.          *)
(***************************************************************************)
EXTENDS ConversionSystem
=============================================================================
