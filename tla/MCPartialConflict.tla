--------------------------- MODULE MCPartialConflict ---------------------------
(***************************************************************************)
(* Small instances of PartialConflict for TLC.                             *)
(***************************************************************************)
EXTENDS PartialConflict

CONSTANTS a, b, f1, f2, e1, r1
=============================================================================
