---------------------------- MODULE MCOverlayCache ----------------------------
(***************************************************************************)
(* A small instance of OverlayCache for TLC.                               *)
(***************************************************************************)
EXTENDS OverlayCache

CONSTANTS host, c, r1, r2
=============================================================================
