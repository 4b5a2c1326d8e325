--------------------------- MODULE MCGitStatusCache ---------------------------
(***************************************************************************)
(* Small instances of GitStatusCache for TLC: a root and one subfolder.    *)
(***************************************************************************)
EXTENDS GitStatusCache

CONSTANTS root, sub
=============================================================================
