------------------------- MODULE MCCommitMessageStore -------------------------
(***************************************************************************)
(* Small instances of CommitMessageStore for TLC.                          *)
(***************************************************************************)
EXTENDS CommitMessageStore

CONSTANTS a, b, m1, m2, m3, n1, n2, t1
=============================================================================
