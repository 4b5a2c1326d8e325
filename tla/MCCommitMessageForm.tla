-------------------------- MODULE MCCommitMessageForm --------------------------
(***************************************************************************)
(* Small instances of CommitMessageForm for TLC.                           *)
(***************************************************************************)
EXTENDS CommitMessageForm, TLC

CONSTANTS a, b, m1, n1, n2, t1, t2

FullSymmetry == Permutations(Procs) \cup Permutations(Names) \cup Permutations(Texts)
=============================================================================
