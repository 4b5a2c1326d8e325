---------------------------- MODULE MCMergeSession ----------------------------
(***************************************************************************)
(* Small instances of MergeSession for TLC.                                *)
(***************************************************************************)
EXTENDS MergeSession, TLC

CONSTANTS a, b, f1, f2, s1, s2, i1

\* s1 conflicts in file contents only; s2 has a directory conflict as well.
MCFileConflicts == [s \in Sources |-> IF s = s1 THEN Files ELSE {f1}]
MCDirConflicts == [s \in Sources |-> IF s = s1 THEN {} ELSE Items]

ClientSymmetry == Permutations(Clients)
=============================================================================
