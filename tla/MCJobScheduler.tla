---------------------------- MODULE MCJobScheduler ----------------------------
(***************************************************************************)
(* Small instances of JobScheduler for TLC: a scheduler that may have a    *)
(* thread of its own, and the default scheduler, which only borrows.       *)
(***************************************************************************)
EXTENDS JobScheduler

CONSTANTS own, default, caller

MCThreadCount == [s \in Schedulers |-> IF s = own THEN 1 ELSE 0]
MCSharedThreads == [s \in Schedulers |-> 1]
=============================================================================
