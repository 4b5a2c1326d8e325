------------------------------ MODULE MCAsyncJob ------------------------------
(***************************************************************************)
(* A small instance of AsyncJob for TLC.                                   *)
(***************************************************************************)
EXTENDS AsyncJob

CONSTANTS j1, j2, ui

\* j2 is used as the job of a CFuture or a CAsyncCall, j1 as any other job.
MCUses == [j \in Jobs |-> IF j = j1 THEN {"inline", "timeout", "delete"}
                                   ELSE {"get", "cancel", "transfer"}]

\* Both belong to the thread of a window.
MCOwnerOf == [j \in Jobs |-> ui]
=============================================================================
