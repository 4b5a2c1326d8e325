---------------------------- MODULE AsyncJobProofs ----------------------------
(***************************************************************************)
(* Proofs about AsyncJob, for every set of jobs and owners and any number  *)
(* of threads.  The invariant has a part that rests on the flag `waiting`  *)
(* and on the order of the stores, one about each job, and one about the   *)
(* event handles, which all jobs share.  Nothing is claimed of the last    *)
(* two once a data race has had an effect.                                 *)
(***************************************************************************)
EXTENDS AsyncJob, SequenceTheorems, TLAPS

\* The flag is exchanged once, so one side starts the job.
Once ==
  \A j \in Jobs :
    /\ runs[j] <= 1
    /\ waiting[j] => runs[j] = 0
    /\ \A s \in Sides : pc[<<j, s>>] = "start" =>
         /\ ~waiting[j] /\ runs[j] = 0
         /\ \A t \in Sides : pc[<<j, t>>] = "start" => t = s

\* The event `executionDone` is set when there is nothing left to execute.
DoneIsComplete ==
  \A j \in Jobs :
    /\ state[<<j, "done">>] => j \in complete
    /\ \A s \in Sides : pc[<<j, s>>] = "set_done" => j \in complete

Always == TypeOK /\ Once /\ DoneIsComplete

-----------------------------------------------------------------------------
(* What holds of one job while no race has had an effect *)

OwnerOfJob(j) == pc[<<j, "owner">>]
WorkerOf(j) == pc[<<j, "worker">>]
Past == {"set_deletable", "signal_deletable", "test_done", "leave", "gone"}

\* The flag of a job, its place in the scheduler and the worker that has it.
Listing(j) ==
  /\ scheduled[j] <=> list[j] \in {"queued", "taken"}
  /\ list[j] = "before" <=> OwnerOfJob(j) = "new"
  /\ list[j] = "before" => waiting[j]
  /\ list[j] \in {"before", "queued"} <=> WorkerOf(j) = "off"
  /\ list[j] = "after" <=> WorkerOf(j) \in Past
  /\ j \in removed \cup dropped => list[j] \in {"taken", "after"}

\* Who may destroy the job, and when.
Deletion(j) ==
  /\ j \notin alive =>
       OwnerOfJob(j) = "gone" /\ list[j] = "after" /\ (state[<<j, "deletable">>] \/ j \in passed \cap dropped)
  /\ state[<<j, "deletable">>] => list[j] = "after"
  /\ \A s \in Sides :
       /\ pc[<<j, s>>] \in {"set_deletable", "signal_deletable"} => list[j] = "after"
       /\ pc[<<j, s>>] = "signal_deletable" => state[<<j, "deletable">>]
       /\ pc[<<j, s>>] \in {"signal_done", "check"} => state[<<j, "done">>]
  /\ OwnerOfJob(j) = "destroy" => state[<<j, "deletable">>]

\* A job that was handed over is executed by the worker alone.
HandedOver(j) ==
  j \in passed =>
    /\ OwnerOfJob(j) = "gone"
    /\ WorkerOf(j) # "gone" => j \in alive
    /\ WorkerOf(j) \in {"off", "execute"} => waiting[j]
    /\ WorkerOf(j) \in {"unlist", "test_done"} => state[<<j, "done">>] \/ j \in removed \cup dropped
    /\ WorkerOf(j) = "leave" => state[<<j, "deletable">>] \/ j \in removed \cup dropped

\* A created handle is invisible only between the two looks of a waiter.
Pending(j) ==
  pending[j] # NoHandle =>
    OwnerOfJob(j) = "recheck" /\ event[<<j, Awaited(j)>>] = NoHandle

JobOK(j) == Listing(j) /\ Deletion(j) /\ HandedOver(j) /\ Pending(j)

\* Every handle is in one place: an event of a living job, the pool, or the
\* hands of an owner that has just created it.
Events == {e \in Jobs \X Marks : e[1] \in alive /\ event[e] # NoHandle}
HandlesApart ==
  /\ \A e1, e2 \in Events : event[e1] = event[e2] => e1 = e2
  /\ \A i, k \in DOMAIN pool : pool[i] = pool[k] => i = k
  /\ \A e \in Events, i \in DOMAIN pool : event[e] # pool[i]
  /\ \A j \in Jobs : pending[j] # NoHandle =>
       /\ pending[j] \notin signalled
       /\ \A k \in Jobs : pending[k] = pending[j] => k = j
       /\ \A e \in Events : event[e] # pending[j]
       /\ \A i \in DOMAIN pool : pool[i] # pending[j]

\* A handle is signalled for the living job that has it, whose event is set.
SignalledIsHeld ==
  /\ \A h \in signalled : \E e \in Events : event[e] = h /\ state[e]
  /\ \A i \in DOMAIN pool : pool[i] \notin signalled

Safe == (\A j \in Jobs : JobOK(j)) /\ HandlesApart /\ SignalledIsHeld
IInv == Always /\ (Undisturbed => Safe)

-----------------------------------------------------------------------------
(* Types *)

FlagsTypeOK ==
  /\ waiting \in [Jobs -> BOOLEAN] /\ terminated \in [Jobs -> BOOLEAN]
  /\ scheduled \in [Jobs -> BOOLEAN]

EventsTypeOK ==
  /\ state \in [Jobs \X Marks -> BOOLEAN]
  /\ event \in [Jobs \X Marks -> 0..created]
  /\ pool \in Seq(1..created)
  /\ created \in Nat
  /\ signalled \subseteq 1..created
  /\ pending \in [Jobs -> 0..created]

PlacesTypeOK ==
  /\ list \in [Jobs -> {"before", "queued", "taken", "after"}]
  /\ pc \in [Jobs \X Sides -> Places]
  /\ goal \in [Jobs -> Goals]
  /\ alive \subseteq Jobs /\ passed \subseteq Jobs

HistoryTypeOK ==
  /\ runs \in [Jobs -> Nat]
  /\ complete \subseteq Jobs /\ removed \subseteq Jobs /\ dropped \subseteq Jobs
  /\ slips \subseteq {"late_access", "late_store"}

\* The parts are the type invariant.
LEMMA Typed ==
  /\ TypeOK => FlagsTypeOK /\ EventsTypeOK /\ PlacesTypeOK /\ HistoryTypeOK
  /\ FlagsTypeOK' /\ EventsTypeOK' /\ PlacesTypeOK' /\ HistoryTypeOK' => TypeOK'
BY DEF TypeOK, FlagsTypeOK, EventsTypeOK, PlacesTypeOK, HistoryTypeOK

\* Going to another place moves one side of one job.
LEMMA Moved ==
  ASSUME TypeOK, NEW j \in Jobs, NEW s \in Sides, NEW to, Goto(j, s, to)
  PROVE  /\ \A k \in Jobs, t \in Sides : pc'[<<k, t>>] = IF k = j /\ t = s THEN to ELSE pc[<<k, t>>]
         /\ to \in Places => pc' \in [Jobs \X Sides -> Places]
BY DEF TypeOK, Goto

\* The places are those of the source; both sides exist.
LEMMA PlacesAre ==
  /\ "owner" \in Sides /\ "worker" \in Sides
  /\ \A j \in Jobs, s \in Sides :
       AfterExecute(s) \in Places /\ AfterDeletable(j, s) \in Places
  /\ \A p \in {"new", "free", "execute", "start", "running", "set_done", "signal_done",
               "check", "set_deletable", "signal_deletable", "delete", "wait", "alloc",
               "recheck", "block", "destroy", "off", "unlist", "test_done", "leave", "gone"} :
       p \in Places
BY DEF Sides, AfterExecute, AfterDeletable, Places

\* A job that is destroyed gives its handles to the pool.
LEMMA DestroyTyped ==
  ASSUME EventsTypeOK, NEW j \in Jobs
  PROVE  /\ pool \o Handles(j) \in Seq(1..created)
         /\ <<j, "done">> \in Jobs \X Marks /\ <<j, "deletable">> \in Jobs \X Marks
<1>1. <<j, "done">> \in Jobs \X Marks /\ <<j, "deletable">> \in Jobs \X Marks
  BY DEF Marks
<1>2. event[<<j, "done">>] \in 0..created /\ event[<<j, "deletable">>] \in 0..created
  BY <1>1 DEF EventsTypeOK
<1>3. Handles(j) \in Seq(1..created)
  <2>1. ASSUME NEW h \in 0..created PROVE Used(h) \in Seq(1..created)
    <3>1. CASE h = NoHandle
      BY <3>1 DEF Used
    <3>2. CASE h # NoHandle
      <4>1. h \in 1..created
        BY <3>2 DEF NoHandle, EventsTypeOK
      <4>2. <<h>> \in Seq(1..created)
        BY <4>1
      <4>. QED BY <3>2, <4>2 DEF Used
    <3>. QED BY <3>1, <3>2
  <2>. QED BY <1>2, <2>1, ConcatProperties DEF Handles
<1>4. pool \in Seq(1..created)
  BY DEF EventsTypeOK
<1>5. pool \o Handles(j) \in Seq(1..created)
  BY <1>3, <1>4, ConcatProperties
<1>. QED BY <1>1, <1>5

\* What the owner calls keeps the state typed.
LEMMA TypeCall ==
  ASSUME TypeOK, NEW j \in Jobs, Call(j)
  PROVE  TypeOK'
<1> USE Typed, PlacesAre, Moved
<1>1. ASSUME NEW b \in BOOLEAN, Schedule(j, b) PROVE TypeOK'
  <2>1. FlagsTypeOK' /\ PlacesTypeOK'
    BY <1>1 DEF Schedule, FlagsTypeOK, PlacesTypeOK, waits
  <2>. QED BY <1>1, <2>1 DEF Schedule, events, waits, history, EventsTypeOK, HistoryTypeOK
<1>2. ASSUME NEW u \in Uses[j], CallWait(j, u) PROVE TypeOK'
  <2>1. PlacesTypeOK'
    BY <1>2 DEF CallWait, PlacesTypeOK, Goals
  <2>. QED BY <1>2, <2>1 DEF CallWait, flags, events, history, FlagsTypeOK, EventsTypeOK, HistoryTypeOK
<1>3. ASSUME NEW b \in BOOLEAN, CallDelete(j, b) PROVE TypeOK'
  <2>1. FlagsTypeOK' /\ PlacesTypeOK'
    BY <1>3 DEF CallDelete, FlagsTypeOK, PlacesTypeOK, Goals
  <2>. QED BY <1>3, <2>1 DEF CallDelete, events, history, EventsTypeOK, HistoryTypeOK
<1>. QED BY <1>1, <1>2, <1>3 DEF Call

\* So does the execution of a job, on either side.
LEMMA TypeExecute ==
  ASSUME TypeOK, NEW j \in Jobs, NEW s \in Sides, Execute(j, s)
  PROVE  TypeOK'
<1> USE Typed, PlacesAre, Moved
<1>1. CASE Enter(j, s)
  <2>1. FlagsTypeOK' /\ PlacesTypeOK'
    BY <1>1 DEF Enter, FlagsTypeOK, PlacesTypeOK, waits
  <2>. QED BY <1>1, <2>1 DEF Enter, events, waits, history, EventsTypeOK, HistoryTypeOK
<1>2. CASE Begin(j, s)
  <2>1. PlacesTypeOK'
    BY <1>2 DEF Begin, PlacesTypeOK, waits
  <2>2. HistoryTypeOK'
    BY <1>2 DEF Begin, HistoryTypeOK
  <2>. QED BY <1>2, <2>1, <2>2 DEF Begin, flags, events, waits, FlagsTypeOK, EventsTypeOK
<1>3. CASE Finish(j, s)
  <2>1. PlacesTypeOK' /\ HistoryTypeOK'
    BY <1>3 DEF Finish, PlacesTypeOK, HistoryTypeOK, waits
  <2>. QED BY <1>3, <2>1 DEF Finish, flags, events, waits, FlagsTypeOK, EventsTypeOK
<1>4. ASSUME NEW m \in Marks, NEW p \in Places, NEW q \in Places, SetMark(j, s, m, p, q)
      PROVE  TypeOK'
  <2>1. PICK old \in BOOLEAN : Goto(j, s, IF old THEN q ELSE p)
    BY <1>4 DEF SetMark, Sees, EventsTypeOK
  <2>2. PlacesTypeOK'
    BY <1>4, <2>1 DEF SetMark, PlacesTypeOK, waits
  <2>3. EventsTypeOK' /\ HistoryTypeOK'
    BY <1>4 DEF SetMark, Touch, EventsTypeOK, HistoryTypeOK, waits, history
  <2>. QED BY <1>4, <2>2, <2>3 DEF SetMark, flags, FlagsTypeOK
<1>5. ASSUME NEW m \in Marks, NEW q \in Places, SignalMark(j, s, m, q) PROVE TypeOK'
  <2>1. PlacesTypeOK'
    BY <1>5 DEF SignalMark, PlacesTypeOK, waits
  <2>2. signalled' \subseteq 1..created
    BY <1>5 DEF SignalMark, EventsTypeOK, NoHandle
  <2>3. EventsTypeOK' /\ HistoryTypeOK'
    BY <1>5, <2>2 DEF SignalMark, EventsTypeOK, HistoryTypeOK, waits, history
  <2>. QED BY <1>5, <2>1, <2>3 DEF SignalMark, flags, FlagsTypeOK
<1>6. "done" \in Marks /\ "deletable" \in Marks
  BY DEF Marks
<1>7. CASE Check(j, s)
  <2>1. PICK listed \in BOOLEAN : Goto(j, s, IF listed THEN AfterExecute(s) ELSE "set_deletable")
    BY <1>7 DEF Check, Sees, FlagsTypeOK
  <2>2. PlacesTypeOK' /\ HistoryTypeOK'
    BY <1>7, <2>1 DEF Check, Touch, PlacesTypeOK, HistoryTypeOK, waits, history
  <2>. QED BY <1>7, <2>2 DEF Check, flags, events, waits, FlagsTypeOK, EventsTypeOK
<1>. QED BY <1>1, <1>2, <1>3, <1>4, <1>5, <1>6, <1>7
         DEF Execute, SetDone, SignalDone, SetDeletable, SignalDeletable

\* So does what else a worker does.
LEMMA TypeWorker ==
  ASSUME TypeOK, NEW j \in Jobs, Take(j) \/ Unqueue(j) \/ UnSchedule(j) \/ TestDone(j) \/ Leave(j)
  PROVE  TypeOK'
<1> USE Typed, PlacesAre, Moved
<1>1. CASE Take(j)
  <2>1. PlacesTypeOK'
    BY <1>1 DEF Take, PlacesTypeOK, waits
  <2>. QED BY <1>1, <2>1 DEF Take, flags, events, waits, history, FlagsTypeOK, EventsTypeOK, HistoryTypeOK
<1>2. CASE Unqueue(j)
  <2>1. PlacesTypeOK' /\ HistoryTypeOK'
    BY <1>2 DEF Unqueue, RemoveJobFromQueue, Drop, LeaveQueue, PlacesTypeOK, HistoryTypeOK, waits
  <2>. QED BY <1>2, <2>1 DEF Unqueue, RemoveJobFromQueue, Drop, LeaveQueue, flags, events, waits, FlagsTypeOK, EventsTypeOK
<1>3. CASE UnSchedule(j)
  <2>1. FlagsTypeOK' /\ PlacesTypeOK' /\ HistoryTypeOK'
    BY <1>3 DEF UnSchedule, Touch, FlagsTypeOK, PlacesTypeOK, HistoryTypeOK, waits, history
  <2>. QED BY <1>3, <2>1 DEF UnSchedule, events, waits, EventsTypeOK
<1>4. CASE TestDone(j)
  <2>1. PICK b \in BOOLEAN : Goto(j, "worker", IF b THEN "set_deletable" ELSE "leave")
    BY <1>4 DEF TestDone
  <2>2. PlacesTypeOK' /\ HistoryTypeOK'
    BY <1>4, <2>1 DEF TestDone, Touch, PlacesTypeOK, HistoryTypeOK, waits, history
  <2>. QED BY <1>4, <2>2 DEF TestDone, flags, events, waits, FlagsTypeOK, EventsTypeOK
<1>5. CASE Leave(j)
  <2>1. FlagsTypeOK' /\ HistoryTypeOK'
    BY <1>5 DEF Leave, Destroy, flags, history, FlagsTypeOK, HistoryTypeOK
  <2>3. PlacesTypeOK'
    <3>1. pc' \in [Jobs \X Sides -> Places] /\ alive' \subseteq alive /\ UNCHANGED <<passed, list, goal>>
      BY <1>5 DEF Leave, Destroy, waits
    <3>. QED BY <3>1 DEF PlacesTypeOK
  <2>2. EventsTypeOK'
    <3>1. CASE j \in passed \ removed
      <4>1. pool' = pool \o Handles(j) /\ signalled' \subseteq signalled
            /\ UNCHANGED <<state, event, created, pending>>
        BY <1>5, <3>1 DEF Leave, Destroy, waits
      <4>. QED BY <4>1, DestroyTyped DEF EventsTypeOK
    <3>2. CASE j \notin passed \ removed
      BY <1>5, <3>2 DEF Leave, events, waits, EventsTypeOK
    <3>. QED BY <3>1, <3>2
  <2>. QED BY <2>1, <2>2, <2>3
<1>. QED BY <1>1, <1>2, <1>3, <1>4, <1>5

\* So does what else the owner does.
LEMMA TypeOwner ==
  ASSUME TypeOK, NEW j \in Jobs,
         \/ Delete(j) \/ WaitFor(j) \/ AutoAlloc(j) \/ Recheck(j)
         \/ Wake(j) \/ TimeOut(j) \/ DeleteThis(j)
  PROVE  TypeOK'
<1> USE Typed, PlacesAre, Moved
<1>1. Return(j) => /\ pc' \in [Jobs \X Sides -> Places] /\ goal' \in [Jobs -> Goals]
  BY DEF Return, PlacesTypeOK, Goals
<1>2. Awaited(j) \in Marks
  BY DEF Awaited, Marks
<1>3. CASE Delete(j)
  <2>1. PlacesTypeOK'
    BY <1>3 DEF Delete, PlacesTypeOK, waits
  <2>. QED BY <1>3, <2>1 DEF Delete, flags, events, waits, history, FlagsTypeOK, EventsTypeOK, HistoryTypeOK
<1>4. CASE WaitFor(j)
  <2>1. PlacesTypeOK'
    BY <1>1, <1>4 DEF WaitFor, PlacesTypeOK, waits
  <2>2. EventsTypeOK'
    BY <1>4 DEF WaitFor, EventsTypeOK, waits
  <2>. QED BY <1>4, <2>1, <2>2 DEF WaitFor, flags, history, FlagsTypeOK, HistoryTypeOK
<1>5. CASE AutoAlloc(j)
  <2>1. PlacesTypeOK'
    BY <1>5 DEF AutoAlloc, PlacesTypeOK
  <2> DEFINE e == <<j, Awaited(j)>>
  <2>2. e \in Jobs \X Marks
    BY <1>2
  <2>3. CASE UNCHANGED <<event, pool, created, pending>>
    BY <1>5, <2>1, <2>3 DEF AutoAlloc, flags, history, FlagsTypeOK, EventsTypeOK, HistoryTypeOK
  <2>4. CASE /\ pool # <<>> /\ event' = [event EXCEPT ![e] = pool[Len(pool)]]
             /\ pool' = SubSeq(pool, 1, Len(pool) - 1) /\ UNCHANGED <<created, pending>>
    <3>1. pool \in Seq(1..created)
      BY DEF EventsTypeOK
    <3>2. /\ Len(pool) \in Nat /\ Len(pool) \in 1..Len(pool) /\ pool[Len(pool)] \in 1..created
          /\ \A i \in 1..(Len(pool) - 1) : pool[i] \in 1..created
      <4>1. Len(pool) \in Nat /\ Len(pool) # 0
        BY <2>4, <3>1, EmptySeq, LenProperties
      <4>2. \A i \in 1..Len(pool) : pool[i] \in 1..created
        BY <3>1, ElementOfSeq
      <4>. QED BY <4>1, <4>2
    <3>3. pool' \in Seq(1..created)
      BY <2>4, <3>2, SubSeqProperties
    <3>4. event' \in [Jobs \X Marks -> 0..created]
      BY <2>2, <2>4, <3>2 DEF EventsTypeOK
    <3>5. EventsTypeOK'
      BY <1>5, <2>4, <3>3, <3>4 DEF AutoAlloc, EventsTypeOK
    <3>. QED BY <1>5, <2>1, <3>5 DEF AutoAlloc, flags, history, FlagsTypeOK, HistoryTypeOK
  <2>5. CASE /\ created' = created + 1 /\ UNCHANGED pool
             /\ \/ event' = [event EXCEPT ![e] = created + 1] /\ UNCHANGED pending
                \/ pending' = [pending EXCEPT ![j] = created + 1] /\ UNCHANGED event
    <3>1. 0..created \subseteq 0..created' /\ 1..created \subseteq 1..created' /\ created + 1 \in 0..created'
          /\ created' \in Nat
      BY <2>5 DEF EventsTypeOK
    <3>2. event' \in [Jobs \X Marks -> 0..created']
      BY <2>2, <2>5, <3>1, ZenonT(60) DEF EventsTypeOK
    <3>3. pending' \in [Jobs -> 0..created']
      BY <2>5, <3>1 DEF EventsTypeOK
    <3>4. pool \in Seq(1..created')
      BY <3>1, SeqMonotonic DEF EventsTypeOK
    <3>5. EventsTypeOK'
      BY <1>5, <2>5, <3>1, <3>2, <3>3, <3>4 DEF AutoAlloc, EventsTypeOK
    <3>. QED BY <1>5, <2>1, <3>5 DEF AutoAlloc, flags, history, FlagsTypeOK, HistoryTypeOK
  <2>. QED BY <1>5, <2>3, <2>4, <2>5 DEF AutoAlloc, Alloc
<1>6. CASE Recheck(j)
  <2>1. PlacesTypeOK'
    BY <1>1, <1>6 DEF Recheck, PlacesTypeOK
  <2>2. event' \in [Jobs \X Marks -> 0..created] /\ pending' \in [Jobs -> 0..created]
    BY <1>2, <1>6 DEF Recheck, EventsTypeOK, NoHandle
  <2>3. EventsTypeOK'
    BY <1>6, <2>2 DEF Recheck, EventsTypeOK
  <2>. QED BY <1>6, <2>1, <2>3 DEF Recheck, flags, history, FlagsTypeOK, HistoryTypeOK
<1>7. CASE Wake(j)
  <2>1. PlacesTypeOK'
    BY <1>1, <1>7 DEF Wake, PlacesTypeOK
  <2>. QED BY <1>7, <2>1 DEF Wake, flags, events, history, FlagsTypeOK, EventsTypeOK, HistoryTypeOK
<1>8. CASE TimeOut(j)
  <2>1. PlacesTypeOK'
    BY <1>1, <1>8 DEF TimeOut, PlacesTypeOK
  <2>. QED BY <1>8, <2>1 DEF TimeOut, flags, events, history, FlagsTypeOK, EventsTypeOK, HistoryTypeOK
<1>9. CASE DeleteThis(j)
  <2>1. FlagsTypeOK' /\ HistoryTypeOK' /\ PlacesTypeOK'
    BY <1>9 DEF DeleteThis, Destroy, flags, history, waits, FlagsTypeOK, HistoryTypeOK, PlacesTypeOK
  <2>2. EventsTypeOK'
    BY <1>9, DestroyTyped DEF DeleteThis, Destroy, waits, EventsTypeOK
  <2>. QED BY <2>1, <2>2
<1>. QED BY <1>3, <1>4, <1>5, <1>6, <1>7, <1>8, <1>9

\* Every step keeps the state typed.
LEMMA TypeStep == TypeOK /\ [Next]_vars => TypeOK'
<1> SUFFICES ASSUME TypeOK, [Next]_vars PROVE TypeOK'
  OBVIOUS
<1>1. CASE UNCHANGED vars
  BY <1>1 DEF TypeOK, vars, flags, events, waits, history
<1>2. CASE Next
  BY <1>2, TypeCall, TypeExecute, TypeWorker, TypeOwner, PlacesAre DEF Next, OwnerStep, WorkerStep
<1>. QED BY <1>1, <1>2

-----------------------------------------------------------------------------
(* The flag and the event `executionDone` *)

\* The flag `waiting` lets one side start the job.
LEMMA OnceStep == TypeOK /\ Once /\ [Next]_vars => Once'
<1> SUFFICES ASSUME TypeOK, Once, [Next]_vars PROVE Once'
  OBVIOUS
<1> USE DEF Once
<1>0. pc \in [Jobs \X Sides -> Places] /\ waiting \in [Jobs -> BOOLEAN] /\ runs \in [Jobs -> Nat]
  BY DEF TypeOK
<1>1. CASE UNCHANGED vars
  BY <1>1 DEF vars, flags, events, waits, history
<1>2. ASSUME NEW j \in Jobs, Call(j) \/ OwnerStep(j) \/ Take(j) \/ Unqueue(j) \/ WorkerStep(j)
      PROVE  Once'
  <2>0. ASSUME NEW s \in Sides, NEW to, Goto(j, s, to), to # "start", UNCHANGED <<waiting, runs>>
        PROVE  Once'
    BY <2>0, <1>0 DEF Goto
  <2>1. ASSUME NEW b \in BOOLEAN, Schedule(j, b) PROVE Once'
    BY <2>1, <1>0 DEF Schedule, At, Goto, Sides, flags, waits, history, AfterExecute, AfterDeletable
  <2>2. ASSUME NEW u \in Uses[j], CallWait(j, u) PROVE Once'
    BY <2>2, <1>0 DEF CallWait, At, Goto, Sides, flags, waits, history, AfterExecute, AfterDeletable
  <2>3. ASSUME NEW b \in BOOLEAN, CallDelete(j, b) PROVE Once'
    BY <2>3, <1>0 DEF CallDelete, At, Goto, Sides, flags, waits, history, AfterExecute, AfterDeletable
  <2>4. ASSUME Delete(j) PROVE Once'
    BY <2>4, <1>0 DEF Delete, At, Goto, Sides, flags, waits, history, AfterExecute, AfterDeletable
  <2>5. ASSUME WaitFor(j) PROVE Once'
    <3>1. UNCHANGED <<waiting, runs>>
      BY <2>5 DEF WaitFor, flags, history
    <3>2. CASE Goto(j, "owner", "alloc")
      BY <1>0, <3>1, <3>2 DEF Goto, Sides
    <3>3. CASE Return(j)
      BY <1>0, <3>1, <3>3 DEF Return, Goto, Sides
    <3>. QED BY <2>5, <3>2, <3>3 DEF WaitFor
  <2>6. ASSUME AutoAlloc(j) PROVE Once'
    BY <2>6, <1>0 DEF AutoAlloc, At, Goto, Sides, flags, waits, history, AfterExecute, AfterDeletable
  <2>7. ASSUME Recheck(j) PROVE Once'
    <3>1. UNCHANGED <<waiting, runs>>
      BY <2>7 DEF Recheck, flags, history
    <3>2. CASE Goto(j, "owner", "block")
      BY <1>0, <3>1, <3>2 DEF Goto, Sides
    <3>3. CASE Return(j)
      BY <1>0, <3>1, <3>3 DEF Return, Goto, Sides
    <3>. QED BY <2>7, <3>2, <3>3 DEF Recheck
  <2>8. ASSUME Wake(j) PROVE Once'
    BY <2>8, <1>0 DEF Wake, Return, At, Goto, Sides, flags, waits, history, AfterExecute, AfterDeletable
  <2>9. ASSUME TimeOut(j) PROVE Once'
    BY <2>9, <1>0 DEF TimeOut, Return, At, Goto, Sides, flags, waits, history, AfterExecute, AfterDeletable
  <2>10. ASSUME DeleteThis(j) PROVE Once'
    BY <2>10, <1>0 DEF DeleteThis, Destroy, At, Goto, Sides, flags, waits, history, AfterExecute, AfterDeletable
  <2>11. ASSUME NEW s \in Sides, Enter(j, s) PROVE Once'
    BY <2>11, <1>0 DEF Enter, At, Goto, Sides, flags, waits, history, AfterExecute, AfterDeletable
  <2>12. ASSUME NEW s \in Sides, Begin(j, s) PROVE Once'
    <3>1. UNCHANGED waiting /\ pc[<<j, s>>] = "start"
      BY <2>12 DEF Begin, At, flags
    <3>2. CASE UNCHANGED runs /\ Goto(j, s, "set_done")
      BY <1>0, <3>1, <3>2 DEF Goto, Sides
    <3>3. CASE runs' = [runs EXCEPT ![j] = runs[j] + 1] /\ Goto(j, s, "running")
      <4>1. runs[j] = 0 /\ ~waiting[j] /\ \A t \in Sides : pc[<<j, t>>] = "start" => t = s
        BY <3>1
      <4>2. \A k \in Jobs : runs'[k] = IF k = j THEN 1 ELSE runs[k]
        BY <1>0, <3>3, <4>1
      <4>3. \A k \in Jobs, t \in Sides : pc'[<<k, t>>] = "start" =>
              pc[<<k, t>>] = "start" /\ k # j
        BY <1>0, <3>1, <3>3, <4>1 DEF Goto
      <4>. QED BY <1>0, <3>1, <4>1, <4>2, <4>3
    <3>. QED BY <2>12, <3>2, <3>3 DEF Begin
  <2>13. ASSUME NEW s \in Sides, Finish(j, s) PROVE Once'
    BY <2>13, <1>0 DEF Finish, At, Goto, Sides, flags, waits, history, AfterExecute, AfterDeletable
  <2>14. ASSUME NEW s \in Sides, SetDone(j, s) PROVE Once'
    <3>1. UNCHANGED <<waiting, runs>> /\ \E to : Goto(j, s, to) /\ to # "start"
      BY <2>14 DEF SetDone, SetMark, At, flags, waits, history, AfterDeletable, AfterExecute
    <3>. QED BY <2>0, <3>1
  <2>15. ASSUME NEW s \in Sides, SignalDone(j, s) PROVE Once'
    <3>1. UNCHANGED <<waiting, runs>> /\ \E to : Goto(j, s, to) /\ to # "start"
      BY <2>15 DEF SignalDone, SignalMark, flags, waits, history, AfterDeletable, AfterExecute
    <3>. QED BY <2>0, <3>1
  <2>16. ASSUME NEW s \in Sides, Check(j, s) PROVE Once'
    <3>1. UNCHANGED <<waiting, runs>> /\ \E to : Goto(j, s, to) /\ to # "start"
      BY <2>16 DEF Check, flags, waits, history, AfterDeletable, AfterExecute
    <3>. QED BY <2>0, <3>1
  <2>17. ASSUME NEW s \in Sides, SetDeletable(j, s) PROVE Once'
    <3>1. UNCHANGED <<waiting, runs>> /\ \E to : Goto(j, s, to) /\ to # "start"
      BY <2>17 DEF SetDeletable, SetMark, At, flags, waits, history, AfterDeletable, AfterExecute
    <3>. QED BY <2>0, <3>1
  <2>18. ASSUME NEW s \in Sides, SignalDeletable(j, s) PROVE Once'
    <3>1. UNCHANGED <<waiting, runs>> /\ \E to : Goto(j, s, to) /\ to # "start"
      BY <2>18 DEF SignalDeletable, SignalMark, flags, waits, history, AfterDeletable, AfterExecute
    <3>. QED BY <2>0, <3>1
  <2>19. ASSUME Take(j) PROVE Once'
    BY <2>19, <1>0 DEF Take, At, Goto, Sides, flags, waits, history, AfterExecute, AfterDeletable
  <2>20. ASSUME Unqueue(j) PROVE Once'
    <3>1. LeaveQueue(j)
      BY <2>20 DEF Unqueue, RemoveJobFromQueue, Drop
    <3>. QED BY <3>1, <1>0 DEF LeaveQueue, Goto, Sides, flags
  <2>21. ASSUME UnSchedule(j) PROVE Once'
    BY <2>21, <1>0 DEF UnSchedule, At, Goto, Sides, flags, waits, history, AfterExecute, AfterDeletable
  <2>22. ASSUME TestDone(j) PROVE Once'
    <3>1. UNCHANGED <<waiting, runs>> /\ \E to : Goto(j, "worker", to) /\ to # "start"
      BY <2>22 DEF TestDone, flags, waits, history
    <3>. QED BY <2>0, <3>1 DEF Sides
  <2>23. ASSUME Leave(j) PROVE Once'
    BY <2>23, <1>0 DEF Leave, Destroy, At, Goto, Sides, flags, waits, history, AfterExecute, AfterDeletable
  <2>. QED BY <1>2, <2>1, <2>2, <2>3, <2>4, <2>5, <2>6, <2>7, <2>8, <2>9, <2>10, <2>11, <2>12, <2>13, <2>14, <2>15, <2>16, <2>17, <2>18, <2>19, <2>20, <2>21, <2>22, <2>23, PlacesAre
           DEF Call, OwnerStep, WorkerStep, Execute
<1>. QED BY <1>1, <1>2 DEF Next

\* Only a side that is through with the job sets `executionDone`.
LEMMA DoneIsCompleteStep == TypeOK /\ DoneIsComplete /\ [Next]_vars => DoneIsComplete'
<1> SUFFICES ASSUME TypeOK, DoneIsComplete, [Next]_vars PROVE DoneIsComplete'
  OBVIOUS
<1> USE DEF DoneIsComplete
<1>0. pc \in [Jobs \X Sides -> Places] /\ state \in [Jobs \X Marks -> BOOLEAN]
  BY DEF TypeOK
<1>1. CASE UNCHANGED vars
  BY <1>1 DEF vars, flags, events, waits, history
<1>2. ASSUME NEW j \in Jobs, Call(j) \/ OwnerStep(j) \/ Take(j) \/ Unqueue(j) \/ WorkerStep(j)
      PROVE  DoneIsComplete'
  <2>1. ASSUME NEW b \in BOOLEAN, Schedule(j, b) PROVE DoneIsComplete'
    BY <2>1, <1>0 DEF Schedule, At, Goto, Sides, Marks, events, waits, history, AfterExecute, AfterDeletable
  <2>2. ASSUME NEW u \in Uses[j], CallWait(j, u) PROVE DoneIsComplete'
    BY <2>2, <1>0 DEF CallWait, At, Goto, Sides, Marks, events, waits, history, AfterExecute, AfterDeletable
  <2>3. ASSUME NEW b \in BOOLEAN, CallDelete(j, b) PROVE DoneIsComplete'
    BY <2>3, <1>0 DEF CallDelete, At, Goto, Sides, Marks, events, waits, history, AfterExecute, AfterDeletable
  <2>4. ASSUME Delete(j) PROVE DoneIsComplete'
    BY <2>4, <1>0 DEF Delete, At, Goto, Sides, Marks, events, waits, history, AfterExecute, AfterDeletable
  <2>5. ASSUME WaitFor(j) PROVE DoneIsComplete'
    BY <2>5, <1>0, ZenonT(60) DEF WaitFor, Return, At, Goto, Sides, Marks, events, waits, history, AfterExecute, AfterDeletable
  <2>6. ASSUME AutoAlloc(j) PROVE DoneIsComplete'
    BY <2>6, <1>0 DEF AutoAlloc, At, Goto, Sides, Marks, events, waits, history, AfterExecute, AfterDeletable
  <2>7. ASSUME Recheck(j) PROVE DoneIsComplete'
    BY <2>7, <1>0, ZenonT(60) DEF Recheck, Return, At, Goto, Sides, Marks, events, waits, history, AfterExecute, AfterDeletable
  <2>8. ASSUME Wake(j) PROVE DoneIsComplete'
    BY <2>8, <1>0 DEF Wake, Return, At, Goto, Sides, Marks, events, waits, history, AfterExecute, AfterDeletable
  <2>9. ASSUME TimeOut(j) PROVE DoneIsComplete'
    BY <2>9, <1>0 DEF TimeOut, Return, At, Goto, Sides, Marks, events, waits, history, AfterExecute, AfterDeletable
  <2>10. ASSUME DeleteThis(j) PROVE DoneIsComplete'
    BY <2>10, <1>0 DEF DeleteThis, Destroy, At, Goto, Sides, Marks, events, waits, history, AfterExecute, AfterDeletable
  <2>11. ASSUME NEW s \in Sides, Enter(j, s) PROVE DoneIsComplete'
    BY <2>11, <1>0 DEF Enter, At, Goto, Sides, Marks, events, waits, history, AfterExecute, AfterDeletable
  <2>12. ASSUME NEW s \in Sides, Begin(j, s) PROVE DoneIsComplete'
    BY <2>12, <1>0 DEF Begin, At, Goto, Sides, Marks, events, waits, history, AfterExecute, AfterDeletable
  <2>13. ASSUME NEW s \in Sides, Finish(j, s) PROVE DoneIsComplete'
    BY <2>13, <1>0 DEF Finish, At, Goto, Sides, Marks, events, waits, history, AfterExecute, AfterDeletable
  <2>14. ASSUME NEW s \in Sides, SetDone(j, s) PROVE DoneIsComplete'
    BY <2>14, <1>0 DEF SetDone, SetMark, At, Goto, Sides, Marks, events, waits, history, AfterExecute, AfterDeletable
  <2>15. ASSUME NEW s \in Sides, SignalDone(j, s) PROVE DoneIsComplete'
    BY <2>15, <1>0 DEF SignalDone, SignalMark, At, Goto, Sides, Marks, events, waits, history, AfterExecute, AfterDeletable
  <2>16. ASSUME NEW s \in Sides, Check(j, s) PROVE DoneIsComplete'
    BY <2>16, <1>0 DEF Check, At, Goto, Sides, Marks, events, waits, history, AfterExecute, AfterDeletable
  <2>17. ASSUME NEW s \in Sides, SetDeletable(j, s) PROVE DoneIsComplete'
    BY <2>17, <1>0 DEF SetDeletable, SetMark, At, Goto, Sides, Marks, events, waits, history, AfterExecute, AfterDeletable
  <2>18. ASSUME NEW s \in Sides, SignalDeletable(j, s) PROVE DoneIsComplete'
    BY <2>18, <1>0 DEF SignalDeletable, SignalMark, At, Goto, Sides, Marks, events, waits, history, AfterExecute, AfterDeletable
  <2>19. ASSUME Take(j) PROVE DoneIsComplete'
    BY <2>19, <1>0 DEF Take, At, Goto, Sides, Marks, events, waits, history, AfterExecute, AfterDeletable
  <2>20. ASSUME Unqueue(j) PROVE DoneIsComplete'
    BY <2>20, <1>0 DEF Unqueue, RemoveJobFromQueue, Drop, LeaveQueue, At, Goto, Sides, Marks, events, waits, history, AfterExecute, AfterDeletable
  <2>21. ASSUME UnSchedule(j) PROVE DoneIsComplete'
    BY <2>21, <1>0 DEF UnSchedule, At, Goto, Sides, Marks, events, waits, history, AfterExecute, AfterDeletable
  <2>22. ASSUME TestDone(j) PROVE DoneIsComplete'
    BY <2>22, <1>0 DEF TestDone, At, Goto, Sides, Marks, events, waits, history, AfterExecute, AfterDeletable
  <2>23. ASSUME Leave(j) PROVE DoneIsComplete'
    BY <2>23, <1>0 DEF Leave, Destroy, At, Goto, Sides, Marks, events, waits, history, AfterExecute, AfterDeletable
  <2>. QED BY <1>2, <2>1, <2>2, <2>3, <2>4, <2>5, <2>6, <2>7, <2>8, <2>9, <2>10, <2>11, <2>12, <2>13, <2>14, <2>15, <2>16, <2>17, <2>18, <2>19, <2>20, <2>21, <2>22, <2>23, PlacesAre
           DEF Call, OwnerStep, WorkerStep, Execute
<1>. QED BY <1>1, <1>2 DEF Next

-----------------------------------------------------------------------------
(* One job *)

\* The worker that takes the job is the one that takes it off the list.
LEMMA ListingStep ==
  ASSUME TypeOK, NEW j \in Jobs, Listing(j), Deletion(j), HandedOver(j), slips' = {},
         Call(j) \/ OwnerStep(j) \/ Take(j) \/ Unqueue(j) \/ WorkerStep(j)
  PROVE  Listing(j)'
<1>0. /\ pc \in [Jobs \X Sides -> Places]
      /\ list \in [Jobs -> {"before", "queued", "taken", "after"}]
      /\ scheduled \in [Jobs -> BOOLEAN]
      /\ waiting \in [Jobs -> BOOLEAN]
  BY DEF TypeOK
<1>1. ASSUME NEW b \in BOOLEAN, Schedule(j, b) PROVE Listing(j)'
  BY <1>0, <1>1 DEF Schedule, Listing, Deletion, HandedOver, OwnerOfJob, WorkerOf, Past, At, Goto, Sides, flags, history, Sees, Touch, AfterExecute, AfterDeletable
<1>2. ASSUME NEW u \in Uses[j], CallWait(j, u) PROVE Listing(j)'
  BY <1>0, <1>2 DEF CallWait, Listing, Deletion, HandedOver, OwnerOfJob, WorkerOf, Past, At, Goto, Sides, flags, history, Sees, Touch, AfterExecute, AfterDeletable
<1>3. ASSUME NEW b \in BOOLEAN, CallDelete(j, b) PROVE Listing(j)'
  BY <1>0, <1>3 DEF CallDelete, Listing, Deletion, HandedOver, OwnerOfJob, WorkerOf, Past, At, Goto, Sides, flags, history, Sees, Touch, AfterExecute, AfterDeletable
<1>4. ASSUME Delete(j) PROVE Listing(j)'
  BY <1>0, <1>4 DEF Delete, Listing, Deletion, HandedOver, OwnerOfJob, WorkerOf, Past, At, Goto, Sides, flags, history, Sees, Touch, AfterExecute, AfterDeletable
<1>5. ASSUME WaitFor(j) PROVE Listing(j)'
  BY <1>0, <1>5 DEF WaitFor, Return, Listing, Deletion, HandedOver, OwnerOfJob, WorkerOf, Past, At, Goto, Sides, flags, history, Sees, Touch, AfterExecute, AfterDeletable
<1>6. ASSUME AutoAlloc(j) PROVE Listing(j)'
  BY <1>0, <1>6 DEF AutoAlloc, Listing, Deletion, HandedOver, OwnerOfJob, WorkerOf, Past, At, Goto, Sides, flags, history, Sees, Touch, AfterExecute, AfterDeletable
<1>7. ASSUME Recheck(j) PROVE Listing(j)'
  BY <1>0, <1>7 DEF Recheck, Return, Listing, Deletion, HandedOver, OwnerOfJob, WorkerOf, Past, At, Goto, Sides, flags, history, Sees, Touch, AfterExecute, AfterDeletable
<1>8. ASSUME Wake(j) PROVE Listing(j)'
  BY <1>0, <1>8 DEF Wake, Return, Listing, Deletion, HandedOver, OwnerOfJob, WorkerOf, Past, At, Goto, Sides, flags, history, Sees, Touch, AfterExecute, AfterDeletable
<1>9. ASSUME TimeOut(j) PROVE Listing(j)'
  BY <1>0, <1>9 DEF TimeOut, Return, Listing, Deletion, HandedOver, OwnerOfJob, WorkerOf, Past, At, Goto, Sides, flags, history, Sees, Touch, AfterExecute, AfterDeletable
<1>10. ASSUME DeleteThis(j) PROVE Listing(j)'
  BY <1>0, <1>10 DEF DeleteThis, Destroy, Listing, Deletion, HandedOver, OwnerOfJob, WorkerOf, Past, At, Goto, Sides, flags, history, Sees, Touch, AfterExecute, AfterDeletable
<1>11. ASSUME NEW s \in Sides, Enter(j, s) PROVE Listing(j)'
  BY <1>0, <1>11 DEF Enter, Listing, Deletion, HandedOver, OwnerOfJob, WorkerOf, Past, At, Goto, Sides, flags, history, Sees, Touch, AfterExecute, AfterDeletable
<1>12. ASSUME NEW s \in Sides, Begin(j, s) PROVE Listing(j)'
  BY <1>0, <1>12 DEF Begin, Listing, Deletion, HandedOver, OwnerOfJob, WorkerOf, Past, At, Goto, Sides, flags, history, Sees, Touch, AfterExecute, AfterDeletable
<1>13. ASSUME NEW s \in Sides, Finish(j, s) PROVE Listing(j)'
  BY <1>0, <1>13 DEF Finish, Listing, Deletion, HandedOver, OwnerOfJob, WorkerOf, Past, At, Goto, Sides, flags, history, Sees, Touch, AfterExecute, AfterDeletable
<1>14. ASSUME NEW s \in Sides, SetDone(j, s) PROVE Listing(j)'
  BY <1>0, <1>14, SMTT(30) DEF SetDone, SetMark, Listing, Deletion, HandedOver, OwnerOfJob, WorkerOf, Past, At, Goto, Sides, flags, history, Sees, Touch, AfterExecute, AfterDeletable
<1>15. ASSUME NEW s \in Sides, SignalDone(j, s) PROVE Listing(j)'
  BY <1>0, <1>15 DEF SignalDone, SignalMark, Listing, Deletion, HandedOver, OwnerOfJob, WorkerOf, Past, At, Goto, Sides, flags, history, Sees, Touch, AfterExecute, AfterDeletable
<1>16. ASSUME NEW s \in Sides, Check(j, s) PROVE Listing(j)'
  BY <1>0, <1>16 DEF Check, Listing, Deletion, HandedOver, OwnerOfJob, WorkerOf, Past, At, Goto, Sides, flags, history, Sees, Touch, AfterExecute, AfterDeletable
<1>17. ASSUME NEW s \in Sides, SetDeletable(j, s) PROVE Listing(j)'
  BY <1>0, <1>17 DEF SetDeletable, SetMark, Listing, Deletion, HandedOver, OwnerOfJob, WorkerOf, Past, At, Goto, Sides, flags, history, Sees, Touch, AfterExecute, AfterDeletable
<1>18. ASSUME NEW s \in Sides, SignalDeletable(j, s) PROVE Listing(j)'
  BY <1>0, <1>18 DEF SignalDeletable, SignalMark, Listing, Deletion, HandedOver, OwnerOfJob, WorkerOf, Past, At, Goto, Sides, flags, history, Sees, Touch, AfterExecute, AfterDeletable
<1>19. ASSUME Take(j) PROVE Listing(j)'
  BY <1>0, <1>19 DEF Take, Listing, Deletion, HandedOver, OwnerOfJob, WorkerOf, Past, At, Goto, Sides, flags, history, Sees, Touch, AfterExecute, AfterDeletable
<1>20. ASSUME Unqueue(j) PROVE Listing(j)'
  BY <1>0, <1>20 DEF Unqueue, RemoveJobFromQueue, Drop, LeaveQueue, Listing, Deletion, HandedOver, OwnerOfJob, WorkerOf, Past, At, Goto, Sides, flags, history, Sees, Touch, AfterExecute, AfterDeletable
<1>21. ASSUME UnSchedule(j) PROVE Listing(j)'
  BY <1>0, <1>21 DEF UnSchedule, Listing, Deletion, HandedOver, OwnerOfJob, WorkerOf, Past, At, Goto, Sides, flags, history, Sees, Touch, AfterExecute, AfterDeletable
<1>22. ASSUME TestDone(j) PROVE Listing(j)'
  BY <1>0, <1>22 DEF TestDone, Listing, Deletion, HandedOver, OwnerOfJob, WorkerOf, Past, At, Goto, Sides, flags, history, Sees, Touch, AfterExecute, AfterDeletable
<1>23. ASSUME Leave(j) PROVE Listing(j)'
  BY <1>0, <1>23 DEF Leave, Destroy, Listing, Deletion, HandedOver, OwnerOfJob, WorkerOf, Past, At, Goto, Sides, flags, history, Sees, Touch, AfterExecute, AfterDeletable
<1>. QED BY <1>1, <1>2, <1>3, <1>4, <1>5, <1>6, <1>7, <1>8, <1>9, <1>10, <1>11, <1>12, <1>13, <1>14, <1>15, <1>16, <1>17, <1>18, <1>19, <1>20, <1>21, <1>22, <1>23, PlacesAre DEF Call, OwnerStep, WorkerStep, Execute

\* A handle that is signalled says the truth to the living job that has it.
LEMMA HeldIsSet ==
  ASSUME TypeOK, HandlesApart, SignalledIsHeld, NEW j \in alive,
         event[<<j, Awaited(j)>>] \in signalled
  PROVE  state[<<j, Awaited(j)>>]
<1>1. j \in Jobs /\ Awaited(j) \in Marks
  BY DEF TypeOK, Awaited, Marks
<1>2. event[<<j, Awaited(j)>>] # NoHandle
  BY DEF TypeOK, NoHandle
<1>3. <<j, Awaited(j)>> \in Events
  BY <1>1, <1>2 DEF Events
<1>4. PICK e \in Events : event[e] = event[<<j, Awaited(j)>>] /\ state[e]
  BY DEF SignalledIsHeld
<1>. QED BY <1>3, <1>4 DEF HandlesApart

\* Only the side that has the job last makes it deletable, and only then it goes.
LEMMA DeletionStep ==
  ASSUME TypeOK, NEW j \in Jobs, Listing(j), Deletion(j), HandedOver(j), HandlesApart, SignalledIsHeld, slips' = {},
         Call(j) \/ OwnerStep(j) \/ Take(j) \/ Unqueue(j) \/ WorkerStep(j)
  PROVE  Deletion(j)'
<1>0. /\ pc \in [Jobs \X Sides -> Places]
      /\ list \in [Jobs -> {"before", "queued", "taken", "after"}]
      /\ scheduled \in [Jobs -> BOOLEAN]
      /\ state \in [Jobs \X Marks -> BOOLEAN]
  BY DEF TypeOK
<1>1. ASSUME NEW b \in BOOLEAN, Schedule(j, b) PROVE Deletion(j)'
  BY <1>0, <1>1 DEF Schedule, Listing, Deletion, HandedOver, OwnerOfJob, WorkerOf, Past, At, Goto, Sides, Marks, flags, events, waits, history, Sees, Touch, AfterExecute, AfterDeletable
<1>2. ASSUME NEW u \in Uses[j], CallWait(j, u) PROVE Deletion(j)'
  BY <1>0, <1>2 DEF CallWait, Listing, Deletion, HandedOver, OwnerOfJob, WorkerOf, Past, At, Goto, Sides, Marks, flags, events, waits, history, Sees, Touch, AfterExecute, AfterDeletable
<1>3. ASSUME NEW b \in BOOLEAN, CallDelete(j, b) PROVE Deletion(j)'
  BY <1>0, <1>3 DEF CallDelete, Listing, Deletion, HandedOver, OwnerOfJob, WorkerOf, Past, At, Goto, Sides, Marks, flags, events, waits, history, Sees, Touch, AfterExecute, AfterDeletable
<1>4. ASSUME Delete(j) PROVE Deletion(j)'
  BY <1>0, <1>4 DEF Delete, Listing, Deletion, HandedOver, OwnerOfJob, WorkerOf, Past, At, Goto, Sides, Marks, flags, events, waits, history, Sees, Touch, AfterExecute, AfterDeletable
<1>5. ASSUME WaitFor(j) PROVE Deletion(j)'
  BY <1>0, <1>5, ZenonT(60) DEF WaitFor, Return, Listing, Deletion, HandedOver, OwnerOfJob, WorkerOf, Past, At, Goto, Sides, Marks, flags, events, waits, history, Sees, Touch, AfterExecute, AfterDeletable, Awaited
<1>6. ASSUME AutoAlloc(j) PROVE Deletion(j)'
  BY <1>0, <1>6 DEF AutoAlloc, Listing, Deletion, HandedOver, OwnerOfJob, WorkerOf, Past, At, Goto, Sides, Marks, flags, events, waits, history, Sees, Touch, AfterExecute, AfterDeletable
<1>7. ASSUME Recheck(j) PROVE Deletion(j)'
  BY <1>0, <1>7 DEF Recheck, Return, Listing, Deletion, HandedOver, OwnerOfJob, WorkerOf, Past, At, Goto, Sides, Marks, flags, events, waits, history, Sees, Touch, AfterExecute, AfterDeletable, Awaited
<1>8. ASSUME Wake(j) PROVE Deletion(j)'
  <2>1. state[<<j, Awaited(j)>>]
    BY <1>8, HeldIsSet DEF Wake, At, Deletion, OwnerOfJob
  <2>. QED BY <1>0, <2>1, <1>8 DEF Wake, Return, Awaited, Deletion, OwnerOfJob, WorkerOf, Past, At, Goto, Sides, Marks, flags, events, waits, history, Sees, Touch, AfterExecute, AfterDeletable
<1>9. ASSUME TimeOut(j) PROVE Deletion(j)'
  BY <1>0, <1>9 DEF TimeOut, Return, Listing, Deletion, HandedOver, OwnerOfJob, WorkerOf, Past, At, Goto, Sides, Marks, flags, events, waits, history, Sees, Touch, AfterExecute, AfterDeletable, Awaited
<1>10. ASSUME DeleteThis(j) PROVE Deletion(j)'
  BY <1>0, <1>10 DEF DeleteThis, Destroy, Listing, Deletion, HandedOver, OwnerOfJob, WorkerOf, Past, At, Goto, Sides, Marks, flags, events, waits, history, Sees, Touch, AfterExecute, AfterDeletable
<1>11. ASSUME NEW s \in Sides, Enter(j, s) PROVE Deletion(j)'
  BY <1>0, <1>11 DEF Enter, Listing, Deletion, HandedOver, OwnerOfJob, WorkerOf, Past, At, Goto, Sides, Marks, flags, events, waits, history, Sees, Touch, AfterExecute, AfterDeletable
<1>12. ASSUME NEW s \in Sides, Begin(j, s) PROVE Deletion(j)'
  BY <1>0, <1>12 DEF Begin, Listing, Deletion, HandedOver, OwnerOfJob, WorkerOf, Past, At, Goto, Sides, Marks, flags, events, waits, history, Sees, Touch, AfterExecute, AfterDeletable
<1>13. ASSUME NEW s \in Sides, Finish(j, s) PROVE Deletion(j)'
  BY <1>0, <1>13 DEF Finish, Listing, Deletion, HandedOver, OwnerOfJob, WorkerOf, Past, At, Goto, Sides, Marks, flags, events, waits, history, Sees, Touch, AfterExecute, AfterDeletable
<1>14. ASSUME NEW s \in Sides, SetDone(j, s) PROVE Deletion(j)'
  BY <1>0, <1>14 DEF SetDone, SetMark, Listing, Deletion, HandedOver, OwnerOfJob, WorkerOf, Past, At, Goto, Sides, Marks, flags, events, waits, history, Sees, Touch, AfterExecute, AfterDeletable
<1>15. ASSUME NEW s \in Sides, SignalDone(j, s) PROVE Deletion(j)'
  BY <1>0, <1>15 DEF SignalDone, SignalMark, Listing, Deletion, HandedOver, OwnerOfJob, WorkerOf, Past, At, Goto, Sides, Marks, flags, events, waits, history, Sees, Touch, AfterExecute, AfterDeletable
<1>16. ASSUME NEW s \in Sides, Check(j, s) PROVE Deletion(j)'
  BY <1>0, <1>16, ZenonT(60) DEF Check, Listing, Deletion, HandedOver, OwnerOfJob, WorkerOf, Past, At, Goto, Sides, Marks, flags, events, waits, history, Sees, Touch, AfterExecute, AfterDeletable
<1>17. ASSUME NEW s \in Sides, SetDeletable(j, s) PROVE Deletion(j)'
  <2>1. list[j] = "after" /\ UNCHANGED <<list, alive, passed, dropped>>
    BY <1>17 DEF SetDeletable, SetMark, At, Deletion, flags, history
  <2>2. state' = [state EXCEPT ![<<j, "deletable">>] = TRUE]
    BY <1>17 DEF SetDeletable, SetMark
  <2>3. PICK to : Goto(j, s, to) /\ to \in {"signal_deletable", "leave", "unlist", "wait"}
    BY <1>17 DEF SetDeletable, SetMark, AfterDeletable, AfterExecute, Sees
  <2>. QED BY <1>0, <2>1, <2>2, <2>3, <1>17 DEF SetDeletable, At, Goto, Sides, Marks, Deletion, OwnerOfJob
<1>18. ASSUME NEW s \in Sides, SignalDeletable(j, s) PROVE Deletion(j)'
  BY <1>0, <1>18 DEF SignalDeletable, SignalMark, Listing, Deletion, HandedOver, OwnerOfJob, WorkerOf, Past, At, Goto, Sides, Marks, flags, events, waits, history, Sees, Touch, AfterExecute, AfterDeletable
<1>19. ASSUME Take(j) PROVE Deletion(j)'
  BY <1>0, <1>19 DEF Take, Listing, Deletion, HandedOver, OwnerOfJob, WorkerOf, Past, At, Goto, Sides, Marks, flags, events, waits, history, Sees, Touch, AfterExecute, AfterDeletable
<1>20. ASSUME Unqueue(j) PROVE Deletion(j)'
  BY <1>0, <1>20 DEF Unqueue, RemoveJobFromQueue, Drop, LeaveQueue, Listing, Deletion, HandedOver, OwnerOfJob, WorkerOf, Past, At, Goto, Sides, Marks, flags, events, waits, history, Sees, Touch, AfterExecute, AfterDeletable
<1>21. ASSUME UnSchedule(j) PROVE Deletion(j)'
  BY <1>0, <1>21 DEF UnSchedule, Listing, Deletion, HandedOver, OwnerOfJob, WorkerOf, Past, At, Goto, Sides, Marks, flags, events, waits, history, Sees, Touch, AfterExecute, AfterDeletable
<1>22. ASSUME TestDone(j) PROVE Deletion(j)'
  BY <1>0, <1>22 DEF TestDone, Listing, Deletion, HandedOver, OwnerOfJob, WorkerOf, Past, At, Goto, Sides, Marks, flags, events, waits, history, Sees, Touch, AfterExecute, AfterDeletable
<1>23. ASSUME Leave(j) PROVE Deletion(j)'
  BY <1>0, <1>23 DEF Leave, Destroy, Listing, Deletion, HandedOver, OwnerOfJob, WorkerOf, Past, At, Goto, Sides, Marks, flags, events, waits, history, Sees, Touch, AfterExecute, AfterDeletable
<1>. QED BY <1>1, <1>2, <1>3, <1>4, <1>5, <1>6, <1>7, <1>8, <1>9, <1>10, <1>11, <1>12, <1>13, <1>14, <1>15, <1>16, <1>17, <1>18, <1>19, <1>20, <1>21, <1>22, <1>23, PlacesAre DEF Call, OwnerStep, WorkerStep, Execute

\* The worker executes and deletes a job that was handed over.
LEMMA HandedOverStep ==
  ASSUME TypeOK, NEW j \in Jobs, Once, DoneIsComplete, Listing(j), Deletion(j), HandedOver(j), slips' = {},
         Call(j) \/ OwnerStep(j) \/ Take(j) \/ Unqueue(j) \/ WorkerStep(j)
  PROVE  HandedOver(j)'
<1>0. /\ pc \in [Jobs \X Sides -> Places]
      /\ list \in [Jobs -> {"before", "queued", "taken", "after"}]
      /\ waiting \in [Jobs -> BOOLEAN]
      /\ state \in [Jobs \X Marks -> BOOLEAN]
  BY DEF TypeOK
<1>1. ASSUME NEW b \in BOOLEAN, Schedule(j, b) PROVE HandedOver(j)'
  BY <1>0, <1>1 DEF Schedule, Listing, Deletion, HandedOver, OwnerOfJob, WorkerOf, Past, At, Goto, Sides, Marks, flags, events, waits, history, Sees, Touch, AfterExecute, AfterDeletable
<1>2. ASSUME NEW u \in Uses[j], CallWait(j, u) PROVE HandedOver(j)'
  BY <1>0, <1>2 DEF CallWait, Listing, Deletion, HandedOver, OwnerOfJob, WorkerOf, Past, At, Goto, Sides, Marks, flags, events, waits, history, Sees, Touch, AfterExecute, AfterDeletable
<1>3. ASSUME NEW b \in BOOLEAN, CallDelete(j, b) PROVE HandedOver(j)'
  BY <1>0, <1>3 DEF CallDelete, Listing, Deletion, HandedOver, OwnerOfJob, WorkerOf, Past, At, Goto, Sides, Marks, flags, events, waits, history, Sees, Touch, AfterExecute, AfterDeletable
<1>4. ASSUME Delete(j) PROVE HandedOver(j)'
  BY <1>0, <1>4 DEF Delete, Listing, Deletion, HandedOver, OwnerOfJob, WorkerOf, Past, At, Goto, Sides, Marks, flags, events, waits, history, Sees, Touch, AfterExecute, AfterDeletable
<1>5. ASSUME WaitFor(j) PROVE HandedOver(j)'
  BY <1>0, <1>5 DEF WaitFor, Return, Listing, Deletion, HandedOver, OwnerOfJob, WorkerOf, Past, At, Goto, Sides, Marks, flags, events, waits, history, Sees, Touch, AfterExecute, AfterDeletable
<1>6. ASSUME AutoAlloc(j) PROVE HandedOver(j)'
  BY <1>0, <1>6 DEF AutoAlloc, Listing, Deletion, HandedOver, OwnerOfJob, WorkerOf, Past, At, Goto, Sides, Marks, flags, events, waits, history, Sees, Touch, AfterExecute, AfterDeletable
<1>7. ASSUME Recheck(j) PROVE HandedOver(j)'
  BY <1>0, <1>7 DEF Recheck, Return, Listing, Deletion, HandedOver, OwnerOfJob, WorkerOf, Past, At, Goto, Sides, Marks, flags, events, waits, history, Sees, Touch, AfterExecute, AfterDeletable
<1>8. ASSUME Wake(j) PROVE HandedOver(j)'
  BY <1>0, <1>8 DEF Wake, Return, Listing, Deletion, HandedOver, OwnerOfJob, WorkerOf, Past, At, Goto, Sides, Marks, flags, events, waits, history, Sees, Touch, AfterExecute, AfterDeletable
<1>9. ASSUME TimeOut(j) PROVE HandedOver(j)'
  BY <1>0, <1>9 DEF TimeOut, Return, Listing, Deletion, HandedOver, OwnerOfJob, WorkerOf, Past, At, Goto, Sides, Marks, flags, events, waits, history, Sees, Touch, AfterExecute, AfterDeletable
<1>10. ASSUME DeleteThis(j) PROVE HandedOver(j)'
  BY <1>0, <1>10 DEF DeleteThis, Destroy, Listing, Deletion, HandedOver, OwnerOfJob, WorkerOf, Past, At, Goto, Sides, Marks, flags, events, waits, history, Sees, Touch, AfterExecute, AfterDeletable
<1>11. ASSUME NEW s \in Sides, Enter(j, s) PROVE HandedOver(j)'
  BY <1>0, <1>11 DEF Enter, Listing, Deletion, HandedOver, OwnerOfJob, WorkerOf, Past, At, Goto, Sides, Marks, flags, events, waits, history, Sees, Touch, AfterExecute, AfterDeletable
<1>12. ASSUME NEW s \in Sides, Begin(j, s) PROVE HandedOver(j)'
  BY <1>0, <1>12 DEF Begin, Listing, Deletion, HandedOver, OwnerOfJob, WorkerOf, Past, At, Goto, Sides, Marks, flags, events, waits, history, Sees, Touch, AfterExecute, AfterDeletable
<1>13. ASSUME NEW s \in Sides, Finish(j, s) PROVE HandedOver(j)'
  BY <1>0, <1>13 DEF Finish, Listing, Deletion, HandedOver, OwnerOfJob, WorkerOf, Past, At, Goto, Sides, Marks, flags, events, waits, history, Sees, Touch, AfterExecute, AfterDeletable
<1>14. ASSUME NEW s \in Sides, SetDone(j, s) PROVE HandedOver(j)'
  BY <1>0, <1>14 DEF SetDone, SetMark, Listing, Deletion, HandedOver, OwnerOfJob, WorkerOf, Past, At, Goto, Sides, Marks, flags, events, waits, history, Sees, Touch, AfterExecute, AfterDeletable
<1>15. ASSUME NEW s \in Sides, SignalDone(j, s) PROVE HandedOver(j)'
  BY <1>0, <1>15 DEF SignalDone, SignalMark, Listing, Deletion, HandedOver, OwnerOfJob, WorkerOf, Past, At, Goto, Sides, Marks, flags, events, waits, history, Sees, Touch, AfterExecute, AfterDeletable
<1>16. ASSUME NEW s \in Sides, Check(j, s) PROVE HandedOver(j)'
  BY <1>0, <1>16 DEF Check, Listing, Deletion, HandedOver, OwnerOfJob, WorkerOf, Past, At, Goto, Sides, Marks, flags, events, waits, history, Sees, Touch, AfterExecute, AfterDeletable
<1>17. ASSUME NEW s \in Sides, SetDeletable(j, s) PROVE HandedOver(j)'
  BY <1>0, <1>17 DEF SetDeletable, SetMark, Listing, Deletion, HandedOver, OwnerOfJob, WorkerOf, Past, At, Goto, Sides, Marks, flags, events, waits, history, Sees, Touch, AfterExecute, AfterDeletable
<1>18. ASSUME NEW s \in Sides, SignalDeletable(j, s) PROVE HandedOver(j)'
  BY <1>0, <1>18 DEF SignalDeletable, SignalMark, Listing, Deletion, HandedOver, OwnerOfJob, WorkerOf, Past, At, Goto, Sides, Marks, flags, events, waits, history, Sees, Touch, AfterExecute, AfterDeletable
<1>19. ASSUME Take(j) PROVE HandedOver(j)'
  BY <1>0, <1>19 DEF Take, Listing, Deletion, HandedOver, OwnerOfJob, WorkerOf, Past, At, Goto, Sides, Marks, flags, events, waits, history, Sees, Touch, AfterExecute, AfterDeletable
<1>20. ASSUME Unqueue(j) PROVE HandedOver(j)'
  BY <1>0, <1>20 DEF Unqueue, RemoveJobFromQueue, Drop, LeaveQueue, Listing, Deletion, HandedOver, OwnerOfJob, WorkerOf, Past, At, Goto, Sides, Marks, flags, events, waits, history, Sees, Touch, AfterExecute, AfterDeletable
<1>21. ASSUME UnSchedule(j) PROVE HandedOver(j)'
  BY <1>0, <1>21 DEF UnSchedule, Listing, Deletion, HandedOver, OwnerOfJob, WorkerOf, Past, At, Goto, Sides, Marks, flags, events, waits, history, Sees, Touch, AfterExecute, AfterDeletable
<1>22. ASSUME TestDone(j) PROVE HandedOver(j)'
  BY <1>0, <1>22 DEF TestDone, Listing, Deletion, HandedOver, OwnerOfJob, WorkerOf, Past, At, Goto, Sides, Marks, flags, events, waits, history, Sees, Touch, AfterExecute, AfterDeletable
<1>23. ASSUME Leave(j) PROVE HandedOver(j)'
  BY <1>0, <1>23 DEF Leave, Destroy, Listing, Deletion, HandedOver, OwnerOfJob, WorkerOf, Past, At, Goto, Sides, Marks, flags, events, waits, history, Sees, Touch, AfterExecute, AfterDeletable
<1>. QED BY <1>1, <1>2, <1>3, <1>4, <1>5, <1>6, <1>7, <1>8, <1>9, <1>10, <1>11, <1>12, <1>13, <1>14, <1>15, <1>16, <1>17, <1>18, <1>19, <1>20, <1>21, <1>22, <1>23, PlacesAre DEF Call, OwnerStep, WorkerStep, Execute

\* A waiter publishes the handle it has created before it goes on.
LEMMA PendingStep ==
  ASSUME TypeOK, NEW j \in Jobs, Pending(j), slips' = {},
         Call(j) \/ OwnerStep(j) \/ Take(j) \/ Unqueue(j) \/ WorkerStep(j)
  PROVE  Pending(j)'
<1>0. /\ pc \in [Jobs \X Sides -> Places]
      /\ event \in [Jobs \X Marks -> 0..created]
      /\ pending \in [Jobs -> 0..created]
      /\ goal \in [Jobs -> Goals]
  BY DEF TypeOK
<1>1. ASSUME NEW b \in BOOLEAN, Schedule(j, b) PROVE Pending(j)'
  BY <1>0, <1>1 DEF Schedule, Pending, Awaited, Goals, NoHandle, OwnerOfJob, WorkerOf, Past, At, Goto, Sides, Marks, flags, events, waits, history, Sees, Touch, AfterExecute, AfterDeletable
<1>2. ASSUME NEW u \in Uses[j], CallWait(j, u) PROVE Pending(j)'
  BY <1>0, <1>2 DEF CallWait, Pending, Awaited, Goals, NoHandle, OwnerOfJob, WorkerOf, Past, At, Goto, Sides, Marks, flags, events, waits, history, Sees, Touch, AfterExecute, AfterDeletable
<1>3. ASSUME NEW b \in BOOLEAN, CallDelete(j, b) PROVE Pending(j)'
  BY <1>0, <1>3 DEF CallDelete, Pending, Awaited, Goals, NoHandle, OwnerOfJob, WorkerOf, Past, At, Goto, Sides, Marks, flags, events, waits, history, Sees, Touch, AfterExecute, AfterDeletable
<1>4. ASSUME Delete(j) PROVE Pending(j)'
  BY <1>0, <1>4 DEF Delete, Pending, Awaited, Goals, NoHandle, OwnerOfJob, WorkerOf, Past, At, Goto, Sides, Marks, flags, events, waits, history, Sees, Touch, AfterExecute, AfterDeletable
<1>5. ASSUME WaitFor(j) PROVE Pending(j)'
  BY <1>0, <1>5 DEF WaitFor, Return, Pending, Awaited, Goals, NoHandle, OwnerOfJob, WorkerOf, Past, At, Goto, Sides, Marks, flags, events, waits, history, Sees, Touch, AfterExecute, AfterDeletable
<1>6. ASSUME AutoAlloc(j) PROVE Pending(j)'
  BY <1>0, <1>6 DEF AutoAlloc, Pending, Awaited, Goals, NoHandle, OwnerOfJob, WorkerOf, Past, At, Goto, Sides, Marks, flags, events, waits, history, Sees, Touch, AfterExecute, AfterDeletable, Alloc
<1>7. ASSUME Recheck(j) PROVE Pending(j)'
  BY <1>0, <1>7 DEF Recheck, Return, Pending, Awaited, Goals, NoHandle, OwnerOfJob, WorkerOf, Past, At, Goto, Sides, Marks, flags, events, waits, history, Sees, Touch, AfterExecute, AfterDeletable
<1>8. ASSUME Wake(j) PROVE Pending(j)'
  BY <1>0, <1>8 DEF Wake, Return, Pending, Awaited, Goals, NoHandle, OwnerOfJob, WorkerOf, Past, At, Goto, Sides, Marks, flags, events, waits, history, Sees, Touch, AfterExecute, AfterDeletable
<1>9. ASSUME TimeOut(j) PROVE Pending(j)'
  BY <1>0, <1>9 DEF TimeOut, Return, Pending, Awaited, Goals, NoHandle, OwnerOfJob, WorkerOf, Past, At, Goto, Sides, Marks, flags, events, waits, history, Sees, Touch, AfterExecute, AfterDeletable
<1>10. ASSUME DeleteThis(j) PROVE Pending(j)'
  BY <1>0, <1>10 DEF DeleteThis, Destroy, Pending, Awaited, Goals, NoHandle, OwnerOfJob, WorkerOf, Past, At, Goto, Sides, Marks, flags, events, waits, history, Sees, Touch, AfterExecute, AfterDeletable
<1>11. ASSUME NEW s \in Sides, Enter(j, s) PROVE Pending(j)'
  BY <1>0, <1>11 DEF Enter, Pending, Awaited, Goals, NoHandle, OwnerOfJob, WorkerOf, Past, At, Goto, Sides, Marks, flags, events, waits, history, Sees, Touch, AfterExecute, AfterDeletable
<1>12. ASSUME NEW s \in Sides, Begin(j, s) PROVE Pending(j)'
  BY <1>0, <1>12 DEF Begin, Pending, Awaited, Goals, NoHandle, OwnerOfJob, WorkerOf, Past, At, Goto, Sides, Marks, flags, events, waits, history, Sees, Touch, AfterExecute, AfterDeletable
<1>13. ASSUME NEW s \in Sides, Finish(j, s) PROVE Pending(j)'
  BY <1>0, <1>13 DEF Finish, Pending, Awaited, Goals, NoHandle, OwnerOfJob, WorkerOf, Past, At, Goto, Sides, Marks, flags, events, waits, history, Sees, Touch, AfterExecute, AfterDeletable
<1>14. ASSUME NEW s \in Sides, SetDone(j, s) PROVE Pending(j)'
  BY <1>0, <1>14 DEF SetDone, SetMark, Pending, Awaited, Goals, NoHandle, OwnerOfJob, WorkerOf, Past, At, Goto, Sides, Marks, flags, events, waits, history, Sees, Touch, AfterExecute, AfterDeletable
<1>15. ASSUME NEW s \in Sides, SignalDone(j, s) PROVE Pending(j)'
  BY <1>0, <1>15 DEF SignalDone, SignalMark, Pending, Awaited, Goals, NoHandle, OwnerOfJob, WorkerOf, Past, At, Goto, Sides, Marks, flags, events, waits, history, Sees, Touch, AfterExecute, AfterDeletable
<1>16. ASSUME NEW s \in Sides, Check(j, s) PROVE Pending(j)'
  BY <1>0, <1>16 DEF Check, Pending, Awaited, Goals, NoHandle, OwnerOfJob, WorkerOf, Past, At, Goto, Sides, Marks, flags, events, waits, history, Sees, Touch, AfterExecute, AfterDeletable
<1>17. ASSUME NEW s \in Sides, SetDeletable(j, s) PROVE Pending(j)'
  BY <1>0, <1>17 DEF SetDeletable, SetMark, Pending, Awaited, Goals, NoHandle, OwnerOfJob, WorkerOf, Past, At, Goto, Sides, Marks, flags, events, waits, history, Sees, Touch, AfterExecute, AfterDeletable
<1>18. ASSUME NEW s \in Sides, SignalDeletable(j, s) PROVE Pending(j)'
  BY <1>0, <1>18 DEF SignalDeletable, SignalMark, Pending, Awaited, Goals, NoHandle, OwnerOfJob, WorkerOf, Past, At, Goto, Sides, Marks, flags, events, waits, history, Sees, Touch, AfterExecute, AfterDeletable
<1>19. ASSUME Take(j) PROVE Pending(j)'
  BY <1>0, <1>19 DEF Take, Pending, Awaited, Goals, NoHandle, OwnerOfJob, WorkerOf, Past, At, Goto, Sides, Marks, flags, events, waits, history, Sees, Touch, AfterExecute, AfterDeletable
<1>20. ASSUME Unqueue(j) PROVE Pending(j)'
  BY <1>0, <1>20 DEF Unqueue, RemoveJobFromQueue, Drop, LeaveQueue, Pending, Awaited, Goals, NoHandle, OwnerOfJob, WorkerOf, Past, At, Goto, Sides, Marks, flags, events, waits, history, Sees, Touch, AfterExecute, AfterDeletable
<1>21. ASSUME UnSchedule(j) PROVE Pending(j)'
  BY <1>0, <1>21 DEF UnSchedule, Pending, Awaited, Goals, NoHandle, OwnerOfJob, WorkerOf, Past, At, Goto, Sides, Marks, flags, events, waits, history, Sees, Touch, AfterExecute, AfterDeletable
<1>22. ASSUME TestDone(j) PROVE Pending(j)'
  BY <1>0, <1>22 DEF TestDone, Pending, Awaited, Goals, NoHandle, OwnerOfJob, WorkerOf, Past, At, Goto, Sides, Marks, flags, events, waits, history, Sees, Touch, AfterExecute, AfterDeletable
<1>23. ASSUME Leave(j) PROVE Pending(j)'
  BY <1>0, <1>23 DEF Leave, Destroy, Pending, Awaited, Goals, NoHandle, OwnerOfJob, WorkerOf, Past, At, Goto, Sides, Marks, flags, events, waits, history, Sees, Touch, AfterExecute, AfterDeletable
<1>. QED BY <1>1, <1>2, <1>3, <1>4, <1>5, <1>6, <1>7, <1>8, <1>9, <1>10, <1>11, <1>12, <1>13, <1>14, <1>15, <1>16, <1>17, <1>18, <1>19, <1>20, <1>21, <1>22, <1>23, PlacesAre DEF Call, OwnerStep, WorkerStep, Execute

\* A step of one job leaves the others as they are.
Same(k) ==
  /\ \A s \in Sides : pc'[<<k, s>>] = pc[<<k, s>>]
  /\ \A m \in Marks : state'[<<k, m>>] = state[<<k, m>>] /\ event'[<<k, m>>] = event[<<k, m>>]
  /\ scheduled'[k] = scheduled[k] /\ waiting'[k] = waiting[k] /\ list'[k] = list[k]
  /\ goal'[k] = goal[k] /\ pending'[k] = pending[k]
  /\ k \in alive' <=> k \in alive
  /\ k \in passed' <=> k \in passed
  /\ k \in removed' <=> k \in removed
  /\ k \in dropped' <=> k \in dropped

\* What is the same keeps what holds of it.
LEMMA SameJob ==
  ASSUME NEW k \in Jobs, JobOK(k), Same(k)
  PROVE  JobOK(k)'
<1>1. Awaited(k) \in Marks /\ Awaited(k)' = Awaited(k)
  BY DEF Same, Awaited, Marks
<1>2. Listing(k)'
  BY DEF JobOK, Listing, Same, OwnerOfJob, WorkerOf, Sides
<1>3. Deletion(k)'
  BY DEF JobOK, Deletion, Same, OwnerOfJob, WorkerOf, Sides, Marks
<1>4. HandedOver(k)'
  BY DEF JobOK, HandedOver, Same, OwnerOfJob, WorkerOf, Sides, Marks
<1>5. Pending(k)'
  BY <1>1 DEF JobOK, Pending, Same, OwnerOfJob, Sides
<1>. QED BY <1>2, <1>3, <1>4, <1>5 DEF JobOK

\* No step touches two jobs.
LEMMA Frame ==
  ASSUME TypeOK, NEW j \in Jobs, NEW k \in Jobs, k # j,
         Call(j) \/ OwnerStep(j) \/ Take(j) \/ Unqueue(j) \/ WorkerStep(j)
  PROVE  Same(k)
<1>0. /\ pc \in [Jobs \X Sides -> Places]
      /\ list \in [Jobs -> {"before", "queued", "taken", "after"}]
      /\ scheduled \in [Jobs -> BOOLEAN]
      /\ waiting \in [Jobs -> BOOLEAN]
      /\ state \in [Jobs \X Marks -> BOOLEAN]
      /\ event \in [Jobs \X Marks -> 0..created]
      /\ pending \in [Jobs -> 0..created]
      /\ goal \in [Jobs -> Goals]
  BY DEF TypeOK
<1>1. ASSUME NEW b \in BOOLEAN, Schedule(j, b) PROVE Same(k)
  BY <1>0, <1>1 DEF Schedule, Same, Goto, flags, events, waits, history, Sides, Marks
<1>2. ASSUME NEW u \in Uses[j], CallWait(j, u) PROVE Same(k)
  BY <1>0, <1>2 DEF CallWait, Same, Goto, flags, events, waits, history, Sides, Marks
<1>3. ASSUME NEW b \in BOOLEAN, CallDelete(j, b) PROVE Same(k)
  BY <1>0, <1>3 DEF CallDelete, Same, Goto, flags, events, waits, history, Sides, Marks
<1>4. ASSUME Delete(j) PROVE Same(k)
  BY <1>0, <1>4 DEF Delete, Same, Goto, flags, events, waits, history, Sides, Marks
<1>5. ASSUME WaitFor(j) PROVE Same(k)
  BY <1>0, <1>5 DEF WaitFor, Return, Same, Goto, flags, events, waits, history, Sides, Marks
<1>6. ASSUME AutoAlloc(j) PROVE Same(k)
  BY <1>0, <1>6 DEF AutoAlloc, Same, Goto, flags, events, waits, history, Sides, Marks, Alloc
<1>7. ASSUME Recheck(j) PROVE Same(k)
  BY <1>0, <1>7 DEF Recheck, Return, Same, Goto, flags, events, waits, history, Sides, Marks
<1>8. ASSUME Wake(j) PROVE Same(k)
  BY <1>0, <1>8 DEF Wake, Return, Same, Goto, flags, events, waits, history, Sides, Marks
<1>9. ASSUME TimeOut(j) PROVE Same(k)
  BY <1>0, <1>9 DEF TimeOut, Return, Same, Goto, flags, events, waits, history, Sides, Marks
<1>10. ASSUME DeleteThis(j) PROVE Same(k)
  BY <1>0, <1>10 DEF DeleteThis, Destroy, Same, Goto, flags, events, waits, history, Sides, Marks
<1>11. ASSUME NEW s \in Sides, Enter(j, s) PROVE Same(k)
  BY <1>0, <1>11 DEF Enter, Same, Goto, flags, events, waits, history, Sides, Marks
<1>12. ASSUME NEW s \in Sides, Begin(j, s) PROVE Same(k)
  BY <1>0, <1>12 DEF Begin, Same, Goto, flags, events, waits, history, Sides, Marks
<1>13. ASSUME NEW s \in Sides, Finish(j, s) PROVE Same(k)
  BY <1>0, <1>13 DEF Finish, Same, Goto, flags, events, waits, history, Sides, Marks
<1>14. ASSUME NEW s \in Sides, SetDone(j, s) PROVE Same(k)
  BY <1>0, <1>14 DEF SetDone, SetMark, Same, Goto, flags, events, waits, history, Sides, Marks
<1>15. ASSUME NEW s \in Sides, SignalDone(j, s) PROVE Same(k)
  BY <1>0, <1>15 DEF SignalDone, SignalMark, Same, Goto, flags, events, waits, history, Sides, Marks
<1>16. ASSUME NEW s \in Sides, Check(j, s) PROVE Same(k)
  BY <1>0, <1>16 DEF Check, Same, Goto, flags, events, waits, history, Sides, Marks
<1>17. ASSUME NEW s \in Sides, SetDeletable(j, s) PROVE Same(k)
  BY <1>0, <1>17 DEF SetDeletable, SetMark, Same, Goto, flags, events, waits, history, Sides, Marks
<1>18. ASSUME NEW s \in Sides, SignalDeletable(j, s) PROVE Same(k)
  BY <1>0, <1>18 DEF SignalDeletable, SignalMark, Same, Goto, flags, events, waits, history, Sides, Marks
<1>19. ASSUME Take(j) PROVE Same(k)
  BY <1>0, <1>19 DEF Take, Same, Goto, flags, events, waits, history, Sides, Marks
<1>20. ASSUME Unqueue(j) PROVE Same(k)
  BY <1>0, <1>20 DEF Unqueue, RemoveJobFromQueue, Drop, LeaveQueue, Same, Goto, flags, events, waits, history, Sides, Marks
<1>21. ASSUME UnSchedule(j) PROVE Same(k)
  BY <1>0, <1>21 DEF UnSchedule, Same, Goto, flags, events, waits, history, Sides, Marks
<1>22. ASSUME TestDone(j) PROVE Same(k)
  BY <1>0, <1>22 DEF TestDone, Same, Goto, flags, events, waits, history, Sides, Marks
<1>23. ASSUME Leave(j) PROVE Same(k)
  BY <1>0, <1>23 DEF Leave, Destroy, Same, Goto, flags, events, waits, history, Sides, Marks
<1>. QED BY <1>1, <1>2, <1>3, <1>4, <1>5, <1>6, <1>7, <1>8, <1>9, <1>10, <1>11, <1>12, <1>13, <1>14, <1>15, <1>16, <1>17, <1>18, <1>19, <1>20, <1>21, <1>22, <1>23, PlacesAre DEF Call, OwnerStep, WorkerStep, Execute

-----------------------------------------------------------------------------
(* The event handles *)

\* Handles do not move when the events of the living jobs and the pool do not.
LEMMA HandlesRest ==
  ASSUME HandlesApart, SignalledIsHeld, UNCHANGED <<event, pool, signalled, alive, pending>>,
         \A e \in Jobs \X Marks : state[e] => state'[e]
  PROVE  HandlesApart' /\ SignalledIsHeld'
<1>1. Events' = Events
  BY DEF Events
<1>2. HandlesApart'
  BY <1>1 DEF HandlesApart
<1>3. SignalledIsHeld'
  BY <1>1 DEF SignalledIsHeld, Events
<1>. QED BY <1>2, <1>3

\* Signalling concerns the handle of one living job, whose event is set.
LEMMA SignalApart ==
  ASSUME TypeOK, HandlesApart, SignalledIsHeld, NEW j \in Jobs, NEW s \in Sides,
         NEW m \in Marks, NEW next, SignalMark(j, s, m, next), slips' = {},
         state[<<j, m>>]
  PROVE  HandlesApart' /\ SignalledIsHeld'
<1>1. j \in alive /\ UNCHANGED <<state, event, pool, alive, pending>>
  BY DEF SignalMark, waits
<1>2. Events' = Events
  BY <1>1 DEF Events
<1>3. signalled' = signalled \cup ({event[<<j, m>>]} \ {NoHandle})
  BY <1>1 DEF SignalMark
<1>4. CASE event[<<j, m>>] = NoHandle
  <2>1. signalled' = signalled
    BY <1>3, <1>4
  <2>. QED BY <1>1, <2>1, HandlesRest
<1>5. CASE event[<<j, m>>] # NoHandle
  <2>1. <<j, m>> \in Events
    BY <1>1, <1>5 DEF Events
  <2>2. \A h \in signalled' : h \in signalled \/ h = event[<<j, m>>]
    BY <1>3
  <2>3. HandlesApart'
    BY <1>1, <1>2, <2>1, <2>2 DEF HandlesApart
  <2>4. \A i \in DOMAIN pool : pool[i] # event[<<j, m>>]
    BY <2>1 DEF HandlesApart
  <2>5. SignalledIsHeld'
    BY <1>1, <1>2, <2>1, <2>2, <2>4 DEF SignalledIsHeld
  <2>. QED BY <2>3, <2>5
<1>. QED BY <1>4, <1>5

\* An event without a handle gets one that nobody has and that is not signalled.
LEMMA GivenApart ==
  ASSUME TypeOK, HandlesApart, SignalledIsHeld, NEW j \in alive, NEW m \in Marks,
         event[<<j, m>>] = NoHandle,
         NEW h, h # NoHandle, h \notin signalled,
         \A e \in Events : event[e] # h,
         \A k \in Jobs : pending'[k] # NoHandle => pending'[k] = pending[k] /\ pending[k] # h,
         event' = [event EXCEPT ![<<j, m>>] = h],
         DOMAIN pool' \subseteq DOMAIN pool,
         \A i \in DOMAIN pool' : pool'[i] = pool[i] /\ pool[i] # h,
         UNCHANGED <<state, signalled, alive>>
  PROVE  HandlesApart' /\ SignalledIsHeld'
<1>1. j \in Jobs /\ event \in [Jobs \X Marks -> 0..created]
  BY DEF TypeOK
<1>2. <<j, m>> \notin Events
  BY DEF Events
<1>3. Events' = Events \cup {<<j, m>>}
  BY <1>1 DEF Events
<1>4. \A e \in Events : event'[e] = event[e]
  BY <1>1, <1>2 DEF Events
<1>5. event'[<<j, m>>] = h
  BY <1>1
<1>6. HandlesApart'
  <2>1. \A e1, e2 \in Events' : event'[e1] = event'[e2] => e1 = e2
    BY <1>3, <1>4, <1>5 DEF HandlesApart
  <2>2. \A i, k \in DOMAIN pool' : pool'[i] = pool'[k] => i = k
    BY DEF HandlesApart
  <2>3. \A e \in Events', i \in DOMAIN pool' : event'[e] # pool'[i]
    BY <1>3, <1>4, <1>5 DEF HandlesApart
  <2>4. ASSUME NEW k \in Jobs, pending'[k] # NoHandle
        PROVE  /\ pending'[k] \notin signalled'
               /\ \A l \in Jobs : pending'[l] = pending'[k] => l = k
               /\ \A e \in Events' : event'[e] # pending'[k]
               /\ \A i \in DOMAIN pool' : pool'[i] # pending'[k]
    BY <2>4, <1>3, <1>4, <1>5 DEF HandlesApart
  <2>. QED BY <2>1, <2>2, <2>3, <2>4 DEF HandlesApart
<1>7. SignalledIsHeld'
  BY <1>3, <1>4, <1>5 DEF SignalledIsHeld
<1>. QED BY <1>6, <1>7

\* A created handle is new.
LEMMA CreatedIsNew ==
  ASSUME TypeOK
  PROVE  /\ created + 1 # NoHandle /\ created + 1 \notin signalled
         /\ \A e \in Jobs \X Marks : event[e] # created + 1
         /\ \A i \in DOMAIN pool : pool[i] # created + 1
         /\ \A k \in Jobs : pending[k] # created + 1
<1>1. created \in Nat /\ created + 1 \notin 0..created /\ created + 1 \notin 1..created
  BY DEF TypeOK
<1>2. \A i \in DOMAIN pool : pool[i] \in 1..created
  BY DEF TypeOK
<1>. QED BY <1>1, <1>2 DEF TypeOK, NoHandle

\* AutoAlloc gives the event of a living job a handle of its own.
LEMMA AllocApart ==
  ASSUME TypeOK, HandlesApart, SignalledIsHeld, NEW j \in Jobs, Deletion(j), Pending(j),
         AutoAlloc(j)
  PROVE  HandlesApart' /\ SignalledIsHeld'
<1> DEFINE e == <<j, Awaited(j)>>
<1>1. j \in alive /\ pending[j] = NoHandle
  BY DEF AutoAlloc, At, Deletion, Pending, OwnerOfJob
<1>2. Awaited(j) \in Marks /\ e \in Jobs \X Marks
  BY DEF Awaited, Marks
<1>3. Alloc(j) /\ UNCHANGED <<state, signalled, alive>>
  BY DEF AutoAlloc
<1>4. CASE event[e] # NoHandle
  <2>1. UNCHANGED <<event, pool, pending>>
    BY <1>3, <1>4 DEF Alloc
  <2>. QED BY <1>3, <2>1, HandlesRest
<1>5. CASE event[e] = NoHandle /\ pool # <<>>
  <2> DEFINE h == pool[Len(pool)]
  <2>1. event' = [event EXCEPT ![e] = h] /\ pool' = SubSeq(pool, 1, Len(pool) - 1) /\ UNCHANGED pending
    BY <1>3, <1>5 DEF Alloc
  <2>2. pool \in Seq(1..created) /\ Len(pool) \in Nat \ {0} /\ Len(pool) \in DOMAIN pool /\ h \in 1..created
    BY <1>5, EmptySeq, LenProperties, ElementOfSeq DEF TypeOK
  <2>3. DOMAIN pool' = 1..(Len(pool) - 1) /\ \A i \in DOMAIN pool' : i \in DOMAIN pool /\ i # Len(pool) /\ pool'[i] = pool[i]
    BY <2>1, <2>2, SubSeqProperties
  <2>4. h # NoHandle /\ h \notin signalled
    BY <2>2 DEF NoHandle, SignalledIsHeld
  <2>5. \A x \in Events : event[x] # h
    BY <2>2 DEF HandlesApart
  <2>6. \A k \in Jobs : pending'[k] # NoHandle => pending'[k] = pending[k] /\ pending[k] # h
    BY <2>1, <2>2 DEF HandlesApart
  <2>7. \A i \in DOMAIN pool' : pool'[i] = pool[i] /\ pool[i] # h
    BY <2>2, <2>3 DEF HandlesApart
  <2>8. DOMAIN pool' \subseteq DOMAIN pool
    BY <2>3
  <2> HIDE DEF h
  <2>. QED BY <1>1, <1>2, <1>3, <1>5, <2>1, <2>4, <2>5, <2>6, <2>7, <2>8, GivenApart
<1>6. CASE event[e] = NoHandle /\ pool = <<>> /\ event' = [event EXCEPT ![e] = created + 1]
           /\ UNCHANGED <<pending, pool>>
  <2>1. \A x \in Events : event[x] # created + 1
    BY CreatedIsNew DEF Events
  <2>. QED BY <1>1, <1>2, <1>3, <1>6, <2>1, CreatedIsNew, GivenApart
<1>7. CASE event[e] = NoHandle /\ pool = <<>> /\ pending' = [pending EXCEPT ![j] = created + 1]
           /\ UNCHANGED <<event, pool>>
  <2>1. Events' = Events
    BY <1>3, <1>7 DEF Events
  <2>2. pending'[j] = created + 1 /\ \A k \in Jobs : k # j => pending'[k] = pending[k]
    BY <1>7 DEF TypeOK
  <2>3. ASSUME NEW k \in Jobs, pending'[k] # NoHandle
        PROVE  /\ pending'[k] \notin signalled'
               /\ \A l \in Jobs : pending'[l] = pending'[k] => l = k
               /\ \A x \in Events' : event'[x] # pending'[k]
               /\ \A i \in DOMAIN pool' : pool'[i] # pending'[k]
    BY <1>3, <1>7, <2>1, <2>2, <2>3, CreatedIsNew DEF HandlesApart, Events
  <2>4. HandlesApart'
    BY <1>3, <1>7, <2>1, <2>3 DEF HandlesApart
  <2>5. SignalledIsHeld'
    BY <1>3, <1>7, <2>1 DEF SignalledIsHeld
  <2>. QED BY <2>4, <2>5
<1>. QED BY <1>3, <1>4, <1>5, <1>6, <1>7 DEF Alloc

\* The second look publishes the handle that was created before it.
LEMMA RecheckApart ==
  ASSUME TypeOK, HandlesApart, SignalledIsHeld, NEW j \in Jobs, Deletion(j), Pending(j),
         Recheck(j)
  PROVE  HandlesApart' /\ SignalledIsHeld'
<1> DEFINE e == <<j, Awaited(j)>>
<1>1. j \in alive
  BY DEF Recheck, At, Deletion, OwnerOfJob
<1>2. Awaited(j) \in Marks /\ e \in Jobs \X Marks
  BY DEF Awaited, Marks
<1>3. /\ event' = [event EXCEPT ![e] = IF pending[j] = NoHandle THEN event[e] ELSE pending[j]]
      /\ pending' = [pending EXCEPT ![j] = NoHandle]
      /\ UNCHANGED <<state, pool, signalled, alive>>
  BY DEF Recheck
<1>4. event \in [Jobs \X Marks -> 0..created] /\ pending \in [Jobs -> 0..created]
  BY DEF TypeOK
<1>5. CASE pending[j] = NoHandle
  <2>1. event' = event /\ pending' = pending
    BY <1>2, <1>3, <1>4, <1>5
  <2>. QED BY <1>3, <2>1, HandlesRest
<1>6. CASE pending[j] # NoHandle
  <2>1. event[e] = NoHandle
    BY <1>6 DEF Pending
  <2>2. event' = [event EXCEPT ![e] = pending[j]]
    BY <1>3, <1>6
  <2>3. /\ pending[j] \notin signalled
        /\ \A x \in Events : event[x] # pending[j]
        /\ \A i \in DOMAIN pool : pool[i] # pending[j]
    BY <1>6 DEF HandlesApart
  <2>4. \A k \in Jobs : pending'[k] # NoHandle => pending'[k] = pending[k] /\ pending[k] # pending[j]
    <3>1. \A k \in Jobs : pending'[k] = IF k = j THEN NoHandle ELSE pending[k]
      BY <1>3, <1>4
    <3>. QED BY <3>1, <1>6 DEF HandlesApart
  <2>5. DOMAIN pool' \subseteq DOMAIN pool /\ \A i \in DOMAIN pool' : pool'[i] = pool[i] /\ pool[i] # pending[j]
    BY <1>3, <2>3
  <2> DEFINE h == pending[j]
  <2> HIDE DEF h
  <2>6. /\ h # NoHandle /\ h \notin signalled /\ event' = [event EXCEPT ![e] = h]
        /\ \A x \in Events : event[x] # h
        /\ \A k \in Jobs : pending'[k] # NoHandle => pending'[k] = pending[k] /\ pending[k] # h
        /\ \A i \in DOMAIN pool' : pool'[i] = pool[i] /\ pool[i] # h
    BY <1>6, <2>2, <2>3, <2>4, <2>5 DEF h
  <2>. QED BY <1>1, <1>2, <1>3, <2>1, <2>5, <2>6, GivenApart
<1>. QED BY <1>5, <1>6

\* Two handles in a row.
LEMMA TwoHandles ==
  ASSUME NEW S, NEW x \in S, NEW y \in S
  PROVE  /\ <<x>> \o <<y>> \in Seq(S) /\ Len(<<x>> \o <<y>>) = 2
         /\ (<<x>> \o <<y>>)[1] = x /\ (<<x>> \o <<y>>)[2] = y
<1> DEFINE s == <<x>>
           t == <<y>>
<1>1. s \in Seq(S) /\ t \in Seq(S) /\ Len(s) = 1 /\ Len(t) = 1 /\ s[1] = x /\ t[1] = y
  OBVIOUS
<1> HIDE DEF s, t
<1>2. PICK r : r = s \o t
  OBVIOUS
<1>3. r \in Seq(S) /\ Len(r) = 2 /\ \A i \in 1..2 : r[i] = IF i <= 1 THEN s[i] ELSE t[i - 1]
  BY <1>1, <1>2, ConcatProperties
<1>4. r[1] = x /\ r[2] = y
  BY <1>1, <1>3
<1>. QED BY <1>2, <1>3, <1>4 DEF s, t

\* The handles of a job are those of its events, each once.
LEMMA HandlesAre ==
  ASSUME TypeOK, NEW j \in Jobs,
         event[<<j, "deletable">>] = event[<<j, "done">>] => event[<<j, "done">>] = NoHandle
  PROVE  /\ Handles(j) \in Seq(1..created)
         /\ \A i \in 1..Len(Handles(j)) :
              \E m \in Marks : Handles(j)[i] = event[<<j, m>>] /\ event[<<j, m>>] # NoHandle
         /\ \A i, k \in 1..Len(Handles(j)) : Handles(j)[i] = Handles(j)[k] => i = k
<1> DEFINE a == event[<<j, "deletable">>]
           b == event[<<j, "done">>]
<1>1. a \in 0..created /\ b \in 0..created /\ created \in Nat
  BY DEF TypeOK, Marks
<1>2. "done" \in Marks /\ "deletable" \in Marks
  BY DEF Marks
<1>3. CASE a = NoHandle /\ b = NoHandle
  <2>1. Handles(j) = <<>>
    BY <1>3 DEF Handles, Used
  <2>. QED BY <2>1
<1>4. CASE a # NoHandle /\ b = NoHandle
  <2>1. Handles(j) = <<a>> /\ a \in 1..created
    BY <1>1, <1>4 DEF Handles, Used, NoHandle
  <2>. QED BY <1>2, <1>4, <2>1
<1>5. CASE a = NoHandle /\ b # NoHandle
  <2>1. Handles(j) = <<b>> /\ b \in 1..created
    BY <1>1, <1>5 DEF Handles, Used, NoHandle
  <2>. QED BY <1>2, <1>5, <2>1
<1>6. CASE a # NoHandle /\ b # NoHandle
  <2>1. a \in 1..created /\ b \in 1..created /\ a # b
    BY <1>1, <1>6 DEF NoHandle
  <2>2. Handles(j) = <<a>> \o <<b>>
    BY <1>6 DEF Handles, Used
  <2>4. /\ Len(Handles(j)) = 2 /\ Handles(j)[1] = a /\ Handles(j)[2] = b
        /\ Handles(j) \in Seq(1..created)
    BY <2>1, <2>2, TwoHandles
  <2>5. \A i \in 1..2 : i = 1 \/ i = 2
    OBVIOUS
  <2>6. \A i, k \in 1..2 : Handles(j)[i] = Handles(j)[k] => i = k
    BY <2>1, <2>4, <2>5
  <2>7. \A i \in 1..2 : \E m \in Marks : Handles(j)[i] = event[<<j, m>>] /\ event[<<j, m>>] # NoHandle
    BY <1>2, <1>6, <2>4, <2>5
  <2>. QED BY <2>4, <2>6, <2>7
<1>. QED BY <1>3, <1>4, <1>5, <1>6

\* A job that is destroyed gives its handles to the pool, not signalled.
LEMMA DestroyApart ==
  ASSUME TypeOK, HandlesApart, SignalledIsHeld, NEW j \in alive, pending[j] = NoHandle, Destroy(j)
  PROVE  HandlesApart' /\ SignalledIsHeld'
<1> DEFINE n == Len(pool)
           g == Handles(j)
           Mine == {event[<<j, m>>] : m \in Marks}
<1>1. j \in Jobs /\ pool \in Seq(1..created) /\ n \in Nat /\ DOMAIN pool = 1..n
  BY LenProperties DEF TypeOK
<1>2. /\ alive' = alive \ {j} /\ pool' = pool \o g /\ signalled' = signalled \ Mine
      /\ UNCHANGED <<event, state, pending>>
  BY DEF Destroy, waits
<1>3. \A m \in Marks : event[<<j, m>>] # NoHandle => <<j, m>> \in Events
  BY <1>1 DEF Events
<1>4. event[<<j, "deletable">>] = event[<<j, "done">>] => event[<<j, "done">>] = NoHandle
  BY <1>3 DEF HandlesApart, Marks
<1>5. /\ g \in Seq(1..created) /\ Len(g) \in Nat
      /\ \A i \in 1..Len(g) : \E m \in Marks : g[i] = event[<<j, m>>] /\ <<j, m>> \in Events
      /\ \A i, k \in 1..Len(g) : g[i] = g[k] => i = k
  BY <1>1, <1>3, <1>4, HandlesAre, LenProperties
<1> HIDE DEF g
<1>6. /\ DOMAIN pool' = 1..(n + Len(g))
      /\ \A i \in DOMAIN pool' : pool'[i] = IF i <= n THEN pool[i] ELSE g[i - n]
  BY <1>1, <1>2, <1>5, ConcatProperties, LenProperties
<1>7. \A i \in DOMAIN pool' : \/ i \in DOMAIN pool /\ pool'[i] = pool[i]
                              \/ i - n \in 1..Len(g) /\ pool'[i] = g[i - n]
  BY <1>1, <1>5, <1>6
<1>8. \A i \in DOMAIN pool' : \/ i \in DOMAIN pool /\ pool'[i] = pool[i]
                              \/ \E m \in Marks : pool'[i] = event[<<j, m>>] /\ <<j, m>> \in Events
  BY <1>5, <1>7
<1>9. \A e \in Events' : e \in Events /\ e[1] # j /\ event'[e] = event[e]
  BY <1>2 DEF Events
<1>10. HandlesApart'
  <2>1. \A e1, e2 \in Events' : event'[e1] = event'[e2] => e1 = e2
    BY <1>9 DEF HandlesApart
  <2>2. ASSUME NEW i \in DOMAIN pool', NEW k \in DOMAIN pool', pool'[i] = pool'[k] PROVE i = k
    <3>1. CASE i \in DOMAIN pool /\ k \in DOMAIN pool
      BY <3>1, <1>1, <1>6, <2>2 DEF HandlesApart
    <3>2. CASE i \notin DOMAIN pool /\ k \notin DOMAIN pool
      <4>1. i - n \in 1..Len(g) /\ k - n \in 1..Len(g) /\ g[i - n] = g[k - n]
        BY <3>2, <1>7, <2>2
      <4>2. i - n = k - n
        BY <4>1, <1>5
      <4>. QED BY <4>2, <1>1, <1>5, <1>6
    <3>3. \A x, y \in DOMAIN pool' : x \in DOMAIN pool /\ y \notin DOMAIN pool => pool'[x] # pool'[y]
      <4>1. SUFFICES ASSUME NEW x \in DOMAIN pool', NEW y \in DOMAIN pool', x \in DOMAIN pool, y \notin DOMAIN pool
                     PROVE  pool'[x] # pool'[y]
        OBVIOUS
      <4>2. PICK m \in Marks : pool'[y] = event[<<j, m>>] /\ <<j, m>> \in Events
        BY <4>1, <1>8
      <4>3. pool'[x] = pool[x]
        BY <4>1, <1>1, <1>6
      <4>. QED BY <4>1, <4>2, <4>3 DEF HandlesApart
    <3>. QED BY <2>2, <3>1, <3>2, <3>3
  <2>3. ASSUME NEW e \in Events', NEW i \in DOMAIN pool' PROVE event'[e] # pool'[i]
    <3>1. CASE i \in DOMAIN pool /\ pool'[i] = pool[i]
      BY <3>1, <1>9 DEF HandlesApart
    <3>2. ASSUME NEW m \in Marks, pool'[i] = event[<<j, m>>], <<j, m>> \in Events PROVE event'[e] # pool'[i]
      BY <3>2, <1>9 DEF HandlesApart
    <3>. QED BY <3>1, <3>2, <1>8
  <2>4. ASSUME NEW k \in Jobs, pending'[k] # NoHandle
        PROVE  /\ pending'[k] \notin signalled'
               /\ \A l \in Jobs : pending'[l] = pending'[k] => l = k
               /\ \A e \in Events' : event'[e] # pending'[k]
               /\ \A i \in DOMAIN pool' : pool'[i] # pending'[k]
    <3>1. pending[k] # NoHandle /\ pending' = pending
      BY <2>4, <1>2
    <3>2. \A i \in DOMAIN pool' : pool'[i] # pending[k]
      BY <3>1, <1>8 DEF HandlesApart
    <3>. QED BY <3>1, <3>2, <1>2, <1>9 DEF HandlesApart
  <2>. QED BY <2>1, <2>2, <2>3, <2>4 DEF HandlesApart
<1>11. SignalledIsHeld'
  <2>1. ASSUME NEW h \in signalled' PROVE \E e \in Events' : event'[e] = h /\ state'[e]
    <3>1. h \in signalled /\ h \notin Mine
      BY <1>2
    <3>2. PICK e \in Events : event[e] = h /\ state[e]
      BY <3>1 DEF SignalledIsHeld
    <3>3. e \in Jobs \X Marks /\ e[1] # j
      BY <3>1, <3>2 DEF Events
    <3>. QED BY <3>2, <3>3, <1>2 DEF Events
  <2>2. ASSUME NEW i \in DOMAIN pool' PROVE pool'[i] \notin signalled'
    BY <1>2, <1>8 DEF SignalledIsHeld
  <2>. QED BY <2>1, <2>2 DEF SignalledIsHeld
<1>. QED BY <1>10, <1>11

\* No step gives a handle twice or lets it tell a lie.
LEMMA HandlesStep ==
  ASSUME TypeOK, NEW j \in Jobs, JobOK(j), HandlesApart, SignalledIsHeld, slips' = {},
         Call(j) \/ OwnerStep(j) \/ Take(j) \/ Unqueue(j) \/ WorkerStep(j)
  PROVE  HandlesApart' /\ SignalledIsHeld'
<1>0. /\ state \in [Jobs \X Marks -> BOOLEAN]
  BY DEF TypeOK
<1>1. ASSUME NEW b \in BOOLEAN, Schedule(j, b) PROVE HandlesApart' /\ SignalledIsHeld'
  BY <1>1, HandlesRest DEF Schedule, flags, events, waits, history
<1>2. ASSUME NEW u \in Uses[j], CallWait(j, u) PROVE HandlesApart' /\ SignalledIsHeld'
  BY <1>2, HandlesRest DEF CallWait, flags, events, waits, history
<1>3. ASSUME NEW b \in BOOLEAN, CallDelete(j, b) PROVE HandlesApart' /\ SignalledIsHeld'
  BY <1>3, HandlesRest DEF CallDelete, flags, events, waits, history
<1>4. ASSUME Delete(j) PROVE HandlesApart' /\ SignalledIsHeld'
  BY <1>4, HandlesRest DEF Delete, flags, events, waits, history
<1>5. ASSUME WaitFor(j) PROVE HandlesApart' /\ SignalledIsHeld'
  <2>1. UNCHANGED <<event, pool, signalled, alive, pending, state>>
    BY <1>5 DEF WaitFor, Return, waits
  <2>. QED BY <2>1, HandlesRest
<1>6. ASSUME AutoAlloc(j) PROVE HandlesApart' /\ SignalledIsHeld'
  BY <1>6, AllocApart DEF JobOK
<1>7. ASSUME Recheck(j) PROVE HandlesApart' /\ SignalledIsHeld'
  BY <1>7, RecheckApart DEF JobOK
<1>8. ASSUME Wake(j) PROVE HandlesApart' /\ SignalledIsHeld'
  BY <1>8, HandlesRest DEF Wake, flags, events, waits, history
<1>9. ASSUME TimeOut(j) PROVE HandlesApart' /\ SignalledIsHeld'
  BY <1>9, HandlesRest DEF TimeOut, flags, events, waits, history
<1>10. ASSUME DeleteThis(j) PROVE HandlesApart' /\ SignalledIsHeld'
  <2>1. Destroy(j) /\ j \in alive /\ pending[j] = NoHandle
    BY <1>10 DEF DeleteThis, At, JobOK, Deletion, Pending, OwnerOfJob
  <2>. QED BY <2>1, DestroyApart
<1>11. ASSUME NEW s \in Sides, Enter(j, s) PROVE HandlesApart' /\ SignalledIsHeld'
  BY <1>11, HandlesRest DEF Enter, flags, events, waits, history
<1>12. ASSUME NEW s \in Sides, Begin(j, s) PROVE HandlesApart' /\ SignalledIsHeld'
  BY <1>12, HandlesRest DEF Begin, flags, events, waits, history
<1>13. ASSUME NEW s \in Sides, Finish(j, s) PROVE HandlesApart' /\ SignalledIsHeld'
  BY <1>13, HandlesRest DEF Finish, flags, events, waits, history
<1>14. ASSUME NEW s \in Sides, SetDone(j, s) PROVE HandlesApart' /\ SignalledIsHeld'
  <2>1. state' = [state EXCEPT ![<<j, "done">>] = TRUE] /\ UNCHANGED <<event, pool, signalled, alive, pending>>
    BY <1>14 DEF SetDone, SetMark, waits
  <2>2. \A e \in Jobs \X Marks : state[e] => state'[e]
    BY <1>0, <2>1
  <2>. QED BY <2>1, <2>2, HandlesRest
<1>15. ASSUME NEW s \in Sides, SignalDone(j, s) PROVE HandlesApart' /\ SignalledIsHeld'
  <2>1. SignalMark(j, s, "done", "check") /\ state[<<j, "done">>] /\ "done" \in Marks
    BY <1>15 DEF SignalDone, At, JobOK, Deletion, Marks
  <2>. QED BY <1>15, <2>1, SignalApart
<1>16. ASSUME NEW s \in Sides, Check(j, s) PROVE HandlesApart' /\ SignalledIsHeld'
  BY <1>16, HandlesRest DEF Check, flags, events, waits, history
<1>17. ASSUME NEW s \in Sides, SetDeletable(j, s) PROVE HandlesApart' /\ SignalledIsHeld'
  <2>1. state' = [state EXCEPT ![<<j, "deletable">>] = TRUE] /\ UNCHANGED <<event, pool, signalled, alive, pending>>
    BY <1>17 DEF SetDeletable, SetMark, waits
  <2>2. \A e \in Jobs \X Marks : state[e] => state'[e]
    BY <1>0, <2>1
  <2>. QED BY <2>1, <2>2, HandlesRest
<1>18. ASSUME NEW s \in Sides, SignalDeletable(j, s) PROVE HandlesApart' /\ SignalledIsHeld'
  <2>1. SignalMark(j, s, "deletable", AfterDeletable(j, s)) /\ state[<<j, "deletable">>] /\ "deletable" \in Marks
    BY <1>18 DEF SignalDeletable, At, JobOK, Deletion, Marks
  <2>. QED BY <1>18, <2>1, SignalApart
<1>19. ASSUME Take(j) PROVE HandlesApart' /\ SignalledIsHeld'
  BY <1>19, HandlesRest DEF Take, flags, events, waits, history
<1>20. ASSUME Unqueue(j) PROVE HandlesApart' /\ SignalledIsHeld'
  BY <1>20, HandlesRest DEF Unqueue, RemoveJobFromQueue, Drop, LeaveQueue, flags, events, waits, history
<1>21. ASSUME UnSchedule(j) PROVE HandlesApart' /\ SignalledIsHeld'
  BY <1>21, HandlesRest DEF UnSchedule, flags, events, waits, history
<1>22. ASSUME TestDone(j) PROVE HandlesApart' /\ SignalledIsHeld'
  BY <1>22, HandlesRest DEF TestDone, flags, events, waits, history
<1>23. ASSUME Leave(j) PROVE HandlesApart' /\ SignalledIsHeld'
  <2>1. CASE j \in passed \ removed
    <3>1. Destroy(j) /\ j \in alive /\ pending[j] = NoHandle
      BY <1>23, <2>1 DEF Leave, At, JobOK, HandedOver, Pending, OwnerOfJob, WorkerOf
    <3>. QED BY <3>1, DestroyApart
  <2>2. CASE j \notin passed \ removed
    BY <1>23, <2>2, HandlesRest DEF Leave, events, waits
  <2>. QED BY <2>1, <2>2
<1>. QED BY <1>1, <1>2, <1>3, <1>4, <1>5, <1>6, <1>7, <1>8, <1>9, <1>10, <1>11, <1>12, <1>13, <1>14, <1>15, <1>16, <1>17, <1>18, <1>19, <1>20, <1>21, <1>22, <1>23, PlacesAre DEF Call, OwnerStep, WorkerStep, Execute


\* A race that has had an effect stays recorded.
LEMMA SlipsStep ==
  ASSUME NEW j \in Jobs, Call(j) \/ OwnerStep(j) \/ Take(j) \/ Unqueue(j) \/ WorkerStep(j)
  PROVE  slips \subseteq slips'
<1>1. ASSUME NEW b \in BOOLEAN, Schedule(j, b) PROVE slips \subseteq slips'
  BY <1>1 DEF Schedule, SetMark, SignalMark, Touch, Destroy
<1>2. ASSUME NEW u \in Uses[j], CallWait(j, u) PROVE slips \subseteq slips'
  BY <1>2 DEF CallWait, SetMark, SignalMark, Touch, Destroy
<1>3. ASSUME NEW b \in BOOLEAN, CallDelete(j, b) PROVE slips \subseteq slips'
  BY <1>3 DEF CallDelete, SetMark, SignalMark, Touch, Destroy
<1>4. ASSUME Delete(j) PROVE slips \subseteq slips'
  BY <1>4 DEF Delete, SetMark, SignalMark, Touch, Destroy
<1>5. ASSUME WaitFor(j) PROVE slips \subseteq slips'
  BY <1>5 DEF WaitFor, Return, SetMark, SignalMark, Touch, Destroy
<1>6. ASSUME AutoAlloc(j) PROVE slips \subseteq slips'
  BY <1>6 DEF AutoAlloc, SetMark, SignalMark, Touch, Destroy
<1>7. ASSUME Recheck(j) PROVE slips \subseteq slips'
  BY <1>7 DEF Recheck, Return, SetMark, SignalMark, Touch, Destroy
<1>8. ASSUME Wake(j) PROVE slips \subseteq slips'
  BY <1>8 DEF Wake, Return, SetMark, SignalMark, Touch, Destroy
<1>9. ASSUME TimeOut(j) PROVE slips \subseteq slips'
  BY <1>9 DEF TimeOut, Return, SetMark, SignalMark, Touch, Destroy
<1>10. ASSUME DeleteThis(j) PROVE slips \subseteq slips'
  BY <1>10 DEF DeleteThis, Destroy, SetMark, SignalMark, Touch
<1>11. ASSUME NEW s \in Sides, Enter(j, s) PROVE slips \subseteq slips'
  BY <1>11 DEF Enter, SetMark, SignalMark, Touch, Destroy
<1>12. ASSUME NEW s \in Sides, Begin(j, s) PROVE slips \subseteq slips'
  BY <1>12 DEF Begin, SetMark, SignalMark, Touch, Destroy
<1>13. ASSUME NEW s \in Sides, Finish(j, s) PROVE slips \subseteq slips'
  BY <1>13 DEF Finish, SetMark, SignalMark, Touch, Destroy
<1>14. ASSUME NEW s \in Sides, SetDone(j, s) PROVE slips \subseteq slips'
  BY <1>14 DEF SetDone, SetMark, SignalMark, Touch, Destroy
<1>15. ASSUME NEW s \in Sides, SignalDone(j, s) PROVE slips \subseteq slips'
  BY <1>15 DEF SignalDone, SignalMark, SetMark, Touch, Destroy
<1>16. ASSUME NEW s \in Sides, Check(j, s) PROVE slips \subseteq slips'
  BY <1>16 DEF Check, SetMark, SignalMark, Touch, Destroy
<1>17. ASSUME NEW s \in Sides, SetDeletable(j, s) PROVE slips \subseteq slips'
  BY <1>17 DEF SetDeletable, SetMark, SignalMark, Touch, Destroy
<1>18. ASSUME NEW s \in Sides, SignalDeletable(j, s) PROVE slips \subseteq slips'
  BY <1>18 DEF SignalDeletable, SignalMark, SetMark, Touch, Destroy
<1>19. ASSUME Take(j) PROVE slips \subseteq slips'
  BY <1>19 DEF Take, SetMark, SignalMark, Touch, Destroy
<1>20. ASSUME Unqueue(j) PROVE slips \subseteq slips'
  BY <1>20 DEF Unqueue, RemoveJobFromQueue, Drop, LeaveQueue, SetMark, SignalMark, Touch, Destroy
<1>21. ASSUME UnSchedule(j) PROVE slips \subseteq slips'
  BY <1>21 DEF UnSchedule, SetMark, SignalMark, Touch, Destroy
<1>22. ASSUME TestDone(j) PROVE slips \subseteq slips'
  BY <1>22 DEF TestDone, SetMark, SignalMark, Touch, Destroy
<1>23. ASSUME Leave(j) PROVE slips \subseteq slips'
  BY <1>23 DEF Leave, Destroy, SetMark, SignalMark, Touch
<1>. QED BY <1>1, <1>2, <1>3, <1>4, <1>5, <1>6, <1>7, <1>8, <1>9, <1>10, <1>11, <1>12, <1>13, <1>14, <1>15, <1>16, <1>17, <1>18, <1>19, <1>20, <1>21, <1>22, <1>23, PlacesAre DEF Call, OwnerStep, WorkerStep, Execute

\* The owner returns from a wait with a state it has seen, or after a time-out.
LEMMA ReturnsStep ==
  ASSUME TypeOK, NEW j \in Jobs, DoneIsComplete, Deletion(j), HandlesApart, SignalledIsHeld,
         OwnerOfJob(j) \notin Resting, OwnerOfJob(j)' = "free",
         Call(j) \/ OwnerStep(j) \/ Take(j) \/ Unqueue(j) \/ WorkerStep(j)
  PROVE  j \in complete \/ TimeOut(j)
<1>0. /\ pc \in [Jobs \X Sides -> Places]
  BY DEF TypeOK
<1>1. ASSUME NEW b \in BOOLEAN, Schedule(j, b) PROVE j \in complete \/ TimeOut(j)
  BY <1>0, <1>1 DEF Schedule, AfterExecute, AfterDeletable, Sides, At, Goto, OwnerOfJob, Resting
<1>2. ASSUME NEW u \in Uses[j], CallWait(j, u) PROVE j \in complete \/ TimeOut(j)
  BY <1>0, <1>2 DEF CallWait, AfterExecute, AfterDeletable, Sides, At, Goto, OwnerOfJob, Resting
<1>3. ASSUME NEW b \in BOOLEAN, CallDelete(j, b) PROVE j \in complete \/ TimeOut(j)
  BY <1>0, <1>3 DEF CallDelete, AfterExecute, AfterDeletable, Sides, At, Goto, OwnerOfJob, Resting
<1>4. ASSUME Delete(j) PROVE j \in complete \/ TimeOut(j)
  BY <1>0, <1>4 DEF Delete, AfterExecute, AfterDeletable, Sides, At, Goto, OwnerOfJob, Resting
<1>5. ASSUME WaitFor(j) PROVE j \in complete \/ TimeOut(j)
  BY <1>0, <1>5 DEF WaitFor, Return, Awaited, DoneIsComplete, Goto, OwnerOfJob, Sides, At
<1>6. ASSUME AutoAlloc(j) PROVE j \in complete \/ TimeOut(j)
  BY <1>0, <1>6 DEF AutoAlloc, AfterExecute, AfterDeletable, Sides, At, Goto, OwnerOfJob, Resting
<1>7. ASSUME Recheck(j) PROVE j \in complete \/ TimeOut(j)
  BY <1>0, <1>7 DEF Recheck, Return, Awaited, DoneIsComplete, Goto, OwnerOfJob, Sides, At
<1>8. ASSUME Wake(j) PROVE j \in complete \/ TimeOut(j)
  <2>1. state[<<j, Awaited(j)>>]
    BY <1>8, HeldIsSet DEF Wake, At, Deletion, OwnerOfJob
  <2>. QED BY <1>0, <2>1, <1>8 DEF Wake, Return, Awaited, DoneIsComplete, Goto, OwnerOfJob, Sides, At
<1>9. ASSUME TimeOut(j) PROVE j \in complete \/ TimeOut(j)
  BY <1>9
<1>10. ASSUME DeleteThis(j) PROVE j \in complete \/ TimeOut(j)
  BY <1>0, <1>10 DEF DeleteThis, Destroy, AfterExecute, AfterDeletable, Sides, At, Goto, OwnerOfJob, Resting
<1>11. ASSUME NEW s \in Sides, Enter(j, s) PROVE j \in complete \/ TimeOut(j)
  BY <1>0, <1>11 DEF Enter, AfterExecute, AfterDeletable, Sides, At, Goto, OwnerOfJob, Resting
<1>12. ASSUME NEW s \in Sides, Begin(j, s) PROVE j \in complete \/ TimeOut(j)
  BY <1>0, <1>12 DEF Begin, AfterExecute, AfterDeletable, Sides, At, Goto, OwnerOfJob, Resting
<1>13. ASSUME NEW s \in Sides, Finish(j, s) PROVE j \in complete \/ TimeOut(j)
  BY <1>0, <1>13 DEF Finish, AfterExecute, AfterDeletable, Sides, At, Goto, OwnerOfJob, Resting
<1>14. ASSUME NEW s \in Sides, SetDone(j, s) PROVE j \in complete \/ TimeOut(j)
  BY <1>0, <1>14 DEF SetDone, SetMark, AfterExecute, AfterDeletable, Sides, At, Goto, OwnerOfJob, Resting
<1>15. ASSUME NEW s \in Sides, SignalDone(j, s) PROVE j \in complete \/ TimeOut(j)
  BY <1>0, <1>15 DEF SignalDone, SignalMark, AfterExecute, AfterDeletable, Sides, At, Goto, OwnerOfJob, Resting
<1>16. ASSUME NEW s \in Sides, Check(j, s) PROVE j \in complete \/ TimeOut(j)
  BY <1>0, <1>16 DEF Check, AfterExecute, AfterDeletable, Sides, At, Goto, OwnerOfJob, Resting
<1>17. ASSUME NEW s \in Sides, SetDeletable(j, s) PROVE j \in complete \/ TimeOut(j)
  BY <1>0, <1>17 DEF SetDeletable, SetMark, AfterExecute, AfterDeletable, Sides, At, Goto, OwnerOfJob, Resting
<1>18. ASSUME NEW s \in Sides, SignalDeletable(j, s) PROVE j \in complete \/ TimeOut(j)
  BY <1>0, <1>18 DEF SignalDeletable, SignalMark, AfterExecute, AfterDeletable, Sides, At, Goto, OwnerOfJob, Resting
<1>19. ASSUME Take(j) PROVE j \in complete \/ TimeOut(j)
  BY <1>0, <1>19 DEF Take, AfterExecute, AfterDeletable, Sides, At, Goto, OwnerOfJob, Resting
<1>20. ASSUME Unqueue(j) PROVE j \in complete \/ TimeOut(j)
  BY <1>0, <1>20 DEF Unqueue, RemoveJobFromQueue, Drop, LeaveQueue, AfterExecute, AfterDeletable, Sides, At, Goto, OwnerOfJob, Resting
<1>21. ASSUME UnSchedule(j) PROVE j \in complete \/ TimeOut(j)
  BY <1>0, <1>21 DEF UnSchedule, AfterExecute, AfterDeletable, Sides, At, Goto, OwnerOfJob, Resting
<1>22. ASSUME TestDone(j) PROVE j \in complete \/ TimeOut(j)
  BY <1>0, <1>22 DEF TestDone, AfterExecute, AfterDeletable, Sides, At, Goto, OwnerOfJob, Resting
<1>23. ASSUME Leave(j) PROVE j \in complete \/ TimeOut(j)
  BY <1>0, <1>23 DEF Leave, Destroy, AfterExecute, AfterDeletable, Sides, At, Goto, OwnerOfJob, Resting
<1>. QED BY <1>1, <1>2, <1>3, <1>4, <1>5, <1>6, <1>7, <1>8, <1>9, <1>10, <1>11, <1>12, <1>13, <1>14, <1>15, <1>16, <1>17, <1>18, <1>19, <1>20, <1>21, <1>22, <1>23, PlacesAre DEF Call, OwnerStep, WorkerStep, Execute

-----------------------------------------------------------------------------
(* The invariant *)

\* What holds while no race has had an effect is kept by every step without one.
LEMMA SafeStep == Always /\ Safe /\ [Next]_vars /\ Undisturbed' => Safe'
<1> SUFFICES ASSUME Always, Safe, [Next]_vars, Undisturbed' PROVE Safe'
  OBVIOUS
<1>0. TypeOK /\ Once /\ DoneIsComplete
  BY DEF Always
<1>1. CASE UNCHANGED vars
  <2>1. HandlesApart' /\ SignalledIsHeld'
    BY <1>1, HandlesRest DEF Safe, vars, events, waits
  <2>2. ASSUME NEW k \in Jobs PROVE JobOK(k)'
    <3>1. Same(k)
      BY <1>1 DEF Same, vars, flags, events, waits, history
    <3>. QED BY <3>1, SameJob DEF Safe
  <2>. QED BY <2>1, <2>2 DEF Safe
<1>2. CASE Next
  <2>1. PICK j \in Jobs : Call(j) \/ OwnerStep(j) \/ Take(j) \/ Unqueue(j) \/ WorkerStep(j)
    BY <1>2 DEF Next
  <2>2. slips' = {} /\ JobOK(j) /\ HandlesApart /\ SignalledIsHeld
    BY DEF Undisturbed, Safe
  <2>3. Listing(j) /\ Deletion(j) /\ HandedOver(j) /\ Pending(j)
    BY <2>2 DEF JobOK
  <2>4. JobOK(j)'
    BY <1>0, <2>1, <2>2, <2>3, ListingStep, DeletionStep, HandedOverStep, PendingStep DEF JobOK
  <2>5. ASSUME NEW k \in Jobs, k # j PROVE JobOK(k)'
    <3>1. Same(k)
      BY <1>0, <2>1, <2>5, Frame
    <3>. QED BY <3>1, SameJob DEF Safe
  <2>6. HandlesApart' /\ SignalledIsHeld'
    BY <1>0, <2>1, <2>2, HandlesStep
  <2>. QED BY <2>4, <2>5, <2>6 DEF Safe
<1>. QED BY <1>1, <1>2

\* The first state satisfies the invariant.
LEMMA InitHolds == Init => IInv
<1> SUFFICES ASSUME Init PROVE IInv
  OBVIOUS
<1>1. TypeOK
  BY DEF Init, TypeOK, Marks, Sides, Goals, Places, NoHandle
<1>2. Once
  BY DEF Init, Once, Sides
<1>3. DoneIsComplete
  BY DEF Init, DoneIsComplete, Sides, Marks
<1>4. ASSUME NEW j \in Jobs PROVE JobOK(j)
  <2>1. /\ OwnerOfJob(j) = "new" /\ WorkerOf(j) = "off" /\ list[j] = "before" /\ waiting[j]
        /\ ~scheduled[j] /\ j \notin removed \cup dropped /\ j \in alive /\ j \notin passed
        /\ pending[j] = NoHandle /\ \A m \in Marks : ~state[<<j, m>>]
        /\ \A s \in Sides : pc[<<j, s>>] \in {"new", "off"}
    BY DEF Init, OwnerOfJob, WorkerOf, Sides
  <2>. QED BY <2>1 DEF JobOK, Listing, Deletion, HandedOver, Pending, Past, Marks
<1>5. HandlesApart /\ SignalledIsHeld
  BY DEF Init, HandlesApart, SignalledIsHeld, Events
<1>. QED BY <1>1, <1>2, <1>3, <1>4, <1>5 DEF IInv, Always, Safe

\* The invariant holds in every state.
LEMMA Invariance == Spec => []IInv
<1>1. IInv /\ [Next]_vars => IInv'
  <2> SUFFICES ASSUME IInv, [Next]_vars PROVE IInv'
    OBVIOUS
  <2>1. Always'
    BY TypeStep, OnceStep, DoneIsCompleteStep DEF IInv, Always
  <2>2. slips \subseteq slips'
    <3>1. CASE UNCHANGED vars
      BY <3>1 DEF vars
    <3>2. CASE Next
      BY <3>2, SlipsStep DEF Next
    <3>. QED BY <3>1, <3>2
  <2>3. Undisturbed' => Safe'
    <3>1. Undisturbed' => Undisturbed
      BY <2>2 DEF Undisturbed
    <3>. QED BY <3>1, SafeStep DEF IInv
  <2>. QED BY <2>1, <2>3 DEF IInv
<1>. QED BY <1>1, InitHolds, PTL DEF Spec

-----------------------------------------------------------------------------
(* The theorems *)

\* Every variable keeps its type, whatever a race lets a thread read.
THEOREM TypeCorrect == Spec => []TypeOK
<1>1. IInv => TypeOK
  BY DEF IInv, Always
<1>. QED BY <1>1, Invariance, PTL

\* The worker and an owner who executes the job inline or deletes it meet at the
\* exchange of one flag: InternalExecute is entered at most once.
THEOREM JobsRunOnce == Spec => []ExecutedOnce
<1>1. IInv => ExecutedOnce
  BY DEF IInv, Always, Once, ExecutedOnce
<1>. QED BY <1>1, Invariance, PTL

\* Unless a data race has had an effect, no job is destroyed before the scheduler
\* has let it go and it says that it is deletable (a transferred job that a stopped
\* scheduler drops never says so: DestroyedIsDeletable), and no handle is recycled
\* signalled or while a job has it.
THEOREM NothingIsGivenBackEarly == Spec => []NothingEndsEarly
<1>1. IInv => NothingEndsEarly
  <2> SUFFICES ASSUME IInv, Undisturbed PROVE NothingEndsEarly
    BY DEF NothingEndsEarly, ListedIsAlive, PoolIsClean
  <2>1. ListedIsAlive
    BY DEF IInv, Safe, JobOK, Deletion, ListedIsAlive
  <2>2. \A i \in DOMAIN pool : pool[i] # NoHandle
    BY DEF IInv, Always, TypeOK, NoHandle
  <2>3. \A h : h # NoHandle => Holders(h) = {e \in Events : event[e] = h}
    BY DEF Holders, Events
  <2>4. \A i \in DOMAIN pool : pool[i] \notin signalled /\ Holders(pool[i]) = {}
    BY <2>2, <2>3 DEF IInv, Safe, HandlesApart, SignalledIsHeld
  <2>5. \A h \in signalled : \E e \in Holders(h) : state[e]
    BY DEF IInv, Safe, SignalledIsHeld, Holders, Events
  <2>. QED BY <2>1, <2>4, <2>5 DEF NothingEndsEarly, PoolIsClean
<1>. QED BY <1>1, Invariance, PTL

\* Unless a data race has had an effect, an owner who waits for a result returns
\* with it, or because the wait was one with a time-out.
THEOREM WaitsReturnResults == Spec => ResultIsComplete
<1>1. IInv /\ [Next]_vars =>
        [\A j \in Jobs :
           /\ Undisturbed /\ pc[<<j, "owner">>] \notin Resting /\ At(j, "owner", "free")'
           => j \in complete \/ TimeOut(j)]_vars
  <2> SUFFICES ASSUME IInv, Next, Undisturbed, NEW j \in Jobs,
                      OwnerOfJob(j) \notin Resting, OwnerOfJob(j)' = "free"
               PROVE  j \in complete \/ TimeOut(j)
    BY DEF At, OwnerOfJob
  <2>1. PICK k \in Jobs : Call(k) \/ OwnerStep(k) \/ Take(k) \/ Unqueue(k) \/ WorkerStep(k)
    BY DEF Next
  <2>2. TypeOK /\ DoneIsComplete /\ Deletion(j) /\ HandlesApart /\ SignalledIsHeld
    BY DEF IInv, Always, Safe, JobOK
  <2>3. CASE k = j
    BY <2>1, <2>2, <2>3, ReturnsStep
  <2>4. CASE k # j
    <3>1. Same(j)
      BY <2>1, <2>2, <2>4, Frame
    <3>2. OwnerOfJob(j) = "free"
      BY <3>1 DEF Same, OwnerOfJob, Sides
    <3>. QED BY <3>2 DEF Resting
  <2>. QED BY <2>3, <2>4
<1>. QED BY <1>1, Invariance, PTL DEF Spec, ResultIsComplete
=============================================================================
