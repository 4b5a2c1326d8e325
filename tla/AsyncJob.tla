------------------------------- MODULE AsyncJob -------------------------------
(***************************************************************************)
(* Jobs of the asynchronous framework: one-shot events and the pool of     *)
(* event handles behind them (AsyncFramework/WaitableEvent.cpp), CJobBase  *)
(* (JobBase.cpp), futures that a caller waits for and deletes (Future.h)   *)
(* and calls that the scheduler deletes (AsyncCall.h).                     *)
(*                                                                         *)
(* Two threads meet at a job: the owner, who created it, and the worker    *)
(* that takes it from the list of a scheduler (JobScheduler.tla; here only *)
(* the calls it makes).  A step is one access to memory that the other     *)
(* thread can see.  A job is created with its first scheduling and never   *)
(* scheduled again.                                                        *)
(*                                                                         *)
(* Two data races of the code are modelled with what they can do.  A job   *)
(* may be destroyed while a worker is at its last steps in it: what these  *)
(* read then is arbitrary, and the handle they signal may be the stale     *)
(* one.  And the handle that a waiter creates may become visible only      *)
(* after its second look at the state of the event.  `slips` records them; *)
(* of what follows a slip nothing is claimed.                              *)
(***************************************************************************)
EXTENDS Naturals, Sequences, FiniteSets

CONSTANTS
  Jobs,
  OwnerOf,   \* the thread that creates a job and calls its methods
  Uses,      \* the calls the owner of each job may make
  Threads    \* number of threads of the scheduler

ASSUME JobAssumption ==
  /\ DOMAIN OwnerOf = Jobs
  /\ Uses \in [Jobs -> SUBSET {"transfer", "get", "inline", "timeout", "delete", "cancel"}]
  /\ Threads \in Nat

Sides == {"owner", "worker"}
Marks == {"done", "deletable"}   \* the events executionDone and deletable
Goals == {"done", "timed", "deletable"}
NoHandle == 0                    \* handles are numbered as they are created

VARIABLES
  waiting, terminated, scheduled,  \* the flags of each job
  state,      \* COneShotEvent::state of each mark of each job
  event,      \* COneShotEvent::event, as the other thread sees it
  pool,       \* handles of CWaitableEventPool, the last one is taken first
  created,    \* number of handles created so far
  signalled,  \* handles that are signalled
  alive,      \* jobs that are not destroyed
  passed,     \* jobs whose ownership was transferred to the scheduler
  list,       \* per job: not yet in the list of the scheduler, there, or gone from it
  pc,         \* where each side is in the code of each job
  goal,       \* what the owner waits for: done, done or a time-out, deletable
  pending,    \* a handle the owner created that others cannot see yet
  runs,       \* history: how often InternalExecute was entered
  complete,   \* history: jobs whose InternalExecute has ended, or that were told not to start
  removed,    \* history: jobs that RemoveJobFromQueue gave back to its caller
  dropped,    \* history: jobs that a stopped scheduler took out of its queue
  slips       \* history: data races that had an effect

flags == <<waiting, terminated, scheduled>>
events == <<state, event, pool, created, signalled>>
waits == <<goal, pending>>
history == <<runs, complete, removed, dropped>>
vars == <<flags, events, alive, passed, list, pc, waits, history, slips>>

Places == {"new", "free", "execute", "start", "running", "set_done", "signal_done",
           "check", "set_deletable", "signal_deletable", "delete", "wait", "alloc",
           "recheck", "block", "destroy", "off", "unlist", "test_done", "leave", "gone"}

TypeOK ==
  /\ waiting \in [Jobs -> BOOLEAN] /\ terminated \in [Jobs -> BOOLEAN]
  /\ scheduled \in [Jobs -> BOOLEAN]
  /\ state \in [Jobs \X Marks -> BOOLEAN]
  /\ event \in [Jobs \X Marks -> 0..created]
  /\ pool \in Seq(1..created)
  /\ created \in Nat
  /\ signalled \subseteq 1..created
  /\ alive \subseteq Jobs /\ passed \subseteq Jobs
  /\ list \in [Jobs -> {"before", "queued", "taken", "after"}]
  /\ pc \in [Jobs \X Sides -> Places]
  /\ goal \in [Jobs -> Goals]
  /\ pending \in [Jobs -> 0..created]
  /\ runs \in [Jobs -> Nat]
  /\ complete \subseteq Jobs /\ removed \subseteq Jobs /\ dropped \subseteq Jobs
  /\ slips \subseteq {"late_access", "late_store"}

Init ==
  /\ waiting = [j \in Jobs |-> TRUE]
  /\ terminated = [j \in Jobs |-> FALSE]
  /\ scheduled = [j \in Jobs |-> FALSE]
  /\ state = [e \in Jobs \X Marks |-> FALSE]
  /\ event = [e \in Jobs \X Marks |-> NoHandle]
  /\ pool = <<>> /\ created = 0 /\ signalled = {}
  /\ alive = Jobs /\ passed = {}
  /\ list = [j \in Jobs |-> "before"]
  /\ pc = [t \in Jobs \X Sides |-> IF t[2] = "owner" THEN "new" ELSE "off"]
  /\ goal = [j \in Jobs |-> "done"]
  /\ pending = [j \in Jobs |-> NoHandle]
  /\ runs = [j \in Jobs |-> 0]
  /\ complete = {} /\ removed = {} /\ dropped = {} /\ slips = {}

\* The mark the owner waits for.
Awaited(j) == IF goal[j] = "deletable" THEN "deletable" ELSE "done"

Goto(j, side, to) == pc' = [pc EXCEPT ![<<j, side>>] = to]
At(j, side, place) == pc[<<j, side>>] = place

\* What a thread may read from a job: what is there, or anything once the job
\* is destroyed.
Sees(j, value) == IF j \in alive THEN {value} ELSE BOOLEAN
Touch(j) == slips' = IF j \in alive THEN slips ELSE slips \cup {"late_access"}

-----------------------------------------------------------------------------
\* The constructor schedules the job: OnSchedule, and then the push that shows
\* it to the workers (CJobScheduler::Schedule).
Schedule(j, transferOwnership) ==
  /\ At(j, "owner", "new")
  /\ transferOwnership => "transfer" \in Uses[j]
  /\ scheduled' = [scheduled EXCEPT ![j] = TRUE]
  /\ list' = [list EXCEPT ![j] = "queued"]
  /\ passed' = IF transferOwnership THEN passed \cup {j} ELSE passed
  /\ Goto(j, "owner", IF transferOwnership THEN "gone" ELSE "free")
  /\ UNCHANGED <<waiting, terminated, events, alive, waits, history, slips>>

-----------------------------------------------------------------------------
(* Execute, by the worker or inline by the owner                             *)

\* Variant: inline execution returns when somebody else executes the job.
AfterExecuteReturn(side) == IF side = "worker" THEN "unlist" ELSE "free"
\* Where a side goes on after Execute or OnUnSchedule.
AfterExecute(side) == IF side = "worker" THEN "unlist" ELSE "wait"
AfterDeletable(j, side) == IF side = "worker" /\ list[j] = "after" THEN "leave"
                           ELSE AfterExecute(side)

\* Variant: the flag is tested, not exchanged.
EnterTest(j, side) ==
  /\ At(j, side, "execute")
  /\ Goto(j, side, IF waiting[j] THEN "start" ELSE AfterExecute(side))
  /\ UNCHANGED <<flags, events, alive, passed, list, waits, history, slips>>

Enter(j, side) ==
  /\ At(j, side, "execute")
  /\ waiting' = [waiting EXCEPT ![j] = FALSE]
  /\ Goto(j, side, IF waiting[j] THEN "start" ELSE AfterExecute(side))
  /\ UNCHANGED <<terminated, scheduled, events, alive, passed, list, waits, history, slips>>

Begin(j, side) ==
  /\ At(j, side, "start")
  /\ IF terminated[j]
       THEN /\ complete' = complete \cup {j}
            /\ Goto(j, side, "set_done")
            /\ UNCHANGED runs
       ELSE /\ runs' = [runs EXCEPT ![j] = @ + 1]
            /\ Goto(j, side, "running")
            /\ UNCHANGED complete
  /\ UNCHANGED <<flags, events, alive, passed, list, waits, removed, dropped, slips>>

\* InternalExecute ends.
Finish(j, side) ==
  /\ At(j, side, "running")
  /\ complete' = complete \cup {j}
  /\ Goto(j, side, "set_done")
  /\ UNCHANGED <<flags, events, alive, passed, list, waits, runs, removed, dropped, slips>>

\* COneShotEvent::Set: the state first, then the handle, if there is one.
SetMark(j, side, mark, signal, next) ==
  /\ \E old \in Sees(j, state[<<j, mark>>]) :
       Goto(j, side, IF old THEN next ELSE signal)
  /\ state' = [state EXCEPT ![<<j, mark>>] = TRUE]
  /\ Touch(j)
  /\ UNCHANGED <<flags, event, pool, created, signalled, alive, passed, list, waits, history>>

SignalMark(j, side, mark, next) ==
  /\ \E h \in {event[<<j, mark>>]} \cup IF j \in alive THEN {} ELSE {NoHandle} :
       signalled' = signalled \cup ({h} \ {NoHandle})
  /\ Goto(j, side, next)
  /\ slips' = slips
       \cup (IF j \in alive THEN {} ELSE {"late_access"})
       \cup (IF pending[j] # NoHandle /\ Awaited(j) = mark
             THEN {"late_store"} ELSE {})
  /\ UNCHANGED <<flags, state, event, pool, created, alive, passed, list, waits, history>>

SetDone(j, side) ==
  At(j, side, "set_done") /\ SetMark(j, side, "done", "signal_done", "check")

SignalDone(j, side) ==
  At(j, side, "signal_done") /\ SignalMark(j, side, "done", "check")

\* Variant: a job that was executed is deletable, wherever it is listed.
CheckNothing(j, side) ==
  /\ At(j, side, "check")
  /\ Goto(j, side, "set_deletable")
  /\ Touch(j)
  /\ UNCHANGED <<flags, events, alive, passed, list, waits, history>>

\* `scheduled == FALSE` in Execute.
Check(j, side) ==
  /\ At(j, side, "check")
  /\ \E listed \in Sees(j, scheduled[j]) :
       Goto(j, side, IF listed THEN AfterExecute(side) ELSE "set_deletable")
  /\ Touch(j)
  /\ UNCHANGED <<flags, events, alive, passed, list, waits, history>>

SetDeletable(j, side) ==
  /\ At(j, side, "set_deletable")
  /\ SetMark(j, side, "deletable", "signal_deletable", AfterDeletable(j, side))

SignalDeletable(j, side) ==
  /\ At(j, side, "signal_deletable")
  /\ SignalMark(j, side, "deletable", AfterDeletable(j, side))

Execute(j, side) ==
  \/ Enter(j, side) \/ Begin(j, side) \/ Finish(j, side)
  \/ SetDone(j, side) \/ SignalDone(j, side) \/ Check(j, side)
  \/ SetDeletable(j, side) \/ SignalDeletable(j, side)

-----------------------------------------------------------------------------
(* The worker                                                                *)

\* A thread of the scheduler takes the job from its queue (ThreadFunc).
Take(j) ==
  /\ list[j] = "queued"
  /\ Cardinality({k \in Jobs : pc[<<k, "worker">>] \notin {"off", "gone"}}) < Threads
  /\ list' = [list EXCEPT ![j] = "taken"]
  /\ Goto(j, "worker", "execute")
  /\ UNCHANGED <<flags, events, alive, passed, waits, history, slips>>

\* The job leaves the queue and is not executed.
LeaveQueue(j) ==
  /\ list[j] = "queued"
  /\ list' = [list EXCEPT ![j] = "taken"]
  /\ Goto(j, "worker", "unlist")
  /\ UNCHANGED <<flags, events, alive, passed, waits, runs, complete, slips>>

\* The caller gets the job back, whoever owned it, and the scheduler deletes
\* nothing.
RemoveJobFromQueue(j) ==
  /\ LeaveQueue(j)
  /\ removed' = removed \cup {j}
  /\ UNCHANGED dropped

\* WaitForEmptyQueueOrTimeout of a stopped scheduler.
Drop(j) ==
  /\ LeaveQueue(j)
  /\ dropped' = dropped \cup {j}
  /\ UNCHANGED removed

\* OnUnSchedule
UnSchedule(j) ==
  /\ At(j, "worker", "unlist")
  /\ scheduled' = [scheduled EXCEPT ![j] = FALSE]
  /\ list' = [list EXCEPT ![j] = "after"]
  /\ Goto(j, "worker", "test_done")
  /\ Touch(j)
  /\ UNCHANGED <<waiting, terminated, events, alive, passed, waits, history>>

TestDone(j) ==
  /\ At(j, "worker", "test_done")
  /\ \E done \in Sees(j, state[<<j, "done">>]) :
       Goto(j, "worker", IF done THEN "set_deletable" ELSE "leave")
  /\ Touch(j)
  /\ UNCHANGED <<flags, events, alive, passed, list, waits, history>>

\* Variant: an event without a handle releases it, too.
HandlesAll(j) == <<event[<<j, "deletable">>], event[<<j, "done">>]>>

\* ~COneShotEvent of `deletable`, then of `executionDone`: each returns its
\* handle, reset, to the pool.
Used(h) == IF h = NoHandle THEN <<>> ELSE <<h>>
Handles(j) == Used(event[<<j, "deletable">>]) \o Used(event[<<j, "done">>])

\* Variant: without ResetEvent.
DestroySignalled(j) ==
  /\ alive' = alive \ {j}
  /\ pool' = pool \o Handles(j)
  /\ UNCHANGED <<flags, state, event, created, signalled, passed, list, waits, history, slips>>

Destroy(j) ==
  /\ alive' = alive \ {j}
  /\ pool' = pool \o Handles(j)
  /\ signalled' = signalled \ {event[<<j, mark>>] : mark \in Marks}
  /\ UNCHANGED <<flags, state, event, created, passed, list, waits, history, slips>>

\* The scheduler is done with the job; one it owns it deletes, executed or
\* dropped.
Leave(j) ==
  /\ At(j, "worker", "leave")
  /\ Goto(j, "worker", "gone")
  /\ IF j \in passed \ removed
       THEN Destroy(j)
       ELSE UNCHANGED <<flags, events, alive, passed, list, waits, history, slips>>

-----------------------------------------------------------------------------
(* The owner of a future                                                     *)

\* GetResult (WaitUntilDone), WaitUntilDone with inline execution, and
\* WaitUntilDoneOrTimeout.
CallWait(j, use) ==
  /\ At(j, "owner", "free")
  /\ use \in Uses[j] \cap {"get", "inline", "timeout"}
  /\ goal' = [goal EXCEPT ![j] = IF use = "timeout" THEN "timed" ELSE "done"]
  /\ Goto(j, "owner", IF use = "inline" THEN "execute" ELSE "wait")
  /\ UNCHANGED <<flags, events, alive, passed, list, pending, history, slips>>

\* ~CFuture calls Delete(true); Delete(false) is for other users of CJobBase.
CallDelete(j, terminate) ==
  /\ At(j, "owner", "free")
  /\ (IF terminate THEN "cancel" ELSE "delete") \in Uses[j]
  /\ terminated' = [terminated EXCEPT ![j] = @ \/ terminate]
  /\ goal' = [goal EXCEPT ![j] = "deletable"]
  /\ Goto(j, "owner", "delete")
  /\ UNCHANGED <<waiting, scheduled, events, alive, passed, list, pending, history, slips>>

Delete(j) ==
  /\ At(j, "owner", "delete")
  /\ Goto(j, "owner", IF waiting[j] THEN "execute" ELSE "wait")
  /\ UNCHANGED <<flags, events, alive, passed, list, waits, history, slips>>

\* COneShotEvent::WaitFor and WaitForEndOrTimeout.  The wait of a caller returns
\* to it; the wait of Delete goes on to `delete this`.
Return(j) ==
  /\ Goto(j, "owner", IF goal[j] = "deletable" THEN "destroy" ELSE "free")
  /\ goal' = [goal EXCEPT ![j] = IF @ = "deletable" THEN @ ELSE "done"]

WaitFor(j) ==
  /\ At(j, "owner", "wait")
  /\ IF state[<<j, Awaited(j)>>]
       THEN Return(j) /\ UNCHANGED <<event, pending>>
       ELSE Goto(j, "owner", "alloc") /\ UNCHANGED <<event, waits>>
  /\ UNCHANGED <<flags, state, pool, created, signalled, alive, passed, list, history, slips>>

\* AutoAlloc takes the handle the event has, or the last one of the pool, or
\* creates one.  Nothing orders the store of a created handle before the second
\* look at the state that follows it.
Alloc(j) ==
  LET e == <<j, Awaited(j)>>
  IN  \/ /\ event[e] # NoHandle
         /\ UNCHANGED <<event, pool, created, pending>>
      \/ /\ event[e] = NoHandle /\ pool # <<>>
         /\ event' = [event EXCEPT ![e] = pool[Len(pool)]]
         /\ pool' = SubSeq(pool, 1, Len(pool) - 1)
         /\ UNCHANGED <<created, pending>>
      \/ /\ event[e] = NoHandle /\ pool = <<>>
         /\ created' = created + 1
         /\ \/ /\ event' = [event EXCEPT ![e] = created + 1]
               /\ UNCHANGED pending
            \/ /\ goal[j] # "timed"
               /\ pending' = [pending EXCEPT ![j] = created + 1]
               /\ UNCHANGED event
         /\ UNCHANGED pool

AutoAlloc(j) ==
  /\ At(j, "owner", "alloc")
  /\ Alloc(j)
  /\ Goto(j, "owner", IF goal[j] = "timed" THEN "block" ELSE "recheck")
  /\ UNCHANGED <<flags, state, signalled, alive, passed, list, goal, history, slips>>

\* Variant: without the second look.
RecheckNothing(j) ==
  LET e == <<j, Awaited(j)>>
  IN  /\ At(j, "owner", "recheck")
      /\ event' = [event EXCEPT ![e] = IF pending[j] = NoHandle THEN @ ELSE pending[j]]
      /\ pending' = [pending EXCEPT ![j] = NoHandle]
      /\ Goto(j, "owner", "block")
      /\ UNCHANGED <<flags, state, pool, created, signalled, goal, alive, passed, list, history, slips>>

\* The second look at the state, which WaitForEndOrTimeout does not take.
Recheck(j) ==
  LET e == <<j, Awaited(j)>>
  IN  /\ At(j, "owner", "recheck")
      /\ event' = [event EXCEPT ![e] = IF pending[j] = NoHandle THEN @ ELSE pending[j]]
      /\ pending' = [pending EXCEPT ![j] = NoHandle]
      /\ IF state[e] THEN Return(j)
                     ELSE Goto(j, "owner", "block") /\ UNCHANGED goal
      /\ UNCHANGED <<flags, state, pool, created, signalled, alive, passed, list, history, slips>>

\* WaitForSingleObject returns.
Wake(j) ==
  /\ At(j, "owner", "block")
  /\ event[<<j, Awaited(j)>>] \in signalled
  /\ Return(j)
  /\ UNCHANGED <<flags, events, alive, passed, list, pending, history, slips>>

TimeOut(j) ==
  /\ At(j, "owner", "block")
  /\ goal[j] = "timed" /\ event[<<j, "done">>] \notin signalled
  /\ Return(j)
  /\ UNCHANGED <<flags, events, alive, passed, list, pending, history, slips>>

\* `delete this`
DeleteThis(j) ==
  /\ At(j, "owner", "destroy")
  /\ Goto(j, "owner", "gone")
  /\ Destroy(j)

-----------------------------------------------------------------------------
Resting == {"new", "free", "gone"}

\* A thread makes one call at a time.
Call(j) ==
  /\ \A k \in Jobs : OwnerOf[k] = OwnerOf[j] => pc[<<k, "owner">>] \in Resting
  /\ \/ \E transferOwnership \in BOOLEAN : Schedule(j, transferOwnership)
     \/ \E use \in Uses[j] : CallWait(j, use)
     \/ \E terminate \in BOOLEAN : CallDelete(j, terminate)

OwnerStep(j) ==
  \/ Delete(j)
  \/ Execute(j, "owner")
  \/ WaitFor(j) \/ AutoAlloc(j) \/ Recheck(j) \/ Wake(j) \/ TimeOut(j) \/ DeleteThis(j)

WorkerStep(j) == Execute(j, "worker") \/ UnSchedule(j) \/ TestDone(j) \/ Leave(j)

Unqueue(j) == RemoveJobFromQueue(j) \/ Drop(j)

Next == \E j \in Jobs : Call(j) \/ OwnerStep(j) \/ Take(j) \/ Unqueue(j) \/ WorkerStep(j)

Spec == Init /\ [][Next]_vars

\* Threads run, InternalExecute ends, and the scheduler has a thread for what is
\* in its queue.  Nothing is assumed of what the owner calls.
FairSpec ==
  /\ Spec
  /\ \A j \in Jobs : WF_vars(OwnerStep(j)) /\ WF_vars(WorkerStep(j)) /\ WF_vars(Take(j))

-----------------------------------------------------------------------------
(* What must hold                                                            *)

\* No data race has had an effect.
Undisturbed == slips = {}

\* "Jobs will be executed only once" (IJob.h:34), although the owner may execute
\* a job inline while a worker takes it.
ExecutedOnce == Undisturbed => \A j \in Jobs : runs[j] <= 1

\* A job is not destroyed before the scheduler has called OnUnSchedule
\* (IJob.h:91-93), and then it says that it is deletable.  The one exception is
\* a transferred job that a stopped scheduler drops: see DestroyedIsDeletable.
ListedIsAlive ==
  Undisturbed => \A j \in Jobs \ alive :
    list[j] = "after" /\ (state[<<j, "deletable">>] \/ j \in passed \cap dropped)

\* The assertion of ~CJobBase (JobBase.cpp:55), which the header repeats: every
\* job that is destroyed says that it is deletable.
DestroyedIsDeletable == Undisturbed => \A j \in Jobs \ alive : state[<<j, "deletable">>]

\* A handle in the pool is not signalled and belongs to no living job, and a
\* handle is signalled only on behalf of the job that has it: a recycled handle
\* wakes nobody too early.
Holders(h) == {e \in Jobs \X Marks : e[1] \in alive /\ event[e] = h}
PoolIsClean ==
  Undisturbed =>
    /\ \A i \in DOMAIN pool : pool[i] \notin signalled /\ Holders(pool[i]) = {}
    /\ \A h \in signalled : \E e \in Holders(h) : state[e]

\* Neither a job nor a handle is given back while somebody still relies on it.
NothingEndsEarly == ListedIsAlive /\ PoolIsClean

\* GetResult and WaitUntilDone return only after the call has ended or been
\* cancelled ("The latter will wait for the call to finished", Future.h:30);
\* only a time-out returns earlier.
ResultIsComplete ==
  [][\A j \in Jobs :
       /\ Undisturbed /\ pc[<<j, "owner">>] \notin Resting /\ At(j, "owner", "free")'
       => j \in complete \/ TimeOut(j)]_vars

\* Every wait and every deletion ends, whichever side executes the job and
\* however the two sides meet at its events.  A job that was taken out of the
\* queue is executed by no worker, so a wait for it that does not execute it
\* inline need not end; its deletion does.
CallsEnd ==
  \A j \in Jobs :
    pc[<<j, "owner">>] \notin Resting ~>
      \/ pc[<<j, "owner">>] \in Resting
      \/ ~Undisturbed
      \/ j \in removed \cup dropped /\ goal[j] # "deletable"
=============================================================================
