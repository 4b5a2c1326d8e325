----------------------------- MODULE JobScheduler -----------------------------
(***************************************************************************)
(* Job schedulers that share a pool of threads (AsyncFramework/            *)
(* JobScheduler.cpp and Thread.cpp): queues of jobs, private threads that  *)
(* are created when they are needed and suspended when they are idle,      *)
(* threads on loan from the pool, and the registration of a scheduler that *)
(* gets none as starving.  Jobs are only counted here, their own life is   *)
(* in AsyncJob.tla; a job may wait for others with WaitForSomeJobs.        *)
(*                                                                         *)
(* What a thread does under the mutex of a scheduler is one step, up to    *)
(* the next look at the pool or at the mutex of another scheduler.  The    *)
(* number of shared threads is set once, by the first constructor, and     *)
(* aggressiveThreading, which nothing sets, is off.                        *)
(***************************************************************************)
EXTENDS Naturals, Sequences, FiniteSets, SequencesExt

CONSTANTS
  Schedulers,
  Threads,         \* bound: names of the threads that can exist at a time
  Callers,         \* threads that call the schedulers from outside
  ThreadCount,     \* private threads of each scheduler
  SharedThreads,   \* threads each scheduler may have on loan
  MaxCount,        \* threads of the pool
  Watermarks,      \* lengths a queue may be cut down to
  MaxJobs,         \* bound on the jobs scheduled in a behaviour
  MaxStops,        \* bound on the calls of Stop in a behaviour
  None

ASSUME SchedulerAssumption ==
  /\ IsFiniteSet(Schedulers) /\ IsFiniteSet(Threads)
  /\ None \notin Schedulers \cup Threads \cup Callers
  /\ Threads \cap Callers = {}
  /\ ThreadCount \in [Schedulers -> Nat] /\ SharedThreads \in [Schedulers -> Nat]
  /\ Watermarks \subseteq Nat
  /\ MaxCount \in Nat \ {0} /\ MaxJobs \in Nat /\ MaxStops \in Nat

Processes == Threads \cup Callers

VARIABLES
  queue,           \* number of jobs that wait in each scheduler
  running, suspended,                            \* SThreads, per scheduler
  runningCount, suspendedCount, yetToCreate,
  fromShared, unusedCount, starved, stopCount,
  emptyEvent, threadIsIdle,   \* the schedulers whose event is set
  waitingThreads,
  mutex,           \* who is in the critical section of each scheduler
  closing, destroyed,   \* schedulers in their destructor, and those destroyed
  pool, allocCount, poolYetToCreate, starving,   \* CThreadPool
  owner,           \* SThreadInfo::owner
  resumed,         \* threads that are not suspended (CThread::Suspend and Resume)
  pc,              \* where each thread and each caller is
  at,              \* the scheduler whose method it is in
  target,          \* the scheduler it notifies, or allocates a thread for
  scheduled, stops, hungry    \* history: jobs scheduled, calls of Stop, schedulers
                              \* that were starved

counters == <<runningCount, suspendedCount, yetToCreate, fromShared, unusedCount>>
events == <<emptyEvent, threadIsIdle, waitingThreads>>
shared == <<pool, allocCount, poolYetToCreate, starving>>
threads == <<running, suspended, counters, owner, resumed>>
history == <<scheduled, stops, hungry>>
vars == <<queue, threads, starved, stopCount, events, mutex, destroyed, closing, shared,
          pc, at, target, history>>

Places ==
  {"new", "loop", "spin", "release", "notify", "available", "grow", "register",
   "settle", "execute", "some", "woken", "ending",
   "idle", "drain", "empty", "resume"}

TypeOK ==
  /\ queue \in [Schedulers -> Nat]
  /\ running \in [Schedulers -> SUBSET Threads]
  /\ suspended \in [Schedulers -> Seq(Threads)]
  /\ \A count \in {runningCount, suspendedCount, yetToCreate, fromShared, unusedCount,
                   stopCount, waitingThreads} : count \in [Schedulers -> Nat]
  /\ starved \in [Schedulers -> BOOLEAN]
  /\ emptyEvent \subseteq Schedulers /\ threadIsIdle \subseteq Schedulers
  /\ mutex \in [Schedulers -> Processes \cup {None}]
  /\ destroyed \subseteq closing /\ closing \subseteq Schedulers
  /\ pool \in Seq(Threads) /\ allocCount \in Nat /\ poolYetToCreate \in Nat
  /\ starving \in Seq(Schedulers)
  /\ owner \in [Threads -> Schedulers \cup {None}] /\ resumed \subseteq Threads
  /\ pc \in [Processes -> Places]
  /\ at \in [Processes -> Schedulers \cup {None}]
  /\ target \in [Processes -> Schedulers \cup {None}]
  /\ scheduled \in 0..MaxJobs /\ stops \in 0..MaxStops /\ hungry \subseteq Schedulers

Init ==
  /\ queue = [s \in Schedulers |-> 0]
  /\ running = [s \in Schedulers |-> {}] /\ suspended = [s \in Schedulers |-> <<>>]
  /\ runningCount = [s \in Schedulers |-> 0]
  /\ suspendedCount = [s \in Schedulers |-> 0]
  /\ yetToCreate = ThreadCount
  /\ fromShared = [s \in Schedulers |-> 0]
  /\ unusedCount = [s \in Schedulers |-> ThreadCount[s] + SharedThreads[s]]
  /\ starved = [s \in Schedulers |-> FALSE]
  /\ stopCount = [s \in Schedulers |-> 0]
  /\ emptyEvent = {} /\ threadIsIdle = {}
  /\ waitingThreads = [s \in Schedulers |-> 0]
  /\ mutex = [s \in Schedulers |-> None]
  /\ destroyed = {} /\ closing = {}
  /\ pool = <<>> /\ allocCount = 0 /\ poolYetToCreate = MaxCount /\ starving = <<>>
  /\ owner = [t \in Threads |-> None] /\ resumed = {}
  /\ pc = [p \in Processes |-> IF p \in Threads THEN "new" ELSE "idle"]
  /\ at = [p \in Processes |-> None]
  /\ target = [p \in Processes |-> None]
  /\ scheduled = 0 /\ stops = 0 /\ hungry = {}

-----------------------------------------------------------------------------
(* Allocating a thread, with the mutex of s held                             *)

\* A thread starts to run for s.  to is where the process that allocates it
\* goes on; a thread that did not exist is created suspended and then resumed.
Run(t, s, p, to) ==
  /\ running' = [running EXCEPT ![s] = @ \cup {t}]
  /\ runningCount' = [runningCount EXCEPT ![s] = @ + 1]
  /\ unusedCount' = [unusedCount EXCEPT ![s] = @ - 1]
  /\ owner' = [owner EXCEPT ![t] = s]
  /\ resumed' = resumed \cup {t}
  /\ pc' = [q \in Processes |-> IF q = p THEN to
                                ELSE IF q = t /\ pc[q] = "new" THEN "loop" ELSE pc[q]]

\* `new SThreadInfo`, `new CThread`
RunNew(s, p, to) ==
  /\ \E t \in Threads : pc[t] = "new"
  /\ Run(CHOOSE t \in Threads : pc[t] = "new", s, p, to)

RecycleThread(s, p, to) ==
  /\ suspendedCount[s] > 0
  /\ suspended' = [suspended EXCEPT ![s] = Front(@)]
  /\ suspendedCount' = [suspendedCount EXCEPT ![s] = @ - 1]
  /\ Run(Last(suspended[s]), s, p, to)
  /\ UNCHANGED <<yetToCreate, fromShared, starved, shared, hungry>>

CreateThread(s, p, to) ==
  /\ suspendedCount[s] = 0 /\ yetToCreate[s] > 0
  /\ yetToCreate' = [yetToCreate EXCEPT ![s] = @ - 1]
  /\ RunNew(s, p, to)
  /\ UNCHANGED <<suspended, suspendedCount, fromShared, starved, shared, hungry>>

\* Variant: a created thread is not counted.
BorrowUncounted(s, p, to) ==
  /\ ~starved[s]
  /\ \/ /\ pool # <<>>
        /\ Run(Last(pool), s, p, to)
        /\ pool' = Front(pool)
        /\ allocCount' = allocCount + 1
        /\ UNCHANGED poolYetToCreate
     \/ /\ pool = <<>> /\ poolYetToCreate > 0
        /\ RunNew(s, p, to)
        /\ poolYetToCreate' = poolYetToCreate - 1
        /\ UNCHANGED <<pool, allocCount>>
  /\ fromShared' = [fromShared EXCEPT ![s] = @ + 1]
  /\ UNCHANGED <<suspended, suspendedCount, yetToCreate, starving, starved, hungry>>

\* CThreadPool::TryAlloc has a thread.
Borrow(s, p, to) ==
  /\ ~starved[s]
  /\ \/ /\ pool # <<>>
        /\ Run(Last(pool), s, p, to)
        /\ pool' = Front(pool)
        /\ UNCHANGED poolYetToCreate
     \/ /\ pool = <<>> /\ poolYetToCreate > 0
        /\ RunNew(s, p, to)
        /\ poolYetToCreate' = poolYetToCreate - 1
        /\ UNCHANGED pool
  /\ allocCount' = allocCount + 1
  /\ fromShared' = [fromShared EXCEPT ![s] = @ + 1]
  /\ UNCHANGED <<suspended, suspendedCount, yetToCreate, starving, starved, hungry>>

\* It has none: the scheduler will register as starving, in a step of its own.
\* on is where p goes on when there is nothing to register.
BorrowNothing(s, p, on) ==
  /\ starved[s] \/ (pool = <<>> /\ poolYetToCreate = 0)
  /\ starved' = [starved EXCEPT ![s] = TRUE]
  /\ hungry' = hungry \cup {s}
  /\ pc' = [pc EXCEPT ![p] = IF starved[s] THEN on ELSE "register"]
  /\ UNCHANGED <<threads, shared>>

AllocateSharedThread(s, p, to, on) == Borrow(s, p, to) \/ BorrowNothing(s, p, on)

\* Its callers have looked at unusedCount, so one of the three is there.  to is
\* where p goes on with a thread, on without one.
AllocateThread(s, p, to, on) ==
  \/ RecycleThread(s, p, to)
  \/ CreateThread(s, p, to)
  \/ /\ suspendedCount[s] = 0 /\ yetToCreate[s] = 0 /\ fromShared[s] < SharedThreads[s]
     /\ AllocateSharedThread(s, p, to, on)

\* Where a process is when its allocation is over.
Home(p) == IF p \in Threads THEN "notify" ELSE "idle"

\* p keeps the mutex of s while it still has to do something under it.
Keep(s, p) ==
  LET busy == pc'[p] \in {"register", "grow", "resume"}
  IN  /\ mutex' = [mutex EXCEPT ![s] = IF busy THEN p ELSE None]
      /\ target' = [target EXCEPT ![p] = IF busy THEN s ELSE None]

\* CThreadPool::AddStarving, and the end of the critical section.
Register(p) ==
  LET s == target[p]
  IN  /\ pc[p] = "register"
      /\ starving' = Append(starving, s)
      /\ mutex' = [mutex EXCEPT ![s] = None]
      /\ target' = [target EXCEPT ![p] = None]
      /\ pc' = [pc EXCEPT ![p] = Home(p)]
      /\ UNCHANGED <<queue, threads, starved, stopCount, events, destroyed, closing, pool,
                     allocCount, poolYetToCreate, at, history>>

-----------------------------------------------------------------------------
(* The thread function                                                       *)

\* A thread in its loop that is not suspended (CThread::ThreadFunc) calls AssignJob.
Awake(t) == pc[t] = "loop" /\ t \in resumed

\* Variant: only a stopped scheduler with an empty queue has no work.
HasWorkAlways(s) == queue[s] > 0 \/ stopCount[s] = 0
HasWork(s) == queue[s] > 0 /\ stopCount[s] = 0

\* AssignJob: who waits for an idle thread is woken in both cases.
WakeWaiting(s) ==
  threadIsIdle' = IF waitingThreads[s] > 0 THEN threadIsIdle \cup {s} ELSE threadIsIdle

AssignJob(t) ==
  LET s == owner[t]
  IN  /\ Awake(t) /\ mutex[s] = None /\ HasWork(s)
      /\ WakeWaiting(s)
      /\ queue' = [queue EXCEPT ![s] = @ - 1]
      /\ pc' = [pc EXCEPT ![t] = "execute"]
      /\ UNCHANGED <<threads, starved, stopCount, emptyEvent, waitingThreads, mutex,
                     destroyed, closing, shared, at, target, history>>

\* Variant: without Suspend.
IdleAwake(t, s) ==
  /\ Awake(t) /\ mutex[s] = None /\ ~HasWork(s)
  /\ WakeWaiting(s)
  /\ running' = [running EXCEPT ![s] = @ \ {t}]
  /\ UNCHANGED resumed

\* The thread is idle: it is suspended and leaves the running ones.
Idle(t, s) ==
  /\ Awake(t) /\ mutex[s] = None /\ ~HasWork(s)
  /\ WakeWaiting(s)
  /\ resumed' = resumed \ {t}
  /\ running' = [running EXCEPT ![s] = @ \ {t}]

\* Variant: the count is tested before it is decremented.
SettledEarly(s) ==
  /\ unusedCount' = [unusedCount EXCEPT ![s] = @ + 1]
  /\ runningCount' = [runningCount EXCEPT ![s] = @ - 1]
  /\ emptyEvent' = IF runningCount[s] = 0 THEN emptyEvent \cup {s} ELSE emptyEvent

\* `++unusedCount; if (--runningCount == 0) emptyEvent.Set()`
Settled(s) ==
  /\ unusedCount' = [unusedCount EXCEPT ![s] = @ + 1]
  /\ runningCount' = [runningCount EXCEPT ![s] = @ - 1]
  /\ emptyEvent' = IF runningCount[s] = 1 THEN emptyEvent \cup {s} ELSE emptyEvent

\* Variant: a thread is kept whatever the scheduler owes.
RestFirst(t) ==
  LET s == owner[t]
  IN  /\ Idle(t, s)
      /\ suspended' = [suspended EXCEPT ![s] = Append(@, t)]
      /\ suspendedCount' = [suspendedCount EXCEPT ![s] = @ + 1]
      /\ Settled(s)
      /\ pc' = [pc EXCEPT ![t] = "loop"]
      /\ UNCHANGED <<queue, yetToCreate, fromShared, owner, starved, stopCount,
                     waitingThreads, mutex, destroyed, closing, shared, at, target,
                     history>>

\* A scheduler that owes no thread to the pool keeps it, ...
Rest(t) ==
  LET s == owner[t]
  IN  /\ Idle(t, s) /\ fromShared[s] = 0
      /\ suspended' = [suspended EXCEPT ![s] = Append(@, t)]
      /\ suspendedCount' = [suspendedCount EXCEPT ![s] = @ + 1]
      /\ Settled(s)
      /\ pc' = [pc EXCEPT ![t] = "loop"]
      /\ UNCHANGED <<queue, yetToCreate, fromShared, owner, starved, stopCount,
                     waitingThreads, mutex, destroyed, closing, shared, at, target,
                     history>>

\* ... and one that does gives it back, whether it is private or not.
GiveBack(t) ==
  LET s == owner[t]
  IN  /\ Idle(t, s) /\ fromShared[s] > 0
      /\ mutex' = [mutex EXCEPT ![s] = t]
      /\ at' = [at EXCEPT ![t] = s]
      /\ pc' = [pc EXCEPT ![t] = IF starved[s] THEN "spin" ELSE "release"]
      /\ UNCHANGED <<queue, suspended, counters, owner, starved, stopCount, emptyEvent,
                     waitingThreads, destroyed, closing, shared, target, history>>

\* Variant: without the loop.
StopStarvationOnce(p) ==
  LET s == at[p]
  IN  /\ pc[p] = "spin"
      /\ starved' = [starved EXCEPT ![s] = FALSE]
      /\ starving' = SelectSeq(starving, LAMBDA r : r # s)
      /\ pc' = [pc EXCEPT ![p] = IF p \in Threads THEN "release" ELSE "drain"]
      /\ UNCHANGED <<queue, threads, stopCount, events, mutex, destroyed, closing, pool,
                     allocCount, poolYetToCreate, at, target, history>>

\* StopStarvation, by an idle thread or by the destructor: it loops as long as
\* somebody else has taken the scheduler from the list and not yet told it.  A
\* scheduler is listed once at most.
StopStarvation(p) ==
  LET s == at[p]
  IN  /\ pc[p] = "spin"
      /\ starved' = [starved EXCEPT ![s] = FALSE]
      /\ \/ ~starved[s] /\ UNCHANGED starving
         \/ starved[s] /\ \E i \in DOMAIN starving :
              starving[i] = s /\ starving' = RemoveAt(starving, i)
      /\ pc' = [pc EXCEPT ![p] = IF p \in Threads THEN "release" ELSE "drain"]
      /\ UNCHANGED <<queue, threads, stopCount, events, mutex, destroyed, closing, pool,
                     allocCount, poolYetToCreate, at, target, history>>

\* CThreadPool::Release; the pool never overflows (ThreadsAreCounted).
Release(t) ==
  /\ pc[t] = "release"
  /\ owner' = [owner EXCEPT ![t] = None]
  /\ pool' = Append(pool, t)
  /\ allocCount' = allocCount - 1
  /\ pc' = [pc EXCEPT ![t] = IF starving = <<>> THEN "settle" ELSE "notify"]
  /\ UNCHANGED <<queue, running, suspended, counters, resumed, starved, stopCount, events,
                 mutex, destroyed, closing, poolYetToCreate, starving, at, target,
                 history>>

\* SelectStarving: the next scheduler to notify, while there is a thread to offer.
Notify(t) ==
  /\ pc[t] = "notify"
  /\ IF starving = <<>> \/ pool = <<>>
       THEN /\ pc' = [pc EXCEPT ![t] = "settle"]
            /\ UNCHANGED <<starving, target>>
       ELSE /\ pc' = [pc EXCEPT ![t] = "available"]
            /\ target' = [target EXCEPT ![t] = Head(starving)]
            /\ starving' = Tail(starving)
  /\ UNCHANGED <<queue, threads, starved, stopCount, events, mutex, destroyed, closing,
                 pool, allocCount, poolYetToCreate, at, history>>

\* ThreadAvailable takes the mutex of the scheduler ...
ThreadAvailable(t) ==
  LET s == target[t]
  IN  /\ pc[t] = "available" /\ mutex[s] = None
      /\ starved' = [starved EXCEPT ![s] = FALSE]
      /\ mutex' = [mutex EXCEPT ![s] = t]
      /\ pc' = [pc EXCEPT ![t] = "grow"]
      /\ UNCHANGED <<queue, threads, stopCount, events, destroyed, closing, shared, at,
                     target, history>>

\* ... and allocates threads while the scheduler is stopped and has too few.
WantsShared(s) ==
  /\ stopCount[s] # 0
  /\ queue[s] > 2 * runningCount[s]
  /\ suspendedCount[s] = 0 /\ yetToCreate[s] = 0
  /\ fromShared[s] < SharedThreads[s]

Grow(t) ==
  LET s == target[t]
  IN  /\ pc[t] = "grow"
      /\ \/ WantsShared(s) /\ AllocateSharedThread(s, t, "grow", "notify")
         \/ /\ ~WantsShared(s)
            /\ pc' = [pc EXCEPT ![t] = "notify"]
            /\ UNCHANGED <<threads, starved, shared, hungry>>
      /\ Keep(s, t)
      /\ UNCHANGED <<queue, stopCount, events, destroyed, closing, at, scheduled, stops>>

Settle(t) ==
  LET s == at[t]
  IN  /\ pc[t] = "settle"
      /\ fromShared' = [fromShared EXCEPT ![s] = @ - 1]
      /\ Settled(s)
      /\ mutex' = [mutex EXCEPT ![s] = None]
      /\ at' = [at EXCEPT ![t] = None]
      /\ pc' = [pc EXCEPT ![t] = "loop"]
      /\ UNCHANGED <<queue, running, suspended, suspendedCount, yetToCreate, owner,
                     resumed, starved, stopCount, threadIsIdle, waitingThreads, destroyed,
                     closing, shared, target, history>>

\* The job ends, OnUnSchedule included, and the thread asks for the next.
Finish(t) ==
  /\ pc[t] \in {"execute", "ending"}
  /\ pc' = [pc EXCEPT ![t] = "loop"]
  /\ UNCHANGED <<queue, threads, starved, stopCount, events, mutex, destroyed, closing,
                 shared, at, target, history>>

\* Variant: as many jobs as there are threads may wait.
WaitForSomeJobsAll(t) ==
  LET s == owner[t]
      wait == waitingThreads[s] + 1 <= runningCount[s]
  IN  /\ pc[t] = "execute" /\ mutex[s] = None
      /\ waitingThreads' = IF wait THEN [waitingThreads EXCEPT ![s] = @ + 1] ELSE waitingThreads
      /\ threadIsIdle' = IF wait THEN threadIsIdle \ {s} ELSE threadIsIdle \cup {s}
      /\ pc' = [pc EXCEPT ![t] = IF wait THEN "some" ELSE "ending"]
      /\ UNCHANGED <<queue, threads, starved, stopCount, emptyEvent, mutex, destroyed,
                     closing, shared, at, target, history>>

\* The job waits for others.  It is not made to wait if too many do.
WaitForSomeJobs(t) ==
  LET s == owner[t]
      wait == waitingThreads[s] + 1 < runningCount[s]
  IN  /\ pc[t] = "execute" /\ mutex[s] = None
      /\ waitingThreads' = IF wait THEN [waitingThreads EXCEPT ![s] = @ + 1] ELSE waitingThreads
      /\ threadIsIdle' = IF wait THEN threadIsIdle \ {s} ELSE threadIsIdle \cup {s}
      /\ pc' = [pc EXCEPT ![t] = IF wait THEN "some" ELSE "ending"]
      /\ UNCHANGED <<queue, threads, starved, stopCount, emptyEvent, mutex, destroyed,
                     closing, shared, at, target, history>>

WakeSome(t) ==
  /\ pc[t] = "some" /\ owner[t] \in threadIsIdle
  /\ pc' = [pc EXCEPT ![t] = "woken"]
  /\ UNCHANGED <<queue, threads, starved, stopCount, events, mutex, destroyed, closing,
                 shared, at, target, history>>

\* The count is decremented outside of the critical section.
LeaveSome(t) ==
  /\ pc[t] = "woken"
  /\ waitingThreads' = [waitingThreads EXCEPT ![owner[t]] = @ - 1]
  /\ pc' = [pc EXCEPT ![t] = "ending"]
  /\ UNCHANGED <<queue, threads, starved, stopCount, emptyEvent, threadIsIdle, mutex,
                 destroyed, closing, shared, at, target, history>>

-----------------------------------------------------------------------------
(* The methods                                                               *)


\* A caller between two calls; a scheduler in its destructor is not called.
Calls(c, s) == pc[c] = "idle" /\ s \notin closing /\ mutex[s] = None

WantsThread(s) == queue[s] + 1 > 2 * runningCount[s] /\ unusedCount[s] > 0

Schedule(c, s) ==
  /\ Calls(c, s) /\ scheduled < MaxJobs
  /\ scheduled' = scheduled + 1
  /\ emptyEvent' = IF queue[s] = 0 THEN emptyEvent \ {s} ELSE emptyEvent
  /\ queue' = [queue EXCEPT ![s] = @ + 1]
  /\ \/ stopCount[s] = 0 /\ WantsThread(s) /\ AllocateThread(s, c, "idle", "idle")
     \/ /\ stopCount[s] # 0 \/ ~WantsThread(s)
        /\ UNCHANGED <<threads, starved, shared, pc, hungry>>
  /\ Keep(s, c)
  /\ UNCHANGED <<stopCount, threadIsIdle, waitingThreads, destroyed, closing, at, stops>>

Stop(c, s) ==
  /\ Calls(c, s) /\ stops < MaxStops
  /\ stops' = stops + 1
  /\ stopCount' = [stopCount EXCEPT ![s] = @ + 1]
  /\ UNCHANGED <<queue, threads, starved, events, mutex, destroyed, closing, shared, pc,
                 at, target, scheduled, hungry>>

\* Resume, and its loop that starts threads for what has queued up.
Resume(c, s) ==
  /\ Calls(c, s) /\ stopCount[s] > 0
  /\ stopCount' = [stopCount EXCEPT ![s] = @ - 1]
  /\ pc' = [pc EXCEPT ![c] = IF stopCount[s] = 1 THEN "resume" ELSE "idle"]
  /\ Keep(s, c)
  /\ UNCHANGED <<queue, threads, starved, events, destroyed, closing, shared, at,
                 history>>

WantsMore(s) == queue[s] > 4 * runningCount[s] /\ unusedCount[s] > 0

GrowResumed(c) ==
  LET s == target[c]
  IN  /\ pc[c] = "resume"
      /\ \/ WantsMore(s) /\ AllocateThread(s, c, "resume", "idle")
         \/ /\ ~WantsMore(s)
            /\ pc' = [pc EXCEPT ![c] = "idle"]
            /\ UNCHANGED <<threads, starved, shared, hungry>>
      /\ Keep(s, c)
      /\ UNCHANGED <<queue, stopCount, events, destroyed, closing, at, scheduled, stops>>

RemoveJobFromQueue(c, s, watermark) ==
  /\ Calls(c, s) /\ queue[s] > watermark
  /\ queue' = [queue EXCEPT ![s] = watermark]
  /\ UNCHANGED <<threads, starved, stopCount, events, mutex, destroyed, closing, shared,
                 pc, at, target, history>>

WaitForEmptyQueue(c, s) ==
  /\ Calls(c, s)
  /\ at' = [at EXCEPT ![c] = s]
  /\ pc' = [pc EXCEPT ![c] = "drain"]
  /\ UNCHANGED <<queue, threads, starved, stopCount, events, mutex, destroyed, closing,
                 shared, target, history>>

\* The destructor leaves the list of starving schedulers before it waits.  "Job
\* queue must have run empty before calling this" (JobScheduler.h:440): that is
\* assumed here of a stopped scheduler, which drops its jobs only now.
Destroy(c, s) ==
  /\ Calls(c, s) /\ (stopCount[s] = 0 \/ queue[s] = 0)
  /\ \A d \in Callers : at[d] # s /\ target[d] # s
  /\ closing' = closing \cup {s}
  /\ at' = [at EXCEPT ![c] = s]
  /\ pc' = [pc EXCEPT ![c] = "spin"]
  /\ UNCHANGED <<queue, threads, starved, stopCount, events, mutex, destroyed, shared,
                 target, history>>

\* The loop of WaitForEmptyQueue: a stopped scheduler drops its jobs.  The
\* destructor goes on to end the threads that are left.
Drain(c) ==
  LET s == at[c]
      left == IF stopCount[s] = 0 THEN queue[s] ELSE 0
      empty == runningCount[s] = 0 /\ left = 0
      ended == empty /\ s \in closing
  IN  /\ pc[c] = "drain" /\ mutex[s] = None
      /\ queue' = [queue EXCEPT ![s] = left]
      /\ emptyEvent' = IF empty THEN emptyEvent ELSE emptyEvent \ {s}
      /\ pc' = [p \in Processes |->
                  IF p = c THEN IF empty THEN "idle" ELSE "empty"
                  ELSE IF ended /\ p \in Range(suspended[s]) THEN "new"
                  ELSE pc[p]]
      /\ at' = [at EXCEPT ![c] = IF empty THEN None ELSE s]
      /\ destroyed' = IF ended THEN destroyed \cup {s} ELSE destroyed
      /\ suspended' = IF ended THEN [suspended EXCEPT ![s] = <<>>] ELSE suspended
      /\ UNCHANGED <<running, counters, owner, resumed, starved, stopCount, threadIsIdle,
                     waitingThreads, mutex, closing, shared, target, history>>

WakeEmpty(c) ==
  /\ pc[c] = "empty" /\ at[c] \in emptyEvent
  /\ pc' = [pc EXCEPT ![c] = "drain"]
  /\ UNCHANGED <<queue, threads, starved, stopCount, events, mutex, destroyed, closing,
                 shared, at, target, history>>

-----------------------------------------------------------------------------
Work(t) ==
  \/ AssignJob(t) \/ Rest(t) \/ GiveBack(t)
  \/ StopStarvation(t) \/ Release(t) \/ Notify(t) \/ ThreadAvailable(t) \/ Grow(t)
  \/ Register(t) \/ Settle(t) \/ Finish(t) \/ WakeSome(t) \/ LeaveSome(t)

Call(c) ==
  \E s \in Schedulers :
    \/ Schedule(c, s) \/ Stop(c, s) \/ Resume(c, s)
    \/ \E watermark \in Watermarks : RemoveJobFromQueue(c, s, watermark)
    \/ WaitForEmptyQueue(c, s) \/ Destroy(c, s)

Continue(c) ==
  GrowResumed(c) \/ Register(c) \/ StopStarvation(c) \/ Drain(c) \/ WakeEmpty(c)

Next ==
  \/ \E t \in Threads : Work(t) \/ WaitForSomeJobs(t)
  \/ \E c \in Callers : Call(c) \/ Continue(c)

Spec == Init /\ [][Next]_vars

\* Threads run, jobs end, and a critical section is entered in the end.  Nothing
\* is assumed of what is called.
FairSpec ==
  /\ Spec
  /\ \A t \in Threads : WF_vars(Work(t))
  /\ \A c \in Callers : WF_vars(Continue(c))

-----------------------------------------------------------------------------
(* What must hold                                                            *)

\* When nobody is in its critical section the counters of a scheduler agree with
\* its lists.
CountersMatch ==
  \A s \in Schedulers \ destroyed : mutex[s] = None =>
    /\ runningCount[s] = Cardinality(running[s])
    /\ suspendedCount[s] = Len(suspended[s])
    /\ unusedCount[s] + fromShared[s] = suspendedCount[s] + yetToCreate[s] + SharedThreads[s]
    /\ fromShared[s] > 0 => suspended[s] = <<>>

\* The threads each scheduler owes, one by one, and those that are given back and
\* not yet crossed off.
Debts == UNION {{s} \X (1..fromShared[s]) : s \in Schedulers}
Returned == {t \in Threads : at[t] # None /\ pc[t] \notin {"spin", "release"}}

\* What is in the pool, on loan and not yet created makes up the pool, and what
\* the schedulers owe is on loan, but for threads just being given back.
ThreadsAreCounted ==
  /\ Len(pool) + allocCount + poolYetToCreate = MaxCount
  /\ Cardinality(Debts) = allocCount + Cardinality(Returned)

\* A thread is in one list only, and one that asks for a job or runs one is in
\* the list of its owner.
ThreadsHaveOnePlace ==
  /\ \A t \in Threads :
       Cardinality({s \in Schedulers : t \in running[s]})
         + Cardinality({s \in Schedulers : t \in Range(suspended[s])})
         + (IF t \in Range(pool) THEN 1 ELSE 0) <= 1
  /\ \A t \in Threads :
       Awake(t) \/ pc[t] \in {"execute", "some", "woken", "ending"}
         => owner[t] \notin destroyed /\ t \in running[owner[t]]

\* Threads wander between schedulers and the pool without being lost, listed twice
\* or run for a destroyed scheduler, nobody keeps a thread while it owes one
\* (JobScheduler.h:351-353), and the pool never exceeds its size (229-231).
NoThreadIsLost == CountersMatch /\ ThreadsAreCounted /\ ThreadsHaveOnePlace

\* A scheduler is destroyed only when no thread of any scheduler will come back
\* to it: none is on loan, none is about to notify it, it is not listed.
DestroyedIsForgotten ==
  \A s \in destroyed :
    /\ running[s] = {} /\ fromShared[s] = 0 /\ mutex[s] = None
    /\ s \notin Range(starving)
    /\ \A t \in Threads : at[t] # s /\ target[t] # s

\* WaitForSomeJobs never lets the last running thread wait ("so you don't
\* deadlock waiting for yourself to finish", JobScheduler.h:76).
SomebodyWorks ==
  \A s \in Schedulers :
    LET sleepers == {t \in Threads : pc[t] = "some" /\ owner[t] = s}
    IN  sleepers # {} /\ s \notin threadIsIdle => running[s] \ sleepers # {}

\* An idle thread waits in StopStarvation, with the mutex of its scheduler, for
\* a thread that needs this mutex to notify the scheduler.
Deadlocked ==
  \E t, u \in Threads : pc[t] = "spin" /\ pc[u] = "available" /\ target[u] = at[t]

\* Everybody who waits for a queue to run empty returns, unless the scheduler ran
\* out of threads on the way.
QueuesDrain ==
  \A c \in Callers, s \in Schedulers :
    pc[c] \in {"drain", "empty"} /\ at[c] = s
      ~> at[c] # s \/ s \in hungry \/ Deadlocked
=============================================================================
