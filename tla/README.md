# Verification of TortoiseSCM's workspace protocols

TortoiseSCM is a Windows desktop client for Plastic SCM (Unity Version Control).
It owns no repository format: every change to a workspace is made by the native
client `cm`, which TortoiseSCM runs as a child process.  What it adds are
*protocols around `cm`*: sessions that survive a crash, locks between its own
processes, guards that decide whether a check-in may be handed to `cm`, and
copies of bytes that must not be lost.  The repository also retains the C++ code
of the project it is a fork of; its asynchronous framework (jobs, schedulers,
threads) and its status cache are concurrent programs of their own.  These
protocols and the two concurrent components are what this directory models in
TLA+, checks with TLC and proves with TLAPS.

Paths below are relative to the repository; `Core/` is `src/TortoiseSCM/Core/`,
the C++ files are in `src/AsyncFramework/` and `src/TGitCache/`.

## 1. The system

### 1.1 Processes, shared state, failures

Any number of TortoiseSCM processes (windows, command lines, the overlay host)
work on one workspace at the same time as the official Plastic client, editors
and other people who check in to the same branch.  They communicate only by
files:

| shared state | written by | guarded by |
| --- | --- | --- |
| workspace files, `.plastic/*` metadata | `cm`, editors, the official client, TortoiseSCM | nothing that binds all writers |
| `merge-sessions/<key>.session` (index), `<id>/session.xml`, `<id>/backup-*` | Standard merge sessions | merge gate |
| `.plastic/tortoisescm-directory.session` (marker) | directory plans | merge gate |
| `.plastic/tortoisescm-partial.session` (index), `<id>/partial.xml` | Partial content sessions | merge gate + structure gate |
| `.plastic/tortoisescm-structure.session` | structure and directory sessions | structure gate |
| the commit message library of a repository | main window, library window | a named mutex, waited for at most five seconds |
| overlay fragments (`overlay-workspaces/*.bin`), the combined file `overlay-cache-v1.bin` | overlay worker, refresh command | `overlay-store.lock`, tried for at most five seconds |

The *merge gate* (`OpenMergeGate`) and the *structure gate* (`StructureGate`) are
lock files opened with `FileShare.None`.  Opening a gate that another process
holds fails at once; nobody waits, so there is no deadlock by waiting, and the
operating system closes a gate when its process dies.

A handler is a C# async method: it is interrupted at every `await` (each `cm`
call) and, as seen by other processes, between any two file operations.  A `cm`
call may succeed, fail before it did anything, fail or time out after it did
its work, or stop half way.  A handler that throws before its first effect
changes nothing and is not a step of a model.

The C++ components are threads of one process with shared memory:

| shared state | accessed by | guarded by |
| --- | --- | --- |
| flags and events of a job, the pool of event handles | the owner of the job, the worker that executes it | interlocked exchanges; the pool by a mutex; the fields of an event by nothing |
| queue, thread lists and counters of a scheduler | its threads, its callers, threads of other schedulers that notify it | the mutex of the scheduler |
| the thread pool and the list of starving schedulers | all schedulers | the mutex of the pool |
| queues and blocks of the crawler | the crawler, the directory watcher, threads that answer the shell | one critical section each; the wake-up event is outside |
| the status of a folder | the crawler, threads that answer the shell | a critical section for each access, none around a computation |

### 1.2 Components

| component | state | operations | what makes it correct |
| --- | --- | --- | --- |
| Standard merge sessions (`PlasticMergeOperations.cs`, `PlasticDirectoryMerges.cs`, `PlasticWorkspaceRollback.cs`) | index, session, marker, backups, both gates | begin, plan, decide, continue, cancel, apply, rollback, status, guarded undo and check-in | a merge it began is never untracked; no half-decided merge is published through the guard; edits survive; undo always recovers |
| Partial content sessions (`PlasticPartialConflicts.cs`) | index, session with per-file decisions, backups, both gates | preview, prepare, resolve, cancel, guarded undo and check-in | an interruption blocks check-in and stays recoverable; old decisions do not cover new revisions; edits survive |
| Check-in preflight (`PlasticCheckinPreflight.cs`, `MainForm.cs`) | preview with fingerprint; "uncertain" and "needs refresh" flags of the window | prepare, check in (guarded or fast) | what is published is what was reviewed; no blind retry |
| Partial structure and directory sessions (`PlasticPartialStructure.cs`, `PlasticPartialDirectories.cs`) | index, session, backup | preview, prepare, resolve, recover, cancel | like content sessions, for deleted, moved and added items |
| Commit message store (`CommitMessageStore.cs`) | one library file shared by all processes, a named mutex | load, record, save and delete a template, clear | every call is atomic; the newest messages, bounded; never a file it cannot read again |
| Commit message library window (`CommitMessageLibraryForm.cs`) | lists, editor, the reviewed templates | refresh, select, new, edit, save, delete, clear | no template text is overwritten unseen; an edit is not lost to a refresh or a failure |
| Overlay cache (`OverlayCacheStore.cs`, `OverlayCacheHost.cs`, `PlasticOverlay.h`) | dated fragments, combined file, lock file, watches, rescan timers, tracked roots | track, invalidate, publish, rescan, refresh command, stop | a change is never recorded as scanned by a scan that did not see it; ages are not renewed; everything ends up current or without icon |
| AsyncFramework: jobs (`JobBase.cpp`, `WaitableEvent.cpp`, `Future.h`, `AsyncCall.h`) | flags and two one-shot events per job, a pool of event handles | schedule, execute (by a worker or inline), wait, time out, terminate, delete, remove from the queue | a job runs once; a result is waited for until it is there; nothing is destroyed or recycled while somebody uses it; every wait ends |
| AsyncFramework: schedulers (`JobScheduler.cpp`, `Thread.cpp`) | queue, private threads, loans from a shared pool, starving schedulers, stop count | schedule, run, give back, starve, notify, stop, resume, wait for some or all jobs, destroy | no thread is lost or in two places; a destroyed scheduler is forgotten; who waits for an empty queue returns |
| TGitCache (`FolderCrawler.cpp`, `CachedDirectory.cpp`, `GITStatusCache.cpp`, `DirectoryWatcher.cpp`) | two queues, a wake-up event, blocks, own and recursive status of each folder | notify, request, block, crawl a path or a folder, propagate a status, answer the shell | no request is slept on; the crawler comes to rest; what it then says is true |
| History, historical read cache, shelves, branches, labels, locks, tools, browsing, windows | mostly none | one validated `cm` command each | input validation, parsing |
| Explorer extension, other retained upstream code (TortoiseProc, Git, TortoiseMerge, ...) | - | - | not part of this development |

`PROJECT.json` lists every component with its status, and under "hazards" every
place where this code can go wrong in a way a test hardly reaches, with the
properties that would catch it.

## 2. Modules

| module | models | extends |
| --- | --- | --- |
| `NativeWorkspace` | a Standard workspace and the commands of `cm`, as `Core/` relies on them (external) | - |
| `MergeSession` | Standard merge sessions, directory plans, rollback, guarded and unguarded check-in and undo | `NativeWorkspace` |
| `PartialConflict` | Partial content sessions, guarded and unguarded check-in and undo | - |
| `MessageLibrary` | the commit message library as an atomic object: what the store promises, and its operations as pure operators | - |
| `CommitMessageStore` | the processes, the mutex and the file of the store; implements `MessageLibrary` | instance of `MessageLibrary` |
| `CommitMessageForm` | the main window and the library window, composed with the store | `CommitMessageStore` |
| `OverlayCache` | overlay worker, watches, refresh command, store of fragments, age limits of Explorer | - |
| `AsyncJob` | jobs, one-shot events and their handles, the owner and the worker of each job | - |
| `JobScheduler` | schedulers that share a pool of threads; jobs are only counted | - |
| `GitStatusCache` | the crawler, folder statuses, blocks, notifications and questions of the shell | - |
| `MergeSessionProofs`, `PartialConflictProofs`, `CommitMessageStoreProofs`, `OverlayCacheProofs`, `AsyncJobProofs`, `JobSchedulerProofs`, `GitStatusCacheProofs` | theorems about the module of their name | that module, `TLAPS` |
| `CommitMessageFormProofs` | theorems about the windows, on top of those about the store they call | `CommitMessageForm`, `CommitMessageStoreProofs` |
| `MCMergeSession`, `MCPartialConflict`, `MCCommitMessageStore`, `MCCommitMessageForm`, `MCOverlayCache`, `MCAsyncJob`, `MCJobScheduler`, `MCGitStatusCache` | instances for TLC | the module of their name |

### 2.1 From code to actions

*A handler is a sequence of steps of one client `c`.*  `pc[c]` says which step is
next, `mem[c]` is the session object the handler has loaded, `target[c]` or
`scope[c]` the files it works on, `result[c]` the bytes it applies.  Steps are
cut where the code awaits `cm` or where another program's action between two
file operations can matter:

| handler | actions in `MergeSession` |
| --- | --- |
| `BeginMergeAsync` | `BeginOpen`, `BeginRecord`, `NativeMerge`, `BeginFinish`; with directory conflicts `PlanRecord`, `PlanMark`, `PlanFinish` |
| `ResolveDirectoryConflictAsync` | `DecideOpen`, `DecideFinish` |
| `ContinueMergeAsync` | `ContinueOpen`, `NativeMerge`, `ContinueFinish`, `RetireMarker` |
| `CancelDirectoryMergeAsync` | `CancelPlan`, `RetireMarker` |
| `GetMergeSessionAsync` | `GetSession`, `RetireMarker` |
| `ApplyMergeFileResolutionAsync` | `ApplyOpen`, `ApplyMark`, `ApplyCheck`, `ApplyReplace`, `ApplyNative`, `ApplyVerify` or `ApplyRestore`, `ApplyCopyBack` |
| `RollbackAsync` of the root | `RollbackOpen`, `RollbackRecord`, `RollbackNative`, `RollbackFinish` |
| `ExecuteWithMergeGuardAsync` | `UndoOpen`, `UndoWorks`/`UndoFails`; `CheckinOpen`, `CheckinNative`; `Retire`, `RetireMarker` |
| `MainForm.CheckinAsync` + `CheckinPreparedFastAsync` | `FastReview`, `FastCheckin` |

| handler | actions in `PartialConflict` |
| --- | --- |
| `PreparePartialConflictAsync` | `PrepareOpen`, `PrepareCopy`, `PrepareSave`, `PrepareIndex` |
| `ResolvePartialConflictAsync` | `ResolveOpen`, `ResolveMark`, `ResolveCheck`, `ResolveUndo`, `ResolveUpdate`, `ResolveWrite`, `ResolveVerify`, `ResolveDetach` |
| `CancelPartialConflictPreparationAsync` | `Cancel` |
| `ExecuteWithPartialConflictGuardAsync` | `UndoOpen`, `UndoWorks`/`UndoFails`; `CheckinOpen`, `CheckinNative`; `Retire` |
| `CheckinPreparedFastAsync` | `FastCheckin` |

| call | actions in `CommitMessageStore` |
| --- | --- |
| any public method | `Call`, `Acquire` or `TimeOut` (`WithLock`), `Read` (`Read` and the change of the copy, with its refusals), `Replace` or `WriteFails` (`Write`), `Release` |

| button of the window | actions in `CommitMessageForm` |
| --- | --- |
| opening and closing it | `Open`, `Opened`; `Close` |
| Refresh | `Refresh`, `Refreshed` (`ReloadPreservingEditor`) |
| selection, New, From draft, typing | `Select`, `StartTemplate`, `Edit` |
| Save, Delete, Clear | `Save`, `Saved`, `ShowSaved`; `Delete`, `Deleted`, `ShowDeleted`; `Clear`, `Cleared` (the change, then the reload that follows it) |
| check-in of the main window | `Record`, `Recorded` |
| any handler whose call throws | `Fails` |

A window waits for its own call (`Serve` is the store at work for it); windows
of other processes go on.  Every step of a call is one action of the store.

| code | actions in `OverlayCache` |
| --- | --- |
| `OverlayCacheHost.Run`, discovery | `HostStart`, `Discover`, `Drop`, `Dropped`, `DropFails` |
| `Run`, one round of a workspace | `Visit`, `Expired`, `Scan`, `Check`, `Published`, `VisitFails` |
| `Run`, the end | `Close`, `ClosedOne` |
| `Stop` | `RequestStop` |
| `Watch` | `Mark` (an event arrives), `Settle` (750 ms without one) |
| `RefreshAsync` | `Refresh`, `Scan`, `RefreshStored`, `RefreshFails` |
| `Publish`, `Invalidate` | `StoreFragment`, `PublishAggregate`, `StoreFails` |
| time, files, dead processes | `Tick`, `Change`, `Track`, `Untrack`, `Crash` |

| code | actions in `AsyncJob` |
| --- | --- |
| constructors, `CJobScheduler::Schedule`, `OnSchedule` | `Schedule` |
| `CJobBase::Execute`, by either side | `Enter` (the exchange of `waiting`), `Begin`, `Finish`, `SetDone` and `SignalDone` (`executionDone.Set`), `Check` (`scheduled`), `SetDeletable` and `SignalDeletable` |
| a thread of the scheduler | `Take`, then `Execute` |
| `RemoveJobFromQueue`; `WaitForEmptyQueueOrTimeout` of a stopped scheduler | `RemoveJobFromQueue` (the caller gets the job back); `Drop` (the scheduler deletes what it owns); `LeaveQueue` is what they have in common |
| `OnUnSchedule` | `UnSchedule`, `TestDone`, `SetDeletable`, `SignalDeletable`; `Leave` deletes a job the scheduler owns |
| `WaitUntilDone`, `GetResult`, `WaitUntilDoneOrTimeout` | `CallWait`, `Execute` if inline, `WaitFor`, `AutoAlloc`, `Recheck`, `Wake` or `TimeOut` |
| `Terminate`, `Delete` | `CallDelete`, `Delete`, the waiting as above, `DeleteThis` |

| code | actions in `JobScheduler` |
| --- | --- |
| `Schedule`, `RemoveJobFromQueue`, `Stop`, `Resume` | the same names; `Register` (`AddStarving`); `GrowResumed` (the loop of `Resume`) |
| `AssignJob` | `AssignJob` (a job is there), `Rest` (a private thread suspends), `GiveBack`, `StopStarvation`, `Release`, `Notify`, `Settle` (a thread on loan goes back) |
| `ThreadAvailable` | `ThreadAvailable`, `Grow` |
| `ThreadFunc` after `AssignJob` | `Finish`; a job that calls `WaitForSomeJobs`: `WaitForSomeJobs`, `WakeSome`, `LeaveSome` |
| `WaitForEmptyQueue` | `WaitForEmptyQueue`, `Drain`, `WakeEmpty` |
| the destructor | `Destroy`, `StopStarvation`, `Drain` |

| code | actions in `GitStatusCache` |
| --- | --- |
| the world | `Change`, `TakeLock`, `DropLock`, `Time` |
| directory watcher | `ReadNotifications` (a buffer; its locks at once), `AddPathForUpdate` (its paths, one by one) |
| clients | `BlockPath`, `UnBlockPath` |
| `CFolderCrawler::WorkerThread` | `Wake`, `RemoveTimedoutBlocks`, `Nothing`; a path: `TakePath`, `DeferPath`, `NoPath`; a folder: `TakeFolder`, `DeferFolder`; `Erase` |
| `GetStatusFromGit`, `EnumFiles` | `Begin`, `Enum`, `Store`, `ReadFile`, `StoreFile`, `Fail`, `FailFile`, `After` (`Retry`) |
| `UpdateCurrentStatus`, by crawler or shell | `Calc`, `Write`, `Tell` (the parent) |
| `GetStatusForPath` of the shell | `GetStatusForPath` |

`Crash` closes the gates of a client and forgets what it had in memory, at any
step; it also stands for a read that fails and makes the handler throw.
`CrashWriting` is a crash inside a write that is not atomic (`File.WriteAllText`
of an index or marker, the in-place write of a workspace file).  A save of
`session.xml` or `partial.xml` is atomic because it replaces a complete file.

Bytes are abstract values: what matters is which bytes are equal to which.  A
hash stands for the bytes.  File identities, selectors and contributor files
enter only through the conditions the guards read.

History variables (`settled`, `ours`, `late`, `lost`, `last`, `faults`, `recorded`,
`listed`, `writes`, `doubt`, `refreshes`, the field `by` of a fragment, `runs`,
`complete`, `slips`, `hungry`, `failed` and the counters) are never
read by a guard of a handler, except where a bound is.  `removed` and `dropped`
tell how a job left the queue, hence whether the scheduler deletes it.

Further abstractions, and why they are harmless:

- *Message library.*  A library written as XML is read back as it was; what a
  validated text looks like does not matter to the order of calls.  The
  temporary file has a unique name and nothing reads it, so only `File.Replace`
  is an effect.  Other programs (`Interfere`) damage or delete the file only
  while no call is at work on it: nothing in the code defends a call that has
  already read.
- *Windows.*  The confirmation of a save or deletion is the waiting between
  `Start` and `Acquire`, in which other windows go on.
- *Overlay.*  What a scan sees is a number: the changes made before it.  Which
  path gets which icon is the business of the parser.  Time passes in ticks of
  30 seconds, the rescan period; the lives of a fragment (90 s) and of the
  combined file (120 s) are parameters with the only relation the code relies
  on, `FragmentLife < ReaderLife`.  A store call is short against a tick.

- *Jobs.*  A step is one access to memory that another thread can see.  A job
  is scheduled once.  A job that its deleter has destroyed may be read with any
  value, and a store that nothing orders may be seen late.
- *Schedulers.*  What a thread does under the mutex of a scheduler is one step,
  up to the next look at the pool or at another scheduler.  Jobs are counted,
  not named: their own life is `AsyncJob`.
- *Status cache.*  One working tree of a root and subfolders, one file in each;
  `disk` is what git would answer.  Two states of a file are enough to be right
  or wrong about it.  The subfolders a crawl or a question requests are pushed one
  by one in the code, in the order git or a map lists them; `Added` leaves that
  order open, as far as the root comes after its subfolders.

*Slips.*  The retained C++ code has data races, and the models give them the
effects they can have instead of leaving them out: `slips` records that one had
an effect.  `AsyncJob` and `GitStatusCache` claim nothing of what follows a slip,
and their properties say so in their text.

Definitions whose comment starts with "Variant:" are not part of the
specification.  Each describes a plausible defect of the operation that follows
it; replacing the operation by it must break the property that watches it
(`PROJECT.json`, "mutants").

## 3. What is checked

### 3.1 Runs

| run | question | answer |
| --- | --- | --- |
| `merge_session` | Do the session invariants hold with two processes, crashes, an editor and the official client, and does explicit undo always end an applied merge? | yes, 185,000 states |
| `merge_free_checkin` | Is a check-in that does not hold the merge gate subject to the same rule? | **no** |
| `merge_undo` | Can a merge or rollback of TortoiseSCM always be undone with TortoiseSCM? | **no** |
| `partial_conflict` | Do the invariants of a Partial session hold with two processes, crashes, edits and new revisions, and does undo of the whole workspace always end it? | yes, 353,000 states |
| `commit_messages` | Are the calls of two processes on the message library atomic, through crashes, time-outs and damaged files? | yes, 0.9 million states |
| `commit_message_windows` | Can two library windows lose a text or an edit to each other? | not a text they did not list; 2.9 million states |
| `overlay_cache` | Does the worker notice every change, does no icon outlive its age, and is everything current in the end or shown without icon, with a refresh command, a fault and a workspace that cannot be watched? | yes, 304,000 states |
| `async_job` | Does every job run once, is nothing given back too early, and does every wait end, whichever thread executes the job? | yes, up to a data race and one job that is not deletable; 512,000 states |
| `async_job_dropped` | Is a job only destroyed when it is deletable, as its destructor asserts? | **no** |
| `job_scheduler` | Is no thread lost between two schedulers and their pool, and do their queues drain? | yes, up to starvation and one deadlock; 655,000 states |
| `git_status_cache` | Does the crawler come to rest, and is what it then says true, through locks, blocks and a failed read? | yes, up to a data race; 417,000 states |
| `git_status_retry` | Is a folder whose read failed read again? | **no** |

### 3.2 Properties

`MergeSession`:

- `NoLostSave`: a handler that goes on after saving its session still holds the
  merge gate and the session on disk is the one it saved.
- `MergeIsTracked`: a merge TortoiseSCM began is never without a session.
- `ReadyIsDecided`: when a session admits work, every file that is no conflict
  any more was decided: by a completed resolution, by Plastic or in the official
  client.
- `GatedCheckinWhole`: a check-in through the gate never publishes a merge that
  is undecided, half applied or half executed.
- `EditsSurvive`: no resolution, restored or not, destroys bytes an editor saved
  before the last comparison with a hash, whether while the conflict was open or
  during the failed native call.  Editors save at every moment; `late` records
  what they save between a comparison and the write that relies on it, where
  nothing protects it.
- `UndoRecovers`: liveness.
- `FreeCheckinWhole`, `UndoAvailable`: what the documentation and a test promise,
  and the code does not keep.

`PartialConflict`:

- `LoadedIsSaved`: after validation a handler's copy of the session is the saved one.
- `GuardedCheckinReviewed`: the guarded check-in never publishes a half written
  file or runs while anything is interrupted or undecided.
- `InterruptionIsRecoverable`: an interruption always names a file that is still
  listed and whose bytes are among the backups, so undoing that file ends it.
- `ResolvedIsOnIncoming`: a resolved file is based on the reviewed incoming
  revision or a later one.
- `EditsSurvive`: `cm partial undo` of a resolution takes away no bytes of an
  editor without a copy, except those saved after the last comparison (`late`, as
  above).
- `UndoDetaches`: liveness.

`CommitMessageStore`:

- `CallsAreAtomic`: the store implements `MessageLibrary` with the library file
  as the abstract library: every change of the file is one whole operation on
  the library as it was, or interference by another program.
- `RecentIsNewest`: the recent messages are the last `MaxRecent` different ones
  recorded by anybody, newest first.
- `OwnFilesAreReadable`: the limit on templates that `Read` enforces is never
  exceeded by what the store writes.
- `MutexIsInUse`: the mutex is held exactly by the process whose call is at work,
  also after its owner died.

`CommitMessageForm`:

- `NoUnseenOverwrite`: a window replaces or deletes a template text only if it
  had listed that text when the edit began.
- `EditorIsKept`: what the user typed leaves the editor only with success.

`OverlayCache`:

- `StaleIsNoticed`: icons the worker published before a change it was told of
  belong to a workspace it will visit at once.
- `AgesAreKept`: both halves of the age rule: writing the combined file again
  makes nothing younger, and an old fragment does not make a fresh one disappear.
- `EndsUpCurrent`: liveness; icons are current in the end, and come back as long
  as the workspace is watched.

`AsyncJob`:

- `ExecutedOnce`: a job runs at most once, although its owner may execute it
  while a worker takes it.
- `NothingEndsEarly`: a job is destroyed only when the scheduler has let it go
  and its deletability was announced, with one exception, a transferred job that
  a stopped scheduler drops (`ListedIsAlive`; without the exception it is
  `DestroyedIsDeletable`, which the code violates, see 3.3); a handle in the pool is
  not signalled and belongs to no living job, and one is signalled only for the
  job that has it (`PoolIsClean`).
- `ResultIsComplete`: a wait that is no time-out returns only when the job has
  ended or was told not to start.
- `CallsEnd`: liveness of every wait and every deletion, except the wait for a
  job that was removed from the queue or dropped, which nobody executes.
- `DestroyedIsDeletable`: what the destructor of a job asserts, and the code does
  not keep.

`JobScheduler`:

- `NoThreadIsLost`: the counters agree with the lists outside critical sections
  (`CountersMatch`), the pool, the loans and what is not yet created make up its
  size (`ThreadsAreCounted`), and no thread is in two lists (`ThreadsHaveOnePlace`).
- `DestroyedIsForgotten`: nobody comes back to a destroyed scheduler.
- `SomebodyWorks`: the threads that wait in `WaitForSomeJobs` leave one that does
  not, or have been told to go on.
- `QueuesDrain`: liveness; who waits for an empty queue returns.  It leaves out,
  by name, a scheduler that has been starved of threads (`hungry`) and the
  deadlock described in 3.3 (`Deadlocked`), so it says nothing about these two.

`GitStatusCache`:

- `WakeIsNotLost`: the crawler sleeps neither on a request nor through the end of
  a block that a lock left behind.
- `SettledIsCurrent`: when nothing is on its way any more, a folder that claims
  to know its status is right about its file and everything below it.
- `Settles`: liveness; the crawler comes to rest again and again.
- `FailedIsRepeated`: what a comment promises, and the code does not keep.

### 3.3 Findings

1. **A check-in can pass the merge guard** (`merge_free_checkin`).  The guard asks
   whether the index exists and only then takes the gate; a check-in that found
   none runs outside the gate while another process begins a merge.  The window
   validates the session, closes the gate, lets the person review, and then runs
   a native check-in that looks at no session.
2. **A rollback over an open directory plan cannot be undone** (`merge_undo`).
   The rollback of the workspace replaces the index without asking whether a plan
   is open; the marker of the plan then names another session, and undo, check-in
   and status are refused as if the session belonged to other client settings.
3. **A failed read of git's data is not repeated** (`git_status_retry`).
   `GetStatusFromGit` blocks the folder for a moment and requests it again; when
   the folder came from the folder queue, the crawler erases this very request as
   a double one when the crawl returns (`FolderCrawler.cpp:446-449`).
4. **A stopped scheduler deletes jobs that are not deletable**
   (`async_job_dropped`).  While it waits for an empty queue, a scheduler that was
   stopped takes the waiting jobs out and deletes those it owns
   (`JobScheduler.cpp:517-525`).  `OnUnSchedule` makes a job deletable only if it
   has been executed (`JobBase.cpp:38-45`), so the destructor's
   `assert (deletable.Test())` (`JobBase.cpp:55`) fails.  With assertions off the job
   is destroyed as intended; nobody else holds it.

The following behaviours are modelled but are no finding of a run, because no
text of the repository is about them, because the text promises more than two
calls can keep, or because a property names them as an exception.  A maintainer
should know them; each is among the hazards.

- *Merge sessions.*  Between the comparison of the hash and the copy of the
  backup an editor can save, although the comment at
  `PlasticMergeOperations.cs:247-248` says an edit is never replaced.  A torn
  index, or a marker without an index, is refused by every operation until it is
  repaired by hand.
- *Partial check-in of the window.*  `CheckinPreparedFastAsync` passes an
  interrupted resolution, too (`FastCheckin`).
- *Overlay cache.*  The refresh command publishes what it saw without asking
  whether the workspace changed meanwhile, possibly after the worker scanned that
  change; and when the expiry of a changed workspace fails, its version counts as
  published.  In both cases the old icons stay until the next periodic scan, up
  to 30 seconds.  `StaleIsNoticed` leaves the two out by name (`by`, `doubt`), and
  `EndsUpCurrent` shows that the periodic scan repairs them.
- *Library window.*  A template that is saved and whose reload then fails is
  reported as a failed operation; a second save is refused as a change of another
  window.  The edit stays in the editor (`EditorIsKept`).
- *Jobs.*  A job becomes deletable while the worker is still inside
  `deletable.Set` or `OnUnSchedule` (`JobBase.cpp:38-45`, `WaitableEvent.cpp:162-167`);
  its last accesses may meet a destroyed job.  Nothing orders the store of a
  handle that a waiter creates before its second look at the state
  (`WaitableEvent.cpp:174-182`), so a waiter may miss the signal.  `GetResult` of
  a future that was removed from the queue never returns.
- *Schedulers.*  `ThreadAvailable` allocates a thread when `stopCount != 0`
  (`JobScheduler.cpp:489`), where `JobScheduler.h:236-240` and the rest of the code
  suggest the opposite.  A thread that is idle spins in `StopStarvation` with the
  mutex of its scheduler while another, which took this scheduler from the list
  of starving ones, waits for that mutex (`367-375`).  Between `TryAlloc` and
  `AddStarving` a thread that comes back is offered to nobody (`292-317`).  The
  destructor leaves the list of starving schedulers before it waits; if the
  scheduler is stopped with jobs in its queue, a thread in `ThreadAvailable` that
  gets none (`489-498`) lists it again, and the pool keeps a destroyed scheduler.
  `JobScheduler.h:440` forbids this call ("Job queue must have run empty before
  calling this"), and `Destroy` has that as its guard for a stopped scheduler; the
  attempt to prove `DestroyedIsForgotten` without it is what showed that the
  order in the destructor relies on it.
- *Status cache.*  The end of a crawl erases every request for its path that came
  in during the crawl (the origin of finding 3, and of the slip `erased`), and a
  recursive status computed by one thread may be stored after a newer one of
  another (`late_status`).  What a dropped request can do was found by the
  attempt to prove `SettledIsCurrent`.  An erased request may do no harm to the
  file and the status of its folder, which happen to be right, and still have
  been the only one that would have told the root again what it has forgotten of
  a subfolder.  TLC confirmed it beyond the bounds of the run, with three
  changes, two client blocks and one failed read, in a behaviour of 69 states: a
  read of the root fails under a block, which drops its requests (`IsPathGood`);
  the next crawl of the root is enumerated under a second block; the request
  with which `UnBlockPath` ends it is erased by the end of that crawl
  (`FolderCrawler.cpp:442-449`); and when the root's own file becomes normal
  again the root shows normal over a modified subfolder.  So `Erase` records a
  slip also when what the root knows of a subfolder differs from the status of
  that one (`child[f] # full[f]`).

### 3.4 Bounds

| bound | value | why it is enough |
| --- | --- | --- |
| clients | 2 | every property relates at most two processes: one that acts and one that interferes |
| files of a merge | 1 | sessions treat conflicts of several files alike; the theorems are about any number |
| files of a Partial session | 2 | one that is worked on and one that another decision is about |
| sources | 2 | one with and one without directory conflicts; after one is merged the other can still be |
| `MaxChangesets` | 1 (2 where a violation is shown) | a publication, and another one that makes the first one's data stale |
| `MaxRevision` | 2 | a reviewed revision and one that arrives after it |
| `MaxFaults` of the sessions | 1 for merges, 2 for Partial | a crash or foreign step at any point; for Partial two edits, which make a file changed and change it again |
| processes of the store | 2 | one at work and one that waits, times out or finds the mutex abandoned |
| messages, `MaxRecent`, `MaxRecords` | 3, 2, 3 | a third message that pushes the oldest out, and one that is recorded again |
| names, `MaxTemplates` | 2, 1 | a second name that meets the limit |
| texts, `MaxWrites` of the windows | 2, 3 | a text is written, replaced by another window, and replaced again; a file that is damaged or deleted in between counts as a write |
| workspaces | 2, of which 1 can be watched | an old neighbour of a fresh fragment; the other one gets icons from the command only |
| `FragmentLife`, `ReaderLife` | 1, 2 | a fragment can be combined when it is no longer new, and the combined file can outlive it by a tick |
| `MaxChanges` of a workspace | 1 | a change before, during or after the scan of the worker, of the command and between the two |
| `MaxRefreshes` | 1 | one command beside the worker |
| `MaxFaults` of the overlay | 1 | one crash, failed call, stop or lost root at any step, and the failure to drop a lost root, which counts as one with the loss; the theorems about the invariants are for any number |
| jobs, workers | 2, 2 | jobs meet only at the pool of handles: one gives a handle back and one takes it |
| schedulers, threads, `MaxCount` | 2, 2, 1 | one with a thread of its own and one that only borrows, over a pool of one, so that one of them starves |
| `MaxJobs`, `MaxStops` | 5, 1 | enough queued jobs for `ThreadAvailable` and `Resume` to want another thread (their rule is four per thread) |
| subfolders | 1 | a status goes from a folder to its parent; `SettledIsCurrent` relates one folder and one below it |
| `MaxChanges`, `MaxLocks`, `MaxFaults`, `MaxAsks` of the status cache | 1 each (0 changes and locks in the violation run) | one event of each kind at any point of a crawl |

`MaxChangesets`, `MaxRevision`, `MaxFaults`, `MaxRecords`, `MaxWrites`,
`MaxChanges`, `MaxRefreshes`, `MaxJobs`, `MaxStops`, `MaxLocks` and `MaxAsks`
appear only in the guards of the actions they bound; `MaxRecent` and
`MaxTemplates`, both 20 in the code, are made small.  Symmetry is used by the two
runs that show a violation of the merge sessions (clients), by
`commit_message_windows` (processes, names, texts), none of which checks liveness.
Deadlock is checked in the overlay run, where time always passes; elsewhere the
bounds let a system stop.

### 3.5 Fairness

`FairSpec` of the sessions assumes weak fairness of the steps of a handler that
runs: none of them waits for another process, and `cm` calls end (the client
kills them at their timeout).  It assumes strong fairness of the person the
messages address: someone who keeps asking for the undo of the whole workspace
when a gate was taken or the call failed, with a `cm undo` that does not fail for
ever.  Nothing is assumed of check-ins, preparations or other people.

`FairSpec` of `OverlayCache` assumes that a worker that runs takes its next step
and a command that runs goes on (their waits have time-outs), that its loop
reaches every watch that can be opened (`Watchable`) (strong fairness for each: the `foreach` goes through all of
them in order and discovery runs every ten seconds), that events are delivered
and time passes.  It does not assume that anybody starts the worker: without one
the icons expire, which is current enough.

`FairSpec` of `AsyncJob` is weak fairness of every owner that is inside a call,
of every worker that has a job, and of a scheduler that has a free thread for a
queued job: threads are scheduled and `InternalExecute` ends.  Which calls an
owner makes is not assumed.  `FairSpec` of `JobScheduler` is weak fairness of
every thread and of every call that was made; that a thread on its way enters a
free mutex at last is part of it.  `FairSpec` of `GitStatusCache` is weak fairness
of the crawler, of the thread that answers the shell, of the watcher, of time,
and of git and the clients giving back what they hold.

## 4. What is proved

For every value of the constants that satisfies the named assumptions.

`MergeSessionProofs`, for any clients, files, sources, items, results and edits:

| theorem | statement |
| --- | --- |
| `TypeCorrect` | `Spec => []TypeOK` |
| `NoSaveIsLost` | `Spec => []NoLostSave` |
| `NoMergeIsLost` | `Spec => []MergeIsTracked` |
| `ReadyMeansDecided` | `Spec => []ReadyIsDecided` |
| `GateProtectsCheckin` | `Spec => []GatedCheckinWhole` |
| `NoEditIsDestroyed` | `Spec => []EditsSurvive` |

`PartialConflictProofs`, for any clients, files, edits, results and revisions:

| theorem | statement |
| --- | --- |
| `TypeCorrect` | `Spec => []TypeOK` |
| `LoadedStaysSaved` | `Spec => []LoadedIsSaved` |
| `GuardReviewsCheckin` | `Spec => []GuardedCheckinReviewed` |
| `InterruptionRecovers` | `Spec => []InterruptionIsRecoverable` |
| `ResolvedStaysOnIncoming` | `Spec => []ResolvedIsOnIncoming` |
| `NoEditIsDestroyed` | `Spec => []EditsSurvive` |

`CommitMessageStoreProofs`, for any processes, messages, names, texts and limits:

| theorem | statement |
| --- | --- |
| `MutexTheorem` | `StoreSpec => []MutexIsInUse` |
| `AtomicTheorem` | `StoreSpec => CallsAreAtomic`, the refinement of `MessageLibrary` |
| `History` | `StoreSpec => []HistoryInv`, the inductive invariant with the history |
| `StoreTyping` | `StoreSpec => []StoreTypeOK` |
| `HistoryTheorem` | `StoreSpec => []RecentIsNewest` |
| `ReadableTheorem` | `StoreSpec => []OwnFilesAreReadable` |

`CommitMessageFormProofs`, for the same constants:

| theorem | statement |
| --- | --- |
| `Windows` | `Spec => [](HistoryInv /\ FormInv)`, the inductive invariant |
| `OverwriteTheorem` | `Spec => NoUnseenOverwrite`, an action property |
| `EditorTheorem` | `Spec => EditorIsKept`, an action property |

`OverlayCacheProofs`, for any workspaces, commands and lifetimes:

| theorem | statement |
| --- | --- |
| `Invariance` | `Spec => []IInv`, the inductive invariant |
| `Typing` | `Spec => []TypeOK` |
| `NothingStaleIsForgotten` | `Spec => []StaleIsNoticed` |
| `DatesAreKept` | `Spec => []AgesAreKept` |

`AsyncJobProofs`, for any jobs, owners and number of threads:

| theorem | statement |
| --- | --- |
| `TypeCorrect` | `Spec => []TypeOK` |
| `JobsRunOnce` | `Spec => []ExecutedOnce` |
| `NothingIsGivenBackEarly` | `Spec => []NothingEndsEarly` |
| `WaitsReturnResults` | `Spec => ResultIsComplete`, an action property |

`JobSchedulerProofs`, for any finite sets of schedulers and threads, any callers
and all sizes of the pools:

| theorem | statement |
| --- | --- |
| `Invariance` | `Spec => []IInv`, the inductive invariant |
| `Typing` | `Spec => []TypeOK` |
| `NoThreadIsLostTheorem` | `Spec => []NoThreadIsLost` |
| `DestroyedTheorem` | `Spec => []DestroyedIsForgotten` |
| `SomebodyWorksTheorem` | `Spec => []SomebodyWorks` |

`GitStatusCacheProofs`, for any finite set of subfolders and all bounds:

| theorem | statement |
| --- | --- |
| `WakeTheorem` | `Spec => []WakeIsNotLost` |
| `Typing` | `Spec => []TypeOK`; no request is in a queue twice |
| `SettledTheorem` | `Spec => []SettledIsCurrent` |
| `LateTheorem` | `Spec => []("late_status" \in slips => asked > 0)` |

### 4.1 Merge sessions

The theorems follow from `NativeAssumption` and `SessionAssumption`, which only
say that the constants are of the right kind and distinct.  None of the
invariants is inductive.  They are proved in layers, each of which uses the ones
below, so that a step of an action is looked at with the facts it needs and no
more:

1. `Inv1`: types; `GatesHeld` (a handler that relies on a gate holds it);
   `MemoryOK` (the form of what a handler has loaded, by step); `NoLostSave`.
2. `Inv2`: `PlanMergesNothing` (a session that awaits directory decisions has no
   merge of ours under it); `MergeIsTracked`.
3. `Inv3`: `HandlersDecide` (what has been decided at each step between native
   calls); `ReadyIsDecided`.
4. `Inv4`: `ConflictsOfMerge` and `SessionOfMerge` (unresolved conflicts and a
   ready session are about the merge in the workspace); `CheckinVerified` (what
   the guard verified still holds when `cm checkin` runs, because only holders of
   the gate change it); `GatedCheckinWhole`.
5. `Inv5`: `Compared` (the bytes compared are the bytes overwritten, unless an
   edit comes in between); `EditsSurvive`.

### 4.2 Partial sessions

The theorems follow from `PartialAssumption` and `NoSessionAssumption` (the
markers for "nothing" and "torn" are no session and no bytes, and what editors
save is told apart from what the program writes).  The inductive invariant is
`IInv`:

- `Handlers`: a client past the first step of a handler holds both gates, hence
  at most one is; what it has loaded is what is on disk; a preparation has copied
  what the index will name (`CopyingOK`); a resolution works on one undecided
  conflict of the session it has marked (`ResolvingOK`).
- `SessionOK`: the session on disk is `Consistent` (decided files are listed, the
  marked one is undecided, nothing is newer than what was published) and the
  bytes of its undecided conflicts are `BackedUp`.
- `TornIsNamed`: a half written file is the one the session names as interrupted.
- `LoadedIsPublished`, `GuardedCheckinReviewed`, and `EditsSurvive`: what the undo
  of a resolution finds on disk is among the backups, or was saved `late`.

`SessionOK` is needed because the session outlives the handler that wrote it: a
crash drops `Handlers` for that client and leaves the disk as it is.

### 4.3 Message store

The theorems follow from `StoreAssumption`, which says that the markers for "no
template", "unchecked" and "nobody" are no values and that the limits are
naturals.  The inductive invariant `StoreInv` is `Shape` (the owner, the places
and the operations are what they should be, and the copies are a function on the
processes) with `MutexIsInUse` and `CopyIsCurrent`: the copy of a process that
writes is what its operation makes of the file *as it is now*, because only the
holder of the mutex replaces the file.  That is the fact the refinement needs:
`Replace` is then `Operate` of `MessageLibrary`, and every other step leaves the
file alone (`StepIsAtomic`).

The properties of the history need more, and `HistoryInv` adds it: the fields
and the libraries are what they should be (`Fields`, `LibrariesOK`; the latter
holds of every copy too, because a call that fails leaves its copy behind), and
`HistoryIsKept`, that the recent messages are `Newest` of what was recorded.
`Newest` says this without counting: each message in the list is the last
occurrence of its text, the list is ordered by these occurrences, and what was
recorded and is not in the list is older than all of it, and then the list is
full.  That is inductive under `RecordSuccess` (which moves a message to the front
and drops the last one); `RecentIsNewest`, which counts, follows from it by the
theorems on cardinalities.

The windows are one more client of the store.  `CommitMessageFormProofs` shows
that each of their steps is a step of the store or leaves it alone
(`StepIsStoreStep`), so `HistoryInv` holds under them, and adds `FormInv`: what a
window has selected, or holds as the evidence of an edit, it has listed (`Seen`),
and a call that replaces or deletes a template names as evidence a text its
window has listed (`Expected`).  The evidence is needed because the list may have
been refreshed behind the editor; that the store compares it under the mutex, and
that the mutex makes the comparison and the write one step, is `CopyIsCurrent`.

### 4.4 Overlay cache

The theorems follow from `OverlayAssumption`.  `StaleIsNoticed` speaks of a moment
after a visit, and whether it then holds was decided during the visit, so the
invariant follows a workspace through it: `ExpiryOK` (between the two halves of an
expiry the fragment stays away), `VisitOK` (the scan sees at least the version
the visit began with), `RescanOK` (during a rescan nothing the worker published
before is combined, and what it publishes at the end is what this scan saw),
`PublishedOK` (otherwise, whatever is combined was scanned at the version the
watch calls published, or later).  The refresh command comes in between at every
step; it can put its own fragment there, which `ByWorker` tells apart, but it
cannot bring an old one of the worker back, because each half of a store call
works on the fragments as they are.  `AgesOK` is what `AgesAreKept` needs: the
combined file is as old as its oldest entry, and no entry was older than
`FragmentLife` when it was combined.  For that the oldest of a finite set of ages
must exist, which is `Greatest`, proved from the well-foundedness of strict
inclusion.

### 4.5 Jobs

The theorems follow from `JobAssumption`.  The inductive invariant is
`IInv == Always /\ (Undisturbed => Safe)`; a slip stays recorded (`SlipsStep`), so
the second part is only owed for steps without one.

- `Always` holds whatever the races do: types; `Once` (while `waiting` is set the
  job has not run, and at most one side is past the exchange of the flag);
  `DoneIsComplete` (a side sets `executionDone` only when it is through with the
  job).
- `JobOK(j)`, of each job: `Listing` (the flag `scheduled`, the place in the
  scheduler and the place of the worker agree), `Deletion` (a job is destroyed,
  or deletable, only when the scheduler has let it go), `HandedOver` (a job the
  scheduler owns is executed by its worker alone, which is the one that deletes
  it), `Pending` (a created handle is invisible only between the two looks of a
  waiter).  `Frame` shows that a step of one job leaves `JobOK` of the others
  alone, so each action is looked at for one job.
- `HandlesApart`: a handle is in one place: in one event of a living job, once in
  the pool, or in the hands of the owner that has just created it.
- `SignalledIsHeld`: a signalled handle is that of an event of a living job, and
  this event is set.

The part about handles spans all jobs because the pool does: an owner that
sleeps on a handle wakes when it is signalled (`Wake`) and does not look at the
state of the event again.  That the event is set then, and that a future may
destroy itself, follows only because nobody else can have signalled this handle.

### 4.6 Schedulers

The theorems follow from `SchedulerAssumption`.  `Threads` is a bound in the sense
of 3.4: beyond it no thread is created (`RunNew`), in the theorems as in the runs.
They hold for every finite set, and the pools limit how many threads the code
creates, so no behaviour of the code is left out.

The counters of a scheduler are redundant: its lists, the loans and the places of
its threads determine them.  `IInv` says how, at every step of every critical
section.

- `MutexOK`: in each critical section there is one process, and who is about to
  allocate a thread for another scheduler has that one's mutex.
- `ListsOK`: the owner of a thread, and whether it is resumed, tell the only list
  it is in.  A thread that gives itself back is in none until it is released.
- `CountersOK`: the counters of each scheduler agree with its lists, up to the
  thread that is giving itself back (`Back`).
- `ThreadsAreCounted`: the pool, the loans (`Debts`) and what is not yet created
  make up the size of the pool.
- `StarvingOK`: a scheduler is listed as starving at most once, and while a process
  has taken it from the list it is not listed.
- `DestroyOK`: a scheduler whose destructor has left the list of starving ones
  does not starve again.
- `WaitingOK`: who waits in `WaitForSomeJobs` is counted, and the count stays below
  the number of running threads.

The loans span all schedulers.  A sum over them would be a fold, hence an
induction; instead `Debts` is the set of all pairs of a scheduler and a number up
to its `fromShared`, and its cardinality is the sum.  Lending adds one pair and
giving back removes one, so the library's theorems on cardinalities do.

### 4.7 Status cache

`WakeTheorem` needs one fact more, `AwakeInv`: the crawler looks for blocks before
it looks at its queues, and if a block has come to be due in between, somebody has
woken it.  A step that adds a request or shortens a block sets the event, and only
the crawler resets it, before it looks.

`Typing` adds `PlacesFit`: a crawler that works has a job, one that picks a folder
has one to pick, and only a subfolder has something to tell.  The queues are those
of `UniqueQueue`, so their type says that nothing is in them twice.  Lemmas about
`Erased`, `Push` and `Added` (`ErasedIs`, `PushIs`, `AddedIs`) say what remains in a
queue and what comes in.  They rest on the library's theorems about sequences and
finite sets: `Added` chooses among the orders of a set instead of folding over a
list, and that there is such an order is why `Subfolders` must be finite.

`SettledIsCurrent` speaks of the moment of rest only.  The invariant `CurrentInv`
says of every other moment who still owes the difference.  A folder is `Pending`
when everything is suspended by a lock, a client or a block (whose end requests
the root), when its change is noted, queued or covered by a request for the root,
or when the crawler is about to read it; a thread `Computes` the status of a folder
when it is about to calculate or store it; and it `Tells` that of a subfolder when
the root will hear of it.

- `ValidIsRead`, `OwnIsNormal`: a folder that is being stored is valid, and a valid
  folder has a status of its own.
- `TmpFollows`: what the root keeps aside of its subfolders during a crawl is what
  it knows of them.
- `FilesFollow`: a file of a valid folder is what it was read as, or the folder is
  pending.
- `ValidBelow`: the subfolders of a valid root are valid or pending.
- `FullFollows`: the status of a valid folder includes what the folder knows, or a
  thread computes it or the crawler is about to.
- `ChildFollows`: the root knows the status of a valid subfolder, or is being told,
  or the subfolder is pending.

The last four are owed only as long as `slips` is empty.  Three steps can break
them: `Erase`, `Write` and `Tell`, which are the ones that record a slip.  There is one
lemma for each action (`...StaysCurrent`); `QuietIsCurrent` shows that at rest
nobody is pending, computes or tells, so that nothing is owed.  `SettledIsCurrent`
then follows from `WorstOf`, which turns the most important of the statuses of the
subfolders into that of all files below.

`LateTheorem` bounds one of the two exceptions of `SettledIsCurrent`: as long as the
shell has asked nothing, what the crawler has computed stays right until it is
stored and told (`OnTimeInv`).  With a question TLC finds a late status.

Every invariant has been checked with TLC on the instance of its run before it
was proved; that of the schedulers also with three schedulers and two callers,
and that of the status cache also with a second lock or block, a second
question, and two subfolders.

### 4.8 Only model-checked

Every invariant of a passing run is stated by a theorem.  Left to TLC are:

- The liveness properties: they need fairness and `ENABLED`.
- That the overlay cache never stops (TLC checks its runs for deadlock).
- The four violations, whose value is the counterexample.

## 5. What is not modelled, and why

Of the modelled components:

- Parsing of `cm` output, command lines, encodings, reparse-point checks, and
  the identity of items are conditions of guards, not state.
- Sessions written with other client settings: a process with other settings
  sees no index and a marker it does not own; it is represented by the official
  client, which respects neither.
- A crash that leaves a torn index or marker, or a marker without an index, is
  modelled; the workspace is refused by every operation from then on, and the
  liveness properties exclude it by their premises.
- Of the overlay cache: nested workspaces, the binary format, how a scan maps
  the output of `cm status` to icons, the limit of 64 workspaces, a
  fragment that cannot be read for a moment (it is left out of the combined file
  until that is written again), and a file watcher that stops delivering events for good.
- Of the message store: XML, the length limits and Unicode checks of
  `ValidateText`, the 8 MB limit of a file, and the key of a repository.
- Of AsyncFramework: scheduling a job again, aggressive threading (which nothing
  sets), changing the number of shared threads at run time, and the end of the
  process while threads run.
- Of TGitCache: the notifications the shell gets, the answer that is kept for a
  second, vanished folders and drives (a vanished file makes its folder be read,
  `TakePath`), the ten minutes after which the block of a
  client that never comes back ends, and loading and saving the cache.

Of the other components (the reason for each is in `PROJECT.json`):

- The structure and directory sessions of Partial workspaces follow the protocol
  of `PartialConflict` (gates, mark, backup, recovery); what is different in them
  is the classification of structural conflicts, which is a matter of parsing and
  of guards.  They are the first candidates for an extension.
- Preview and fingerprint of a check-in, and the window after an uncertain one.
- Commands that run `cm` once after a validation (shelves, branches, labels,
  locks, switching, workspace creation, browsing, history) keep no state that a
  protocol could be about.
- Text comparison and text merge are pure functions, tested as such.
- The Explorer extension and the rest of the retained upstream code are user
  interface, wrappers of processes or vendored libraries.
