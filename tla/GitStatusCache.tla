---------------------------- MODULE GitStatusCache ----------------------------
(***************************************************************************)
(* The status cache of TGitCache: the crawler and its two queues           *)
(* (FolderCrawler.cpp), the cached status of folders (CachedDirectory.cpp),*)
(* the blocks of paths and the answers to the shell (GITStatusCache.cpp),  *)
(* and change notifications (DirectoryWatcher.cpp).                        *)
(*                                                                         *)
(* One working tree: a root and its subfolders, each with one file, which  *)
(* is normal or modified, all of them watched.  index.lock stands for the  *)
(* locks of git's commands.  A folder that has no entry in the cache is    *)
(* one whose status was never set.  A step is what a thread does between   *)
(* two accesses to what others change.  What the shell is told, and the    *)
(* last answer that is kept for a second, are left out.                    *)
(*                                                                         *)
(* Recursive statuses are computed without a lock, so one may be old when  *)
(* it is stored, and a request is erased when its path has just been       *)
(* crawled.  `slips` records where this has an effect.                     *)
(***************************************************************************)
EXTENDS Naturals, Sequences, FiniteSets, SequencesExt

CONSTANTS
  Root, Subfolders,
  None,
  MaxChanges,    \* bound on the changes of files in a behaviour
  MaxLocks,      \* bound on the git commands that take a lock or block the root
  MaxFaults,     \* bound on the reads of git's data that fail
  MaxAsks        \* bound on the folders the shell asks for

ASSUME CacheAssumption ==
  /\ IsFiniteSet(Subfolders)
  /\ Root \notin Subfolders
  /\ None \notin Subfolders \cup {Root}
  /\ {MaxChanges, MaxLocks, MaxFaults, MaxAsks} \subseteq Nat

Folders == {Root} \cup Subfolders
Kinds == {"file", "dir"}          \* a change is notified for a file or for its folder
Paths == Kinds \X Folders
Statuses == {"none", "normal", "modified"}
Threads == {"crawler", "shell"}

VARIABLES
  disk,          \* what git would say of the file of each folder
  lock,          \* whether index.lock exists
  client,        \* whether a client has blocked the root
  noted,         \* changes the watcher has not been told of
  buffer,        \* notifyPaths: those of one notification, not yet passed on
  lockNoted,     \* the last change of index.lock it has not seen
  paths,         \* m_pathsToUpdate
  folders,       \* m_foldersToUpdate
  wake,          \* m_hWakeEvent
  blocked,       \* m_blockedPath
  blockOver,     \* whether m_blockReleasesAt has passed
  noWatch,       \* the block of the root in m_NoWatchPaths
  own, valid,    \* CCachedDirectory::m_ownStatus: its status and IsOwnStatusValid
  files,         \* m_mostImportantFileStatus
  child,         \* m_childDirectories: what the root knows of a subfolder
  childTmp,      \* m_childDirectories_tmp
  full,          \* m_currentFullStatus
  pc,            \* where the crawler and a thread that answers the shell are
  cur, new,      \* the folder a thread updates, and the status it has computed
  job, todo, got, retry,   \* locals of the crawler
  failed,        \* history: folders whose last read failed
  changes, locks, faults, asked,    \* history: counters
  slips

outside == <<disk, lock, client, noted, buffer, lockNoted>>
queues == <<paths, folders, wake>>
blocks == <<blocked, blockOver, noWatch>>
status == <<own, valid, files, child, childTmp, full>>
place == <<pc, cur, new>>
locals == <<job, todo, got, retry>>
history == <<failed, changes, locks, faults, asked>>
vars == <<outside, queues, blocks, status, place, locals, history, slips>>

Places == {"wait", "loop", "pick", "pick_again", "folder", "begin", "enum", "store", "file",
           "store_file", "calc", "write", "tell", "after", "erase", "idle"}

OutsideTypes ==
  /\ disk \in [Folders -> {"normal", "modified"}]
  /\ lock \in BOOLEAN /\ client \in BOOLEAN
  /\ noted \subseteq Paths /\ buffer \subseteq Paths
  /\ lockNoted \in {"none", "added", "removed"}

QueueTypes ==
  /\ paths \in Seq(Paths) /\ IsInjective(paths)
  /\ folders \in Seq(Folders) /\ IsInjective(folders)
  /\ wake \in BOOLEAN

BlockTypes ==
  /\ blocked \in Folders \cup {None} /\ blockOver \in BOOLEAN
  /\ noWatch \in {"none", "long", "soon", "over"}

StatusTypes ==
  /\ own \in [Folders -> Statuses] /\ valid \in [Folders -> BOOLEAN]
  /\ files \in [Folders -> Statuses] /\ full \in [Folders -> Statuses]
  /\ child \in [Subfolders -> Statuses] /\ childTmp \in [Subfolders -> Statuses]

PlaceTypes ==
  /\ pc \in [Threads -> Places]
  /\ cur \in [Threads -> Folders] /\ new \in [Threads -> Statuses]
  /\ job \in {<<>>} \cup (Kinds \cup {"folder"}) \X Folders
  /\ todo \in {<<>>, <<"file">>} /\ got \in Statuses /\ retry \in BOOLEAN

TypeOK ==
  /\ OutsideTypes /\ QueueTypes /\ BlockTypes /\ StatusTypes /\ PlaceTypes
  /\ failed \subseteq Folders
  /\ slips \subseteq {"erased", "late_status"}

Init ==
  /\ disk = [f \in Folders |-> "normal"]
  /\ lock = FALSE /\ client = FALSE
  /\ noted = {} /\ buffer = {} /\ lockNoted = "none"
  /\ paths = <<>> /\ folders = <<>> /\ wake = FALSE
  /\ blocked = None /\ blockOver = FALSE /\ noWatch = "none"
  /\ own = [f \in Folders |-> "none"] /\ valid = [f \in Folders |-> FALSE]
  /\ files = [f \in Folders |-> "none"] /\ full = [f \in Folders |-> "none"]
  /\ child = [c \in Subfolders |-> "none"] /\ childTmp = [c \in Subfolders |-> "none"]
  /\ pc = [t \in Threads |-> IF t = "crawler" THEN "wait" ELSE "idle"]
  /\ cur = [t \in Threads |-> Root] /\ new = [t \in Threads |-> "none"]
  /\ job = <<>> /\ todo = <<>> /\ got = "none" /\ retry = FALSE
  /\ failed = {} /\ changes = 0 /\ locks = 0 /\ faults = 0 /\ asked = 0 /\ slips = {}

Goto(t, next) == pc' = [pc EXCEPT ![t] = next]

Covers(f, g) == f = g \/ f = Root
Children(f) == IF f = Root THEN Subfolders ELSE {}

\* GitStatus::GetMoreImportant
Worst(S) == IF "modified" \in S THEN "modified"
            ELSE IF "normal" \in S THEN "normal" ELSE "none"

\* What git would say of a folder and all below it.
Truth(f) == Worst({disk[g] : g \in {h \in Folders : Covers(f, h)}})

\* CalculateRecursiveStatus
Recursive(f) == Worst({files[f], own[f]} \cup {child[c] : c \in Children(f)})

\* Variant: what is there already stays where it is and is added again.
PushAgain(queue, x) == Append(queue, x)

\* UniqueQueue: nothing is there twice, and what is pushed moves to the end.
Erased(queue, x) ==
  IF Contains(queue, x) THEN RemoveAt(queue, CHOOSE i \in DOMAIN queue : queue[i] = x) ELSE queue
Push(queue, x) == Append(Erased(queue, x), x)

\* The queue after a Push for each of a set of folders: those are at the end, the
\* root after its subfolders, and the others as they were.
Added(queue, fs) ==
  {q \in SetToSeqs(Range(queue) \cup fs) :
     /\ \A i, j \in DOMAIN q : i < j =>
          \/ q[j] \in fs
          \/ /\ q[i] \notin fs
             /\ \E k, l \in DOMAIN queue : k < l /\ queue[k] = q[i] /\ queue[l] = q[j]
     /\ Root \in fs => Last(q) = Root}

IsPathGood == noWatch \in {"none", "over"}

\* AddDirectoryForUpdate for a set of folders.
AddFolders(fs) ==
  IF ~lock /\ IsPathGood /\ fs # {}
    THEN /\ folders' \in Added(folders, fs)
         /\ wake' = TRUE
    ELSE UNCHANGED <<folders, wake>>

-----------------------------------------------------------------------------
(* Files, git, its clients and the watcher                                   *)

\* A file changes; when it is created or deleted its folder is notified, too.
\* git changes the index under the lock, and thereby the status of a file that is
\* not touched.
Change(f) ==
  /\ changes < MaxChanges
  /\ changes' = changes + 1
  /\ disk' = [disk EXCEPT ![f] = IF @ = "normal" THEN "modified" ELSE "normal"]
  /\ \E kinds \in {{"file"}, Kinds} \cup IF lock THEN {{}} ELSE {} :
       noted' = noted \cup (kinds \X {f})
  /\ UNCHANGED <<lock, client, buffer, lockNoted, queues, blocks, status, place, locals, failed, locks,
                 faults, asked, slips>>

TakeLock ==
  /\ ~lock /\ locks < MaxLocks
  /\ lock' = TRUE /\ locks' = locks + 1 /\ lockNoted' = "added"
  /\ UNCHANGED <<disk, client, noted, buffer, queues, blocks, status, place, locals, failed, changes,
                 faults, asked, slips>>

DropLock ==
  /\ lock
  /\ lock' = FALSE /\ lockNoted' = "removed"
  /\ UNCHANGED <<disk, client, noted, buffer, queues, blocks, status, place, locals, history, slips>>

\* The watcher gets a buffer of notifications once it has passed on the one
\* before.  An added lock blocks the root, and its removal shortens the block and
\* wakes the crawler ...
ReadNotifications ==
  /\ buffer = {} /\ (noted # {} \/ lockNoted # "none")
  /\ buffer' = noted /\ noted' = {} /\ lockNoted' = "none"
  /\ noWatch' = IF lockNoted = "none" THEN noWatch
                ELSE IF lockNoted = "added" THEN "long" ELSE "soon"
  /\ wake' = (wake \/ lockNoted = "removed")
  /\ UNCHANGED <<disk, lock, client, paths, folders, blocked, blockOver, status, place,
                 locals, history, slips>>

\* Variant: without SetEvent.
AddPathForUpdateQuietly(path) ==
  /\ path \in buffer
  /\ buffer' = buffer \ {path}
  /\ paths' = IF lock THEN paths ELSE Push(paths, path)
  /\ UNCHANGED <<disk, lock, client, noted, lockNoted, folders, wake, blocks, status, place,
                 locals, history, slips>>

\* ... and changed files are passed on afterwards, unless the index is changing.
AddPathForUpdate(path) ==
  /\ path \in buffer
  /\ buffer' = buffer \ {path}
  /\ paths' = IF lock THEN paths ELSE Push(paths, path)
  /\ wake' = (wake \/ ~lock)
  /\ UNCHANGED <<disk, lock, client, noted, lockNoted, folders, blocks, status, place, locals,
                 history, slips>>

\* Time passes for the block after a lock, and for that of a folder that could
\* not be read.  Nobody holds a lock or a block as long as a block lasts anyhow
\* (10 minutes).
Time ==
  /\ \/ /\ noWatch = "soon"
        /\ noWatch' = "over"
        /\ UNCHANGED blockOver
     \/ /\ blocked # None /\ ~blockOver
        /\ blockOver' = TRUE
        /\ UNCHANGED noWatch
  /\ UNCHANGED <<outside, queues, blocked, status, place, locals, history, slips>>

\* The commands of a client around its own git commands.
BlockPath ==
  /\ ~client /\ locks < MaxLocks
  /\ client' = TRUE /\ locks' = locks + 1
  /\ noWatch' = "long"
  /\ UNCHANGED <<disk, lock, noted, buffer, lockNoted, queues, blocked, blockOver, status, place,
                 locals, failed, changes, faults, asked, slips>>

UnBlockPath ==
  /\ client
  /\ client' = FALSE
  /\ noWatch' = "none"
  /\ IF lock THEN UNCHANGED <<folders, wake>>
             ELSE folders' = Push(folders, Root) /\ wake' = TRUE
  /\ UNCHANGED <<disk, lock, noted, buffer, lockNoted, paths, blocked, blockOver, status, place, locals,
                 history, slips>>

-----------------------------------------------------------------------------
(* UpdateCurrentStatus, by either thread                                     *)

\* Where a thread goes on when the root is told.
Told(t) == IF t = "crawler" THEN "after" ELSE "idle"

\* Records that a thread uses a status that has changed since.
Late(old, now) == slips' = IF old = now THEN slips ELSE slips \cup {"late_status"}

Calc(t) ==
  /\ pc[t] = "calc"
  /\ new' = [new EXCEPT ![t] = Recursive(cur[t])]
  /\ Goto(t, "write")
  /\ UNCHANGED <<outside, queues, blocks, status, cur, locals, history, slips>>

\* The status is stored if the folder knows its own.
Write(t) ==
  LET f == cur[t]
  IN  /\ pc[t] = "write"
      /\ Late(new[t], Recursive(f))
      /\ full' = [full EXCEPT ![f] = IF valid[f] THEN new[t] ELSE @]
      /\ new' = [new EXCEPT ![t] = IF f = Root THEN "none" ELSE full'[f]]
      /\ Goto(t, IF f = Root THEN Told(t) ELSE "tell")
      /\ UNCHANGED <<outside, queues, blocks, own, valid, files, child, childTmp, cur, locals,
                     history>>

\* UpdateChildDirectoryStatus: the root updates its own status if this is news.
Tell(t) ==
  LET f == cur[t]
  IN  /\ pc[t] = "tell"
      /\ Late(new[t], full[f])
      /\ child' = [child EXCEPT ![f] = new[t]]
      /\ childTmp' = [childTmp EXCEPT ![f] = new[t]]
      /\ cur' = [cur EXCEPT ![t] = Root]
      /\ new' = [new EXCEPT ![t] = "none"]
      /\ Goto(t, IF child[f] # new[t] \/ ~valid[Root] THEN "calc" ELSE Told(t))
      /\ UNCHANGED <<outside, queues, blocks, own, valid, files, full, locals, history>>

UpdateCurrentStatus(t) == Calc(t) \/ Write(t) \/ Tell(t)

-----------------------------------------------------------------------------
(* The crawler: its queues                                                   *)

Wake ==
  /\ pc["crawler"] = "wait" /\ wake
  /\ wake' = FALSE
  /\ Goto("crawler", "loop")
  /\ UNCHANGED <<outside, paths, folders, blocks, status, cur, new, locals, history, slips>>

\* CCrawlInhibitor of a thread that answers the shell.
Inhibited == pc["shell"] # "idle"

\* Variant: a block that has timed out is removed and nothing else.
RemoveTimedoutBlocksOnly ==
  /\ pc["crawler"] = "loop" /\ ~Inhibited
  /\ blocked' = IF blockOver THEN None ELSE blocked
  /\ blockOver' = FALSE
  /\ noWatch' = IF noWatch = "over" THEN "none" ELSE noWatch
  /\ Goto("crawler", IF noWatch = "soon" THEN "pick_again" ELSE "pick")
  /\ UNCHANGED <<outside, queues, status, cur, new, locals, history, slips>>

\* Variant: the block of a folder that could not be read is never removed.
RemoveTimedoutBlocksKept ==
  /\ pc["crawler"] = "loop" /\ ~Inhibited
  /\ noWatch' = IF noWatch = "over" THEN "none" ELSE noWatch
  /\ AddFolders(IF noWatch = "over" THEN {Root} ELSE {})
  /\ Goto("crawler", IF noWatch = "soon" THEN "pick_again" ELSE "pick")
  /\ UNCHANGED <<outside, paths, blocked, blockOver, status, cur, new, locals, history, slips>>

\* The top of the loop: blocks whose time has passed are removed, and the root is
\* crawled when its block was.
RemoveTimedoutBlocks ==
  /\ pc["crawler"] = "loop" /\ ~Inhibited
  /\ blocked' = IF blockOver THEN None ELSE blocked
  /\ blockOver' = FALSE
  /\ noWatch' = IF noWatch = "over" THEN "none" ELSE noWatch
  /\ AddFolders(IF noWatch = "over" THEN {Root} ELSE {})
  /\ Goto("crawler", IF noWatch = "soon" THEN "pick_again" ELSE "pick")
  /\ UNCHANGED <<outside, paths, status, cur, new, locals, history, slips>>

Picking == pc["crawler"] \in {"pick", "pick_again"}

\* The crawler sleeps, unless it waits for a block that ends soon.
Nothing ==
  /\ Picking /\ paths = <<>> /\ folders = <<>>
  /\ Goto("crawler", IF pc["crawler"] = "pick" THEN "wait" ELSE "loop")
  /\ UNCHANGED <<outside, queues, blocks, status, cur, new, locals, history, slips>>

Blocked(f) == blocked # None /\ Covers(blocked, f)

\* A path that is blocked moves to the end; so does a folder of a blocked working
\* tree, as its root.
DeferPath ==
  /\ Picking /\ paths # <<>>
  /\ LET path == Head(paths)
     IN  \/ /\ Blocked(path[2])
            /\ paths' = Push(Tail(paths), path)
         \/ /\ ~Blocked(path[2]) /\ path[1] = "dir" /\ ~IsPathGood
            /\ paths' = Push(Tail(paths), <<"dir", Root>>)
  /\ Goto("crawler", "loop")
  /\ UNCHANGED <<outside, folders, wake, blocks, status, cur, new, locals, history, slips>>

\* A changed folder is invalidated and read; for a changed file its folder is
\* read before, if it is not valid.  For a file that is gone its folder is taken.
TakePath ==
  /\ Picking /\ paths # <<>>
  /\ \E kind \in {Head(paths)[1], "dir"} :
       LET f == Head(paths)[2]
       IN  /\ ~Blocked(f) /\ (Head(paths)[1] = "dir" => IsPathGood)
           /\ paths' = Tail(paths)
           /\ job' = <<kind, f>>
           /\ valid' = [valid EXCEPT ![f] = @ /\ kind # "dir"]
           /\ todo' = IF kind = "file" /\ ~valid[f] THEN <<"file">> ELSE <<>>
           /\ Goto("crawler", IF kind = "file" /\ valid[f] THEN "file" ELSE "begin")
  /\ UNCHANGED <<outside, folders, wake, blocks, own, files, child, childTmp, full, cur, new,
                 got, retry, history, slips>>

NoPath ==
  /\ Picking /\ paths = <<>> /\ folders # <<>>
  /\ Goto("crawler", "folder")
  /\ UNCHANGED <<outside, queues, blocks, status, cur, new, locals, history, slips>>

\* The root will be crawled, and then its subfolders.
Covered(f, rest) == \E i \in DOMAIN rest : Covers(rest[i], f)

\* A folder that is blocked moves to the end, and one of a blocked working tree
\* is dropped.
DeferFolder ==
  /\ pc["crawler"] = "folder"
  /\ LET f == Head(folders)
         rest == Tail(folders)
     IN  \/ Blocked(f) /\ folders' = Push(rest, f)
         \/ ~Blocked(f) /\ (~IsPathGood \/ Covered(f, rest)) /\ folders' = rest
  /\ Goto("crawler", "loop")
  /\ UNCHANGED <<outside, paths, wake, blocks, status, cur, new, locals, history, slips>>

TakeFolder ==
  /\ pc["crawler"] = "folder"
  /\ LET f == Head(folders)
         rest == Tail(folders)
     IN  /\ ~Blocked(f) /\ IsPathGood /\ ~Covered(f, rest)
         /\ folders' = rest
         /\ job' = <<"folder", f>>
  /\ Goto("crawler", "begin")
  /\ UNCHANGED <<outside, paths, wake, blocks, status, cur, new, todo, got, retry, history,
                 slips>>

-----------------------------------------------------------------------------
(* The crawler: GetStatusFromGit and EnumFiles                               *)

Here == job[2]

\* UpdateCurrentStatus of the folder comes next.
Update == /\ pc' = [pc EXCEPT !["crawler"] = "calc"]
          /\ cur' = [cur EXCEPT !["crawler"] = Here]

Begin ==
  /\ pc["crawler"] = "begin"
  /\ files' = [files EXCEPT ![Here] = "none"]
  /\ childTmp' = [c \in Subfolders |-> IF c \in Children(Here) THEN "none" ELSE childTmp[c]]
  /\ Goto("crawler", "enum")
  /\ UNCHANGED <<outside, queues, blocks, own, valid, child, full, cur, new, locals, history,
                 slips>>

\* EnumDirStatus.  A subfolder is crawled if this crawl is recursive or it is not
\* valid; what is known of it is kept.
Enum ==
  /\ pc["crawler"] = "enum"
  /\ got' = disk[Here]
  /\ AddFolders({c \in Children(Here) : job[1] = "folder" \/ ~valid[c]})
  /\ childTmp' = [c \in Subfolders |->
                    IF c \in Children(Here) /\ child[c] # "none" THEN child[c] ELSE childTmp[c]]
  /\ Goto("crawler", "store")
  /\ UNCHANGED <<outside, paths, blocks, own, valid, files, child, full, cur, new, job, todo,
                 retry, history, slips>>

Store ==
  /\ pc["crawler"] = "store"
  /\ files' = [files EXCEPT ![Here] = got]
  /\ got' = "none"
  /\ own' = [own EXCEPT ![Here] = "normal"] /\ valid' = [valid EXCEPT ![Here] = TRUE]
  /\ child' = [c \in Subfolders |-> IF c \in Children(Here) THEN childTmp[c] ELSE child[c]]
  /\ failed' = failed \ {Here}
  /\ Update
  /\ UNCHANGED <<outside, queues, blocks, childTmp, full, new, job, todo, retry, changes, locks,
                 faults, asked, slips>>

\* GetFileStatus
ReadFile ==
  /\ pc["crawler"] = "file"
  /\ got' = disk[Here]
  /\ Goto("crawler", "store_file")
  /\ UNCHANGED <<outside, queues, blocks, status, cur, new, job, todo, retry, history, slips>>

StoreFile ==
  /\ pc["crawler"] = "store_file"
  /\ files' = [files EXCEPT ![Here] = got]
  /\ got' = "none"
  /\ failed' = failed \ {Here}
  /\ Update
  /\ UNCHANGED <<outside, queues, blocks, own, valid, child, childTmp, full, new, job, todo,
                 retry, changes, locks, faults, asked, slips>>

\* git's data cannot be read: what was known is forgotten, and the folder is to
\* be crawled again soon.
Fail ==
  /\ pc["crawler"] = "enum" \/ (pc["crawler"] = "file" /\ full[Here] = "none")
  /\ faults < MaxFaults
  /\ faults' = faults + 1 /\ failed' = failed \cup {Here}
  /\ own' = [own EXCEPT ![Here] = "none"] /\ valid' = [valid EXCEPT ![Here] = TRUE]
  /\ full' = [full EXCEPT ![Here] = "none"] /\ files' = [files EXCEPT ![Here] = "none"]
  /\ AddFolders({c \in Children(Here) : child[c] # "none"})
  /\ child' = [c \in Subfolders |-> IF c \in Children(Here) THEN "none" ELSE child[c]]
  /\ retry' = TRUE
  /\ Update
  /\ UNCHANGED <<outside, paths, blocks, childTmp, new, job, todo, got, changes, locks, asked,
                 slips>>

\* The folder is blocked for a moment (BlockPath of the crawler) and requested.
Retry ==
  /\ blocked' = Here /\ blockOver' = FALSE
  /\ AddFolders({Here})

\* A file that cannot be read leaves what is known of its folder.
FailFile ==
  /\ pc["crawler"] = "file" /\ full[Here] # "none"
  /\ faults < MaxFaults
  /\ faults' = faults + 1 /\ failed' = failed \cup {Here}
  /\ Retry
  /\ Update
  /\ UNCHANGED <<outside, paths, noWatch, status, new, locals, changes, locks, asked, slips>>

After ==
  /\ pc["crawler"] = "after"
  /\ IF retry THEN Retry ELSE UNCHANGED <<blocked, blockOver, folders, wake>>
  /\ retry' = FALSE
  /\ cur' = [cur EXCEPT !["crawler"] = Root]
  /\ todo' = <<>>
  /\ Goto("crawler", IF todo = <<>> THEN "erase" ELSE "file")
  /\ UNCHANGED <<outside, paths, noWatch, status, new, job, got, history, slips>>

\* The crawl is over: a request for the same path that came in between is erased.
Erase ==
  LET erased == IF job[1] = "folder" THEN Contains(folders, Here) ELSE Contains(paths, job)
      outdated == \E f \in Folders :
                    /\ Covers(Here, f)
                    /\ \/ files[f] # disk[f] \/ full[f] # Truth(f)
                       \/ f # Root /\ child[f] # full[f]
  IN  /\ pc["crawler"] = "erase"
      /\ IF job[1] = "folder"
           THEN folders' = Erased(folders, Here) /\ UNCHANGED paths
           ELSE paths' = Erased(paths, job) /\ UNCHANGED folders
      /\ slips' = IF erased /\ outdated THEN slips \cup {"erased"} ELSE slips
      /\ job' = <<>>
      /\ Goto("crawler", IF job[1] # "folder" /\ folders # <<>> THEN "folder" ELSE "loop")
      /\ UNCHANGED <<outside, wake, blocks, status, cur, new, todo, got, retry, history>>

Crawl ==
  \/ Wake \/ RemoveTimedoutBlocks \/ Nothing \/ DeferPath \/ TakePath \/ NoPath
  \/ DeferFolder \/ TakeFolder \/ Begin \/ Enum \/ Store \/ ReadFile \/ StoreFile
  \/ UpdateCurrentStatus("crawler") \/ After \/ Erase

-----------------------------------------------------------------------------
(* The shell                                                                 *)

\* GetStatusForPath.  A folder that is not valid is crawled, and its parent, too,
\* if that has a status; a folder that has one updates it with all below it, but
\* not while it is blocked.
GetStatusForPath(f) ==
  LET parent == IF f # Root /\ full[Root] # "none" THEN {Root} ELSE {}
  IN  /\ pc["shell"] = "idle" /\ asked < MaxAsks
      /\ asked' = asked + 1
      /\ AddFolders(IF valid[f] THEN {} ELSE {f} \cup parent)
      /\ IF IsPathGood /\ own[f] # "none"
           THEN Goto("shell", "calc") /\ cur' = [cur EXCEPT !["shell"] = f]
           ELSE UNCHANGED <<pc, cur>>
      /\ UNCHANGED <<outside, paths, blocks, status, new, locals, failed, changes, locks, faults,
                     slips>>

-----------------------------------------------------------------------------
Next ==
  \/ \E f \in Folders : Change(f) \/ GetStatusForPath(f)
  \/ TakeLock \/ DropLock \/ BlockPath \/ UnBlockPath
  \/ ReadNotifications \/ (\E path \in Paths : AddPathForUpdate(path)) \/ Time
  \/ Crawl \/ Fail \/ FailFile
  \/ UpdateCurrentStatus("shell")

Spec == Init /\ [][Next]_vars

\* Every thread runs, time passes, and git and clients release what they hold.
\* Nothing is assumed of changes, of failures and of what the shell asks.
FairSpec ==
  /\ Spec
  /\ WF_vars(Crawl) /\ WF_vars(UpdateCurrentStatus("shell"))
  /\ WF_vars(ReadNotifications) /\ WF_vars(\E path \in Paths : AddPathForUpdate(path))
  /\ WF_vars(Time) /\ WF_vars(DropLock) /\ WF_vars(UnBlockPath)

-----------------------------------------------------------------------------
(* What must hold                                                            *)

\* The crawler never sleeps on a request, nor through the end of the block that a
\* lock has left ("Once that timeout is reached, the block will be removed and a
\* recursive crawl is done", DirectoryWatcher.cpp:479).
WakeIsNotLost ==
  pc["crawler"] = "wait" /\ (paths # <<>> \/ folders # <<>> \/ noWatch \in {"soon", "over"})
    => wake

\* Nothing is on its way any more.
Quiet ==
  /\ pc["crawler"] = "wait" /\ pc["shell"] = "idle"
  /\ ~wake /\ ~lock /\ ~client /\ noWatch = "none"
  /\ noted \cup buffer = {} /\ lockNoted = "none"

\* Then a folder that says it knows its status does, and so does everything below
\* it: each file is what it was read as, and each folder includes its subfolders
\* ("This is to make sure that the parent has really our current status",
\* CachedDirectory.cpp:632-633), whatever changed under locks and blocks.
SettledIsCurrent ==
  Quiet /\ slips = {} =>
    \A f \in Folders : valid[f] =>
      \A g \in Folders : Covers(f, g) => valid[g] /\ files[g] = disk[g] /\ full[g] = Truth(g)

\* When files stop changing the crawler comes to rest: paths that wait for a block,
\* and requests that a crawl makes, do not keep it going forever.
Settles == []<>Quiet

\* A folder whose read failed is read again ("make sure that this status times
\* out soon", CachedDirectory.cpp:289).
FailedIsRepeated == \A f \in Folders : f \in failed ~> f \notin failed
=============================================================================
