----------------------------- MODULE OverlayCache -----------------------------
(***************************************************************************)
(* The status icons of workspaces: a background worker watches the tracked *)
(* workspaces and rescans one that changed or was not scanned for a while  *)
(* (OverlayCacheHost.Run), a command rescans one on demand (RefreshAsync), *)
(* both publish what they saw as a dated fragment, and Explorer reads one  *)
(* file that combines the fragments (Core/OverlayCacheStore.cs).           *)
(*                                                                         *)
(* What a scan sees is the number of changes made to the workspace before. *)
(* Time passes in ticks, the period of the worker's rescans.  A path in a  *)
(* nested workspace counts as a path of that workspace, as the combination *)
(* counts it.                                                              *)
(***************************************************************************)
EXTENDS Naturals, FiniteSets

CONSTANTS
  Roots,         \* workspaces
  Watchable,     \* those that are there and whose watcher can be opened
  Host,          \* the worker; one at a time holds the per-user mutex
  Clis,          \* processes that run RefreshAsync
  None,          \* no fragment, no process
  FragmentLife,  \* ticks after which a fragment is not combined (90 s)
  ReaderLife,    \* ticks after which Explorer ignores the file (120 s)
  MaxChanges,    \* bound: changes of a workspace
  MaxRefreshes,  \* bound: refresh commands
  MaxFaults      \* bound: crashes, failed calls, stop requests, lost roots

ASSUME OverlayAssumption ==
  /\ Watchable \subseteq Roots
  /\ Host \notin Clis
  /\ None \notin {Host} \cup Clis \cup Roots \cup 0..MaxChanges
  /\ {FragmentLife, ReaderLife, MaxChanges, MaxRefreshes, MaxFaults} \subseteq Nat
  /\ FragmentLife < ReaderLife

VARIABLES
  tree,       \* [Roots -> Nat]: changes made to each workspace
  tracked,    \* roots with a .root file
  fragment,   \* [Roots -> Fragment or None]
  aggregate,  \* the combined file
  gate,       \* who holds overlay-store.lock
  watch,      \* [Roots -> Watch]: the worker's watches
  stop,       \* the stop event is set
  job,        \* [Host and Clis -> Job]: what each process is doing
  doubt,      \* history: roots for which the last store call of the worker failed
  refreshes,  \* history: refresh commands so far
  faults      \* history: faults so far

store == <<fragment, aggregate, gate>>
bounds == <<refreshes, faults>>
vars == <<tree, tracked, store, watch, stop, job, doubt, bounds>>

Processes == {Host} \cup Clis
Versions == 0..MaxChanges
Ages == 0..(ReaderLife + 1)

\* "by" is history: the worker or a command published the fragment.
Fragments == [sees : Versions, age : Ages, by : {"worker", "command"}]

\* The counter Version of a watch is as good as the last change it was told of;
\* `published` is None until the first scan.
Watches == [on : BOOLEAN, told : Versions, published : Versions \cup {None},
            quiet : BOOLEAN, due : BOOLEAN]
NoWatch == [on |-> FALSE, told |-> 0, published |-> None, quiet |-> TRUE, due |-> TRUE]

\* Calls of the store that a process can be in; "scan" and "check" are the
\* worker's or a command's own steps.
Expiring == {"expire", "drop", "close", "cleanup"}
Jobs == [pc : {"off", "loop", "scan", "check", "publish", "closing"} \cup Expiring,
         root : Roots \cup {None}, version : Versions, sees : Versions]
Task(pc, r, v) == [pc |-> pc, root |-> r, version |-> v, sees |-> 0]
Off == Task("off", None, 0)

Init ==
  /\ tree = [r \in Roots |-> 0]
  /\ tracked = {}
  /\ fragment = [r \in Roots |-> None]
  /\ aggregate = [entries |-> fragment, age |-> 0]
  /\ gate = None
  /\ watch = [r \in Roots |-> NoWatch]
  /\ stop = FALSE
  /\ job = [p \in Processes |-> Off]
  /\ doubt = {}
  /\ refreshes = 0
  /\ faults = 0

At(p, pc) == job[p].pc = pc
Goto(p, pc) == job' = [job EXCEPT ![p].pc = pc]
Fault == faults < MaxFaults /\ faults' = faults + 1

-----------------------------------------------------------------------------
(* The store.  Publish and Invalidate change a fragment and then the       *)
(* combined file, and hold the gate over both.                             *)

InStore(p) == job[p].pc \in Expiring \cup {"publish"}

StoreFragment(p) ==
  /\ InStore(p)
  /\ gate = None
  /\ gate' = p
  /\ fragment' = [fragment EXCEPT ![job[p].root] =
       IF At(p, "publish")
       THEN [sees |-> job[p].sees, age |-> 0, by |-> IF p = Host THEN "worker" ELSE "command"]
       ELSE None]
  /\ UNCHANGED <<tree, tracked, aggregate, watch, stop, job, doubt, bounds>>

\* Variant: a fragment is combined as long as Decode reads it.
LiveAsRead(r) == r \in tracked /\ fragment[r] # None /\ fragment[r].age <= ReaderLife

Live(r) == r \in tracked /\ fragment[r] # None /\ fragment[r].age <= FragmentLife

Oldest(ages) == IF ages = {} THEN 0 ELSE CHOOSE a \in ages : \A b \in ages : b <= a

\* Variant: the combined file is dated when it is written.
CombinedNow ==
  [entries |-> [r \in Roots |-> IF Live(r) THEN fragment[r] ELSE None], age |-> 0]

\* The combined file is as old as the oldest fragment in it.
Combined ==
  [entries |-> [r \in Roots |-> IF Live(r) THEN fragment[r] ELSE None],
   age |-> Oldest({fragment[r].age : r \in {q \in Roots : Live(q)}})]

PublishAggregate(p) ==
  /\ InStore(p)
  /\ gate = p
  /\ aggregate' = Combined
  /\ gate' = None
  /\ UNCHANGED <<tree, tracked, fragment, stop, bounds>>

\* The gate stays closed for five seconds, or a file cannot be written.  Where a
\* lost root is dropped this is no further fault.
StoreFails(p) ==
  /\ InStore(p)
  /\ IF At(p, "drop") THEN UNCHANGED faults ELSE Fault
  /\ gate' = IF gate = p THEN None ELSE gate
  /\ UNCHANGED <<tree, tracked, fragment, aggregate, stop, refreshes>>

-----------------------------------------------------------------------------
(* The watcher of a workspace.                                             *)

Change(r) ==
  /\ tree[r] < MaxChanges
  /\ tree' = [tree EXCEPT ![r] = @ + 1]
  /\ UNCHANGED <<tracked, store, watch, stop, job, doubt, bounds>>

\* An event arrives, any time after the change.
Mark(r) ==
  /\ watch[r].on
  /\ watch[r].told < tree[r]
  /\ watch' = [watch EXCEPT ![r].told = @ + 1, ![r].quiet = FALSE]
  /\ UNCHANGED <<tree, tracked, store, stop, job, doubt, bounds>>

\* 750 milliseconds pass without an event.
Settle(r) ==
  /\ ~watch[r].quiet
  /\ watch' = [watch EXCEPT ![r].quiet = TRUE]
  /\ UNCHANGED <<tree, tracked, store, stop, job, doubt, bounds>>

-----------------------------------------------------------------------------
(* The worker.                                                             *)

HostStart ==
  /\ At(Host, "off")
  /\ Goto(Host, "loop")
  /\ stop' = FALSE
  /\ UNCHANGED <<tree, tracked, store, watch, doubt, bounds>>

\* A tracked workspace gets a watch, which reports what happens from now on; one
\* that cannot be watched is left alone.
Discover(r) ==
  /\ At(Host, "loop") /\ ~stop
  /\ r \in tracked \cap Watchable /\ ~watch[r].on
  /\ watch' = [watch EXCEPT ![r] = [NoWatch EXCEPT !.on = TRUE, !.told = tree[r]]]
  /\ UNCHANGED <<tree, tracked, store, stop, job, doubt, bounds>>

\* A workspace that is tracked no more is dropped.
Drop(r) ==
  /\ At(Host, "loop") /\ ~stop
  /\ r \notin tracked /\ watch[r].on
  /\ job' = [job EXCEPT ![Host] = Task("drop", r, 0)]
  /\ UNCHANGED <<tree, tracked, store, watch, stop, doubt, bounds>>

Dropped ==
  /\ At(Host, "drop")
  /\ PublishAggregate(Host)
  /\ Goto(Host, "loop")
  /\ watch' = [watch EXCEPT ![job[Host].root] = NoWatch]
  /\ doubt' = doubt \ {job[Host].root}

\* An exception here ends the loop.
DropFails ==
  /\ At(Host, "drop")
  /\ StoreFails(Host)
  /\ Goto(Host, "closing")
  /\ UNCHANGED <<watch, doubt>>

Changed(r) == watch[r].told # watch[r].published

\* Variant: only a change makes the worker scan.
VisitChanged(r) ==
  /\ At(Host, "loop") /\ ~stop
  /\ watch[r].on
  /\ Changed(r)
  /\ job' = [job EXCEPT ![Host] = Task("expire", r, watch[r].told)]
  /\ UNCHANGED <<tree, tracked, store, watch, stop, doubt, bounds>>

\* A workspace that changed, or is due, expires before it is scanned.
Visit(r) ==
  /\ At(Host, "loop") /\ ~stop
  /\ watch[r].on
  /\ Changed(r) \/ watch[r].due
  /\ job' = [job EXCEPT ![Host] = Task("expire", r, watch[r].told)]
  /\ UNCHANGED <<tree, tracked, store, watch, stop, doubt, bounds>>

\* A workspace that is still changing waits for a quiet moment.
Expired ==
  /\ At(Host, "expire")
  /\ PublishAggregate(Host)
  /\ LET r == job[Host].root
         waits == job[Host].version # watch[r].published /\ ~watch[r].quiet
     IN  /\ Goto(Host, IF waits THEN "loop" ELSE "scan")
         /\ doubt' = doubt \ {r}
  /\ UNCHANGED watch

\* What a scan sees is the workspace at some moment while it runs.
Scan(p) ==
  /\ At(p, "scan")
  /\ job' = [job EXCEPT ![p].sees = tree[job[p].root],
                        ![p].pc = IF p = Host THEN "check" ELSE "publish"]
  /\ UNCHANGED <<tree, tracked, store, watch, stop, doubt, bounds>>

\* The visit of a workspace ends; v is its new PublishedVersion.
EndVisit(v) ==
  /\ watch' = [watch EXCEPT ![job[Host].root].published = v, ![job[Host].root].due = FALSE]
  /\ job' = [job EXCEPT ![Host] = Task("loop", None, 0)]

\* A workspace that changed while it was scanned is not published.
Check ==
  /\ At(Host, "check")
  /\ LET r == job[Host].root
     IN  IF ~stop /\ watch[r].told = job[Host].version
         THEN Goto(Host, "publish") /\ UNCHANGED watch
         ELSE EndVisit(watch[r].published)
  /\ UNCHANGED <<tree, tracked, store, stop, doubt, bounds>>

\* Variant: the version is read again when the scan is published.
PublishedNow ==
  /\ At(Host, "publish")
  /\ PublishAggregate(Host)
  /\ EndVisit(watch[job[Host].root].told)
  /\ UNCHANGED doubt

Published ==
  /\ At(Host, "publish")
  /\ PublishAggregate(Host)
  /\ EndVisit(job[Host].version)
  /\ UNCHANGED doubt

\* An exception ends the visit as if it had published.
VisitFails ==
  \/ /\ job[Host].pc \in {"expire", "publish"}
     /\ StoreFails(Host)
     /\ EndVisit(job[Host].version)
     /\ doubt' = doubt \cup {job[Host].root}
  \/ /\ At(Host, "scan")
     /\ IF stop THEN UNCHANGED faults ELSE Fault      \* cancelled, or failed
     /\ EndVisit(job[Host].version)
     /\ UNCHANGED <<tree, tracked, store, stop, doubt, refreshes>>

\* --cache-stop.
RequestStop ==
  /\ ~At(Host, "off") /\ ~stop
  /\ Fault
  /\ stop' = TRUE
  /\ UNCHANGED <<tree, tracked, store, watch, job, doubt, refreshes>>

\* Variant: the watches are left to the end of the process.
CloseAtOnce ==
  /\ At(Host, "loop") /\ stop
  /\ job' = [job EXCEPT ![Host] = Off]
  /\ UNCHANGED <<tree, tracked, store, watch, stop, doubt, bounds>>

\* On the way out every watch is disposed of and its workspace expires.
Close ==
  /\ \/ At(Host, "loop") /\ stop
     \/ At(Host, "closing")
  /\ \/ \E r \in Roots :
          /\ watch[r].on
          /\ watch' = [watch EXCEPT ![r] = NoWatch]
          /\ job' = [job EXCEPT ![Host] = Task("close", r, 0)]
     \/ /\ \A r \in Roots : ~watch[r].on
        /\ job' = [job EXCEPT ![Host] = Off]
        /\ UNCHANGED watch
  /\ UNCHANGED <<tree, tracked, store, stop, doubt, bounds>>

ClosedOne ==
  /\ At(Host, "close")
  /\ PublishAggregate(Host) \/ StoreFails(Host)
  /\ Goto(Host, "closing")
  /\ UNCHANGED <<watch, doubt>>

-----------------------------------------------------------------------------
(* The command.                                                            *)

Refresh(c, r) ==
  /\ At(c, "off")
  /\ refreshes < MaxRefreshes
  /\ refreshes' = refreshes + 1
  /\ tracked' = tracked \cup {r}
  /\ job' = [job EXCEPT ![c] = Task("expire", r, 0)]
  /\ UNCHANGED <<tree, store, watch, stop, doubt, faults>>

\* The first call is outside the try block; after that a failure expires the
\* workspace again.
RefreshStored(c) ==
  /\ PublishAggregate(c)
  /\ IF At(c, "expire") THEN Goto(c, "scan") ELSE job' = [job EXCEPT ![c] = Off]
  /\ UNCHANGED <<watch, doubt>>

RefreshFails(c) ==
  /\ \/ StoreFails(c)
     \/ At(c, "scan") /\ Fault /\ UNCHANGED <<tree, tracked, store, stop, refreshes>>
  /\ IF job[c].pc \in {"scan", "publish"} THEN Goto(c, "cleanup")
                                         ELSE job' = [job EXCEPT ![c] = Off]
  /\ UNCHANGED <<watch, doubt>>

-----------------------------------------------------------------------------
(* The world around.                                                       *)

\* A window that opens a workspace has it tracked.
Track(r) ==
  /\ r \notin tracked
  /\ tracked' = tracked \cup {r}
  /\ UNCHANGED <<tree, store, watch, stop, job, doubt, bounds>>

\* The program itself never untracks a workspace; somebody deletes its file.
Untrack(r) ==
  /\ r \in tracked
  /\ Fault
  /\ tracked' = tracked \ {r}
  /\ UNCHANGED <<tree, store, watch, stop, job, doubt, refreshes>>

Crash(p) ==
  /\ ~At(p, "off")
  /\ Fault
  /\ job' = [job EXCEPT ![p] = Off]
  /\ gate' = IF gate = p THEN None ELSE gate
  /\ watch' = IF p = Host THEN [r \in Roots |-> NoWatch] ELSE watch
  /\ UNCHANGED <<tree, tracked, fragment, aggregate, stop, doubt, refreshes>>

Older(f) == IF f = None THEN None
            ELSE [f EXCEPT !.age = IF @ > ReaderLife THEN @ ELSE @ + 1]

\* A store call is short against a tick.
Tick ==
  /\ gate = None
  /\ fragment' = [r \in Roots |-> Older(fragment[r])]
  /\ aggregate' = [entries |-> [r \in Roots |-> Older(aggregate.entries[r])],
                   age |-> IF aggregate.age > ReaderLife THEN aggregate.age
                                                         ELSE aggregate.age + 1]
  /\ watch' = [r \in Roots |-> [watch[r] EXCEPT !.due = TRUE]]
  /\ UNCHANGED <<tree, tracked, gate, stop, job, doubt, bounds>>

HostStep ==
  \/ StoreFragment(Host) \/ Scan(Host) \/ Check \/ Dropped \/ Expired \/ Published
  \/ Close \/ ClosedOne

Next ==
  \/ HostStart \/ HostStep \/ DropFails \/ VisitFails \/ RequestStop \/ Tick
  \/ \E r \in Roots : Change(r) \/ Mark(r) \/ Settle(r) \/ Discover(r) \/ Drop(r) \/ Visit(r)
                        \/ Track(r) \/ Untrack(r)
  \/ \E c \in Clis : StoreFragment(c) \/ Scan(c) \/ RefreshStored(c) \/ RefreshFails(c)
                        \/ \E r \in Roots : Refresh(c, r)
  \/ \E p \in Processes : Crash(p)

Spec == Init /\ [][Next]_vars

\* A worker that runs goes on, and its loop reaches every watch, since it goes
\* through all of them in order; nothing makes somebody start it.  Events are
\* delivered, time passes, and a command that runs goes on.
Fairness ==
  /\ WF_vars(HostStep)
  /\ WF_vars(Tick)
  /\ \A r \in Watchable : /\ SF_vars(Visit(r)) /\ SF_vars(Discover(r)) /\ SF_vars(Drop(r))
                           /\ WF_vars(Mark(r)) /\ WF_vars(Settle(r))
  /\ \A c \in Clis : WF_vars(StoreFragment(c) \/ Scan(c) \/ RefreshStored(c))

FairSpec == Spec /\ Fairness

-----------------------------------------------------------------------------
(* Properties.                                                             *)

\* What Explorer shows for a workspace.
Shown(r) == IF aggregate.age <= ReaderLife THEN aggregate.entries[r] ELSE None

\* Types of the variables; without a worker nothing is watched.
TypeOK ==
  /\ tree \in [Roots -> Versions]
  /\ tracked \subseteq Roots
  /\ fragment \in [Roots -> Fragments \cup {None}]
  /\ aggregate \in [entries : [Roots -> Fragments \cup {None}], age : Ages]
  /\ gate \in Processes \cup {None}
  /\ watch \in [Roots -> Watches]
  /\ At(Host, "off") => \A r \in Roots : ~watch[r].on
  /\ stop \in BOOLEAN
  /\ job \in [Processes -> Jobs]
  /\ doubt \subseteq Roots
  /\ refreshes \in 0..MaxRefreshes /\ faults \in 0..MaxFaults

Visiting(r) == job[Host].root = r

\* Between visits, a workspace whose icons the worker published before a change
\* it was told of is one it will visit at once: no order of events, scans and
\* publications marks a change as published that the scan did not see, unless
\* its last store call failed (OverlayCacheHost.cs:88-111).
StaleIsNoticed ==
  \A r \in Roots : watch[r].on /\ ~Visiting(r) /\ r \notin doubt =>
    LET e == aggregate.entries[r]
    IN  (e # None /\ e.by = "worker" /\ e.sees < watch[r].told) => Changed(r)

\* Explorer never shows what was published longer ago than ReaderLife, however
\* often the combined file is written again for other workspaces
\* (OverlayCacheStore.cs:74 and 129-148).
AgeIsNotRenewed ==
  \A r \in Roots : Shown(r) # None => Shown(r).age <= ReaderLife

\* An old fragment of one workspace does not hide the fresh one of another: the
\* combined file outlives every combination by ReaderLife - FragmentLife
\* (OverlayCacheStore.cs:141-142).
OldNeighbourHidesNothing ==
  \A r \in Roots :
    LET e == aggregate.entries[r]
    IN  (e # None /\ e.age <= ReaderLife - FragmentLife) => Shown(r) # None

\* The two halves of the age rule.
AgesAreKept == AgeIsNotRenewed /\ OldNeighbourHidesNothing

\* Once nothing changes and nothing fails any more, Explorer ends up showing
\* nothing that is out of date, also when a command published what it had seen
\* before a change and after the worker's scan of it; and as long as a workspace
\* is watched its icons keep coming back (NextRefresh, OverlayCacheHost.cs:90
\* and 108).
EndsUpCurrent ==
  \A r \in Roots :
    /\ <>[](Shown(r) # None => Shown(r).sees = tree[r])
    /\ <>[]watch[r].on => []<>(Shown(r) # None)
=============================================================================
