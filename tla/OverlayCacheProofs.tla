-------------------------- MODULE OverlayCacheProofs --------------------------
(***************************************************************************)
(* Proofs about OverlayCache, for every set of workspaces and commands and *)
(* every two lifetimes.  The invariant follows one workspace through its   *)
(* visit: while the worker rescans it, nothing the worker published for it *)
(* before is combined, so that afterwards whatever is combined was scanned *)
(* at the version the watch calls published, or later.                     *)
(***************************************************************************)
EXTENDS OverlayCache, FiniteSetTheorems, WellFoundedInduction, TLAPS

Entries == Fragments \cup {None}

ByWorker(e) == e # None /\ e.by = "worker"

\* The worker has the workspace expired and has not ended its visit.
Rescanning(r) == Visiting(r) /\ job[Host].pc \in {"loop", "scan", "check", "publish"}

\* Who is inside a call of the store, or scans, knows for which workspace.
JobOK(p) ==
  /\ At(p, "off") => job[p].root = None
  /\ job[p].pc \notin {"off", "loop", "closing"} => job[p].root \in Roots
  /\ p \in Clis => job[p].pc \in {"off", "expire", "scan", "publish", "cleanup"}

GateOK == gate = Host => InStore(Host)

\* A watch is told of no change that was not made.
ToldOK(r) == watch[r].told <= tree[r]

\* A scan sees at least the version its visit began with.
VisitOK(r) ==
  Visiting(r) =>
    /\ job[Host].pc \in {"expire", "scan", "check", "publish"} => job[Host].version <= tree[r]
    /\ job[Host].pc \in {"check", "publish"} => job[Host].version <= job[Host].sees

\* The combined file is as old as its oldest entry, which was not older than
\* FragmentLife when it was combined.
AgesOK(r) ==
  LET e == aggregate.entries[r]
  IN  e # None => e.age <= aggregate.age /\ aggregate.age <= e.age + FragmentLife

\* Between the two halves of an expiry the fragment stays away.
ExpiryOK(r) ==
  job[Host].pc \in {"expire", "drop"} /\ gate = Host /\ Visiting(r) => fragment[r] = None

\* During a rescan, nothing the worker has published before is left, and what it
\* publishes at the end is what this scan saw.
RescanOK(r) ==
  Rescanning(r) =>
    /\ ~ByWorker(aggregate.entries[r])
    /\ ByWorker(fragment[r]) =>
         At(Host, "publish") /\ gate = Host /\ fragment[r].sees = job[Host].sees

\* Everything the worker has published and not expired was scanned at the
\* version the watch calls published, or later.
PublishedOK(r) ==
  r \notin doubt /\ watch[r].published # None /\ ~Rescanning(r) =>
    \A e \in {fragment[r], aggregate.entries[r]} : ByWorker(e) => watch[r].published <= e.sees

IInv ==
  /\ TypeOK
  /\ \A p \in Processes : JobOK(p)
  /\ GateOK
  /\ \A r \in Roots : /\ ToldOK(r) /\ VisitOK(r) /\ AgesOK(r)
                       /\ ExpiryOK(r) /\ RescanOK(r) /\ PublishedOK(r)
-----------------------------------------------------------------------------
(* Operators of the store *)

LeastIn(x, T) == \A y \in T : y \subseteq x => y = x

\* A nonempty set of subsets of a finite set has a minimal member.
LEMMA Minimal ==
  ASSUME NEW S, NEW T, IsFiniteSet(S), T \subseteq SUBSET S, T # {}
  PROVE  \E x \in T : LeastIn(x, T)
<1>1. IsWellFoundedOn(StrictSubsetOrdering(S), SUBSET S)
  BY FS_StrictSubsetOrderingWellFounded, FS_FiniteSubsetsOfFinite, Zenon
<1>2. PICK x \in T : \A y \in T : <<y, x>> \notin StrictSubsetOrdering(S)
  BY <1>1, WFMin
<1>. QED BY <1>2, Zenon DEF StrictSubsetOrdering, LeastIn

\* A nonempty finite set of numbers has a greatest member: the one with the
\* fewest above it has none.
LEMMA Greatest ==
  ASSUME NEW S, IsFiniteSet(S), S \subseteq Nat, S # {}
  PROVE  \E a \in S : \A b \in S : b <= a
<1>1. PICK T : T = {{b \in S : a < b} : a \in S}
  OBVIOUS
<1>2. T \subseteq SUBSET S /\ T # {}
  BY <1>1
<1>3. PICK x \in T : LeastIn(x, T)
  BY <1>2, Minimal
<1>4. PICK a \in S : x = {b \in S : a < b}
  BY <1>1, Zenon
<1>5. ASSUME NEW c \in S, a < c PROVE FALSE
  <2>1. PICK y \in T : y = {b \in S : c < b}
    BY <1>1, Zenon
  <2>2. c \in x /\ c \notin y
    BY <1>4, <1>5, <2>1
  <2>3. \A b \in S : c < b => a < b
    BY <1>5
  <2>4. y \subseteq x
    BY <1>4, <2>1, <2>3, Zenon
  <2>. QED BY <2>2, <2>4, <1>3, Zenon DEF LeastIn
<1>. QED BY <1>5

\* Oldest is the greatest of the ages, when there is one.
LEMMA OldestIsGreatest ==
  ASSUME NEW n \in Nat, NEW S, S \subseteq 0..n, S # {}
  PROVE  Oldest(S) \in S /\ \A a \in S : a <= Oldest(S)
<1>1. S \in SUBSET Nat /\ \A a \in S : a <= n
  OBVIOUS
<1>2. IsFiniteSet(S)
  BY <1>1, FS_BoundedSetOfNaturals
<1>. QED BY <1>1, <1>2, Greatest DEF Oldest

\* What is combined for a workspace is its fragment or nothing, and the dates
\* are right.
LEMMA CombinedIs ==
  ASSUME OverlayAssumption, fragment \in [Roots -> Entries]
  PROVE  /\ Combined.entries \in [Roots -> Entries]
         /\ Combined.age \in Ages
         /\ \A r \in Roots : LET e == Combined.entries[r]
                             IN  /\ e \in {fragment[r], None}
                                 /\ e # None => /\ e.age <= Combined.age
                                                /\ Combined.age <= e.age + FragmentLife
<1> DEFINE S == {fragment[r].age : r \in {q \in Roots : Live(q)}}
<1>1. \A r \in Roots : Live(r) => fragment[r] \in Fragments /\ fragment[r].age \in 0..FragmentLife
  BY DEF Live, Entries, Fragments, Ages, OverlayAssumption
<1>2. S \subseteq 0..FragmentLife
  BY <1>1
<1>3. S # {} => Oldest(S) \in S /\ \A a \in S : a <= Oldest(S)
  BY <1>2, OldestIsGreatest DEF OverlayAssumption
<1>4. Oldest(S) \in 0..FragmentLife
  <2>1. CASE S = {}
    BY <2>1 DEF Oldest, OverlayAssumption
  <2>2. CASE S # {}
    BY <2>2, <1>3, <1>2
  <2>. QED BY <2>1, <2>2
<1>5. Combined.age = Oldest(S)
  BY DEF Combined
<1>6. Combined.entries = [r \in Roots |-> IF Live(r) THEN fragment[r] ELSE None]
  BY DEF Combined
<1>7. ASSUME NEW r \in Roots, Live(r)
      PROVE  /\ fragment[r].age <= Oldest(S)
             /\ Oldest(S) <= fragment[r].age + FragmentLife
  <2>1. fragment[r].age \in S
    BY <1>7
  <2> HIDE DEF S
  <2>. QED BY <2>1, <1>1, <1>3, <1>4, <1>7 DEF OverlayAssumption
<1>8. Oldest(S) \in Ages
  BY <1>4 DEF Ages, OverlayAssumption
<1> HIDE DEF S
<1>. QED BY <1>5, <1>6, <1>7, <1>8 DEF Entries

\* A tick makes an entry older and changes nothing else about it.
LEMMA OlderIs ==
  ASSUME OverlayAssumption, NEW e \in Entries
  PROVE  /\ Older(e) \in Entries
         /\ Older(None) = None
         /\ Older(e) # None =>
              /\ e # None
              /\ Older(e).age = IF e.age > ReaderLife THEN e.age ELSE e.age + 1
         /\ ByWorker(Older(e)) => ByWorker(e) /\ Older(e).sees = e.sees
<1>1. CASE e = None
  BY <1>1 DEF Older, ByWorker
<1>2. CASE e # None
  BY <1>2 DEF Older, ByWorker, Entries, Fragments, Ages, OverlayAssumption
<1>. QED BY <1>1, <1>2
-----------------------------------------------------------------------------
(* Types *)

WorldTypeOK ==
  /\ tree \in [Roots -> Versions]
  /\ tracked \subseteq Roots
  /\ stop \in BOOLEAN
  /\ doubt \subseteq Roots
  /\ refreshes \in 0..MaxRefreshes /\ faults \in 0..MaxFaults

StoreTypeOK ==
  /\ fragment \in [Roots -> Entries]
  /\ aggregate \in [entries : [Roots -> Entries], age : Ages]
  /\ gate \in Processes \cup {None}

WatchTypeOK == watch \in [Roots -> Watches]

JobTypeOK == job \in [Processes -> Jobs] /\ \A p \in Processes : JobOK(p)

IdleUnwatched == At(Host, "off") => \A r \in Roots : ~watch[r].on

\* The parts are the type invariant and the part of the invariant about jobs.
LEMMA Typed ==
  /\ TypeOK /\ (\A p \in Processes : JobOK(p))
       => WorldTypeOK /\ StoreTypeOK /\ WatchTypeOK /\ JobTypeOK /\ IdleUnwatched
  /\ WorldTypeOK' /\ StoreTypeOK' /\ WatchTypeOK' /\ JobTypeOK' /\ IdleUnwatched'
       => TypeOK' /\ (\A p \in Processes : JobOK(p))'
BY DEF TypeOK, WorldTypeOK, StoreTypeOK, WatchTypeOK, JobTypeOK, IdleUnwatched, Entries

\* What a step does to the store.
LEMMA StoreMoves ==
  ASSUME [Next]_vars
  PROVE  \/ UNCHANGED store
         \/ Tick
         \/ \E p \in Processes :
              StoreFragment(p) \/ PublishAggregate(p) \/ StoreFails(p) \/ Crash(p)
<1>1. Host \in Processes /\ Clis \subseteq Processes
  BY DEF Processes
<1>2. HostStart \/ Check \/ RequestStop \/ Close => UNCHANGED store
  BY DEF HostStart, Check, RequestStop, Close
<1>3. \A p : Scan(p) => UNCHANGED store
  BY DEF Scan
<1>4. \A r : Change(r) \/ Mark(r) \/ Settle(r) \/ Discover(r) \/ Drop(r) \/ Visit(r)
               \/ Track(r) \/ Untrack(r) => UNCHANGED store
  BY DEF Change, Mark, Settle, Discover, Drop, Visit, Track, Untrack
<1>5. \A c, r : Refresh(c, r) => UNCHANGED store
  BY DEF Refresh
<1>6. Dropped \/ Expired \/ Published => PublishAggregate(Host)
  BY DEF Dropped, Expired, Published
<1>7. ClosedOne => PublishAggregate(Host) \/ StoreFails(Host)
  BY DEF ClosedOne
<1>8. DropFails \/ VisitFails => StoreFails(Host) \/ UNCHANGED store
  BY DEF DropFails, VisitFails
<1>9. \A c : RefreshStored(c) => PublishAggregate(c)
  BY DEF RefreshStored
<1>10. \A c : RefreshFails(c) => StoreFails(c) \/ UNCHANGED store
  BY DEF RefreshFails
<1>11. UNCHANGED vars => UNCHANGED store
  BY DEF vars
<1>. QED BY <1>1, <1>2, <1>3, <1>4, <1>5, <1>6, <1>7, <1>8, <1>9, <1>10, <1>11 DEF Next, HostStep

\* A call of the store that ends keeps the store typed, and so does a tick.
LEMMA StoreTyped ==
  ASSUME OverlayAssumption, StoreTypeOK, JobTypeOK, [Next]_vars
  PROVE  StoreTypeOK'
<1>1. ASSUME NEW p \in Processes, StoreFragment(p) PROVE StoreTypeOK'
  <2>1. job[p].sees \in Versions /\ job[p].root \in Roots
    BY <1>1 DEF JobTypeOK, JobOK, Jobs, At, StoreFragment, InStore, Expiring
  <2>2. [sees |-> job[p].sees, age |-> 0, by |-> IF p = Host THEN "worker" ELSE "command"]
          \in Fragments
    BY <2>1 DEF Fragments, Ages, OverlayAssumption
  <2>. QED BY <1>1, <2>2 DEF StoreTypeOK, StoreFragment, Entries
<1>2. ASSUME NEW p \in Processes, PublishAggregate(p) PROVE StoreTypeOK'
  <2>1. Combined \in [entries : [Roots -> Entries], age : Ages]
    <3>1. Combined = [entries |-> Combined.entries, age |-> Combined.age]
      BY DEF Combined
    <3>. QED BY <3>1, CombinedIs DEF StoreTypeOK
  <2>. QED BY <1>2, <2>1 DEF StoreTypeOK, PublishAggregate
<1>3. ASSUME NEW p \in Processes, StoreFails(p) \/ Crash(p) PROVE StoreTypeOK'
  BY <1>3 DEF StoreTypeOK, StoreFails, Crash
<1>4. ASSUME Tick PROVE StoreTypeOK'
  <2>1. \A r \in Roots : Older(fragment[r]) \in Entries /\ Older(aggregate.entries[r]) \in Entries
    BY OlderIs DEF StoreTypeOK
  <2>2. aggregate.age \in Ages
    BY DEF StoreTypeOK
  <2>3. (IF aggregate.age > ReaderLife THEN aggregate.age ELSE aggregate.age + 1) \in Ages
    BY <2>2 DEF Ages, OverlayAssumption
  <2>4. aggregate' \in [entries : [Roots -> Entries], age : Ages]
    BY <1>4, <2>1, <2>3 DEF Tick
  <2>. QED BY <1>4, <2>1, <2>4 DEF StoreTypeOK, Tick
<1>5. UNCHANGED store => StoreTypeOK'
  BY DEF StoreTypeOK, store
<1>. QED BY <1>1, <1>2, <1>3, <1>4, <1>5, StoreMoves

\* The dates of the combined file stay right: combining, and time.
LEMMA AgesStay ==
  ASSUME OverlayAssumption, StoreTypeOK, [Next]_vars, NEW r \in Roots, AgesOK(r)
  PROVE  AgesOK(r)'
<1>1. ASSUME Tick PROVE AgesOK(r)'
  <2> DEFINE e == aggregate.entries[r]
  <2>1. e \in Entries /\ aggregate.age \in Ages
    BY DEF StoreTypeOK
  <2>2. (aggregate.entries[r])' = Older(e)
    BY <1>1 DEF Tick
  <2>3. (aggregate.age)' = IF aggregate.age > ReaderLife THEN aggregate.age
                                                       ELSE aggregate.age + 1
    BY <1>1 DEF Tick
  <2>4. CASE Older(e) = None
    BY <2>2, <2>4 DEF AgesOK
  <2>5. CASE Older(e) # None
    <3>1. e # None /\ Older(e).age = IF e.age > ReaderLife THEN e.age ELSE e.age + 1
      BY <2>1, <2>5, OlderIs
    <3>2. e.age <= aggregate.age /\ aggregate.age <= e.age + FragmentLife
      BY <3>1 DEF AgesOK
    <3>3. e.age \in Ages
      BY <2>1, <3>1 DEF Entries, Fragments
    <3>4. /\ Older(e).age <= (aggregate.age)'
          /\ (aggregate.age)' <= Older(e).age + FragmentLife
      BY <2>1, <2>3, <3>1, <3>2, <3>3 DEF Ages, OverlayAssumption
    <3>. QED BY <2>2, <3>4 DEF AgesOK
  <2>. QED BY <2>4, <2>5
<1>2. ASSUME NEW p \in Processes, PublishAggregate(p) PROVE AgesOK(r)'
  BY <1>2, CombinedIs DEF PublishAggregate, AgesOK, StoreTypeOK
<1>3. ASSUME UNCHANGED aggregate PROVE AgesOK(r)'
  BY <1>3 DEF AgesOK
<1>4. ASSUME NEW p \in Processes, StoreFragment(p) \/ StoreFails(p) \/ Crash(p)
      PROVE  UNCHANGED aggregate
  BY <1>4 DEF StoreFragment, StoreFails, Crash
<1>5. UNCHANGED store => UNCHANGED aggregate
  BY DEF store
<1>. QED BY <1>1, <1>2, <1>3, <1>4, <1>5, StoreMoves

\* The variables of the world keep their types.
LEMMA WorldTyped ==
  ASSUME OverlayAssumption, WorldTypeOK, StoreTypeOK, JobTypeOK, [Next]_vars
  PROVE  WorldTypeOK'
<1>0. JobTypeOK /\ Host \in Processes
  BY DEF Processes
<1>1. \A r \in Roots : Change(r) => WorldTypeOK'
  BY DEF WorldTypeOK, Change, bounds, Versions, OverlayAssumption
<1>2. \A r \in Roots : Track(r) \/ Untrack(r) => WorldTypeOK'
  BY DEF WorldTypeOK, Track, Untrack, bounds, Fault, OverlayAssumption
<1>3. \A c, r : r \in Roots /\ Refresh(c, r) => WorldTypeOK'
  BY DEF WorldTypeOK, Refresh, OverlayAssumption
<1>4. \A p : PublishAggregate(p) /\ doubt' \subseteq doubt => WorldTypeOK'
  BY DEF WorldTypeOK, PublishAggregate, bounds
<1>5. \A p : StoreFails(p) /\ doubt' \subseteq Roots => WorldTypeOK'
  BY DEF WorldTypeOK, StoreFails, Fault, OverlayAssumption
<1>6. Dropped \/ Expired \/ Published => WorldTypeOK'
  BY <1>4 DEF Dropped, Expired, Published
<1>7. ClosedOne \/ DropFails => WorldTypeOK'
  BY <1>4, <1>5 DEF ClosedOne, DropFails, WorldTypeOK
<1>8. VisitFails => WorldTypeOK'
  <2>1. job[Host].pc \in {"expire", "publish"} => job[Host].root \in Roots
    BY <1>0 DEF JobTypeOK, JobOK
  <2>. QED BY <2>1, <1>5 DEF VisitFails, WorldTypeOK, Fault, OverlayAssumption
<1>9. \A c : RefreshStored(c) => WorldTypeOK'
  BY <1>4 DEF RefreshStored
<1>10. \A c : RefreshFails(c) => WorldTypeOK'
  BY <1>5 DEF RefreshFails, WorldTypeOK, Fault, OverlayAssumption
<1>11. \A p : Crash(p) => WorldTypeOK'
  BY DEF Crash, WorldTypeOK, Fault, OverlayAssumption
<1>12. RequestStop => WorldTypeOK'
  BY DEF RequestStop, WorldTypeOK, Fault, OverlayAssumption
<1>13. HostStart \/ Check \/ Close \/ Tick \/ UNCHANGED vars => WorldTypeOK'
  BY DEF HostStart, Check, Close, Tick, vars, bounds, WorldTypeOK
<1>14. \A p : StoreFragment(p) \/ Scan(p) => WorldTypeOK'
  BY DEF StoreFragment, Scan, bounds, WorldTypeOK
<1>15. \A r : Mark(r) \/ Settle(r) \/ Discover(r) \/ Drop(r) \/ Visit(r) => WorldTypeOK'
  BY DEF Mark, Settle, Discover, Drop, Visit, bounds, WorldTypeOK
<1>. QED BY <1>1, <1>2, <1>3, <1>6, <1>7, <1>8, <1>9, <1>10, <1>11, <1>12, <1>13, <1>14, <1>15
         DEF Next, HostStep

\* A process that goes to another step of what it is doing stays typed.
LEMMA GotoTyped ==
  ASSUME OverlayAssumption, JobTypeOK, NEW p \in Processes, NEW to, Goto(p, to),
         \/ p = Host /\ to \in {"loop", "closing"}
         \/ to \in {"scan", "publish"} /\ job[p].root \in Roots
         \/ p # Host /\ to = "cleanup" /\ job[p].root \in Roots
  PROVE  JobTypeOK'
<1>1. to \in {"loop", "closing", "scan", "publish", "cleanup"} /\ p \in Processes
  OBVIOUS
<1>2. job' \in [Processes -> Jobs]
  BY <1>1 DEF JobTypeOK, Jobs, Goto, Expiring
<1>3. ASSUME NEW q \in Processes PROVE JobOK(q)'
  <2>1. CASE q = p
    BY <1>1, <2>1 DEF JobTypeOK, JobOK, Jobs, At, Goto, OverlayAssumption
  <2>2. CASE q # p
    BY <2>2 DEF JobTypeOK, JobOK, At, Goto
  <2>. QED BY <2>1, <2>2
<1>. QED BY <1>2, <1>3 DEF JobTypeOK

\* A process that takes up another job, or none, is typed.
LEMMA JobAssigned ==
  ASSUME OverlayAssumption, JobTypeOK, NEW p \in Processes,
         NEW to, NEW r, NEW v \in Versions,
         job' = [job EXCEPT ![p] = Task(to, r, v)],
         \/ to = "off" /\ r = None
         \/ p = Host /\ to = "loop" /\ r = None
         \/ to = "expire" /\ r \in Roots
         \/ p = Host /\ to \in {"drop", "close"} /\ r \in Roots
  PROVE  JobTypeOK'
<1>1. 0 \in Versions
  BY DEF Versions, OverlayAssumption
<1>2. to \in {"off", "loop", "expire", "drop", "close"} /\ r \in Roots \cup {None}
  OBVIOUS
<1>3. Task(to, r, v) \in Jobs
  BY <1>1, <1>2 DEF Task, Jobs, Expiring
<1>4. job' \in [Processes -> Jobs]
  BY <1>3 DEF JobTypeOK
<1>5. ASSUME NEW q \in Processes PROVE JobOK(q)'
  <2>1. CASE q = p
    BY <2>1 DEF JobTypeOK, JobOK, Task, At, OverlayAssumption
  <2>2. CASE q # p
    BY <2>2 DEF JobTypeOK, JobOK, At
  <2>. QED BY <2>1, <2>2
<1>. QED BY <1>4, <1>5 DEF JobTypeOK

\* The jobs keep their types.
LEMMA JobTyped ==
  ASSUME OverlayAssumption, WorldTypeOK, WatchTypeOK, JobTypeOK, [Next]_vars
  PROVE  JobTypeOK'
<1>0. 0 \in Versions
  BY DEF Versions, OverlayAssumption
<1>1. Host \in Processes /\ \A c \in Clis : c \in Processes /\ c # Host
  BY DEF Processes, OverlayAssumption
<1>2. \A p \in Processes : job[p].pc \notin {"off", "loop", "closing"} => job[p].root \in Roots
  BY DEF JobTypeOK, JobOK
<1>3. ASSUME UNCHANGED job PROVE JobTypeOK'
  BY <1>3 DEF JobTypeOK, JobOK, At
<1>4. ASSUME HostStart \/ Dropped \/ DropFails \/ ClosedOne PROVE JobTypeOK'
  BY <1>1, <1>4, GotoTyped DEF HostStart, Dropped, DropFails, ClosedOne
<1>5. ASSUME Expired PROVE JobTypeOK'
  BY <1>1, <1>2, <1>5, GotoTyped DEF Expired, At
<1>6. ASSUME NEW p \in Processes, Scan(p) PROVE JobTypeOK'
  <2>1. tree[job[p].root] \in Versions
    BY <1>2, <1>6 DEF Scan, At, WorldTypeOK
  <2>. QED BY <1>6, <2>1 DEF Scan, JobTypeOK, JobOK, Jobs, At, Processes, OverlayAssumption
<1>7. ASSUME NEW v, EndVisit(v) PROVE JobTypeOK'
  BY <1>0, <1>1, <1>7, JobAssigned DEF EndVisit, Off
<1>8. ASSUME Check PROVE JobTypeOK'
  BY <1>1, <1>2, <1>7, <1>8, GotoTyped DEF Check, At
<1>9. ASSUME Published \/ VisitFails PROVE JobTypeOK'
  BY <1>7, <1>9 DEF Published, VisitFails
<1>10. ASSUME NEW r \in Roots, Drop(r) \/ Visit(r) PROVE JobTypeOK'
  <2>1. watch[r].told \in Versions
    BY DEF WatchTypeOK, Watches
  <2>. QED BY <1>0, <1>1, <1>10, <2>1, JobAssigned DEF Drop, Visit
<1>11. ASSUME Close PROVE JobTypeOK'
  BY <1>0, <1>1, <1>11, JobAssigned DEF Close, Off
<1>12. ASSUME NEW c \in Clis, NEW r \in Roots, Refresh(c, r) PROVE JobTypeOK'
  BY <1>0, <1>1, <1>12, JobAssigned DEF Refresh
<1>13. ASSUME NEW c \in Clis, RefreshStored(c) PROVE JobTypeOK'
  BY <1>0, <1>1, <1>2, <1>13, GotoTyped, JobAssigned DEF RefreshStored, At, Off
<1>14. ASSUME NEW c \in Clis, RefreshFails(c) PROVE JobTypeOK'
  BY <1>0, <1>1, <1>2, <1>14, GotoTyped, JobAssigned DEF RefreshFails, At, Off
<1>15. ASSUME NEW p \in Processes, Crash(p) PROVE JobTypeOK'
  BY <1>0, <1>15, JobAssigned DEF Crash, Off
<1>16. RequestStop \/ Tick \/ UNCHANGED vars => UNCHANGED job
  BY DEF RequestStop, Tick, vars
<1>17. \A p : StoreFragment(p) => UNCHANGED job
  BY DEF StoreFragment
<1>18. \A r : Change(r) \/ Mark(r) \/ Settle(r) \/ Discover(r) \/ Track(r) \/ Untrack(r)
                => UNCHANGED job
  BY DEF Change, Mark, Settle, Discover, Track, Untrack
<1>. QED BY <1>1, <1>3, <1>4, <1>5, <1>6, <1>8, <1>9, <1>10, <1>11, <1>12, <1>13, <1>14, <1>15,
            <1>16, <1>17, <1>18 DEF Next, HostStep

\* The watches keep their types; a visit that ends records a version or what was there.
LEMMA WatchTyped ==
  ASSUME OverlayAssumption, WorldTypeOK, WatchTypeOK, JobTypeOK, [Next]_vars
  PROVE  WatchTypeOK'
<1>0. Host \in Processes /\ 0 \in Versions
  BY DEF Processes, Versions, OverlayAssumption
<1>1. \A r \in Roots : watch[r].published \in Versions \cup {None} /\ tree[r] \in Versions
  BY DEF WatchTypeOK, Watches, WorldTypeOK
<1>2. NoWatch \in Watches
  BY <1>0 DEF NoWatch, Watches
<1>3. ASSUME NEW r \in Roots, Mark(r) \/ Settle(r) PROVE WatchTypeOK'
  <2>1. CASE Mark(r)
    <3>1. watch[r].told \in Versions /\ watch[r].told < tree[r]
      BY <2>1 DEF Mark, WatchTypeOK, Watches
    <3>2. watch[r].told + 1 \in Versions
      BY <1>1, <3>1 DEF Versions, OverlayAssumption
    <3>3. [watch[r] EXCEPT !.told = @ + 1, !.quiet = FALSE] \in Watches
      BY <3>2 DEF WatchTypeOK, Watches
    <3>. QED BY <2>1, <3>3 DEF Mark, WatchTypeOK
  <2>2. CASE Settle(r)
    BY <2>2 DEF Settle, WatchTypeOK, Watches
  <2>. QED BY <1>3, <2>1, <2>2
<1>4. ASSUME NEW r \in Roots, Discover(r) PROVE WatchTypeOK'
  <2>1. [NoWatch EXCEPT !.on = TRUE, !.told = tree[r]] \in Watches
    BY <1>1 DEF NoWatch, Watches
  <2>. QED BY <1>4, <2>1 DEF Discover, WatchTypeOK
<1>5. ASSUME NEW v \in Versions \cup {None}, EndVisit(v) PROVE WatchTypeOK'
  BY <1>5 DEF EndVisit, WatchTypeOK, Watches
<1>6. job[Host].version \in Versions
  BY <1>0 DEF JobTypeOK, Jobs
<1>7. ASSUME Check PROVE WatchTypeOK'
  <2>1. job[Host].root \in Roots
    BY <1>0, <1>7 DEF Check, At, JobTypeOK, JobOK
  <2>. QED BY <1>1, <1>5, <1>7, <2>1 DEF Check, WatchTypeOK
<1>8. ASSUME Published \/ VisitFails PROVE WatchTypeOK'
  BY <1>5, <1>6, <1>8 DEF Published, VisitFails
<1>9. ASSUME Dropped \/ Close \/ Tick \/ \E p : Crash(p) PROVE WatchTypeOK'
  <2>1. Dropped \/ Close \/ (\E p : Crash(p)) => WatchTypeOK'
    BY <1>2 DEF Dropped, Close, Crash, WatchTypeOK
  <2>2. \A r \in Roots : [watch[r] EXCEPT !.due = TRUE] \in Watches
    BY DEF WatchTypeOK, Watches
  <2>3. Tick => WatchTypeOK'
    BY <2>2 DEF Tick, WatchTypeOK
  <2>. QED BY <1>9, <2>1, <2>3
<1>10. UNCHANGED watch => WatchTypeOK'
  BY DEF WatchTypeOK
<1>11. HostStart \/ Expired \/ ClosedOne \/ DropFails \/ RequestStop \/ UNCHANGED vars
         => UNCHANGED watch
  BY DEF HostStart, Expired, ClosedOne, DropFails, RequestStop, vars
<1>12. \A r : Change(r) \/ Drop(r) \/ Visit(r) \/ Track(r) \/ Untrack(r) => UNCHANGED watch
  BY DEF Change, Drop, Visit, Track, Untrack
<1>13. \A p : StoreFragment(p) \/ Scan(p) \/ RefreshStored(p) \/ RefreshFails(p)
                => UNCHANGED watch
  BY DEF StoreFragment, Scan, RefreshStored, RefreshFails
<1>14. \A p, r : Refresh(p, r) => UNCHANGED watch
  BY DEF Refresh
<1>. QED BY <1>3, <1>4, <1>7, <1>8, <1>9, <1>10, <1>11, <1>12, <1>13, <1>14 DEF Next, HostStep

-----------------------------------------------------------------------------
(* What one workspace can rely on *)

\* A step of a command leaves the worker alone.  It stores a fragment only while
\* the worker is outside the store, and no fragment of its is the worker's.
LEMMA CommandSteps ==
  ASSUME OverlayAssumption, StoreTypeOK, JobTypeOK, NEW c \in Clis,
         \/ StoreFragment(c) \/ Scan(c) \/ RefreshStored(c) \/ RefreshFails(c) \/ Crash(c)
         \/ \E q \in Roots : Refresh(c, q)
  PROVE  /\ job'[Host] = job[Host]
         /\ UNCHANGED <<tree, watch, doubt>>
         /\ gate' = Host <=> gate = Host
         /\ \A r \in Roots :
              /\ fragment'[r] # fragment[r] => gate # Host /\ ~ByWorker(fragment'[r])
              /\ aggregate'.entries[r] # aggregate.entries[r] =>
                   gate # Host /\ aggregate'.entries[r] \in {fragment[r], None}
<1>1. c # Host /\ Host # None
  BY DEF OverlayAssumption
<1>2. CASE StoreFragment(c)
  <2>1. fragment' = [fragment EXCEPT ![job[c].root] = fragment'[job[c].root]]
        /\ ~ByWorker(fragment'[job[c].root])
    BY <1>1, <1>2 DEF StoreFragment, InStore, Expiring, JobTypeOK, JobOK, Processes, StoreTypeOK, ByWorker
  <2>. QED BY <1>1, <1>2, <2>1 DEF StoreFragment, StoreTypeOK
<1>3. CASE RefreshStored(c)
  BY <1>1, <1>3, CombinedIs
     DEF RefreshStored, PublishAggregate, StoreTypeOK, Goto, JobTypeOK, Processes
<1>4. CASE RefreshFails(c)
  BY <1>1, <1>4 DEF RefreshFails, StoreFails, store, Goto, JobTypeOK, Processes
<1>5. CASE Scan(c) \/ Crash(c) \/ \E q \in Roots : Refresh(c, q)
  BY <1>1, <1>5 DEF Scan, Crash, Refresh, store, JobTypeOK, Processes
<1>. QED BY <1>2, <1>3, <1>4, <1>5

\* The parts of the invariant about one workspace, but for the dates.
WorkspaceOK(r) == ToldOK(r) /\ VisitOK(r) /\ ExpiryOK(r) /\ RescanOK(r) /\ PublishedOK(r)

\* Hence what a workspace relies on survives the steps of a command.
LEMMA WorkspaceAndCommands ==
  ASSUME OverlayAssumption, StoreTypeOK, JobTypeOK, NEW c \in Clis,
         \/ StoreFragment(c) \/ Scan(c) \/ RefreshStored(c) \/ RefreshFails(c) \/ Crash(c)
         \/ \E q \in Roots : Refresh(c, q),
         NEW r \in Roots, WorkspaceOK(r)
  PROVE  WorkspaceOK(r)'
<1>1. /\ job'[Host] = job[Host]
      /\ UNCHANGED <<tree, watch, doubt>>
      /\ gate' = Host <=> gate = Host
      /\ fragment'[r] # fragment[r] => gate # Host /\ ~ByWorker(fragment'[r])
      /\ aggregate'.entries[r] # aggregate.entries[r] =>
           gate # Host /\ aggregate'.entries[r] \in {fragment[r], None}
  BY CommandSteps
<1>2. ToldOK(r)' /\ VisitOK(r)' /\ (Rescanning(r)' <=> Rescanning(r))
  BY <1>1 DEF WorkspaceOK, ToldOK, VisitOK, Visiting, Rescanning
<1>3. ExpiryOK(r)'
  BY <1>1 DEF WorkspaceOK, ExpiryOK, Visiting
<1>4. RescanOK(r)'
  BY <1>1, <1>2 DEF WorkspaceOK, RescanOK, At, ByWorker
<1>5. PublishedOK(r)'
  BY <1>1, <1>2 DEF WorkspaceOK, PublishedOK, ByWorker
<1>. QED BY <1>2, <1>3, <1>4, <1>5 DEF WorkspaceOK

\* It survives the steps of the world: changes, events, quiet, tracking, time.
LEMMA WorkspaceAndWorld ==
  ASSUME OverlayAssumption, WorldTypeOK, StoreTypeOK, WatchTypeOK, JobTypeOK,
         \/ RequestStop \/ Tick \/ UNCHANGED vars
         \/ \E q \in Roots : Change(q) \/ Mark(q) \/ Settle(q) \/ Track(q) \/ Untrack(q),
         NEW r \in Roots, WorkspaceOK(r)
  PROVE  WorkspaceOK(r)'
<1> DEFINE Changes == \E q \in Roots : Change(q)
           Marks == \E q \in Roots : Mark(q)
           Settles == \E q \in Roots : Settle(q)
           Rest == RequestStop \/ UNCHANGED vars \/ \E q \in Roots : Track(q) \/ Untrack(q)
<1>0. /\ tree[r] \in Nat /\ watch[r].told \in Nat /\ job[Host].version \in Nat
      /\ fragment[r] \in Entries /\ aggregate.entries[r] \in Entries
  BY DEF WorldTypeOK, WatchTypeOK, Watches, StoreTypeOK, Versions, JobTypeOK, Jobs, Processes,
         OverlayAssumption
<1>1. UNCHANGED <<job, gate, doubt>>
  BY DEF RequestStop, Tick, Change, Mark, Settle, Track, Untrack, vars, store
<1>2. CASE Changes
  <2>1. tree'[r] \in {tree[r], tree[r] + 1} /\ UNCHANGED <<watch, fragment, aggregate>>
    BY <1>2 DEF Change, WorldTypeOK, store
  <2>. QED BY <1>0, <1>1, <2>1
           DEF WorkspaceOK, ToldOK, VisitOK, ExpiryOK, RescanOK, PublishedOK, Visiting, Rescanning, At
<1>3. CASE Marks
  <2>1. /\ watch'[r].told \in {watch[r].told, watch[r].told + 1} /\ watch'[r].told <= tree[r]
        /\ watch'[r].published = watch[r].published
        /\ UNCHANGED <<tree, fragment, aggregate>>
    BY <1>0, <1>3 DEF Mark, WatchTypeOK, Watches, WorkspaceOK, ToldOK, store
  <2>. QED BY <1>1, <2>1
           DEF WorkspaceOK, ToldOK, VisitOK, ExpiryOK, RescanOK, PublishedOK, Visiting, Rescanning, At
<1>4. CASE Settles \/ Rest
  <2>1. /\ watch'[r].told = watch[r].told /\ watch'[r].published = watch[r].published
        /\ UNCHANGED <<tree, fragment, aggregate>>
    BY <1>4 DEF Settle, RequestStop, Track, Untrack, vars, WatchTypeOK, Watches, store
  <2>. QED BY <1>1, <2>1
           DEF WorkspaceOK, ToldOK, VisitOK, ExpiryOK, RescanOK, PublishedOK, Visiting, Rescanning, At
<1>5. CASE Tick
  <2>1. /\ fragment'[r] = Older(fragment[r])
        /\ aggregate'.entries[r] = Older(aggregate.entries[r])
        /\ watch'[r].told = watch[r].told /\ watch'[r].published = watch[r].published
        /\ UNCHANGED tree
    BY <1>5 DEF Tick, WatchTypeOK, Watches
  <2>2. /\ ByWorker(fragment'[r]) => ByWorker(fragment[r]) /\ fragment'[r].sees = fragment[r].sees
        /\ ByWorker(aggregate'.entries[r]) =>
             /\ ByWorker(aggregate.entries[r])
             /\ aggregate'.entries[r].sees = aggregate.entries[r].sees
        /\ fragment[r] = None => fragment'[r] = None
    BY <1>0, <2>1, OlderIs
  <2>. QED BY <1>1, <2>1, <2>2
           DEF WorkspaceOK, ToldOK, VisitOK, ExpiryOK, RescanOK, PublishedOK, Visiting, Rescanning, At
<1>. QED BY <1>2, <1>3, <1>4, <1>5

\* It survives the steps of the worker: the last half of a call of the store shows
\* the fragment that the first half put there.
LEMMA WorkspaceAndWorker ==
  ASSUME OverlayAssumption, WorldTypeOK, StoreTypeOK, WatchTypeOK, JobTypeOK, GateOK,
         NEW r \in Roots, WorkspaceOK(r),
         \/ StoreFragment(Host) \/ Scan(Host) \/ Crash(Host)
         \/ HostStart \/ Check \/ Dropped \/ Expired \/ Published \/ Close \/ ClosedOne
         \/ DropFails \/ VisitFails
         \/ \E q \in Roots : Discover(q) \/ Drop(q) \/ Visit(q)
  PROVE  WorkspaceOK(r)'
<1>0. /\ Host \in Processes /\ Host # None /\ None \notin Roots
      /\ tree[r] \in Nat /\ watch[r].told \in Nat
      /\ job[Host].version \in Nat /\ job[Host].sees \in Nat
  BY DEF WorldTypeOK, WatchTypeOK, Watches, Versions, JobTypeOK, Jobs, Processes,
         OverlayAssumption
<1>1. /\ job[Host].pc = "off" => job[Host].root = None
      /\ job[Host].pc \notin {"off", "loop", "closing"} => job[Host].root \in Roots
  BY <1>0 DEF JobTypeOK, JobOK, At
<1>2. CASE StoreFragment(Host)
  <2>1. /\ UNCHANGED <<tree, aggregate, watch, job, doubt>> /\ gate = None /\ gate' = Host
        /\ ~Visiting(r) => fragment'[r] = fragment[r]
        /\ Visiting(r) /\ ~At(Host, "publish") => fragment'[r] = None
        /\ Visiting(r) /\ At(Host, "publish") => fragment'[r].sees = job[Host].sees
    BY <1>2 DEF StoreFragment, StoreTypeOK, Visiting
  <2>2. ToldOK(r)' /\ VisitOK(r)' /\ ExpiryOK(r)'
    BY <1>0, <2>1 DEF WorkspaceOK, ToldOK, VisitOK, ExpiryOK, Visiting, At
  <2>3. RescanOK(r)' /\ PublishedOK(r)'
    BY <1>0, <1>2, <2>1
       DEF WorkspaceOK, RescanOK, PublishedOK, Rescanning, Visiting, At, ByWorker,
           StoreFragment, InStore, Expiring
  <2>. QED BY <2>2, <2>3 DEF WorkspaceOK
<1>3. CASE Scan(Host)
  <2>1. /\ UNCHANGED <<tree, store, watch, doubt>> /\ At(Host, "scan")
        /\ job'[Host] = [job[Host] EXCEPT !.sees = tree[job[Host].root], !.pc = "check"]
    BY <1>0, <1>3 DEF Scan, JobTypeOK
  <2>2. /\ job'[Host].pc = "check" /\ job'[Host].root = job[Host].root
        /\ job'[Host].version = job[Host].version /\ job'[Host].sees = tree[job[Host].root]
    BY <1>0, <2>1 DEF JobTypeOK, Jobs
  <2>. QED BY <1>0, <2>1, <2>2
           DEF WorkspaceOK, ToldOK, VisitOK, ExpiryOK, RescanOK, PublishedOK, Visiting, Rescanning,
               At, store
<1>4. ASSUME NEW to, Goto(Host, to) PROVE job'[Host].pc = to /\ job'[Host].root = job[Host].root
                                           /\ job'[Host].version = job[Host].version
                                           /\ job'[Host].sees = job[Host].sees
  BY <1>0, <1>4 DEF Goto, JobTypeOK, Jobs
<1>5. ASSUME PublishAggregate(Host)
      PROVE  /\ gate = Host /\ gate' = None /\ UNCHANGED <<tree, fragment>>
             /\ aggregate'.entries[r] \in {fragment[r], None}
  BY <1>5, CombinedIs DEF PublishAggregate, StoreTypeOK
<1>6. ASSUME NEW v, EndVisit(v)
      PROVE  /\ job'[Host].pc = "loop" /\ job'[Host].root = None
             /\ watch'[r].told = watch[r].told
             /\ watch'[r].published = IF Visiting(r) THEN v ELSE watch[r].published
  BY <1>0, <1>6 DEF EndVisit, Task, JobTypeOK, WatchTypeOK, Watches, Visiting
<1>7. CASE Check
  <2>1. UNCHANGED <<tree, fragment, aggregate, gate, doubt>> /\ At(Host, "check")
    BY <1>7 DEF Check, store
  <2>2. CASE EndVisit(watch[job[Host].root].published)
    BY <1>0, <1>6, <2>1, <2>2
       DEF WorkspaceOK, ToldOK, VisitOK, ExpiryOK, RescanOK, PublishedOK, Visiting, Rescanning, At
  <2>3. CASE Goto(Host, "publish") /\ UNCHANGED watch
    BY <1>4, <2>1, <2>3
       DEF WorkspaceOK, ToldOK, VisitOK, ExpiryOK, RescanOK, PublishedOK, Visiting, Rescanning, At
  <2>. QED BY <1>7, <2>2, <2>3 DEF Check
<1>8. CASE Expired
  <2>1. PICK to \in {"loop", "scan"} : Goto(Host, to)
    BY <1>8 DEF Expired
  <2>2. At(Host, "expire") /\ PublishAggregate(Host) /\ UNCHANGED watch
        /\ doubt' = doubt \ {job[Host].root}
    BY <1>8 DEF Expired
  <2>. QED BY <1>0, <1>1, <1>4, <1>5, <2>1, <2>2
           DEF WorkspaceOK, ToldOK, VisitOK, ExpiryOK, RescanOK, PublishedOK, Visiting, Rescanning,
               At, ByWorker
<1>9. CASE Published
  <2>1. At(Host, "publish") /\ PublishAggregate(Host) /\ EndVisit(job[Host].version)
        /\ UNCHANGED doubt
    BY <1>9 DEF Published
  <2>. QED BY <1>0, <1>5, <1>6, <2>1
           DEF WorkspaceOK, ToldOK, VisitOK, ExpiryOK, RescanOK, PublishedOK, Visiting, Rescanning,
               At, ByWorker
<1>10. ASSUME NEW q \in Roots, watch' = [watch EXCEPT ![q] = NoWatch]
       PROVE  /\ q # r => watch'[r] = watch[r]
              /\ q = r => watch'[r].told = 0 /\ watch'[r].published = None
  BY <1>10 DEF NoWatch, WatchTypeOK
<1>11. CASE Dropped
  <2>1. At(Host, "drop") /\ PublishAggregate(Host) /\ Goto(Host, "loop")
        /\ watch' = [watch EXCEPT ![job[Host].root] = NoWatch] /\ job[Host].root \in Roots
        /\ doubt' = doubt \ {job[Host].root}
    BY <1>1, <1>11 DEF Dropped, At
  <2>2. /\ job'[Host].pc = "loop" /\ job'[Host].root = job[Host].root
        /\ UNCHANGED <<tree, fragment>> /\ gate = Host
        /\ aggregate'.entries[r] \in {fragment[r], None}
    BY <1>4, <1>5, <2>1
  <2>3. CASE Visiting(r)
    <3>1. watch'[r].told = 0 /\ watch'[r].published = None /\ fragment[r] = None
      BY <1>10, <2>1, <2>2, <2>3 DEF Visiting, WorkspaceOK, ExpiryOK, At
    <3>. QED BY <1>0, <2>2, <2>3, <3>1
             DEF WorkspaceOK, ToldOK, VisitOK, ExpiryOK, RescanOK, PublishedOK, Visiting, Rescanning,
                 At, ByWorker
  <2>4. CASE ~Visiting(r)
    <3>1. watch'[r] = watch[r] /\ (r \in doubt' <=> r \in doubt)
      BY <1>10, <2>1, <2>4 DEF Visiting
    <3>. QED BY <1>0, <2>2, <2>4, <3>1
             DEF WorkspaceOK, ToldOK, VisitOK, ExpiryOK, RescanOK, PublishedOK, Visiting, Rescanning,
                 At, ByWorker
  <2>. QED BY <2>3, <2>4
<1>12. CASE DropFails \/ ClosedOne
  <2>1. job[Host].pc \in {"drop", "close"} /\ Goto(Host, "closing") /\ UNCHANGED <<tree, watch, doubt>>
        /\ UNCHANGED fragment /\ aggregate'.entries[r] \in {aggregate.entries[r], fragment[r], None}
    BY <1>5, <1>12 DEF DropFails, ClosedOne, StoreFails, At
  <2>. QED BY <1>4, <2>1
           DEF WorkspaceOK, ToldOK, VisitOK, ExpiryOK, RescanOK, PublishedOK, Visiting, Rescanning,
               At, ByWorker
<1>13. CASE VisitFails
  <2>1. /\ job[Host].pc \in {"expire", "scan", "publish"} /\ EndVisit(job[Host].version)
        /\ UNCHANGED <<tree, fragment, aggregate>> /\ doubt \subseteq doubt'
        /\ job[Host].pc # "scan" => job[Host].root \in doubt'
    BY <1>13 DEF VisitFails, StoreFails, At, store
  <2>. QED BY <1>0, <1>6, <2>1
           DEF WorkspaceOK, ToldOK, VisitOK, ExpiryOK, RescanOK, PublishedOK, Visiting, Rescanning, At
<1>14. CASE HostStart
  <2>1. At(Host, "off") /\ Goto(Host, "loop") /\ UNCHANGED <<tree, fragment, aggregate, gate, watch, doubt>>
    BY <1>14 DEF HostStart, store
  <2>. QED BY <1>0, <1>1, <1>4, <2>1
           DEF WorkspaceOK, ToldOK, VisitOK, ExpiryOK, RescanOK, PublishedOK, Visiting, Rescanning, At
<1>15. CASE Close
  <2>1. UNCHANGED <<tree, fragment, aggregate, gate, doubt>> /\ job[Host].pc \in {"loop", "closing"}
    BY <1>15 DEF Close, At, store
  <2>2. job'[Host].pc \in {"off", "close"}
    BY <1>0, <1>15 DEF Close, Task, Off, JobTypeOK
  <2>3. watch'[r] = watch[r] \/ (watch'[r].told = 0 /\ watch'[r].published = None)
    BY <1>10, <1>15 DEF Close
  <2>. QED BY <1>0, <2>1, <2>2, <2>3
           DEF WorkspaceOK, ToldOK, VisitOK, ExpiryOK, RescanOK, PublishedOK, Visiting, Rescanning, At
<1>16. CASE Crash(Host)
  <2>1. UNCHANGED <<tree, fragment, aggregate, doubt>> /\ job'[Host].pc = "off" /\ job'[Host].root = None
        /\ watch'[r].told = 0 /\ watch'[r].published = None
    BY <1>0, <1>16 DEF Crash, Off, Task, NoWatch, JobTypeOK
  <2>. QED BY <1>0, <2>1
           DEF WorkspaceOK, ToldOK, VisitOK, ExpiryOK, RescanOK, PublishedOK, Visiting, Rescanning, At
<1>17. ASSUME NEW q \in Roots, Discover(q) PROVE WorkspaceOK(r)'
  <2>1. UNCHANGED <<tree, fragment, aggregate, gate, job, doubt>>
    BY <1>17 DEF Discover, store
  <2>2. watch'[r] = watch[r] \/ (watch'[r].told = tree[r] /\ watch'[r].published = None)
    BY <1>17 DEF Discover, NoWatch, WatchTypeOK
  <2>. QED BY <1>0, <2>1, <2>2
           DEF WorkspaceOK, ToldOK, VisitOK, ExpiryOK, RescanOK, PublishedOK, Visiting, Rescanning, At
<1>18. ASSUME NEW q \in Roots, Drop(q) \/ Visit(q) PROVE WorkspaceOK(r)'
  <2>1. UNCHANGED <<tree, fragment, aggregate, gate, watch, doubt>> /\ At(Host, "loop")
    BY <1>18 DEF Drop, Visit, store
  <2>2. job'[Host].root = q /\ \/ job'[Host].pc = "drop"
                               \/ job'[Host].pc = "expire" /\ job'[Host].version = watch[q].told
    BY <1>0, <1>18 DEF Drop, Visit, Task, JobTypeOK
  <2>3. gate # Host
    BY <2>1 DEF GateOK, InStore, Expiring, At
  <2>. QED BY <1>0, <2>1, <2>2, <2>3
           DEF WorkspaceOK, ToldOK, VisitOK, ExpiryOK, RescanOK, PublishedOK, Visiting, Rescanning, At
<1>. QED BY <1>2, <1>3, <1>7, <1>8, <1>9, <1>11, <1>12, <1>13, <1>14, <1>15, <1>16, <1>17, <1>18

\* The worker holds the gate only inside a call of the store.
LEMMA GateStays ==
  ASSUME OverlayAssumption, StoreTypeOK, JobTypeOK, GateOK, [Next]_vars
  PROVE  GateOK'
<1>0. Host \in Processes /\ Host # None /\ \A c \in Clis : c # Host
  BY DEF Processes, OverlayAssumption
<1>1. ASSUME UNCHANGED <<gate, job>> PROVE GateOK'
  BY <1>1 DEF GateOK, InStore
<1>2. ASSUME gate' = None PROVE GateOK'
  BY <1>0, <1>2 DEF GateOK
<1>3. ASSUME UNCHANGED gate, ~InStore(Host) PROVE GateOK'
  BY <1>3 DEF GateOK
<1>4. ASSUME NEW c \in Clis,
             \/ StoreFragment(c) \/ Scan(c) \/ RefreshStored(c) \/ RefreshFails(c) \/ Crash(c)
             \/ \E q \in Roots : Refresh(c, q)
      PROVE  GateOK'
  BY <1>4, CommandSteps DEF GateOK, InStore
<1>5. StoreFragment(Host) => GateOK'
  BY DEF StoreFragment, GateOK, InStore
<1>6. Dropped \/ Expired \/ Published \/ ClosedOne \/ DropFails \/ VisitFails \/ Crash(Host) => GateOK'
  <2>1. PublishAggregate(Host) => gate' = None
    BY DEF PublishAggregate
  <2>2. StoreFails(Host) => gate' # Host
    BY <1>0 DEF StoreFails
  <2>3. At(Host, "scan") => ~InStore(Host)
    BY DEF At, InStore, Expiring
  <2>4. UNCHANGED store => UNCHANGED gate
    BY DEF store
  <2>. QED BY <1>0, <1>2, <1>3, <2>1, <2>2, <2>3, <2>4
           DEF Dropped, Expired, Published, ClosedOne, DropFails, VisitFails, Crash, GateOK
<1>7. HostStart \/ Scan(Host) \/ Check \/ Close => GateOK'
  BY <1>3 DEF HostStart, Scan, Check, Close, At, InStore, Expiring, store
<1>8. \A r : Drop(r) \/ Visit(r) => GateOK'
  BY <1>3 DEF Drop, Visit, At, InStore, Expiring, store
<1>9. RequestStop \/ Tick \/ UNCHANGED vars => GateOK'
  BY <1>1 DEF RequestStop, Tick, vars, store
<1>10. \A r : Change(r) \/ Mark(r) \/ Settle(r) \/ Discover(r) \/ Track(r) \/ Untrack(r) => GateOK'
  BY <1>1 DEF Change, Mark, Settle, Discover, Track, Untrack, store
<1>. QED BY <1>0, <1>4, <1>5, <1>6, <1>7, <1>8, <1>9, <1>10 DEF Next, HostStep, Processes

\* Without a worker nothing is watched.
LEMMA IdleStays ==
  ASSUME OverlayAssumption, StoreTypeOK, WatchTypeOK, JobTypeOK, IdleUnwatched, [Next]_vars
  PROVE  IdleUnwatched'
<1>0. Host \in Processes /\ \A c \in Clis : c # Host
  BY DEF Processes, OverlayAssumption
<1>1. ASSUME job'[Host].pc # "off" PROVE IdleUnwatched'
  BY <1>1 DEF IdleUnwatched, At
<1>2. ASSUME \A r \in Roots : ~watch'[r].on PROVE IdleUnwatched'
  BY <1>2 DEF IdleUnwatched
<1>3. ASSUME job'[Host] = job[Host], \A r \in Roots : watch'[r].on => watch[r].on
      PROVE  IdleUnwatched'
  BY <1>3 DEF IdleUnwatched, At
<1>4. ASSUME NEW c \in Clis,
             \/ StoreFragment(c) \/ Scan(c) \/ RefreshStored(c) \/ RefreshFails(c) \/ Crash(c)
             \/ \E q \in Roots : Refresh(c, q)
      PROVE  IdleUnwatched'
  BY <1>3, <1>4, CommandSteps
<1>5. \A to : Goto(Host, to) => job'[Host].pc = to
  BY <1>0 DEF Goto, JobTypeOK, Jobs
<1>6. \A v : EndVisit(v) => job'[Host].pc = "loop"
  BY <1>0 DEF EndVisit, Task, JobTypeOK
<1>7. HostStart \/ Check \/ Dropped \/ Expired \/ Published \/ ClosedOne \/ DropFails \/ VisitFails
        => job'[Host].pc # "off"
  BY <1>5, <1>6 DEF HostStart, Check, Dropped, Expired, Published, ClosedOne, DropFails, VisitFails
<1>8. Scan(Host) => job'[Host].pc # "off"
  BY <1>0 DEF Scan, JobTypeOK, Jobs
<1>9. Close => job'[Host].pc # "off" \/ \A r \in Roots : ~watch'[r].on
  BY <1>0 DEF Close, Task, JobTypeOK
<1>10. Crash(Host) => \A r \in Roots : ~watch'[r].on
  BY DEF Crash, NoWatch
<1>11. \A r \in Roots : Drop(r) \/ Visit(r) => job'[Host].pc # "off"
  BY <1>0 DEF Drop, Visit, Task, JobTypeOK
<1>12. \A r \in Roots : Discover(r) => job'[Host].pc # "off"
  BY DEF Discover, At
<1>13. RequestStop \/ Tick \/ StoreFragment(Host) \/ UNCHANGED vars => IdleUnwatched'
  BY <1>3 DEF RequestStop, Tick, StoreFragment, vars, WatchTypeOK, Watches
<1>14. \A r \in Roots : Change(r) \/ Mark(r) \/ Settle(r) \/ Track(r) \/ Untrack(r) => IdleUnwatched'
  BY <1>3 DEF Change, Mark, Settle, Track, Untrack, WatchTypeOK, Watches
<1>. QED BY <1>1, <1>2, <1>4, <1>7, <1>8, <1>9, <1>10, <1>11, <1>12, <1>13, <1>14
         DEF Next, HostStep, Processes
-----------------------------------------------------------------------------
(* The invariant *)

\* The invariant, workspace by workspace.
LEMMA Parts ==
  /\ IInv <=> /\ TypeOK /\ (\A p \in Processes : JobOK(p)) /\ GateOK
              /\ \A r \in Roots : WorkspaceOK(r) /\ AgesOK(r)
  /\ IInv' <=> /\ TypeOK' /\ (\A p \in Processes : JobOK(p))' /\ GateOK'
               /\ \A r \in Roots : WorkspaceOK(r)' /\ AgesOK(r)'
BY DEF IInv, WorkspaceOK

\* Nothing is published, and nobody is at work, at the start.
LEMMA Initially == Init => IInv
<1> SUFFICES ASSUME Init PROVE IInv
  OBVIOUS
<1>1. 0 \in Versions /\ 0 \in Ages /\ NoWatch \in Watches /\ Off \in Jobs
  BY OverlayAssumption DEF Versions, Ages, NoWatch, Watches, Off, Task, Jobs, OverlayAssumption
<1>2. TypeOK
  <2>1. WorldTypeOK
    <3>1. tree \in [Roots -> Versions] /\ tracked \subseteq Roots /\ doubt \subseteq Roots
      BY <1>1 DEF Init
    <3>2. MaxRefreshes \in Nat /\ MaxFaults \in Nat
      BY OverlayAssumption, Zenon DEF OverlayAssumption
    <3>3. refreshes = 0 /\ faults = 0 /\ stop \in BOOLEAN
      BY Zenon DEF Init
    <3>4. refreshes \in 0..MaxRefreshes /\ faults \in 0..MaxFaults
      BY <3>2, <3>3
    <3>. QED BY <3>1, <3>3, <3>4 DEF WorldTypeOK
  <2>2. WatchTypeOK /\ job \in [Processes -> Jobs]
    BY <1>1 DEF Init, WatchTypeOK
  <2>3. StoreTypeOK
    BY <1>1 DEF Init, StoreTypeOK, Entries
  <2>4. \A r \in Roots : ~watch[r].on
    BY DEF Init, NoWatch
  <2>. QED BY <2>1, <2>2, <2>3, <2>4 DEF TypeOK, WorldTypeOK, StoreTypeOK, WatchTypeOK, Entries
<1>3. Host \in Processes /\ \A p \in Processes : job[p].pc = "off" /\ job[p].root = None
  BY DEF Init, Off, Task, Processes
<1>4. \A p \in Processes : JobOK(p)
  BY <1>3 DEF JobOK, At
<1>5. GateOK
  BY OverlayAssumption DEF Init, GateOK, OverlayAssumption
<1>6. ASSUME NEW r \in Roots PROVE WorkspaceOK(r) /\ AgesOK(r)
  BY <1>3 DEF Init, WorkspaceOK, ToldOK, VisitOK, ExpiryOK, RescanOK, PublishedOK, AgesOK, Visiting,
              Rescanning, At, NoWatch, OverlayAssumption
<1>. QED BY <1>2, <1>4, <1>5, <1>6, Parts

\* Every step keeps the invariant.
LEMMA Inductive == IInv /\ [Next]_vars => IInv'
<1> SUFFICES ASSUME IInv, [Next]_vars PROVE IInv'
  OBVIOUS
<1>0. OverlayAssumption
  BY OverlayAssumption
<1>1. /\ WorldTypeOK /\ StoreTypeOK /\ WatchTypeOK /\ JobTypeOK /\ IdleUnwatched /\ GateOK
      /\ \A r \in Roots : WorkspaceOK(r) /\ AgesOK(r)
  BY Parts, Typed
<1>2. WorldTypeOK' /\ StoreTypeOK' /\ WatchTypeOK' /\ JobTypeOK' /\ IdleUnwatched'
  BY <1>0, <1>1, WorldTyped, StoreTyped, WatchTyped, JobTyped, IdleStays
<1>3. GateOK'
  BY <1>0, <1>1, GateStays
<1>4. ASSUME NEW r \in Roots PROVE AgesOK(r)'
  BY <1>0, <1>1, AgesStay
<1>5. ASSUME NEW r \in Roots PROVE WorkspaceOK(r)'
  <2>1. CASE \/ RequestStop \/ Tick \/ UNCHANGED vars
             \/ \E q \in Roots : Change(q) \/ Mark(q) \/ Settle(q) \/ Track(q) \/ Untrack(q)
    BY <1>0, <1>1, <2>1, WorkspaceAndWorld
  <2>2. CASE \/ StoreFragment(Host) \/ Scan(Host) \/ Crash(Host)
             \/ HostStart \/ Check \/ Dropped \/ Expired \/ Published \/ Close \/ ClosedOne
             \/ DropFails \/ VisitFails
             \/ \E q \in Roots : Discover(q) \/ Drop(q) \/ Visit(q)
    BY <1>0, <1>1, <2>2, WorkspaceAndWorker
  <2>3. ASSUME NEW c \in Clis,
               \/ StoreFragment(c) \/ Scan(c) \/ RefreshStored(c) \/ RefreshFails(c) \/ Crash(c)
               \/ \E q \in Roots : Refresh(c, q)
        PROVE  WorkspaceOK(r)'
    BY <1>0, <1>1, <2>3, WorkspaceAndCommands
  <2>. QED BY <2>1, <2>2, <2>3 DEF Next, HostStep, Processes
<1>. QED BY <1>2, <1>3, <1>4, <1>5, Parts, Typed

\* The invariant holds in every behaviour.
THEOREM Invariance == Spec => []IInv
BY Initially, Inductive, PTL DEF Spec

\* Types of the variables; without a worker nothing is watched.
THEOREM Typing == Spec => []TypeOK
<1>1. IInv => TypeOK
  BY DEF IInv
<1>. QED BY <1>1, Invariance, PTL

\* Whatever the order of changes, events, scans, commands and publications, no
\* change that the worker was told of is marked as published by a scan that did
\* not see it (OverlayCacheHost.cs:88-111).
THEOREM NothingStaleIsForgotten == Spec => []StaleIsNoticed
<1>1. ASSUME IInv PROVE StaleIsNoticed
  <2> SUFFICES ASSUME NEW r \in Roots, ~Visiting(r), r \notin doubt,
                      ByWorker(aggregate.entries[r]), aggregate.entries[r].sees < watch[r].told
               PROVE  Changed(r)
    BY DEF StaleIsNoticed, ByWorker
  <2>1. watch[r].told \in Nat /\ watch[r].published \in Nat \cup {None} /\ None \notin Versions
        /\ watch[r].told \in Versions
    BY <1>1, OverlayAssumption DEF IInv, TypeOK, Watches, Versions, OverlayAssumption
  <2>2. aggregate.entries[r] \in Fragments
    BY <1>1 DEF IInv, TypeOK, ByWorker
  <2>3. watch[r].published # None => watch[r].published <= aggregate.entries[r].sees
    BY <1>1 DEF IInv, PublishedOK, Rescanning
  <2>. QED BY <2>1, <2>2, <2>3 DEF Changed, Fragments, Versions
<1>. QED BY <1>1, Invariance, PTL

\* Explorer shows nothing that was published longer ago than ReaderLife, and no
\* fresh fragment disappears behind an old one (OverlayCacheStore.cs:74, 129-148).
THEOREM DatesAreKept == Spec => []AgesAreKept
<1>1. ASSUME IInv PROVE AgesAreKept
  <2>1. \A r \in Roots : aggregate.entries[r] # None => aggregate.entries[r].age \in Nat
    BY <1>1 DEF IInv, TypeOK, Fragments, Ages
  <2>2. aggregate.age \in Nat
    BY <1>1 DEF IInv, TypeOK, Ages
  <2>3. \A r \in Roots : AgesOK(r)
    BY <1>1 DEF IInv
  <2>4. AgeIsNotRenewed
    BY <2>1, <2>2, <2>3, OverlayAssumption DEF AgeIsNotRenewed, Shown, AgesOK, OverlayAssumption
  <2>5. OldNeighbourHidesNothing
    BY <2>1, <2>2, <2>3, OverlayAssumption
       DEF OldNeighbourHidesNothing, Shown, AgesOK, OverlayAssumption
  <2>. QED BY <2>4, <2>5 DEF AgesAreKept
<1>. QED BY <1>1, Invariance, PTL
=============================================================================
